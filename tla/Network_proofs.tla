--------------------------- MODULE Network_proofs ----------------------------
(* What TLAPS proves of the parts of the server that talk to others: the   *)
(* federation of trusted peers, the fetching of pages, the rate limit of a *)
(* key, the run of the server itself and the clients of the providers.     *)
EXTENDS Providers, Federation, PageFetch, RateLimit, ServerRun,
        FiniteSetTheorems, SequenceTheorems, TLAPS

-----------------------------------------------------------------------------
(* Federation.  A nonce is held for longer than any copy of its request    *)
(* can be accepted: with the clock of the askers as the measure, what the  *)
(* cache has forgotten is too old for every clock the listener may have.   *)

Requests == [sender : Ids \cup {"none"}, nonce : Nat,
             key : {Signers[a] : a \in Ids} \cup {"none"}, signedAt : Int]
HandlerRecord == [at : {"free", "verified", "searching"}, request : Requests,
                  now : Int, began : Int]
QuestionRecord == [at : {"idle", "waiting", "told"}, request : Requests,
                   asked : Nat, result : Requests]

(* No clock of the listener accepts r any more, or its nonce is held until *)
(* none does.                                                              *)
Remembered(r) ==
  \/ r.signedAt + SignedSkew + MaxStall + MaxDrift < wall
  \/ /\ ReplayKey(r) \in DOMAIN replay
     /\ replay[ReplayKey(r)] >= r.signedAt - SignedSkew + ReplayTTL

(* A request being handled was recent by the clock it was verified with,   *)
(* which was read not long ago.                                            *)
VerifiedLately(s) ==
  /\ Recent(s.request, s.now)
  /\ s.began <= wall /\ wall - s.began <= MaxStall
  /\ s.now <= s.began + MaxDrift /\ s.began <= s.now + MaxDrift

FederationInv ==
  /\ wall \in Int /\ theirs \in Int
  /\ theirs <= wall + MaxDrift /\ wall <= theirs + MaxDrift
  /\ posted \subseteq Requests
  /\ \A response \in answered : response.request \in Requests
  /\ \A k \in DOMAIN replay : replay[k] \in Int
  /\ handler \in [Handlers -> HandlerRecord]
  /\ \A h \in Handlers : handler[h].at = "verified" => VerifiedLately(handler[h])
  /\ question \in [Ids -> QuestionRecord]
  /\ \A r \in DOMAIN executed : r \in Requests /\ executed[r] = 1 /\ Remembered(r)
  /\ AnswersBound

LEMMA RecentWithin ==
  ASSUME NEW r, r.signedAt \in Int, NEW clock \in Int
  PROVE  Recent(r, clock) <=> /\ clock <= r.signedAt + SignedSkew
                              /\ r.signedAt <= clock + SignedSkew
BY FederationConstants DEF Recent, Distance

LEMMA FederationStarts == FederationInit => FederationInv
<1>. SUFFICES ASSUME FederationInit PROVE FederationInv
  OBVIOUS
<1>. USE FederationConstants DEF FederationInit
<1>1. NoRequest \in Requests
  BY DEF NoRequest, Requests
<1>2. FreeHandler \in HandlerRecord /\ FreeHandler.at = "free"
  BY <1>1 DEF FreeHandler, HandlerRecord
<1>3. NoQuestion \in QuestionRecord /\ NoQuestion.result = NoRequest
  BY <1>1 DEF NoQuestion, QuestionRecord
<1>4. handler \in [Handlers -> HandlerRecord] /\ \A h \in Handlers : handler[h].at = "free"
  BY <1>2
<1>5. question \in [Ids -> QuestionRecord]
  BY <1>3
<1>6. AnswersBound
  BY <1>3 DEF AnswersBound, Failed
<1>7. DOMAIN replay = {} /\ DOMAIN executed = {}
  OBVIOUS
<1>. QED
  BY <1>4, <1>5, <1>6, <1>7 DEF FederationInv

(* While the cache, the clocks and the registry rest, nothing is forgotten. *)
LEMMA MemoryRests ==
  ASSUME FederationInv, UNCHANGED <<registry, replay>>, wall' \in Int, wall <= wall',
         NEW r \in DOMAIN executed
  PROVE  Remembered(r)'
<1>1. r.signedAt \in Int /\ Remembered(r)
  BY DEF FederationInv, Requests
<1>2. ReplayKey(r)' = ReplayKey(r)
  BY DEF ReplayKey, LookupInbound
<1>3. CASE r.signedAt + SignedSkew + MaxStall + MaxDrift < wall
  BY <1>1, <1>3, FederationConstants DEF Remembered, FederationInv
<1>4. CASE ~(r.signedAt + SignedSkew + MaxStall + MaxDrift < wall)
  BY <1>1, <1>2, <1>4 DEF Remembered
<1>. QED
  BY <1>3, <1>4

LEMMA AskersKeep ==
  ASSUME FederationInv, NEW a \in Ids, Pose(a) \/ Hear(a) \/ GoWithout(a)
  PROVE  FederationInv'
<1>1. UNCHANGED <<registry, wall, theirs, replay, handler, executed, disturbed>>
  BY DEF Pose, Hear, GoWithout
<1>2. \A r \in DOMAIN executed' : r \in Requests /\ executed'[r] = 1 /\ Remembered(r)'
  BY <1>1, MemoryRests DEF FederationInv
<1>3. \A h \in Handlers : handler'[h].at = "verified" => VerifiedLately(handler[h])'
  BY <1>1 DEF FederationInv, VerifiedLately, Recent
<1>4. NoRequest \in Requests
  BY DEF NoRequest, Requests
<1>5. ASSUME posted' \subseteq Requests, \A response \in answered' : response.request \in Requests,
             question' \in [Ids -> QuestionRecord], AnswersBound'
      PROVE  FederationInv'
  BY <1>1, <1>2, <1>3, <1>5 DEF FederationInv
<1>6. CASE Pose(a)
  <2>. DEFINE n == question[a].asked + 1
              r == SignedRequest(a, n)
  <2>1. r \in Requests
    BY DEF SignedRequest, Requests, FederationInv, QuestionRecord
  <2>2. /\ question' = [question EXCEPT ![a] =
              [at |-> "waiting", request |-> r, asked |-> n, result |-> NoRequest]]
        /\ posted' = posted \cup {r} /\ answered' = answered
    BY <1>6 DEF Pose
  <2>3. question' \in [Ids -> QuestionRecord]
    BY <1>4, <2>1, <2>2 DEF FederationInv, QuestionRecord
  <2>4. AnswersBound'
    BY <2>2 DEF AnswersBound, FederationInv, Failed
  <2>. QED
    BY <1>5, <2>1, <2>2, <2>3, <2>4 DEF FederationInv
<1>7. CASE Hear(a)
  <2>1. PICK response \in answered :
          question' = [question EXCEPT ![a].at = "told",
            ![a].result = IF BoundToRequest(a, response) THEN response.request ELSE Failed]
    BY <1>7 DEF Hear
  <2>2. response.request \in Requests
    BY DEF FederationInv
  <2>3. question' \in [Ids -> QuestionRecord]
    BY <1>4, <2>1, <2>2 DEF FederationInv, QuestionRecord, Failed
  <2>4. /\ question'[a].request = question[a].request
        /\ question'[a].result = Failed \/ question'[a].result = question[a].request
    BY <2>1 DEF FederationInv, QuestionRecord, BoundToRequest
  <2>5. \A b \in Ids \ {a} : question'[b] = question[b]
    BY <2>1 DEF FederationInv
  <2>6. AnswersBound'
    BY <2>4, <2>5 DEF AnswersBound, FederationInv
  <2>. QED
    BY <1>5, <1>7, <2>3, <2>6 DEF Hear, Unheard, FederationInv
<1>8. CASE GoWithout(a)
  <2>1. question' = [question EXCEPT ![a].at = "told", ![a].result = Failed]
    BY <1>8 DEF GoWithout
  <2>2. question' \in [Ids -> QuestionRecord]
    BY <1>4, <2>1 DEF FederationInv, QuestionRecord, Failed
  <2>3. question'[a].result = Failed /\ \A b \in Ids \ {a} : question'[b] = question[b]
    BY <2>1 DEF FederationInv, QuestionRecord
  <2>4. AnswersBound'
    BY <2>3 DEF AnswersBound, FederationInv
  <2>. QED
    BY <1>5, <1>8, <2>2, <2>4 DEF GoWithout, Unheard, FederationInv
<1>. QED
  BY <1>6, <1>7, <1>8

(* What verified a request or drops one touches nothing but its handler.   *)
LEMMA HandlersKeep ==
  ASSUME FederationInv, UNCHANGED <<registry, wall, theirs, replay, question, executed>>,
         posted' = posted, \A response \in answered' : response.request \in Requests,
         handler' \in [Handlers -> HandlerRecord],
         \A h \in Handlers : handler'[h].at = "verified" => VerifiedLately(handler'[h])
  PROVE  FederationInv'
<1>1. \A r \in DOMAIN executed' : r \in Requests /\ executed'[r] = 1 /\ Remembered(r)'
  BY MemoryRests DEF FederationInv
<1>2. AnswersBound'
  BY DEF AnswersBound, FederationInv
<1>3. \A h \in Handlers : handler'[h].at = "verified" => VerifiedLately(handler[h])'
  BY DEF VerifiedLately
<1>. QED
  BY <1>1, <1>2, <1>3 DEF FederationInv

LEMMA FreeIsFree == FreeHandler \in HandlerRecord /\ FreeHandler.at = "free"
<1>1. NoRequest \in Requests
  BY DEF NoRequest, Requests
<1>. QED
  BY <1>1 DEF FreeHandler, HandlerRecord

LEMMA ListenerKeeps ==
  ASSUME FederationInv, NEW h \in Handlers, VerifyRequest(h) \/ Refuse(h) \/ Respond(h)
  PROVE  FederationInv'
<1>1. CASE VerifyRequest(h)
  <2>1. PICK r \in posted :
          /\ Recent(r, theirs)
          /\ handler' = [handler EXCEPT ![h] =
               [at |-> "verified", request |-> r, now |-> theirs, began |-> wall]]
    BY <1>1 DEF VerifyRequest
  <2>. DEFINE s == [at |-> "verified", request |-> r, now |-> theirs, began |-> wall]
  <2>2. s \in HandlerRecord /\ VerifiedLately(s)
    BY <2>1, FederationConstants DEF HandlerRecord, FederationInv, VerifiedLately
  <2>3. /\ handler' \in [Handlers -> HandlerRecord]
        /\ \A g \in Handlers : handler'[g] = s \/ handler'[g] = handler[g]
    BY <2>1, <2>2 DEF FederationInv
  <2>4. \A g \in Handlers : handler'[g].at = "verified" => VerifiedLately(handler'[g])
    BY <2>2, <2>3 DEF FederationInv
  <2>. QED
    BY <1>1, <2>3, <2>4, HandlersKeep DEF VerifyRequest, FederationInv
<1>2. CASE Refuse(h) \/ Respond(h)
  <2>1. handler' = [handler EXCEPT ![h] = FreeHandler]
    BY <1>2 DEF Refuse, Respond
  <2>2. /\ handler' \in [Handlers -> HandlerRecord]
        /\ \A g \in Handlers : handler'[g] = FreeHandler \/ handler'[g] = handler[g]
    BY <2>1, FreeIsFree DEF FederationInv
  <2>3. \A g \in Handlers : handler'[g].at = "verified" => VerifiedLately(handler'[g])
    BY <2>2, FreeIsFree DEF FederationInv
  <2>4. \A response \in answered' : response.request \in Requests
    BY <1>2 DEF Refuse, Respond, SignedResponse, FederationInv, HandlerRecord
  <2>. QED
    BY <1>2, <2>2, <2>3, <2>4, HandlersKeep DEF Refuse, Respond
<1>. QED
  BY <1>1, <1>2

(* What a handler's clock lets the cache forget is too old for every other *)
(* clock.                                                                  *)
LEMMA ForgottenIsOld ==
  ASSUME FederationInv, NEW s, s \in HandlerRecord, VerifiedLately(s),
         registry' = registry, wall' = wall,
         \A k \in DOMAIN replay : replay[k] > s.now =>
           k \in DOMAIN replay' /\ replay'[k] = replay[k],
         NEW r \in DOMAIN executed
  PROVE  Remembered(r)'
<1>1. r.signedAt \in Int /\ Remembered(r) /\ s.now \in Int /\ s.began \in Int /\ wall \in Int
  BY DEF FederationInv, Requests, HandlerRecord
<1>2. ReplayKey(r)' = ReplayKey(r)
  BY DEF ReplayKey, LookupInbound
<1>3. CASE r.signedAt + SignedSkew + MaxStall + MaxDrift < wall
  BY <1>3 DEF Remembered
<1>4. CASE ~(r.signedAt + SignedSkew + MaxStall + MaxDrift < wall)
  <2>. DEFINE k == ReplayKey(r)
  <2>1. k \in DOMAIN replay /\ replay[k] >= r.signedAt - SignedSkew + ReplayTTL
        /\ replay[k] \in Int
    BY <1>1, <1>4 DEF Remembered, FederationInv
  <2>2. replay[k] > s.now
    <3>1. s.now <= wall + MaxDrift
      BY <1>1, FederationConstants DEF VerifiedLately
    <3>. QED
      BY <1>1, <1>4, <2>1, <3>1, FederationConstants
  <2>. QED
    BY <1>2, <2>1, <2>2 DEF Remembered
<1>. QED
  BY <1>3, <1>4

LEMMA ReserveKeeps ==
  ASSUME FederationInv, NEW h \in Handlers, ReserveNonce(h)
  PROVE  FederationInv'
<1>0. PICK s : s = handler[h]
  OBVIOUS
<1>. DEFINE r == s.request
            live == LiveNonces(s.now)
<1>1. s \in HandlerRecord /\ VerifiedLately(s) /\ r \in Requests /\ s.now \in Int
      /\ s.began \in Int /\ r.signedAt \in Int
  BY <1>0 DEF ReserveNonce, FederationInv, HandlerRecord, Requests
<1>2. UNCHANGED <<registry, wall, theirs, posted, answered, question>>
  BY DEF ReserveNonce
<1>3. /\ DOMAIN live = {k \in DOMAIN replay : replay[k] > s.now}
      /\ \A k \in DOMAIN live : live[k] = replay[k]
  BY DEF LiveNonces, Restrict
<1>4. AnswersBound'
  BY <1>2 DEF AnswersBound, FederationInv
<1>5. ASSUME \A k \in DOMAIN replay : replay[k] > s.now =>
               k \in DOMAIN replay' /\ replay'[k] = replay[k],
             \A k \in DOMAIN replay' : replay'[k] \in Int,
             handler' \in [Handlers -> HandlerRecord],
             \A g \in Handlers : handler'[g].at = "verified" => handler'[g] = handler[g],
             \A q \in DOMAIN executed' :
               \/ q \in DOMAIN executed /\ executed'[q] = executed[q]
               \/ q \in Requests /\ executed'[q] = 1 /\ Remembered(q)'
      PROVE  FederationInv'
  <2>1. \A q \in DOMAIN executed' : q \in Requests /\ executed'[q] = 1 /\ Remembered(q)'
    <3>1. ASSUME NEW q \in DOMAIN executed, executed'[q] = executed[q]
          PROVE  q \in Requests /\ executed'[q] = 1 /\ Remembered(q)'
      <4>1. Remembered(q)'
        BY <1>1, <1>2, <1>5, ForgottenIsOld
      <4>. QED
        BY <3>1, <4>1 DEF FederationInv
    <3>. QED
      BY <1>5, <3>1
  <2>2. \A g \in Handlers : handler'[g].at = "verified" => VerifiedLately(handler[g])'
    BY <1>2, <1>5 DEF FederationInv, VerifiedLately, Recent
  <2>. QED
    BY <1>2, <1>4, <1>5, <2>1, <2>2 DEF FederationInv
<1>6. CASE Reservable(r, s.now)
  <2>1. /\ replay' = ReplayAfter(r, s.now)
        /\ handler' = [handler EXCEPT ![h].at = "searching"]
        /\ executed' = [k \in DOMAIN executed \cup {r} |->
                          IF k = r THEN Times(r) + 1 ELSE executed[k]]
    BY <1>0, <1>6 DEF ReserveNonce
  <2>2. ReplayKey(r) \notin DOMAIN live
    BY <1>6 DEF Reservable
  <2>3. /\ DOMAIN replay' = DOMAIN live \cup {ReplayKey(r)}
        /\ replay'[ReplayKey(r)] = s.now + ReplayTTL
        /\ \A k \in DOMAIN live : replay'[k] = replay[k]
    BY <1>3, <2>1, <2>2 DEF ReplayAfter
  <2>4. r \notin DOMAIN executed
    <3>. SUFFICES ASSUME r \in DOMAIN executed PROVE FALSE
      OBVIOUS
    <3>1. Remembered(r)
      BY DEF FederationInv
    <3>2. /\ s.now <= r.signedAt + SignedSkew /\ wall \in Int
          /\ wall - s.began <= MaxStall /\ s.began <= s.now + MaxDrift
      BY <1>1, RecentWithin DEF VerifiedLately, FederationInv
    <3>3. ~(r.signedAt + SignedSkew + MaxStall + MaxDrift < wall)
      BY <1>1, <3>2, FederationConstants
    <3>4. ReplayKey(r) \in DOMAIN replay /\ replay[ReplayKey(r)] \in Int
          /\ replay[ReplayKey(r)] >= r.signedAt - SignedSkew + ReplayTTL
      BY <3>1, <3>3 DEF Remembered, FederationInv
    <3>5. replay[ReplayKey(r)] > s.now
      BY <1>1, <3>2, <3>4, FederationConstants
    <3>. QED
      BY <1>3, <2>2, <3>4, <3>5
  <2>5. Remembered(r)'
    <3>1. ReplayKey(r)' = ReplayKey(r)
      BY <1>2 DEF ReplayKey, LookupInbound
    <3>2. r.signedAt <= s.now + SignedSkew
      BY <1>1, RecentWithin DEF VerifiedLately
    <3>3. replay'[ReplayKey(r)] >= r.signedAt - SignedSkew + ReplayTTL
      BY <1>1, <2>3, <3>2, FederationConstants
    <3>. QED
      BY <2>3, <3>1, <3>3 DEF Remembered
  <2>6. executed'[r] = 1 /\ DOMAIN executed' = DOMAIN executed \cup {r}
        /\ \A q \in DOMAIN executed : executed'[q] = executed[q]
    BY <2>1, <2>4 DEF Times
  <2>7. \A k \in DOMAIN replay' : replay'[k] \in Int
    BY <1>1, <1>3, <2>3, FederationConstants DEF FederationInv
  <2>8. /\ handler' \in [Handlers -> HandlerRecord]
        /\ handler'[h].at = "searching"
        /\ \A g \in Handlers \ {h} : handler'[g] = handler[g]
    BY <2>1 DEF FederationInv, HandlerRecord
  <2>. QED
    BY <1>1, <1>3, <1>5, <2>3, <2>5, <2>6, <2>7, <2>8
<1>7. CASE ~Reservable(r, s.now)
  <2>1. /\ replay' = Purged(r, s.now) /\ handler' = [handler EXCEPT ![h] = FreeHandler]
        /\ executed' = executed
    BY <1>0, <1>7 DEF ReserveNonce
  <2>2. /\ \A k \in DOMAIN replay : replay[k] > s.now =>
             k \in DOMAIN replay' /\ replay'[k] = replay[k]
        /\ \A k \in DOMAIN replay' : replay'[k] \in Int
    BY <1>3, <2>1 DEF Purged, FederationInv
  <2>3. /\ handler' \in [Handlers -> HandlerRecord]
        /\ handler'[h].at = "free"
        /\ \A g \in Handlers \ {h} : handler'[g] = handler[g]
    BY <2>1, FreeIsFree DEF FederationInv
  <2>. QED
    BY <1>5, <2>1, <2>2, <2>3
<1>. QED
  BY <1>6, <1>7

LEMMA FederationInductive ==
  FederationInv /\ [FederationNext]_federationVars => FederationInv'
<1>. SUFFICES ASSUME FederationInv, [FederationNext]_federationVars PROVE FederationInv'
  OBVIOUS
<1>1. ASSUME NEW a \in Ids, Pose(a) \/ Hear(a) \/ GoWithout(a) PROVE FederationInv'
  BY <1>1, AskersKeep
<1>2. ASSUME NEW h \in Handlers, VerifyRequest(h) \/ Refuse(h) \/ Respond(h)
      PROVE  FederationInv'
  BY <1>2, ListenerKeeps
<1>3. ASSUME NEW h \in Handlers, ReserveNonce(h) PROVE FederationInv'
  BY <1>3, ReserveKeeps
<1>4. CASE Restart
  <2>1. /\ \A k \in DOMAIN replay' : replay'[k] \in Int
        /\ DOMAIN executed' = {}
    BY <1>4 DEF Restart
  <2>2. /\ handler' \in [Handlers -> HandlerRecord]
        /\ \A h \in Handlers : handler'[h].at = "free"
    BY <1>4, FreeIsFree DEF Restart
  <2>3. AnswersBound'
    BY <1>4 DEF Restart, AnswersBound, FederationInv
  <2>. QED
    BY <1>4, <2>1, <2>2, <2>3 DEF Restart, FederationInv
<1>5. CASE ClockMoves
  <2>1. /\ wall' = wall + 1 /\ theirs' = theirs + 1 /\ posted' \subseteq posted
        /\ UNCHANGED <<registry, answered, replay, handler, question, executed>>
        /\ \A h \in Handlers : handler[h].at = "verified" => wall - handler[h].began < MaxStall
    BY <1>5 DEF ClockMoves
  <2>2. wall' \in Int /\ theirs' \in Int /\ wall <= wall'
        /\ theirs' <= wall' + MaxDrift /\ wall' <= theirs' + MaxDrift
    BY <2>1, FederationConstants DEF FederationInv
  <2>3. \A r \in DOMAIN executed' : r \in Requests /\ executed'[r] = 1 /\ Remembered(r)'
    BY <2>1, <2>2, MemoryRests DEF FederationInv
  <2>4. ASSUME NEW h \in Handlers, handler'[h].at = "verified"
        PROVE  VerifiedLately(handler[h])'
    <3>1. PICK s : s = handler[h]
      OBVIOUS
    <3>2. s \in HandlerRecord /\ VerifiedLately(s) /\ wall - s.began < MaxStall /\ handler'[h] = s
      BY <2>1, <2>4, <3>1 DEF FederationInv
    <3>3. s.began \in Int /\ wall \in Int
      BY <3>2 DEF HandlerRecord, FederationInv
    <3>4. s.began <= wall' /\ wall' - s.began <= MaxStall
      BY <2>1, <3>2, <3>3, FederationConstants DEF VerifiedLately
    <3>5. VerifiedLately(s)'
      BY <3>2, <3>4 DEF VerifiedLately
    <3>. QED
      BY <3>2, <3>5 DEF VerifiedLately, Recent
  <2>5. AnswersBound'
    BY <2>1 DEF AnswersBound, FederationInv
  <2>. QED
    BY <2>1, <2>2, <2>3, <2>4, <2>5 DEF FederationInv
<1>6. CASE ClockIsSet
  <2>1. /\ UNCHANGED <<registry, wall, posted, answered, replay, handler, question, executed>>
        /\ theirs' \in (wall - MaxDrift)..(wall + MaxDrift)
    BY <1>6 DEF ClockIsSet
  <2>2. theirs' \in Int /\ theirs' <= wall' + MaxDrift /\ wall' <= theirs' + MaxDrift
    BY <2>1, FederationConstants DEF FederationInv
  <2>3. \A r \in DOMAIN executed' : r \in Requests /\ executed'[r] = 1 /\ Remembered(r)'
    BY <2>1, MemoryRests DEF FederationInv
  <2>4. \A h \in Handlers : handler'[h].at = "verified" => VerifiedLately(handler[h])'
    BY <2>1 DEF FederationInv, VerifiedLately, Recent
  <2>5. AnswersBound'
    BY <2>1 DEF AnswersBound, FederationInv
  <2>. QED
    BY <2>1, <2>2, <2>3, <2>4, <2>5 DEF FederationInv
<1>7. CASE UNCHANGED federationVars
  <2>1. \A response \in answered' : response.request \in Requests
    BY <1>7 DEF federationVars, FederationInv
  <2>2. \A h \in Handlers : handler'[h].at = "verified" => VerifiedLately(handler'[h])
    BY <1>7 DEF federationVars, FederationInv
  <2>. QED
    BY <1>7, <2>1, <2>2, HandlersKeep DEF federationVars, FederationInv
<1>. QED
  BY <1>1, <1>2, <1>3, <1>4, <1>5, <1>6, <1>7 DEF FederationNext

(* However messages are lost, repeated and delayed and the listener's      *)
(* clock is set, a process searches at most once for a signed request, and *)
(* what an asker takes for its answer answers that very request            *)
(* (federationapi/replay.go, federation/signature.go).                     *)
THEOREM PeersAreTrustworthy == FederationSpec => []PeersTrustworthy
<1>1. FederationInv => PeersTrustworthy
  BY DEF FederationInv, PeersTrustworthy, ExecutedOnce
<1>. QED
  BY <1>1, FederationStarts, FederationInductive, PTL DEF FederationSpec

-----------------------------------------------------------------------------
(* Fetching.  A fetch is at its host's gate or at none, and the gate of a  *)
(* host is found under its name as long as somebody uses it; so all that a *)
(* host sees of this process has come through one gate.  The shared gate   *)
(* is never needed: it takes more fetches than may run to keep every gate  *)
(* busy.                                                                   *)

Gateless == {"idle", "global", "reserve_robots", "reserve", "reserve_next"}
Queueing == {"queue_robots", "queue", "queue_next"}
Entered == {"ask", "wait", "requested", "ask_next", "wait_next"}
Steps == Gateless \cup Queueing \cup Entered
GateIds == (Hosts \cup {Overflow, "none"}) \X Nat
FetchRecord == [at : Steps, want : Wanted \cup {NoFetch.want}, page : Pages \cup {"none"},
                gate : GateIds, hops : Nat, attempt : Nat, bytes : Nat, cleared : SUBSET Pages]

(* How a fetch stands to the gates gs.                                     *)
Orderly(s, gs) ==
  /\ s \in FetchRecord /\ s.bytes <= MaxTotal
  /\ s.at # "idle" => s.want \in Wanted /\ s.page \in s.want.scope
  /\ s.at \in {"reserve", "queue", "requested"} => s.page \in s.cleared
  /\ s.at \in Gateless => s.gate = NoGate
  /\ s.at \notin Gateless =>
       HostOf[s.page] \in DOMAIN gs /\ s.gate = <<HostOf[s.page], gs[HostOf[s.page]]>>

GatesSound ==
  /\ IsFiniteSet(DOMAIN gates) /\ Cardinality(DOMAIN gates) <= MaxGates
  /\ DOMAIN gates \subseteq Hosts /\ \A h \in DOMAIN gates : gates[h] \in Nat

PageInv ==
  /\ GatesSound
  /\ fetch \in [Fetchers -> FetchRecord]
  /\ \A f \in Fetchers : Orderly(fetch[f], gates)
  /\ inside = {<<f, fetch[f].gate>> : f \in {u \in Fetchers : fetch[u].at \in Entered}}
  /\ \A g \in GateIds : Cardinality(Within(g)) <= PerHost
  /\ Cardinality(Running) <= GlobalLimit

LEMMA NoFetchIsOrderly ==
  ASSUME NEW gs PROVE Orderly(NoFetch, gs) /\ NoFetch.at = "idle" /\ NoFetch.bytes = 0
<1>1. NoFetch.want = CHOOSE w \in Wanted : TRUE
  BY DEF NoFetch
<1>2. NoGate \in GateIds
  BY DEF NoGate, GateIds
<1>. QED
  BY <1>1, <1>2, FetchConstants DEF NoFetch, Orderly, FetchRecord, Steps, Gateless

LEMMA PageStarts == PageInit => PageInv
<1>. SUFFICES ASSUME PageInit PROVE PageInv
  OBVIOUS
<1>. USE FetchConstants DEF PageInit
<1>1. GatesSound
  BY FS_EmptySet DEF GatesSound
<1>2. \A f \in Fetchers : fetch[f] = NoFetch /\ Orderly(fetch[f], gates) /\ fetch[f].at = "idle"
  BY NoFetchIsOrderly
<1>3. fetch \in [Fetchers -> FetchRecord]
  BY NoFetchIsOrderly DEF Orderly
<1>4. inside = {<<f, fetch[f].gate>> : f \in {u \in Fetchers : fetch[u].at \in Entered}}
  BY <1>2 DEF Entered
<1>5. \A g \in GateIds : Within(g) = {}
  BY DEF Within
<1>6. Running = {}
  BY <1>2 DEF Running
<1>. QED
  BY <1>1, <1>2, <1>3, <1>4, <1>5, <1>6, FS_EmptySet DEF PageInv

LEMMA InsideIsFinite ==
  ASSUME PageInv
  PROVE  IsFiniteSet(inside) /\ IsFiniteSet(Running)
<1>1. IsFiniteSet(inside)
  <2>. DEFINE went == {u \in Fetchers : fetch[u].at \in Entered}
              place == [x \in inside |-> x[1]]
  <2>3. \A x \in inside : x[1] \in went /\ x = <<x[1], fetch[x[1]].gate>>
    BY DEF PageInv
  <2>4. place \in [inside -> went] /\ \A x \in inside : place[x] = x[1]
    BY <2>3
  <2>2. IsFiniteSet(went)
    BY FetchConstants, FS_Subset
  <2>. HIDE DEF place, went
  <2>5. \A x, y \in inside : place[x] = place[y] => x = y
    BY <2>3, <2>4
  <2>1. place \in Injection(inside, went)
    BY <2>4, <2>5 DEF Injection, IsInjective
  <2>. QED
    BY <2>1, <2>2, FS_Injection
<1>2. IsFiniteSet(Running)
  BY FetchConstants, FS_Subset DEF Running
<1>. QED
  BY <1>1, <1>2

(* Only who has entered a gate holds a place, and one place.               *)
LEMMA PlacesOfOne ==
  ASSUME PageInv, NEW f \in Fetchers
  PROVE  /\ fetch[f].at \in Entered => Held(f) = {<<f, fetch[f].gate>>}
         /\ fetch[f].at \notin Entered => Held(f) = {}
BY DEF PageInv, Held

(* Fetches that go on without a new place or a place in the semaphore.     *)
LEMMA MovesKeep ==
  ASSUME PageInv, gates' = gates, fetch' \in [Fetchers -> FetchRecord],
         \A f \in Fetchers : Orderly(fetch'[f], gates),
         \A f \in Fetchers : fetch'[f].at \in Entered =>
           fetch[f].at \in Entered /\ fetch'[f].gate = fetch[f].gate,
         inside' = {x \in inside : fetch'[x[1]].at \in Entered},
         \A f \in Fetchers : fetch[f].at \in {"idle", "global"} => fetch'[f].at \in {"idle", "global"}
  PROVE  PageInv'
<1>1. inside' = {<<f, fetch'[f].gate>> : f \in {u \in Fetchers : fetch'[u].at \in Entered}}
  <2>1. ASSUME NEW x \in inside' PROVE x \in {<<f, fetch'[f].gate>> : f \in {u \in Fetchers : fetch'[u].at \in Entered}}
    <3>1. PICK f \in Fetchers : x = <<f, fetch[f].gate>>
      BY <2>1 DEF PageInv
    <3>. QED
      BY <2>1, <3>1
  <2>2. ASSUME NEW f \in Fetchers, fetch'[f].at \in Entered PROVE <<f, fetch'[f].gate>> \in inside'
    <3>1. <<f, fetch[f].gate>> \in inside
      BY <2>2 DEF PageInv
    <3>. QED
      BY <2>2, <3>1
  <2>. QED
    BY <2>1, <2>2
<1>2. \A g \in GateIds : Cardinality(Within(g)') <= PerHost
  <2>. SUFFICES ASSUME NEW g \in GateIds PROVE Cardinality(Within(g)') <= PerHost
    OBVIOUS
  <2>1. Within(g)' \subseteq Within(g) /\ Within(g) \subseteq inside
    BY DEF Within
  <2>2. IsFiniteSet(Within(g)) /\ Cardinality(Within(g)) \in Nat
    BY <2>1, InsideIsFinite, FS_Subset, FS_CardinalityType
  <2>3. IsFiniteSet(Within(g)') /\ Cardinality(Within(g)') <= Cardinality(Within(g))
    BY <2>1, <2>2, FS_Subset
  <2>4. Cardinality(Within(g)') \in Nat
    BY <2>3, FS_CardinalityType
  <2>5. Cardinality(Within(g)) <= PerHost
    BY DEF PageInv
  <2>. QED
    BY <2>2, <2>3, <2>4, <2>5, FetchConstants
<1>3. Cardinality(Running') <= GlobalLimit
  <2>1. Running' \subseteq Running
    BY DEF Running
  <2>2. IsFiniteSet(Running) /\ Cardinality(Running) \in Nat
    BY InsideIsFinite, FS_CardinalityType
  <2>3. IsFiniteSet(Running') /\ Cardinality(Running') <= Cardinality(Running)
    BY <2>1, <2>2, FS_Subset
  <2>4. Cardinality(Running') \in Nat
    BY <2>3, FS_CardinalityType
  <2>5. Cardinality(Running) <= GlobalLimit
    BY DEF PageInv
  <2>. QED
    BY <2>2, <2>3, <2>4, <2>5, FetchConstants
<1>4. GatesSound'
  BY DEF PageInv, GatesSound
<1>5. \A f \in Fetchers : Orderly(fetch[f], gates)'
  BY DEF Orderly
<1>. QED
  BY <1>1, <1>2, <1>3, <1>4, <1>5 DEF PageInv

(* One fetch goes on.                                                      *)
LEMMA StepKeeps ==
  ASSUME PageInv, NEW f \in Fetchers, NEW s, Go(f, s), gates' = gates, Orderly(s, gates),
         s.at \in Entered => /\ fetch[f].at \in Entered /\ s.gate = fetch[f].gate
                             /\ inside' = inside,
         s.at \notin Entered => inside' = inside \ Held(f),
         fetch[f].at \in {"idle", "global"} => s.at \in {"idle", "global"}
  PROVE  PageInv'
<1>1. s \in FetchRecord /\ fetch' = [fetch EXCEPT ![f] = s]
  BY DEF Orderly, Go
<1>2. /\ fetch' \in [Fetchers -> FetchRecord] /\ fetch'[f] = s
      /\ \A u \in Fetchers \ {f} : fetch'[u] = fetch[u]
  BY <1>1 DEF PageInv
<1>3. \A u \in Fetchers : Orderly(fetch'[u], gates)
  BY <1>2 DEF PageInv
<1>4. \A x \in inside : x[1] \in Fetchers /\ fetch[x[1]].at \in Entered
  BY DEF PageInv
<1>5. inside' = {x \in inside : fetch'[x[1]].at \in Entered}
  <2>1. CASE s.at \in Entered
    BY <1>2, <1>4, <2>1
  <2>2. CASE s.at \notin Entered
    BY <1>2, <1>4, <2>2 DEF Held
  <2>. QED
    BY <2>1, <2>2
<1>. QED
  BY <1>2, <1>3, <1>5, MovesKeep

LEMMA ReturnKeeps ==
  ASSUME PageInv, NEW f \in Fetchers, Return(f), gates' = gates
  PROVE  PageInv'
BY StepKeeps, NoFetchIsOrderly DEF Return, Entered

LEMMA AgainKeeps ==
  ASSUME PageInv, NEW f \in Fetchers, NEW bytes \in Nat, Again(f, bytes), gates' = gates,
         fetch[f].at = "requested"
  PROVE  PageInv'
<1>1. CASE fetch[f].attempt = Retries \/ bytes >= MaxTotal
  BY <1>1, ReturnKeeps DEF Again
<1>2. CASE ~(fetch[f].attempt = Retries \/ bytes >= MaxTotal)
  <2>. DEFINE want == fetch[f].want
              s == [at |-> "reserve", want |-> want, page |-> want.page, gate |-> NoGate,
                    hops |-> 0, attempt |-> fetch[f].attempt + 1, bytes |-> bytes,
                    cleared |-> {want.page}]
  <2>1. Go(f, s) /\ inside' = inside \ Held(f)
    BY <1>2 DEF Again
  <2>2. Orderly(fetch[f], gates) /\ fetch[f] \in FetchRecord /\ want \in Wanted
    BY DEF PageInv, Orderly
  <2>3. want.page \in Pages /\ want.page \in want.scope
    BY <2>2, FetchConstants
  <2>4. s \in FetchRecord
    <3>1. NoGate \in GateIds /\ "reserve" \in Steps
      BY DEF NoGate, GateIds, Steps, Gateless
    <3>2. fetch[f].attempt + 1 \in Nat
      BY <2>2 DEF FetchRecord
    <3>. QED
      BY <2>2, <2>3, <3>1, <3>2 DEF FetchRecord
  <2>5. bytes <= MaxTotal
    BY <1>2, FetchConstants
  <2>6. Orderly(s, gates)
    BY <2>2, <2>3, <2>4, <2>5 DEF Orderly, Gateless
  <2>7. s.at = "reserve"
    OBVIOUS
  <2>. HIDE DEF s
  <2>. QED
    BY <2>1, <2>6, <2>7, StepKeeps DEF Entered
<1>. QED
  BY <1>1, <1>2

LEMMA BeginKeeps ==
  ASSUME PageInv, NEW f \in Fetchers, Begin(f)
  PROVE  PageInv'
<1>1. PICK w \in Wanted : Go(f, [NoFetch EXCEPT !.at = "global", !.want = w, !.page = w.page])
  BY DEF Begin
<1>. DEFINE s == [NoFetch EXCEPT !.at = "global", !.want = w, !.page = w.page]
<1>2. w.page \in Pages /\ w.page \in w.scope
  BY FetchConstants
<1>3. NoFetch \in FetchRecord /\ NoFetch.gate = NoGate /\ NoFetch.bytes = 0
  BY NoFetchIsOrderly DEF Orderly, NoFetch
<1>4. /\ s \in FetchRecord /\ s.at = "global" /\ s.gate = NoGate /\ s.bytes = 0
      /\ s.want = w /\ s.page = w.page
  BY <1>2, <1>3 DEF FetchRecord, Steps, Gateless
<1>. HIDE DEF s
<1>5. Orderly(s, gates)
  BY <1>2, <1>4, FetchConstants DEF Orderly, Gateless
<1>6. inside' = inside \ Held(f)
  BY PlacesOfOne DEF Begin, Entered
<1>. QED
  BY <1>1, <1>4, <1>5, <1>6, StepKeeps DEF Begin, s, Entered

LEMMA TakeGlobalKeeps ==
  ASSUME PageInv, NEW f \in Fetchers, TakeGlobal(f)
  PROVE  PageInv'
<1>. DEFINE s == [fetch[f] EXCEPT !.at = "reserve_robots"]
<1>1. /\ fetch' = [fetch EXCEPT ![f] = s] /\ UNCHANGED <<gates, inside>>
      /\ fetch[f].at = "global" /\ Cardinality(Running) < GlobalLimit
  BY DEF TakeGlobal, Go
<1>2. Orderly(fetch[f], gates) /\ fetch[f] \in FetchRecord
  BY DEF PageInv, Orderly
<1>3. /\ s \in FetchRecord /\ s.at = "reserve_robots" /\ s.gate = fetch[f].gate
      /\ s.bytes = fetch[f].bytes /\ s.want = fetch[f].want /\ s.page = fetch[f].page
  BY <1>2 DEF FetchRecord, Steps, Gateless
<1>. HIDE DEF s
<1>4. Orderly(s, gates)
  BY <1>1, <1>2, <1>3 DEF Orderly, Gateless
<1>5. /\ fetch' \in [Fetchers -> FetchRecord] /\ fetch'[f] = s
      /\ \A u \in Fetchers \ {f} : fetch'[u] = fetch[u]
  BY <1>1, <1>3 DEF PageInv
<1>6. \A u \in Fetchers : Orderly(fetch[u], gates)'
  BY <1>1, <1>4, <1>5 DEF PageInv, Orderly
<1>7. inside' = {<<u, fetch'[u].gate>> : u \in {v \in Fetchers : fetch'[v].at \in Entered}}
  BY <1>1, <1>3, <1>5 DEF PageInv, Entered
<1>8. \A g \in GateIds : Within(g)' = Within(g)
  BY <1>1 DEF Within
<1>9. Cardinality(Running') <= GlobalLimit
  <2>1. Running' = Running \cup {f} /\ f \notin Running
    BY <1>1, <1>3, <1>5 DEF Running
  <2>2. IsFiniteSet(Running) /\ Cardinality(Running) \in Nat
    BY InsideIsFinite, FS_CardinalityType
  <2>3. Cardinality(Running') = Cardinality(Running) + 1
    BY <2>1, <2>2, FS_AddElement
  <2>. QED
    BY <1>1, <2>2, <2>3, FetchConstants
<1>10. GatesSound'
  BY <1>1 DEF PageInv, GatesSound
<1>. QED
  BY <1>5, <1>6, <1>7, <1>8, <1>9, <1>10 DEF PageInv

LEMMA EnterKeeps ==
  ASSUME PageInv, NEW f \in Fetchers, Enter(f)
  PROVE  PageInv'
<1>0. PICK old : old = fetch[f]
  OBVIOUS
<1>. DEFINE s == [old EXCEPT !.at = CASE @ = "queue_robots" -> "ask"
                                      [] @ = "queue" -> "requested" [] OTHER -> "ask_next"]
<1>1. /\ fetch' = [fetch EXCEPT ![f] = s] /\ gates' = gates
      /\ old.at \in Queueing /\ Cardinality(Within(old.gate)) < PerHost
      /\ inside' = inside \cup {<<f, old.gate>>}
  BY <1>0 DEF Enter, Go, Queueing
<1>2. Orderly(old, gates) /\ old \in FetchRecord
  BY <1>0 DEF PageInv, Orderly
<1>3. /\ s \in FetchRecord /\ s.at \in Entered /\ s.gate = old.gate
      /\ s.at = "requested" => old.at = "queue"
      /\ s.bytes = old.bytes /\ s.want = old.want /\ s.page = old.page /\ s.cleared = old.cleared
  BY <1>1, <1>2 DEF FetchRecord, Steps, Entered
<1>. HIDE DEF s
<1>4. Orderly(s, gates)
  BY <1>1, <1>2, <1>3 DEF Orderly, Gateless, Queueing, Entered
<1>5. /\ fetch' \in [Fetchers -> FetchRecord] /\ fetch'[f] = s
      /\ \A u \in Fetchers \ {f} : fetch'[u] = fetch[u]
  BY <1>1, <1>3 DEF PageInv
<1>6. \A u \in Fetchers : Orderly(fetch[u], gates)'
  BY <1>1, <1>4, <1>5 DEF PageInv, Orderly
<1>7. inside' = {<<u, fetch'[u].gate>> : u \in {v \in Fetchers : fetch'[v].at \in Entered}}
  <2>1. fetch[f].at \notin Entered
    BY <1>0, <1>1 DEF Queueing, Entered
  <2>. QED
    BY <1>0, <1>1, <1>3, <1>5, <2>1 DEF PageInv
<1>8. ASSUME NEW g \in GateIds PROVE Cardinality(Within(g)') <= PerHost
  <2>1. Within(g) \subseteq inside
    BY DEF Within
  <2>2. IsFiniteSet(Within(g)) /\ Cardinality(Within(g)) \in Nat /\ Cardinality(Within(g)) <= PerHost
    BY <2>1, InsideIsFinite, FS_Subset, FS_CardinalityType DEF PageInv
  <2>3. CASE g = old.gate
    <3>1. Within(g)' = Within(g) \cup {<<f, old.gate>>}
      BY <1>1, <2>3 DEF Within
    <3>2. PICK W, x : W = Within(g) /\ x = <<f, old.gate>>
      OBVIOUS
    <3>3. IsFiniteSet(W) /\ Cardinality(W) \in Nat /\ Cardinality(W) < PerHost
      BY <1>1, <2>2, <2>3, <3>2
    <3>4. IsFiniteSet(W \cup {x}) /\ Cardinality(W \cup {x}) \in {Cardinality(W), Cardinality(W) + 1}
      BY <3>3, FS_AddElement
    <3>5. Cardinality(W \cup {x}) <= PerHost
      BY <3>3, <3>4, FetchConstants
    <3>. QED
      BY <3>1, <3>2, <3>5
  <2>4. CASE g # old.gate
    <3>1. Within(g)' = Within(g)
      BY <1>1, <2>4 DEF Within
    <3>. QED
      BY <2>2, <3>1
  <2>. QED
    BY <2>3, <2>4
<1>9. Running' = Running
  BY <1>0, <1>1, <1>3, <1>5 DEF Running, Queueing, Entered
<1>10. GatesSound'
  BY <1>1 DEF PageInv, GatesSound
<1>. QED
  BY <1>5, <1>6, <1>7, <1>8, <1>9, <1>10 DEF PageInv

(* With every gate in use, as many fetches run as there are gates, besides *)
(* the one that looks for a gate: more than may run.                       *)
LEMMA GateToSpare ==
  ASSUME PageInv, NEW f \in Fetchers,
         fetch[f].at \in {"reserve_robots", "reserve", "reserve_next"},
         ~(Cardinality(DOMAIN gates) < MaxGates)
  PROVE  Evictable # {}
<1>. SUFFICES ASSUME Evictable = {} PROVE FALSE
  OBVIOUS
<1>. DEFINE others == Running \ {f}
            user == [h \in DOMAIN gates |-> CHOOSE u \in Fetchers : fetch[u].gate = <<h, gates[h]>>]
<1>1. ASSUME NEW h \in DOMAIN gates
      PROVE  user[h] \in others /\ fetch[user[h]].gate = <<h, gates[h]>>
  <2>1. \E u \in Fetchers : fetch[u].gate = <<h, gates[h]>>
    BY DEF Evictable, Users
  <2>2. PICK u : u = user[h] /\ u \in Fetchers /\ fetch[u].gate = <<h, gates[h]>>
    BY <2>1
  <2>3. <<h, gates[h]>> # NoGate
    BY FetchConstants DEF PageInv, GatesSound, NoGate
  <2>4. Orderly(fetch[u], gates) /\ Orderly(fetch[f], gates)
    BY <2>2 DEF PageInv
  <2>5. fetch[u].at \notin Gateless
    BY <2>2, <2>3, <2>4 DEF Orderly
  <2>6. u \in Running /\ u # f
    BY <2>2, <2>5 DEF Running, Gateless
  <2>. QED
    BY <2>2, <2>6
<1>2. user \in [DOMAIN gates -> others]
  BY <1>1
<1>3. \A h, k \in DOMAIN gates : user[h] = user[k] => h = k
  <2>. SUFFICES ASSUME NEW h \in DOMAIN gates, NEW k \in DOMAIN gates, user[h] = user[k]
       PROVE h = k
    OBVIOUS
  <2>1. <<h, gates[h]>> = <<k, gates[k]>>
    BY <1>1
  <2>. QED
    BY <2>1
<1>4. f \in Running
  BY DEF Running
<1>5. IsFiniteSet(Running) /\ Cardinality(Running) \in Nat /\ Cardinality(Running) <= GlobalLimit
  BY InsideIsFinite, FS_CardinalityType DEF PageInv
<1>6. IsFiniteSet(others) /\ Cardinality(others) = Cardinality(Running) - 1
  BY <1>4, <1>5, FS_RemoveElement
<1>7. IsFiniteSet(DOMAIN gates) /\ Cardinality(DOMAIN gates) \in Nat
  BY FS_CardinalityType DEF PageInv, GatesSound
<1>8. Cardinality(others) < Cardinality(DOMAIN gates)
  <2>1. GlobalLimit \in Nat /\ MaxGates \in Nat /\ GlobalLimit <= MaxGates
    BY FetchConstants
  <2>2. PICK a, b, c : /\ a = Cardinality(others) /\ b = Cardinality(DOMAIN gates)
                       /\ c = Cardinality(Running)
    OBVIOUS
  <2>3. a = c - 1 /\ c \in Nat /\ c <= GlobalLimit /\ b \in Nat /\ ~(b < MaxGates)
    BY <1>5, <1>6, <1>7, <2>2
  <2>4. a < b
    BY <2>1, <2>3
  <2>. QED
    BY <2>2, <2>4
<1>. HIDE DEF user, others
<1>. QED
  BY <1>2, <1>3, <1>6, <1>7, <1>8, FS_PigeonHole

(* A fetch comes to the gate of its host, wherever the others are.         *)
LEMMA GateReserved ==
  ASSUME PageInv, NEW f \in Fetchers, NEW gs, gates' = gs,
         fetch[f].at \in {"reserve_robots", "reserve", "reserve_next"},
         IsFiniteSet(DOMAIN gs), Cardinality(DOMAIN gs) <= MaxGates,
         DOMAIN gs \subseteq Hosts, \A k \in DOMAIN gs : gs[k] \in Nat,
         HostOf[fetch[f].page] \in DOMAIN gs,
         \A u \in Fetchers : fetch[u].at \notin Gateless =>
           LET k == HostOf[fetch[u].page] IN k \in DOMAIN gs /\ gs[k] = gates[k],
         Go(f, [fetch[f] EXCEPT !.at = Next_(@),
                                !.gate = <<HostOf[fetch[f].page], gs[HostOf[fetch[f].page]]>>]),
         inside' = inside
  PROVE  PageInv'
<1>0. PICK old : old = fetch[f]
  OBVIOUS
<1>. DEFINE g == <<HostOf[old.page], gs[HostOf[old.page]]>>
            s == [old EXCEPT !.at = Next_(@), !.gate = g]
<1>1. fetch' = [fetch EXCEPT ![f] = s]
  BY <1>0 DEF Go
<1>2. Orderly(old, gates) /\ old \in FetchRecord
  BY <1>0 DEF PageInv, Orderly
<1>3. Next_(old.at) \in Queueing /\ (Next_(old.at) = "queue" => old.at = "reserve")
  BY <1>0 DEF Next_, Queueing
<1>4. g \in GateIds
  BY <1>0 DEF GateIds
<1>5. /\ s.at = Next_(old.at) /\ s.gate = g /\ s.bytes = old.bytes /\ s.want = old.want
      /\ s.page = old.page /\ s.cleared = old.cleared /\ s \in FetchRecord
  BY <1>2, <1>3, <1>4 DEF FetchRecord, Steps
<1>6. Orderly(s, gs)
  <2>1. old.at # "idle"
    BY <1>0
  <2>. HIDE DEF s
  <2>. QED
    BY <1>0, <1>2, <1>3, <1>5, <2>1 DEF Orderly, Queueing, Gateless
<1>. HIDE DEF s, g
<1>7. /\ fetch' \in [Fetchers -> FetchRecord] /\ fetch'[f] = s
      /\ \A u \in Fetchers \ {f} : fetch'[u] = fetch[u]
  BY <1>1, <1>5 DEF PageInv
<1>8. \A u \in Fetchers : Orderly(fetch'[u], gs)
  <2>1. ASSUME NEW u \in Fetchers \ {f} PROVE Orderly(fetch'[u], gs)
    <3>1. Orderly(fetch[u], gates) /\ fetch'[u] = fetch[u]
      BY <1>7 DEF PageInv
    <3>. QED
      BY <3>1 DEF Orderly
  <2>. QED
    BY <1>6, <1>7, <2>1
<1>9. inside' = {<<u, fetch'[u].gate>> : u \in {v \in Fetchers : fetch'[v].at \in Entered}}
  <2>1. s.at \notin Entered /\ fetch[f].at \notin Entered
    BY <1>3, <1>5 DEF Queueing, Entered
  <2>. QED
    BY <1>7, <2>1 DEF PageInv
<1>10. \A c \in GateIds : Within(c)' = Within(c)
  BY DEF Within
<1>11. Running' = Running
  <2>1. s.at \notin {"idle", "global"}
    BY <1>3, <1>5 DEF Queueing
  <2>. QED
    BY <1>7, <2>1 DEF Running
<1>12. GatesSound'
  BY DEF GatesSound
<1>. QED
  BY <1>7, <1>8, <1>9, <1>10, <1>11, <1>12 DEF PageInv

LEMMA ReserveGateKeeps ==
  ASSUME PageInv, NEW f \in Fetchers, Reserve(f)
  PROVE  PageInv'
<1>. DEFINE page == fetch[f].page
            h == HostOf[page]
            Reserved(g) == Go(f, [fetch[f] EXCEPT !.at = Next_(@), !.gate = g])
<1>1. fetch[f].at \in {"reserve_robots", "reserve", "reserve_next"} /\ inside' = inside
  BY DEF Reserve
<1>2. h \in Hosts
  <2>1. Orderly(fetch[f], gates)
    BY DEF PageInv
  <2>2. page \in Pages
    BY <1>1, <2>1, FetchConstants DEF Orderly
  <2>. QED
    BY <2>2 DEF Hosts
<1>3. GatesSound /\ IsFiniteSet(DOMAIN gates) /\ Cardinality(DOMAIN gates) \in Nat
  BY FS_CardinalityType DEF PageInv, GatesSound
<1>4. \A u \in Fetchers : fetch[u].at \notin Gateless =>
        /\ HostOf[fetch[u].page] \in DOMAIN gates
        /\ fetch[u].gate = <<HostOf[fetch[u].page], gates[HostOf[fetch[u].page]]>>
  BY DEF PageInv, Orderly
<1>5. CASE h \in DOMAIN gates
  <2>1. gates' = gates /\ Reserved(<<h, gates[h]>>)
    BY <1>5 DEF Reserve
  <2>. QED
    BY <1>1, <1>3, <1>4, <1>5, <2>1, GateReserved DEF GatesSound
<1>6. ASSUME h \notin DOMAIN gates, NEW kept \in SUBSET DOMAIN gates, gates' = WithGate(kept, h),
             Reserved(<<h, NewGate(h)>>), Cardinality(kept) < MaxGates,
             \A u \in Fetchers : fetch[u].at \notin Gateless => HostOf[fetch[u].page] \in kept
      PROVE  PageInv'
  <2>1. NewGate(h) \in Nat
    <3>1. \A n : Users(<<h, n>>) = {}
      <4>. SUFFICES ASSUME NEW n, NEW u \in Fetchers, fetch[u].gate = <<h, n>> PROVE FALSE
        BY DEF Users
      <4>1. fetch[u].at \notin Gateless
        <5>1. Orderly(fetch[u], gates)
          BY DEF PageInv
        <5>2. <<h, n>> # NoGate
          BY <1>2, FetchConstants DEF NoGate
        <5>. QED
          BY <5>1, <5>2 DEF Orderly
      <4>. QED
        BY <1>4, <1>6, <4>1
    <3>2. 0 \in 0..Cardinality(Fetchers)
      BY FetchConstants, FS_CardinalityType
    <3>3. NewGate(h) \in 0..Cardinality(Fetchers)
      BY <3>1, <3>2 DEF NewGate
    <3>. QED
      BY <3>3, FetchConstants, FS_CardinalityType
  <2>2. PICK gs : gs = WithGate(kept, h)
    OBVIOUS
  <2>3. /\ DOMAIN gs = kept \cup {h} /\ gs[h] = NewGate(h)
        /\ \A k \in kept : gs[k] = gates[k]
    BY <1>6, <2>2 DEF WithGate
  <2>4. IsFiniteSet(kept) /\ Cardinality(kept) \in Nat
    BY <1>3, FS_Subset, FS_CardinalityType
  <2>5. IsFiniteSet(DOMAIN gs) /\ Cardinality(DOMAIN gs) = Cardinality(kept) + 1
    BY <1>6, <2>3, <2>4, FS_AddElement
  <2>6. Cardinality(DOMAIN gs) <= MaxGates
    BY <1>6, <2>4, <2>5, FetchConstants
  <2>7. DOMAIN gs \subseteq Hosts /\ \A k \in DOMAIN gs : gs[k] \in Nat
    BY <1>2, <1>3, <2>1, <2>3 DEF GatesSound
  <2>8. \A u \in Fetchers : fetch[u].at \notin Gateless =>
          LET k == HostOf[fetch[u].page] IN k \in DOMAIN gs /\ gs[k] = gates[k]
    BY <1>6, <2>3
  <2>9. Go(f, [fetch[f] EXCEPT !.at = Next_(@), !.gate = <<h, gs[h]>>])
    BY <1>6, <2>3
  <2>10. gates' = gs /\ h \in DOMAIN gs
    BY <1>6, <2>2, <2>3
  <2>. QED
    BY <1>1, <2>5, <2>6, <2>7, <2>8, <2>9, <2>10, GateReserved
<1>7. CASE h \notin DOMAIN gates /\ Cardinality(DOMAIN gates) < MaxGates
  <2>1. gates' = WithGate(DOMAIN gates, h) /\ Reserved(<<h, NewGate(h)>>)
    BY <1>7 DEF Reserve
  <2>. QED
    BY <1>4, <1>6, <1>7, <2>1
<1>8. CASE h \notin DOMAIN gates /\ ~(Cardinality(DOMAIN gates) < MaxGates)
  <2>1. Evictable # {}
    BY <1>1, <1>8, GateToSpare
  <2>2. PICK gone \in Evictable :
          gates' = WithGate(DOMAIN gates \ {gone}, h) /\ Reserved(<<h, NewGate(h)>>)
    BY <1>8, <2>1 DEF Reserve
  <2>. DEFINE kept == DOMAIN gates \ {gone}
  <2>3. gone \in DOMAIN gates /\ Users(<<gone, gates[gone]>>) = {}
    BY <2>2 DEF Evictable
  <2>4. Cardinality(kept) < MaxGates
    <3>1. Cardinality(kept) = Cardinality(DOMAIN gates) - 1
      BY <1>3, <2>3, FS_RemoveElement
    <3>. QED
      BY <1>3, <3>1, FetchConstants DEF GatesSound
  <2>5. \A u \in Fetchers : fetch[u].at \notin Gateless => HostOf[fetch[u].page] \in kept
    <3>. SUFFICES ASSUME NEW u \in Fetchers, fetch[u].at \notin Gateless
         PROVE  HostOf[fetch[u].page] # gone
      BY <1>4
    <3>1. fetch[u].gate = <<HostOf[fetch[u].page], gates[HostOf[fetch[u].page]]>>
      BY <1>4
    <3>. QED
      BY <2>3, <3>1 DEF Users
  <2>. QED
    BY <1>6, <1>8, <2>2, <2>4, <2>5
<1>. QED
  BY <1>5, <1>7, <1>8

(* What the answer of robots.txt makes of a fetch.                         *)
LEMMA DecidedIsOrderly ==
  ASSUME NEW gs, NEW s, Orderly(s, gs), s.at \in {"ask", "wait", "ask_next", "wait_next"},
         NEW allowed
  PROVE  /\ Orderly(Decided(s, allowed), gs)
         /\ LetsGo(s, allowed) <=> Decided(s, allowed).at \notin Entered
         /\ Decided(s, allowed).at \in Entered => Decided(s, allowed).gate = s.gate
<1>1. /\ s \in FetchRecord /\ s.want \in Wanted /\ s.page \in s.want.scope
      /\ s.page \in Pages /\ s.want.page \in Pages
  BY FetchConstants DEF Orderly
<1>2. CASE s.page \notin allowed
  BY <1>2, NoFetchIsOrderly DEF Decided, LetsGo, Entered
<1>3. CASE s.page \in allowed /\ s.at \in {"ask", "wait"}
  <2>. DEFINE t == [s EXCEPT !.at = "reserve", !.gate = NoGate, !.cleared = {s.page}]
  <2>1. Decided(s, allowed) = t /\ LetsGo(s, allowed)
    BY <1>3 DEF Decided, LetsGo
  <2>2. NoGate \in GateIds /\ "reserve" \in Steps
    BY DEF NoGate, GateIds, Steps, Gateless
  <2>3. /\ t \in FetchRecord /\ t.at = "reserve" /\ t.gate = NoGate /\ t.cleared = {s.page}
        /\ t.page = s.page /\ t.want = s.want /\ t.bytes = s.bytes
    BY <1>1, <2>2 DEF FetchRecord
  <2>. HIDE DEF t
  <2>4. Orderly(t, gs)
    BY <1>1, <2>3 DEF Orderly, Gateless
  <2>. QED
    BY <2>1, <2>3, <2>4 DEF Entered
<1>4. CASE s.page \in allowed /\ s.at \in {"ask_next", "wait_next"}
  <2>. DEFINE t == [s EXCEPT !.at = "requested", !.cleared = {s.want.page, s.page}]
  <2>1. Decided(s, allowed) = t /\ ~LetsGo(s, allowed)
    BY <1>4 DEF Decided, LetsGo
  <2>2. "requested" \in Steps
    BY DEF Steps, Entered
  <2>3. /\ t \in FetchRecord /\ t.at = "requested" /\ t.gate = s.gate
        /\ t.cleared = {s.want.page, s.page}
        /\ t.page = s.page /\ t.want = s.want /\ t.bytes = s.bytes
    BY <1>1, <2>2 DEF FetchRecord
  <2>. HIDE DEF t
  <2>4. Orderly(t, gs)
    BY <1>1, <1>4, <2>3 DEF Orderly, Gateless
  <2>. QED
    BY <2>1, <2>3, <2>4 DEF Entered
<1>. QED
  BY <1>2, <1>3, <1>4

LEMMA ConsultKeeps ==
  ASSUME PageInv, NEW f \in Fetchers, Consult(f)
  PROVE  PageInv'
<1>1. PICK t, allowed : t = Decided(fetch[f], policy[Origin(f)]) /\ allowed = policy[Origin(f)]
  OBVIOUS
<1>2. /\ fetch[f].at \in {"ask", "ask_next"} /\ Go(f, t) /\ gates' = gates
      /\ inside' = IF LetsGo(fetch[f], allowed) THEN inside \ Held(f) ELSE inside
  BY <1>1 DEF Consult
<1>3. Orderly(fetch[f], gates)
  BY DEF PageInv
<1>4. /\ Orderly(t, gates)
      /\ LetsGo(fetch[f], allowed) <=> t.at \notin Entered
      /\ t.at \in Entered => t.gate = fetch[f].gate
  BY <1>1, <1>2, <1>3, DecidedIsOrderly
<1>5. fetch[f].at \in Entered /\ fetch[f].at \notin {"idle", "global"}
  BY <1>2 DEF Entered
<1>6. CASE t.at \in Entered
  <2>1. inside' = inside
    BY <1>2, <1>4, <1>6
  <2>. QED
    BY <1>2, <1>4, <1>5, <1>6, <2>1, StepKeeps
<1>7. CASE t.at \notin Entered
  <2>1. inside' = inside \ Held(f)
    BY <1>2, <1>4, <1>7
  <2>. QED
    BY <1>2, <1>4, <1>5, <1>7, <2>1, StepKeeps
<1>. QED
  BY <1>6, <1>7

LEMMA AskRobotsKeeps ==
  ASSUME PageInv, NEW f \in Fetchers, AskRobots(f)
  PROVE  PageInv'
<1>0. PICK old : old = fetch[f]
  OBVIOUS
<1>. DEFINE s == [old EXCEPT !.at = IF @ = "ask" THEN "wait" ELSE "wait_next"]
<1>1. old.at \in {"ask", "ask_next"} /\ Go(f, s) /\ gates' = gates /\ inside' = inside
  BY <1>0 DEF AskRobots
<1>2. Orderly(old, gates) /\ old \in FetchRecord
  BY <1>0 DEF PageInv, Orderly
<1>3. /\ s.at \in {"wait", "wait_next"} /\ s.gate = old.gate /\ s.bytes = old.bytes
      /\ s.want = old.want /\ s.page = old.page /\ s \in FetchRecord
  BY <1>1, <1>2 DEF FetchRecord, Steps, Entered
<1>. HIDE DEF s
<1>4. Orderly(s, gates)
  BY <1>1, <1>2, <1>3 DEF Orderly, Gateless
<1>. QED
  BY <1>0, <1>1, <1>3, <1>4, StepKeeps DEF Entered

LEMMA RedirectedKeeps ==
  ASSUME PageInv, NEW f \in Fetchers, Redirected(f)
  PROVE  PageInv'
<1>0. PICK old : old = fetch[f]
  OBVIOUS
<1>1. old.at = "requested" /\ gates' = gates
  BY <1>0 DEF Redirected
<1>2. Orderly(old, gates) /\ old \in FetchRecord
  BY <1>0 DEF PageInv, Orderly
<1>3. PICK page \in Pages :
        \/ Return(f)
        \/ Again(f, old.bytes)
        \/ /\ page \in old.want.scope
           /\ LET s == [old EXCEPT !.page = page, !.hops = @ + 1] IN
              IF HostOf[page] = HostOf[old.page]
              THEN Go(f, [s EXCEPT !.at = "ask_next"]) /\ UNCHANGED inside
              ELSE /\ Go(f, [s EXCEPT !.at = "reserve_next", !.gate = NoGate])
                   /\ inside' = inside \ Held(f)
  BY <1>0 DEF Redirected, Origin
<1>4. CASE Return(f)
  BY <1>1, <1>4, ReturnKeeps
<1>5. CASE Again(f, old.bytes)
  <2>1. old.bytes \in Nat
    BY <1>2 DEF FetchRecord
  <2>. QED
    BY <1>0, <1>1, <1>5, <2>1, AgainKeeps
<1>6. CASE /\ page \in old.want.scope /\ HostOf[page] = HostOf[old.page]
           /\ Go(f, [[old EXCEPT !.page = page, !.hops = @ + 1] EXCEPT !.at = "ask_next"])
           /\ inside' = inside
  <2>. DEFINE t == [[old EXCEPT !.page = page, !.hops = @ + 1] EXCEPT !.at = "ask_next"]
  <2>1. "ask_next" \in Steps
    BY DEF Steps, Entered
  <2>. DEFINE s == [old EXCEPT !.page = page, !.hops = @ + 1]
  <2>7. PICK hops \in Nat : hops = old.hops + 1
    BY <1>2 DEF FetchRecord
  <2>8. s = [old EXCEPT !.page = page, !.hops = hops]
    BY <2>7
  <2>. HIDE DEF s
  <2>5. /\ s \in FetchRecord /\ s.gate = old.gate /\ s.page = page
        /\ s.want = old.want /\ s.bytes = old.bytes
    BY <1>2, <2>8 DEF FetchRecord
  <2>6. t = [s EXCEPT !.at = "ask_next"]
    BY DEF s
  <2>. HIDE DEF t
  <2>2. /\ t \in FetchRecord /\ t.at = "ask_next" /\ t.gate = old.gate /\ t.page = page
        /\ t.want = old.want /\ t.bytes = old.bytes
    BY <2>1, <2>5, <2>6 DEF FetchRecord
  <2>3. Go(f, t)
    BY <1>6 DEF t
  <2>4. Orderly(t, gates)
    BY <1>1, <1>2, <1>6, <2>2 DEF Orderly, Gateless
  <2>. QED
    BY <1>0, <1>1, <1>6, <2>2, <2>3, <2>4, StepKeeps DEF Entered
<1>7. CASE /\ page \in old.want.scope
           /\ Go(f, [[old EXCEPT !.page = page, !.hops = @ + 1]
                       EXCEPT !.at = "reserve_next", !.gate = NoGate])
           /\ inside' = inside \ Held(f)
  <2>. DEFINE t == [[old EXCEPT !.page = page, !.hops = @ + 1]
                      EXCEPT !.at = "reserve_next", !.gate = NoGate]
  <2>1. "reserve_next" \in Steps /\ NoGate \in GateIds
    BY DEF Steps, Gateless, NoGate, GateIds
  <2>. DEFINE s == [old EXCEPT !.page = page, !.hops = @ + 1]
  <2>7. PICK hops \in Nat : hops = old.hops + 1
    BY <1>2 DEF FetchRecord
  <2>8. s = [old EXCEPT !.page = page, !.hops = hops]
    BY <2>7
  <2>. HIDE DEF s
  <2>5. /\ s \in FetchRecord /\ s.page = page /\ s.want = old.want /\ s.bytes = old.bytes
    BY <1>2, <2>8 DEF FetchRecord
  <2>6. t = [s EXCEPT !.at = "reserve_next", !.gate = NoGate]
    BY DEF s
  <2>. HIDE DEF t
  <2>2. /\ t \in FetchRecord /\ t.at = "reserve_next" /\ t.gate = NoGate /\ t.page = page
        /\ t.want = old.want /\ t.bytes = old.bytes
    BY <2>1, <2>5, <2>6 DEF FetchRecord
  <2>3. Go(f, t)
    BY <1>7 DEF t
  <2>4. Orderly(t, gates)
    BY <1>1, <1>2, <1>7, <2>2 DEF Orderly, Gateless
  <2>. QED
    BY <1>0, <1>1, <1>7, <2>2, <2>3, <2>4, StepKeeps DEF Entered
<1>. QED
  BY <1>3, <1>4, <1>5, <1>6, <1>7

(* What is read of a body stays within the request's total.                *)
LEMMA ReadingIsBounded ==
  ASSUME PageInv, NEW f \in Fetchers, NEW size \in BodySizes, NEW full \in BodySizes,
         NEW gzip \in BOOLEAN
  PROVE  Reading(f, size, gzip, full).bytes \in Nat
<1>1. fetch[f].bytes \in Nat /\ fetch[f].bytes <= MaxTotal
  BY DEF PageInv, Orderly, FetchRecord
<1>2. size \in Nat /\ full \in Nat /\ BodyLimit \in Nat /\ MaxTotal \in Nat
  BY FetchConstants
<1>3. \A m, n \in Nat : Least(m, n) \in Nat /\ Least(m, n) <= m /\ Least(m, n) <= n
  BY DEF Least
<1>4. MaxTotal - fetch[f].bytes \in Nat
  BY <1>1, <1>2
<1>5. Raw(f, size) \in Nat /\ Raw(f, size) <= MaxTotal - fetch[f].bytes
  <2>1. PICK m : m = Least(BodyLimit, MaxTotal - fetch[f].bytes)
    OBVIOUS
  <2>2. m \in Nat /\ m <= MaxTotal - fetch[f].bytes
    BY <1>2, <1>3, <1>4, <2>1
  <2>3. PICK k : k = Least(size, m)
    OBVIOUS
  <2>4. k \in Nat /\ k <= m
    BY <1>2, <1>3, <2>2, <2>3
  <2>5. Raw(f, size) = k
    BY <2>1, <2>3 DEF Raw
  <2>. QED
    BY <1>4, <2>2, <2>4, <2>5
<1>. DEFINE left == MaxTotal - fetch[f].bytes - Raw(f, size)
            most == Least(BodyLimit, left)
<1>6. left \in Nat
  BY <1>1, <1>2, <1>5
<1>7. most \in Nat
  <2>. HIDE DEF left
  <2>. QED
    BY <1>2, <1>3, <1>6
<1>8. Least(full, most) \in Nat
  <2>. HIDE DEF most
  <2>. QED
    BY <1>2, <1>3, <1>7
<1>9. fetch[f].bytes + Raw(f, size) \in Nat /\ fetch[f].bytes + size + Least(full, most) \in Nat
  <2>. HIDE DEF most
  <2>. QED
    BY <1>1, <1>2, <1>5, <1>8
<1>. QED
  BY <1>9 DEF Reading

LEMMA AnsweredKeeps ==
  ASSUME PageInv, NEW f \in Fetchers, Answered(f)
  PROVE  PageInv'
<1>1. fetch[f].at = "requested" /\ gates' = gates
  BY DEF Answered
<1>2. PICK gzip \in BOOLEAN, size \in BodySizes, full \in BodySizes :
        Again(f, Reading(f, size, gzip, full).bytes) \/ Return(f)
  BY DEF Answered
<1>3. PICK bytes : bytes = Reading(f, size, gzip, full).bytes
  OBVIOUS
<1>4. bytes \in Nat
  BY <1>3, ReadingIsBounded
<1>. QED
  BY <1>1, <1>2, <1>3, <1>4, ReturnKeeps, AgainKeeps

LEMMA RobotsAnswerKeeps ==
  ASSUME PageInv, RobotsAnswer
  PROVE  PageInv'
<1>. DEFINE Waiting(h) == {f \in Fetchers : fetch[f].at \in {"wait", "wait_next"} /\ Origin(f) = h}
            All(h, allowed) ==
              /\ fetch' = [f \in Fetchers |-> IF f \in Waiting(h) THEN Decided(fetch[f], allowed)
                                              ELSE fetch[f]]
              /\ inside' = {x \in inside : x[1] \notin Waiting(h) \/ ~LetsGo(fetch[x[1]], allowed)}
<1>0. PICK h \in asking : (\E answer \in Policies[h] : All(h, answer)) \/ All(h, {})
  BY DEF RobotsAnswer
<1>1. PICK allowed : All(h, allowed)
  BY <1>0
<1>. DEFINE waiting == Waiting(h)
<1>2. gates' = gates
  BY DEF RobotsAnswer
<1>3. ASSUME NEW f \in waiting
      PROVE  /\ fetch'[f] = Decided(fetch[f], allowed) /\ Orderly(fetch'[f], gates)
             /\ LetsGo(fetch[f], allowed) <=> fetch'[f].at \notin Entered
             /\ fetch'[f].at \in Entered => fetch'[f].gate = fetch[f].gate
             /\ fetch[f].at \in Entered
  <2>1. Orderly(fetch[f], gates) /\ fetch[f].at \in {"ask", "wait", "ask_next", "wait_next"}
    BY DEF PageInv
  <2>2. fetch'[f] = Decided(fetch[f], allowed)
    BY <1>1
  <2>3. fetch[f].at \in Entered
    BY DEF Entered
  <2>. QED
    BY <2>1, <2>2, <2>3, DecidedIsOrderly
<1>4. ASSUME NEW f \in Fetchers, f \notin waiting
      PROVE  fetch'[f] = fetch[f] /\ Orderly(fetch'[f], gates)
  BY <1>1, <1>4 DEF PageInv
<1>5. \A f \in Fetchers : Orderly(fetch'[f], gates)
  BY <1>3, <1>4
<1>6. fetch' \in [Fetchers -> FetchRecord]
  <2>1. \A f \in Fetchers : fetch'[f] \in FetchRecord
    BY <1>5 DEF Orderly
  <2>. QED
    BY <1>1, <2>1
<1>7. \A x \in inside : x[1] \in Fetchers /\ fetch[x[1]].at \in Entered
  BY DEF PageInv
<1>8. inside' = {x \in inside : fetch'[x[1]].at \in Entered}
  <2>1. \A x \in inside : (x[1] \notin waiting \/ ~LetsGo(fetch[x[1]], allowed))
                            <=> fetch'[x[1]].at \in Entered
    BY <1>3, <1>4, <1>7
  <2>. HIDE DEF waiting
  <2>2. inside' = {x \in inside : x[1] \notin waiting \/ ~LetsGo(fetch[x[1]], allowed)}
    BY <1>1 DEF waiting
  <2>. QED
    BY <2>1, <2>2
<1>9. \A f \in Fetchers : fetch'[f].at \in Entered =>
        fetch[f].at \in Entered /\ fetch'[f].gate = fetch[f].gate
  BY <1>3, <1>4
<1>10. \A f \in Fetchers : fetch[f].at \in {"idle", "global"} => fetch'[f].at \in {"idle", "global"}
  BY <1>4
<1>. HIDE DEF waiting
<1>. QED
  BY <1>2, <1>5, <1>6, <1>8, <1>9, <1>10, MovesKeep

LEMMA PageRests ==
  ASSUME PageInv, UNCHANGED <<gates, inside, fetch>>
  PROVE  PageInv'
<1>1. \A f \in Fetchers : Orderly(fetch[f], gates)'
  BY DEF PageInv, Orderly
<1>2. \A g \in GateIds : Within(g)' = Within(g)
  BY DEF Within
<1>3. Running' = Running
  BY DEF Running
<1>. QED
  BY <1>1, <1>2, <1>3 DEF PageInv, GatesSound

LEMMA PageInductive == PageInv /\ [PageNext]_pageVars => PageInv'
<1>. SUFFICES ASSUME PageInv, [PageNext]_pageVars PROVE PageInv'
  OBVIOUS
<1>1. ASSUME NEW f \in Fetchers,
             Begin(f) \/ TakeGlobal(f) \/ Reserve(f) \/ Enter(f) \/ Consult(f) \/ AskRobots(f)
      PROVE  PageInv'
  BY <1>1, BeginKeeps, TakeGlobalKeeps, ReserveGateKeeps, EnterKeeps, ConsultKeeps, AskRobotsKeeps
<1>2. ASSUME NEW f \in Fetchers, RequestFails(f) \/ NotModified(f) PROVE PageInv'
  <2>1. fetch[f].bytes \in Nat
    BY DEF PageInv, Orderly, FetchRecord
  <2>2. /\ gates' = gates /\ fetch[f].at = "requested"
        /\ Again(f, fetch[f].bytes) \/ Return(f)
    BY <1>2 DEF RequestFails, NotModified
  <2>3. PICK bytes : bytes = fetch[f].bytes
    OBVIOUS
  <2>. QED
    BY <2>1, <2>2, <2>3, AgainKeeps, ReturnKeeps
<1>3. ASSUME NEW f \in Fetchers, Redirected(f) \/ Answered(f) PROVE PageInv'
  BY <1>3, RedirectedKeeps, AnsweredKeeps
<1>4. ASSUME NEW f \in Fetchers, Cancelled(f) PROVE PageInv'
  BY <1>4, ReturnKeeps DEF Cancelled
<1>5. CASE PipelineAsks \/ PolicyExpires
  BY <1>5, PageRests DEF PipelineAsks, PolicyExpires
<1>6. CASE RobotsAnswer
  BY <1>6, RobotsAnswerKeeps
<1>7. CASE UNCHANGED pageVars
  BY <1>7, PageRests DEF pageVars
<1>. QED
  BY <1>1, <1>2, <1>3, <1>4, <1>5, <1>6, <1>7 DEF PageNext

(* A host never has more of this process's requests than its limit, who    *)
(* queues holds nothing others wait for, only what this fetch found        *)
(* allowed and in its scope is requested, and all attempts together read   *)
(* no more than the request allows (fetcher.go).                           *)
THEOREM FetchesAreWellBehaved == PageSpec => []FetchesBehave
<1>1. PageInv => FetchesBehave
  <2>. SUFFICES ASSUME PageInv PROVE FetchesBehave
    OBVIOUS
  <2>1. HostsSpared
    <3>. SUFFICES ASSUME NEW h \in Hosts
         PROVE  Cardinality({x \in inside : HostOf[fetch[x[1]].page] = h}) <= PerHost
      BY DEF HostsSpared
    <3>. DEFINE seen == {x \in inside : HostOf[fetch[x[1]].page] = h}
    <3>1. \A x \in seen : /\ h \in DOMAIN gates /\ x[2] = <<h, gates[h]>>
      BY DEF PageInv, Orderly, Gateless, Entered
    <3>2. CASE seen = {}
      BY <3>2, FS_EmptySet, FetchConstants
    <3>3. CASE seen # {}
      <4>1. h \in DOMAIN gates /\ <<h, gates[h]>> \in GateIds
        BY <3>1, <3>3 DEF PageInv, GatesSound, GateIds
      <4>2. PICK g \in GateIds : g = <<h, gates[h]>>
        BY <4>1
      <4>3. seen \subseteq Within(g) /\ Within(g) \subseteq inside
        BY <3>1, <4>2 DEF Within
      <4>4. IsFiniteSet(Within(g)) /\ Cardinality(Within(g)) \in Nat /\ Cardinality(Within(g)) <= PerHost
        BY <4>3, InsideIsFinite, FS_Subset, FS_CardinalityType DEF PageInv
      <4>. HIDE DEF seen
      <4>5. IsFiniteSet(seen) /\ Cardinality(seen) <= Cardinality(Within(g)) /\ Cardinality(seen) \in Nat
        BY <4>3, <4>4, FS_Subset, FS_CardinalityType
      <4>6. Cardinality(seen) <= PerHost
        BY <4>4, <4>5, FetchConstants
      <4>. QED
        BY <4>6 DEF seen
    <3>. QED
      BY <3>2, <3>3
  <2>2. NobodyStuck
    BY PlacesOfOne DEF NobodyStuck, Entered
  <2>3. OnlyCleared /\ BytesBounded
    BY DEF PageInv, Orderly, OnlyCleared, BytesBounded
  <2>. QED
    BY <2>1, <2>2, <2>3 DEF FetchesBehave
<1>. QED
  BY <1>1, PageStarts, PageInductive, PTL DEF PageSpec

-----------------------------------------------------------------------------
(* ServerRun.  What has been opened is either closed or left to one of the *)
(* deferred closers, which have nothing in common; and what has passed at  *)
(* a shutdown does not come back.                                          *)

Stores == {"index", "artifacts"}
Things == Stores \cup {"redis"} \cup ToSet(OpenPacks)
Phases == {"stores", "config", "ready", "waiting", "returning", "exited"} \cup Listeners
Named(q) == UNION {ToSet(q[i]) : i \in DOMAIN q}
(* deferred closers q that have nothing in common, and nothing is done     *)
Apart(q, done) ==
  /\ \A i \in DOMAIN q : IsInjective(q[i]) /\ ToSet(q[i]) \cap done = {}
  /\ \A i, j \in DOMAIN q : i # j => ToSet(q[i]) \cap ToSet(q[j]) = {}
Pending == Named(closers)

Books ==
  /\ mode \in DOMAIN Modes /\ at \in Phases
  /\ opened \in Seq(Things) /\ closed \in Seq(Things) /\ closers \in Seq(Seq(Things))
  /\ IsInjective(closed) /\ Apart(closers, ToSet(closed))
  /\ at # "stores" => ToSet(opened) = ToSet(closed) \cup Pending
  /\ at \in {"stores", "config"} => closed = << >> /\ "redis" \notin ToSet(opened) \cup Pending
  /\ at = "stores" =>
       /\ Len(opened) <= Len(Local) + Len(OpenPacks)
       /\ \A i \in DOMAIN opened :
            opened[i] = IF i <= Len(Local) THEN Local[i] ELSE OpenPacks[i - Len(Local)]
       /\ Pending = {opened[i] : i \in {k \in DOMAIN opened : k <= Len(Local)}}
  /\ ToSet(closed) \cap Stores # {} => at \in {"returning", "exited"}
  /\ at = "exited" => closers = << >>

(* The listeners whose shutdown run() has left behind.                     *)
Past == CASE at = "proxy" -> {"federation"} [] at = "public" -> {"federation", "proxy"}
          [] at \in {"returning", "exited"} -> Listeners [] OTHER -> {}
Quiet ==
  /\ {late, failed} \subseteq BOOLEAN
  /\ listening \subseteq Listeners /\ serving \in [Callers -> Listeners \cup {"none"}]
  /\ at \in {"stores", "config", "ready"} =>
       sweeper = "off" /\ listening = {} /\ \A c \in Callers : serving[c] = "none"
  /\ ToSet(closed) \cap Stores # {} => Joined
  /\ \/ late \/ failed
     \/ \A l \in Past : l \notin listening /\ \A c \in Callers : serving[c] # l

(* Sequences and their elements.                                           *)
LEMMA Joining ==
  ASSUME NEW S, NEW s \in Seq(S), NEW t \in Seq(S)
  PROVE  /\ s \o t \in Seq(S) /\ ToSet(s \o t) = ToSet(s) \cup ToSet(t)
         /\ IsInjective(s) /\ IsInjective(t) /\ ToSet(s) \cap ToSet(t) = {} => IsInjective(s \o t)
<1>1. /\ s \o t \in Seq(S) /\ Len(s \o t) = Len(s) + Len(t) /\ Len(s) \in Nat /\ Len(t) \in Nat
      /\ \A i \in 1..Len(s) : (s \o t)[i] = s[i]
      /\ \A i \in (Len(s) + 1)..(Len(s) + Len(t)) : (s \o t)[i] = t[i - Len(s)]
  OBVIOUS
<1>2. DOMAIN s = 1..Len(s) /\ DOMAIN t = 1..Len(t) /\ DOMAIN (s \o t) = 1..(Len(s) + Len(t))
  BY <1>1
<1>3. PICK u : u = s \o t
  OBVIOUS
<1>4. ToSet(u) = ToSet(s) \cup ToSet(t)
  <2>1. ASSUME NEW i \in DOMAIN u PROVE u[i] \in ToSet(s) \cup ToSet(t)
    <3>1. CASE i <= Len(s)
      BY <1>1, <1>2, <1>3, <3>1 DEF ToSet
    <3>2. CASE i > Len(s)
      <4>1. i - Len(s) \in DOMAIN t /\ u[i] = t[i - Len(s)]
        BY <1>1, <1>2, <1>3, <3>2
      <4>. QED
        BY <4>1 DEF ToSet
    <3>. QED
      BY <1>1, <1>2, <1>3, <3>1, <3>2
  <2>2. ASSUME NEW i \in DOMAIN s PROVE s[i] \in ToSet(u)
    BY <1>1, <1>2, <1>3 DEF ToSet
  <2>3. ASSUME NEW i \in DOMAIN t PROVE t[i] \in ToSet(u)
    <3>1. i + Len(s) \in DOMAIN u /\ u[i + Len(s)] = t[i]
      BY <1>1, <1>2, <1>3
    <3>. QED
      BY <3>1 DEF ToSet
  <2>. QED
    BY <2>1, <2>2, <2>3 DEF ToSet
<1>5. ASSUME IsInjective(s), IsInjective(t), ToSet(s) \cap ToSet(t) = {},
             NEW i \in DOMAIN u, NEW j \in DOMAIN u, u[i] = u[j]
      PROVE  i = j
  <2>1. ASSUME NEW k \in DOMAIN u, k > Len(s)
        PROVE  k - Len(s) \in DOMAIN t /\ u[k] = t[k - Len(s)] /\ u[k] \in ToSet(t)
    <3>1. k - Len(s) \in DOMAIN t /\ u[k] = t[k - Len(s)]
      BY <1>1, <1>2, <1>3, <2>1
    <3>. QED
      BY <3>1 DEF ToSet
  <2>2. ASSUME NEW k \in DOMAIN u, k <= Len(s)
        PROVE  k \in DOMAIN s /\ u[k] = s[k] /\ u[k] \in ToSet(s)
    BY <1>1, <1>2, <1>3, <2>2 DEF ToSet
  <2>3. i \in Int /\ j \in Int
    BY <1>2, <1>3
  <2>4. CASE i <= Len(s) /\ j <= Len(s)
    BY <1>5, <2>2, <2>4 DEF IsInjective
  <2>5. CASE i > Len(s) /\ j > Len(s)
    <3>1. i - Len(s) = j - Len(s)
      BY <1>5, <2>1, <2>5 DEF IsInjective
    <3>. QED
      BY <1>1, <2>3, <3>1
  <2>6. CASE i <= Len(s) /\ j > Len(s)
    BY <1>5, <2>1, <2>2, <2>6
  <2>7. CASE i > Len(s) /\ j <= Len(s)
    BY <1>5, <2>1, <2>2, <2>7
  <2>. QED
    BY <1>1, <2>3, <2>4, <2>5, <2>6, <2>7
<1>. QED
  BY <1>1, <1>3, <1>4, <1>5 DEF IsInjective

LEMMA Reversing ==
  ASSUME NEW S, NEW s \in Seq(S)
  PROVE  /\ Reverse(s) \in Seq(S) /\ ToSet(Reverse(s)) = ToSet(s)
         /\ IsInjective(s) => IsInjective(Reverse(s))
<1>. DEFINE r == Reverse(s)
<1>1. /\ Len(s) \in Nat /\ DOMAIN s = 1..Len(s) /\ DOMAIN r = 1..Len(s)
      /\ \A i \in 1..Len(s) : s[i] \in S /\ r[i] = s[(Len(s) - i) + 1]
  BY DEF Reverse
<1>2. \A i \in 1..Len(s) : (Len(s) - i) + 1 \in 1..Len(s)
  BY <1>1
<1>3. r \in Seq(S)
  <2>1. r = [i \in 1..Len(s) |-> s[(Len(s) - i) + 1]]
    BY DEF Reverse
  <2>2. \A i \in 1..Len(s) : s[(Len(s) - i) + 1] \in S
    BY <1>1, <1>2
  <2>. QED
    BY <1>1, <2>1, <2>2, IsASeq
<1>4. ToSet(r) = ToSet(s)
  <2>1. ASSUME NEW i \in 1..Len(s) PROVE r[i] \in ToSet(s) /\ s[i] \in ToSet(r)
    <3>1. PICK k \in 1..Len(s) : k = (Len(s) - i) + 1
      BY <1>2
    <3>2. r[i] = s[k]
      BY <1>1, <3>1
    <3>3. r[k] = s[i]
      <4>1. (Len(s) - k) + 1 = i
        BY <1>1, <3>1
      <4>. QED
        BY <1>1, <4>1
    <3>. HIDE DEF r
    <3>. QED
      BY <1>1, <3>2, <3>3 DEF ToSet
  <2>. HIDE DEF r
  <2>. QED
    BY <1>1, <2>1 DEF ToSet
<1>5. ASSUME IsInjective(s), NEW i \in DOMAIN r, NEW j \in DOMAIN r, r[i] = r[j] PROVE i = j
  <2>1. (Len(s) - i) + 1 = (Len(s) - j) + 1
    <3>. HIDE DEF r
    <3>. QED
      BY <1>1, <1>2, <1>5 DEF IsInjective
  <2>2. i \in Int /\ j \in Int
    BY <1>1
  <2>. QED
    BY <1>1, <2>1, <2>2
<1>. QED
  BY <1>3, <1>4, <1>5 DEF IsInjective

LEMMA Alone ==
  ASSUME NEW S, NEW x \in S
  PROVE  <<x>> \in Seq(S) /\ ToSet(<<x>>) = {x} /\ IsInjective(<<x>>)
<1>1. /\ <<x>> \in Seq(S) /\ DOMAIN <<x>> = {1} /\ <<x>>[1] = x
  OBVIOUS
<1>. QED
  BY <1>1 DEF ToSet, IsInjective

LEMMA Adding ==
  ASSUME NEW S, NEW s \in Seq(S), NEW x \in S
  PROVE  /\ Append(s, x) \in Seq(S) /\ ToSet(Append(s, x)) = ToSet(s) \cup {x}
         /\ IsInjective(s) /\ x \notin ToSet(s) => IsInjective(Append(s, x))
<1>1. PICK t : t = <<x>>
  OBVIOUS
<1>2. t \in Seq(S) /\ ToSet(t) = {x} /\ IsInjective(t)
  BY <1>1, Alone
<1>3. Append(s, x) = s \o t
  BY <1>1
<1>4. /\ s \o t \in Seq(S) /\ ToSet(s \o t) = ToSet(s) \cup ToSet(t)
      /\ IsInjective(s) /\ IsInjective(t) /\ ToSet(s) \cap ToSet(t) = {} => IsInjective(s \o t)
  BY <1>2, Joining
<1>. QED
  BY <1>2, <1>3, <1>4

LEMMA Deferring ==
  ASSUME NEW S, NEW q \in Seq(Seq(S)), NEW done, Apart(q, done),
         NEW c \in Seq(S), IsInjective(c), ToSet(c) \cap (done \cup Named(q)) = {}
  PROVE  /\ <<c>> \o q \in Seq(Seq(S)) /\ Apart(<<c>> \o q, done)
         /\ Named(<<c>> \o q) = ToSet(c) \cup Named(q)
<1>1. PICK r : r = <<c>> \o q
  OBVIOUS
<1>2. /\ r \in Seq(Seq(S)) /\ Len(q) \in Nat /\ DOMAIN q = 1..Len(q)
      /\ DOMAIN r = 1..(Len(q) + 1) /\ r[1] = c
      /\ \A i \in 2..(Len(q) + 1) : r[i] = q[i - 1]
      /\ \A i \in 1..Len(q) : r[i + 1] = q[i]
  BY <1>1
<1>3. ASSUME NEW i \in DOMAIN r, i # 1 PROVE i - 1 \in DOMAIN q /\ r[i] = q[i - 1]
  <2>1. i \in Int /\ 1 <= i /\ i <= Len(q) + 1
    BY <1>2
  <2>2. i \in 2..(Len(q) + 1)
    BY <1>2, <1>3, <2>1
  <2>3. r[i] = q[i - 1]
    BY <1>2, <2>2
  <2>4. i - 1 \in 1..Len(q)
    BY <1>2, <2>2
  <2>. QED
    BY <1>2, <2>3, <2>4
<1>4. Named(r) = ToSet(c) \cup Named(q)
  <2>1. ASSUME NEW i \in DOMAIN r PROVE ToSet(r[i]) \subseteq ToSet(c) \cup Named(q)
    <3>1. CASE i = 1
      BY <1>2, <3>1
    <3>2. CASE i # 1
      BY <1>3, <3>2 DEF Named
    <3>. QED
      BY <3>1, <3>2
  <2>2. ASSUME NEW i \in DOMAIN q PROVE ToSet(q[i]) \subseteq Named(r)
    <3>1. i + 1 \in DOMAIN r /\ r[i + 1] = q[i]
      BY <1>2
    <3>. QED
      BY <3>1 DEF Named
  <2>3. ToSet(c) \subseteq Named(r)
    <3>1. 1 \in DOMAIN r /\ r[1] = c
      BY <1>2
    <3>. QED
      BY <3>1 DEF Named
  <2>. QED
    BY <2>1, <2>2, <2>3 DEF Named
<1>5. Apart(r, done)
  <2>1. ASSUME NEW i \in DOMAIN r PROVE IsInjective(r[i]) /\ ToSet(r[i]) \cap done = {}
    BY <1>2, <1>3 DEF Apart
  <2>2. ASSUME NEW i \in DOMAIN r, NEW j \in DOMAIN r, i # j
        PROVE  ToSet(r[i]) \cap ToSet(r[j]) = {}
    <3>1. \A k \in DOMAIN q : ToSet(q[k]) \cap ToSet(c) = {}
      BY DEF Named
    <3>2. CASE i = 1 \/ j = 1
      BY <1>2, <1>3, <2>2, <3>1, <3>2
    <3>3. CASE i # 1 /\ j # 1
      <4>1. i - 1 # j - 1
        BY <1>2, <2>2
      <4>. QED
        BY <1>3, <3>3, <4>1 DEF Apart
    <3>. QED
      BY <3>2, <3>3
  <2>. QED
    BY <2>1, <2>2 DEF Apart
<1>. QED
  BY <1>1, <1>2, <1>4, <1>5

LEMMA RunningOne ==
  ASSUME NEW S, NEW q \in Seq(Seq(S)), q # << >>, NEW done, Apart(q, done)
  PROVE  /\ Head(q) \in Seq(S) /\ IsInjective(Head(q)) /\ ToSet(Head(q)) \cap done = {}
         /\ Tail(q) \in Seq(Seq(S)) /\ Apart(Tail(q), done \cup ToSet(Head(q)))
         /\ Named(q) = ToSet(Head(q)) \cup Named(Tail(q))
<1>1. PICK r, h : r = Tail(q) /\ h = Head(q)
  OBVIOUS
<1>2. /\ r \in Seq(Seq(S)) /\ Len(q) \in Nat \ {0} /\ DOMAIN q = 1..Len(q)
      /\ DOMAIN r = 1..(Len(q) - 1) /\ q[1] = h /\ h \in Seq(S)
      /\ \A i \in 1..(Len(q) - 1) : r[i] = q[i + 1]
  BY <1>1
<1>3. ASSUME NEW i \in DOMAIN r PROVE i + 1 \in DOMAIN q /\ r[i] = q[i + 1] /\ i + 1 # 1
  BY <1>2
<1>4. 1 \in DOMAIN q
  BY <1>2
<1>5. Named(q) = ToSet(h) \cup Named(r)
  <2>1. ASSUME NEW i \in DOMAIN q PROVE ToSet(q[i]) \subseteq ToSet(h) \cup Named(r)
    <3>1. CASE i = 1
      BY <1>2, <3>1
    <3>2. CASE i # 1
      <4>1. i - 1 \in DOMAIN r /\ r[i - 1] = q[i]
        BY <1>2, <3>2
      <4>. QED
        BY <4>1 DEF Named
    <3>. QED
      BY <3>1, <3>2
  <2>2. ASSUME NEW i \in DOMAIN r PROVE ToSet(r[i]) \subseteq Named(q)
    BY <1>3 DEF Named
  <2>3. ToSet(h) \subseteq Named(q)
    BY <1>2, <1>4 DEF Named
  <2>. QED
    BY <2>1, <2>2, <2>3 DEF Named
<1>6. Apart(r, done \cup ToSet(h))
  <2>1. ASSUME NEW i \in DOMAIN r
        PROVE  IsInjective(r[i]) /\ ToSet(r[i]) \cap (done \cup ToSet(h)) = {}
    BY <1>2, <1>3, <1>4 DEF Apart
  <2>2. ASSUME NEW i \in DOMAIN r, NEW j \in DOMAIN r, i # j
        PROVE  ToSet(r[i]) \cap ToSet(r[j]) = {}
    <3>1. i + 1 # j + 1
      BY <1>2, <2>2
    <3>. QED
      BY <1>3, <3>1 DEF Apart
  <2>. QED
    BY <2>1, <2>2 DEF Apart
<1>. QED
  BY <1>1, <1>2, <1>4, <1>5, <1>6 DEF Apart

LEMMA Given ==
  ASSUME mode \in DOMAIN Modes
  PROVE  /\ Local \in Seq(Stores) /\ Len(Local) \in Nat /\ IsInjective(Local)
         /\ OpenPacks \in Seq(Things) /\ Len(OpenPacks) \in Nat /\ IsInjective(OpenPacks)
         /\ \A i \in 1..Len(OpenPacks) : OpenPacks[i] \in ToSet(OpenPacks)
         /\ ToSet(OpenPacks) \cap (Stores \cup {"redis"}) = {}
<1>1. Local \in {<< >>, <<"index">>, <<"index", "artifacts">>}
  BY ServerAssumption DEF Local
<1>2. PICK local : local = Local
  OBVIOUS
<1>3. local \in Seq(Stores) /\ Len(local) \in Nat /\ IsInjective(local)
  <2>1. CASE local = << >>
    BY <2>1 DEF IsInjective
  <2>2. CASE local = <<"index">>
    BY <2>2 DEF IsInjective, Stores
  <2>3. CASE local = <<"index", "artifacts">>
    BY <2>3 DEF IsInjective, Stores
  <2>. QED
    BY <1>1, <1>2, <2>1, <2>2, <2>3
<1>4. ToSet(OpenPacks) \subseteq Things
  BY DEF Things
<1>5. PICK packs, all : packs = OpenPacks /\ all = ToSet(OpenPacks)
  OBVIOUS
<1>6. /\ packs \in Seq(all) /\ all \subseteq Things /\ IsInjective(packs)
      /\ all \cap {"index", "artifacts", "redis"} = {}
  BY <1>4, <1>5, ServerAssumption
<1>7. packs \in Seq(Things) /\ Len(packs) \in Nat /\ \A i \in 1..Len(packs) : packs[i] \in all
  BY <1>6
<1>. QED
  BY <1>2, <1>3, <1>5, <1>6, <1>7 DEF Stores

LEMMA StoresPhase ==
  ASSUME Books, at = "stores"
  PROVE  /\ Len(opened) \in Nat /\ DOMAIN opened = 1..Len(opened)
         /\ Pending \subseteq Stores
         /\ Len(opened) < Len(Local) =>
              /\ ToSet(opened) = Pending
              /\ Local[Len(opened) + 1] \in Stores \ Pending
         /\ Len(opened) >= Len(Local) =>
              /\ Packs \in Seq(Things) /\ Len(Packs) = Len(opened) - Len(Local)
              /\ IsInjective(Packs) /\ ToSet(Packs) \subseteq ToSet(OpenPacks)
              /\ ToSet(opened) = Pending \cup ToSet(Packs)
              /\ Len(Packs) = Len(OpenPacks) => ToSet(Packs) = ToSet(OpenPacks)
<1>1. PICK n, local, m : n = Len(opened) /\ local = Local /\ m = Len(Local)
  OBVIOUS
<1>2. /\ n \in Nat /\ DOMAIN opened = 1..n /\ m \in Nat /\ DOMAIN local = 1..m
      /\ local \in Seq(Stores) /\ IsInjective(local)
      /\ \A i \in 1..m : local[i] \in Stores
  BY <1>1, Given DEF Books
<1>3. /\ n <= m + Len(OpenPacks)
      /\ \A i \in 1..n : opened[i] = IF i <= m THEN local[i] ELSE OpenPacks[i - m]
      /\ Pending = {opened[i] : i \in {k \in 1..n : k <= m}}
  BY <1>1, <1>2 DEF Books
<1>4. \A x \in Pending : \E i \in 1..m : i <= n /\ x = local[i]
  BY <1>2, <1>3
<1>5. ASSUME n < m
      PROVE  ToSet(opened) = Pending /\ local[n + 1] \in Stores \ Pending
  <2>1. {k \in 1..n : k <= m} = 1..n
    BY <1>2, <1>5
  <2>2. ToSet(opened) = Pending
    BY <1>2, <1>3, <2>1 DEF ToSet
  <2>3. n + 1 \in 1..m
    BY <1>2, <1>5
  <2>4. ASSUME local[n + 1] \in Pending PROVE FALSE
    <3>1. PICK i \in 1..m : i <= n /\ local[n + 1] = local[i]
      BY <1>4, <2>4
    <3>2. n + 1 = i
      BY <1>2, <2>3, <3>1 DEF IsInjective
    <3>. QED
      BY <1>2, <3>1, <3>2
  <2>. QED
    BY <1>2, <2>2, <2>3, <2>4
<1>6. ASSUME n >= m
      PROVE  /\ Packs \in Seq(Things) /\ Len(Packs) = n - m
             /\ IsInjective(Packs) /\ ToSet(Packs) \subseteq ToSet(OpenPacks)
             /\ ToSet(opened) = Pending \cup ToSet(Packs)
             /\ Len(Packs) = Len(OpenPacks) => ToSet(Packs) = ToSet(OpenPacks)
  <2>1. PICK packs : packs = Packs
    OBVIOUS
  <2>2. /\ packs \in Seq(Things) /\ Len(packs) = n - m /\ DOMAIN packs = 1..(n - m)
        /\ \A j \in 1..(n - m) : packs[j] = opened[m + j]
    <3>1. packs = SubSeq(opened, m + 1, n)
      BY <1>1, <2>1 DEF Packs
    <3>2. opened \in Seq(Things) /\ m + 1 \in 1..(n + 1) /\ Len(opened) = n
      BY <1>1, <1>2, <1>6 DEF Books
    <3>3. \A i \in (m + 1)..n : i \in 1..n
      BY <1>2
    <3>4. /\ packs \in Seq(Things) /\ Len(packs) = IF m + 1 <= n THEN n - (m + 1) + 1 ELSE 0
          /\ \A i \in 1..(n - (m + 1) + 1) : packs[i] = opened[m + 1 + i - 1]
      BY <1>2, <3>1, <3>2, <3>3, SubSeqProperties
    <3>5. n - (m + 1) + 1 = n - m /\ (IF m + 1 <= n THEN n - (m + 1) + 1 ELSE 0) = n - m
      BY <1>2, <1>6
    <3>6. \A j \in 1..(n - m) : m + 1 + j - 1 = m + j
      BY <1>2
    <3>. QED
      BY <3>4, <3>5, <3>6
  <2>3. ASSUME NEW j \in 1..(n - m)
        PROVE  packs[j] = OpenPacks[j] /\ j \in 1..Len(OpenPacks) /\ packs[j] \in ToSet(opened)
    <3>1. PICK i \in 1..n : i = m + j
      BY <1>2, <1>6
    <3>2. i > m /\ i - m = j /\ packs[j] = opened[i]
      BY <1>2, <2>2, <3>1
    <3>3. opened[i] = OpenPacks[j]
      BY <1>2, <1>3, <3>2
    <3>4. j \in 1..Len(OpenPacks)
      BY <1>2, <1>3, <3>1, Given DEF Books
    <3>. QED
      BY <1>2, <3>2, <3>3, <3>4 DEF ToSet
  <2>4. /\ IsInjective(OpenPacks) /\ Len(OpenPacks) \in Nat /\ DOMAIN OpenPacks = 1..Len(OpenPacks)
        /\ \A i \in 1..Len(OpenPacks) : OpenPacks[i] \in ToSet(OpenPacks)
    BY Given DEF Books
  <2>5. IsInjective(packs)
    BY <2>2, <2>3, <2>4 DEF IsInjective
  <2>6. ToSet(packs) \subseteq ToSet(OpenPacks)
    BY <2>2, <2>3, <2>4 DEF ToSet
  <2>7. ToSet(opened) = Pending \cup ToSet(packs)
    <3>1. ASSUME NEW i \in 1..n PROVE opened[i] \in Pending \cup ToSet(packs)
      <4>1. CASE i <= m
        BY <1>3, <4>1
      <4>2. CASE i > m
        <5>1. i - m \in 1..(n - m) /\ m + (i - m) = i
          BY <1>2, <4>2
        <5>2. packs[i - m] = opened[i]
          BY <2>2, <5>1
        <5>. QED
          BY <2>2, <5>1, <5>2 DEF ToSet
      <4>. QED
        BY <1>2, <4>1, <4>2
    <3>2. Pending \subseteq ToSet(opened)
      BY <1>2, <1>3 DEF ToSet
    <3>3. ToSet(packs) \subseteq ToSet(opened)
      BY <2>2, <2>3 DEF ToSet
    <3>4. ToSet(opened) \subseteq Pending \cup ToSet(packs)
      BY <1>2, <3>1 DEF ToSet
    <3>. QED
      BY <3>2, <3>3, <3>4
  <2>8. ASSUME n - m = Len(OpenPacks) PROVE ToSet(OpenPacks) \subseteq ToSet(packs)
    BY <2>2, <2>3, <2>4, <2>8 DEF ToSet
  <2>. QED
    BY <2>1, <2>2, <2>5, <2>6, <2>7, <2>8
<1>7. Pending \subseteq Stores
  BY <1>2, <1>4
<1>. QED
  BY <1>1, <1>2, <1>5, <1>6, <1>7

LEMMA BooksStart == ServerInit => Books
<1>. SUFFICES ASSUME ServerInit PROVE Books
  OBVIOUS
<1>1. PICK empty : empty = << >>
  OBVIOUS
<1>2. /\ empty \in Seq(Things) /\ empty \in Seq(Seq(Things)) /\ DOMAIN empty = {}
      /\ Len(empty) = 0
  BY <1>1
<1>3. ToSet(empty) = {} /\ IsInjective(empty) /\ Named(empty) = {} /\ Apart(empty, ToSet(empty))
  BY <1>2 DEF ToSet, IsInjective, Named, Apart
<1>4. opened = empty /\ closers = empty /\ closed = empty /\ at = "stores" /\ mode \in DOMAIN Modes
  BY <1>1 DEF ServerInit
<1>5. Len(Local) \in Nat /\ Len(OpenPacks) \in Nat
  BY <1>4, Given
<1>6. 0 <= Len(Local) + Len(OpenPacks)
  BY <1>5
<1>7. Pending = {} /\ {opened[i] : i \in {k \in DOMAIN opened : k <= Len(Local)}} = {}
  BY <1>2, <1>3, <1>4 DEF Pending
<1>. QED
  BY <1>1, <1>2, <1>3, <1>4, <1>6, <1>7 DEF Books, Phases

LEMMA BooksRest ==
  ASSUME Books, UNCHANGED <<mode, at, opened, closers, closed>>
  PROVE  Books'
BY DEF Books, Pending, Local

(* run() goes on and opens or closes nothing.                              *)
LEMMA BooksMove ==
  ASSUME Books, UNCHANGED <<mode, opened, closers, closed>>, at # "stores",
         at' \in Phases \ {"stores", "config"}, at' = "exited" => closers = << >>,
         ToSet(closed) \cap Stores # {} => at' \in {"returning", "exited"}
  PROVE  Books'
BY DEF Books, Pending

LEMMA BooksOfStore ==
  ASSUME Books, OpenStore
  PROVE  Books'
<1>1. at = "stores" /\ Len(opened) < Len(Local) /\ closed' = closed /\ mode' = mode
  BY DEF OpenStore, Unbuilt
<1>2. PICK s, n : s = Local[Len(opened) + 1] /\ n = Len(opened)
  OBVIOUS
<1>3. /\ n \in Nat /\ DOMAIN opened = 1..n /\ Pending \subseteq Stores
      /\ ToSet(opened) = Pending /\ s \in Stores \ Pending
  BY <1>1, <1>2, StoresPhase
<1>4. Len(Local) \in Nat /\ Len(OpenPacks) \in Nat
  BY Given DEF Books
<1>5. s \in Things /\ s # "redis"
  BY <1>3 DEF Things, Stores
<1>6. closed = << >> /\ ToSet(closed) = {}
  <2>1. closed = << >>
    BY <1>1 DEF Books
  <2>. QED
    BY <2>1 DEF ToSet
<1>7. CASE opened' = Append(opened, s) /\ closers' = <<<<s>>>> \o closers /\ at' = at
  <2>1. PICK c : c = <<s>>
    OBVIOUS
  <2>2. c \in Seq(Things) /\ ToSet(c) = {s} /\ IsInjective(c)
    BY <1>5, <2>1, Alone
  <2>3. /\ closers' \in Seq(Seq(Things)) /\ Apart(closers', ToSet(closed))
        /\ Named(closers') = {s} \cup Named(closers)
    <3>1. closers \in Seq(Seq(Things)) /\ Apart(closers, ToSet(closed))
      BY DEF Books
    <3>2. ToSet(c) \cap (ToSet(closed) \cup Named(closers)) = {}
      BY <1>3, <1>6, <2>2 DEF Pending
    <3>3. closers' = <<c>> \o closers
      BY <1>7, <2>1
    <3>4. PICK done : done = ToSet(closed)
      OBVIOUS
    <3>5. /\ <<c>> \o closers \in Seq(Seq(Things)) /\ Apart(<<c>> \o closers, done)
          /\ Named(<<c>> \o closers) = ToSet(c) \cup Named(closers)
      BY <2>2, <3>1, <3>2, <3>4, Deferring
    <3>. QED
      BY <2>2, <3>3, <3>4, <3>5
  <2>4. opened' \in Seq(Things) /\ ToSet(opened') = ToSet(opened) \cup {s}
    BY <1>5, <1>7, Adding DEF Books
  <2>5. /\ Len(opened') = n + 1 /\ DOMAIN opened' = 1..(n + 1) /\ opened'[n + 1] = s
        /\ \A i \in 1..n : opened'[i] = opened[i]
    BY <1>2, <1>3, <1>7 DEF Books
  <2>6. Pending' = Pending \cup {s}
    BY <2>3 DEF Pending
  <2>7. {k \in 1..(n + 1) : k <= Len(Local)} = 1..(n + 1)
    BY <1>1, <1>2, <1>3, <1>4
  <2>8. Pending' = {opened'[i] : i \in {k \in DOMAIN opened' : k <= Len(Local)}}
    BY <1>3, <2>4, <2>5, <2>6, <2>7 DEF ToSet
  <2>9. ASSUME NEW i \in 1..(n + 1)
        PROVE  opened'[i] = IF i <= Len(Local) THEN Local[i] ELSE OpenPacks[i - Len(Local)]
    <3>1. i <= Len(Local)
      BY <1>1, <1>2, <1>3, <1>4
    <3>2. CASE i = n + 1
      BY <1>2, <2>5, <3>1, <3>2
    <3>3. CASE i # n + 1
      <4>1. i \in 1..n
        BY <1>3, <3>3
      <4>2. opened[i] = Local[i]
        BY <1>1, <1>3, <3>1, <4>1 DEF Books
      <4>. QED
        BY <2>5, <3>1, <4>1, <4>2
    <3>. QED
      BY <3>2, <3>3
  <2>10. n + 1 <= Len(Local) + Len(OpenPacks)
    BY <1>1, <1>2, <1>3, <1>4
  <2>11. "redis" \notin ToSet(opened') \cup Pending'
    BY <1>1, <1>5, <2>4, <2>6 DEF Books
  <2>12. Local' = Local
    BY <1>1 DEF Local
  <2>13. mode \in DOMAIN Modes /\ closed \in Seq(Things) /\ IsInjective(closed)
    BY DEF Books
  <2>. QED
    BY <1>1, <1>6, <1>7, <2>3, <2>4, <2>5, <2>8, <2>9, <2>10, <2>11, <2>12, <2>13 DEF Books, Phases
<1>8. CASE at' = "returning" /\ UNCHANGED <<opened, closers>>
  <2>1. Pending' = Pending
    BY <1>8 DEF Pending
  <2>. QED
    BY <1>1, <1>3, <1>6, <1>8, <2>1 DEF Books, Phases
<1>. QED
  BY <1>2, <1>7, <1>8 DEF OpenStore

LEMMA BooksOfPlanner ==
  ASSUME Books, BuildDiscoveryPlanner
  PROVE  Books'
<1>1. at = "stores" /\ Len(opened) >= Len(Local) /\ mode' = mode
  BY DEF BuildDiscoveryPlanner, Unbuilt
<1>2. PICK n, packs : n = Len(opened) /\ packs = Packs
  OBVIOUS
<1>3. /\ n \in Nat /\ DOMAIN opened = 1..n /\ Pending \subseteq Stores
      /\ packs \in Seq(Things) /\ Len(packs) = n - Len(Local)
      /\ IsInjective(packs) /\ ToSet(packs) \subseteq ToSet(OpenPacks)
      /\ ToSet(opened) = Pending \cup ToSet(packs)
      /\ Len(packs) = Len(OpenPacks) => ToSet(packs) = ToSet(OpenPacks)
  BY <1>1, <1>2, StoresPhase
<1>4. /\ Len(Local) \in Nat /\ Len(OpenPacks) \in Nat /\ IsInjective(OpenPacks)
      /\ OpenPacks \in Seq(Things) /\ ToSet(OpenPacks) \cap (Stores \cup {"redis"}) = {}
      /\ \A i \in 1..Len(OpenPacks) : OpenPacks[i] \in ToSet(OpenPacks)
  BY Given DEF Books
<1>5. closed = << >> /\ ToSet(closed) = {}
  <2>1. closed = << >>
    BY <1>1 DEF Books
  <2>. QED
    BY <2>1 DEF ToSet
<1>6. CASE /\ Len(packs) < Len(OpenPacks) /\ opened' = Append(opened, OpenPacks[Len(packs) + 1])
           /\ UNCHANGED <<at, closers, closed>>
  <2>1. PICK x, m : x = OpenPacks[Len(packs) + 1] /\ m = Len(Local)
    OBVIOUS
  <2>2. m \in Nat /\ n - m \in Nat /\ n - m + 1 \in 1..Len(OpenPacks) /\ x = OpenPacks[n - m + 1]
    BY <1>1, <1>2, <1>3, <1>4, <1>6, <2>1
  <2>3. x \in ToSet(OpenPacks) /\ x \in Things /\ x # "redis"
    BY <1>4, <2>2 DEF Things
  <2>4. opened' \in Seq(Things) /\ ToSet(opened') = ToSet(opened) \cup {x}
    BY <1>6, <2>1, <2>3, Adding DEF Books
  <2>5. /\ Len(opened') = n + 1 /\ DOMAIN opened' = 1..(n + 1) /\ opened'[n + 1] = x
        /\ \A i \in 1..n : opened'[i] = opened[i]
    BY <1>2, <1>3, <1>6, <2>1 DEF Books
  <2>6. Pending' = Pending /\ Local' = Local
    BY <1>1, <1>6 DEF Pending, Local
  <2>7. {k \in 1..(n + 1) : k <= m} = {k \in 1..n : k <= m}
    BY <1>1, <1>2, <1>3, <2>1, <2>2
  <2>8. Pending = {opened'[i] : i \in {k \in DOMAIN opened' : k <= m}}
    <3>1. Pending = {opened[i] : i \in {k \in 1..n : k <= m}}
      BY <1>1, <1>3, <2>1 DEF Books
    <3>. QED
      BY <2>5, <2>7, <3>1
  <2>9. ASSUME NEW i \in 1..(n + 1)
        PROVE  opened'[i] = IF i <= m THEN Local[i] ELSE OpenPacks[i - m]
    <3>1. CASE i = n + 1
      <4>1. ~(i <= m) /\ i - m = n - m + 1
        BY <1>1, <1>2, <1>3, <2>1, <2>2, <3>1
      <4>. QED
        BY <2>2, <2>5, <3>1, <4>1
    <3>2. CASE i # n + 1
      <4>1. i \in 1..n
        BY <1>3, <3>2
      <4>. QED
        BY <1>1, <1>3, <2>1, <2>5, <4>1 DEF Books
    <3>. QED
      BY <3>1, <3>2
  <2>10. n + 1 <= m + Len(OpenPacks)
    BY <1>3, <1>4, <2>2
  <2>11. "redis" \notin ToSet(opened') \cup Pending
    BY <1>1, <2>3, <2>4 DEF Books
  <2>12. /\ mode \in DOMAIN Modes /\ closed \in Seq(Things) /\ IsInjective(closed)
         /\ closers \in Seq(Seq(Things)) /\ Apart(closers, ToSet(closed))
    BY DEF Books
  <2>. QED
    BY <1>1, <1>5, <1>6, <2>1, <2>4, <2>5, <2>6, <2>8, <2>9, <2>10, <2>11, <2>12 DEF Books, Phases
<1>7. CASE /\ Len(packs) = Len(OpenPacks) /\ closers' = <<OpenPacks>> \o closers /\ at' = "config"
           /\ UNCHANGED <<opened, closed>>
  <2>1. closers \in Seq(Seq(Things)) /\ Apart(closers, {})
    BY <1>5 DEF Books
  <2>2. ToSet(OpenPacks) \cap ({} \cup Named(closers)) = {}
    BY <1>3, <1>4 DEF Pending
  <2>3. PICK done : done = {}
    OBVIOUS
  <2>4. /\ <<OpenPacks>> \o closers \in Seq(Seq(Things)) /\ Apart(<<OpenPacks>> \o closers, done)
        /\ Named(<<OpenPacks>> \o closers) = ToSet(OpenPacks) \cup Named(closers)
    BY <1>4, <2>1, <2>2, <2>3, Deferring
  <2>5. /\ closers' \in Seq(Seq(Things)) /\ Apart(closers', ToSet(closed))
        /\ Pending' = ToSet(OpenPacks) \cup Pending
    BY <1>5, <1>7, <2>3, <2>4 DEF Pending
  <2>6. ToSet(opened) = ToSet(closed) \cup Pending'
    BY <1>3, <1>5, <1>7, <2>5
  <2>7. "redis" \notin ToSet(opened) \cup Pending'
    BY <1>1, <1>4, <2>5 DEF Books
  <2>. QED
    BY <1>1, <1>5, <1>7, <2>5, <2>6, <2>7 DEF Books, Phases
<1>8. CASE /\ closed' = FailDiscovery(packs) /\ at' = "returning" /\ UNCHANGED <<opened, closers>>
  <2>1. PICK r : r = Reverse(packs)
    OBVIOUS
  <2>2. r \in Seq(Things) /\ ToSet(r) = ToSet(packs) /\ IsInjective(r)
    BY <1>3, <2>1, Reversing
  <2>3. closed' = r
    BY <1>5, <1>8, <2>1, <2>2 DEF FailDiscovery, CloseDiscoverySources
  <2>4. Pending' = Pending
    BY <1>8 DEF Pending
  <2>5. Apart(closers, ToSet(r))
    <3>1. ASSUME NEW i \in DOMAIN closers
          PROVE  IsInjective(closers[i]) /\ ToSet(closers[i]) \cap ToSet(r) = {}
      <4>1. ToSet(closers[i]) \subseteq Stores
        BY <1>3 DEF Pending, Named
      <4>2. IsInjective(closers[i])
        BY DEF Books, Apart
      <4>. QED
        BY <1>3, <1>4, <2>2, <4>1, <4>2
    <3>. QED
      BY <3>1 DEF Books, Apart
  <2>6. ToSet(closed') \cap Stores = {}
    BY <1>3, <1>4, <2>2, <2>3
  <2>. QED
    BY <1>1, <1>3, <1>8, <2>2, <2>3, <2>4, <2>5, <2>6 DEF Books, Phases
<1>. QED
  BY <1>2, <1>6, <1>7, <1>8 DEF BuildDiscoveryPlanner

LEMMA BooksOfConfig ==
  ASSUME Books, Configure
  PROVE  Books'
<1>1. at = "config" /\ mode' = mode /\ closed = << >> /\ "redis" \notin ToSet(opened) \cup Pending
      /\ ToSet(opened) = ToSet(closed) \cup Pending
  BY DEF Configure, Unbuilt, Books
<1>2. closed \in Seq(Things) /\ ToSet(closed) = {} /\ "redis" \in Things
  BY <1>1 DEF ToSet, Books, Things
<1>3. CASE at' = "returning" /\ UNCHANGED <<opened, closers, closed>>
  BY <1>1, <1>2, <1>3, BooksMove DEF Phases
<1>4. ASSUME opened' = Append(opened, "redis")
      PROVE  opened' \in Seq(Things) /\ ToSet(opened') = ToSet(opened) \cup {"redis"}
  BY <1>2, <1>4, Adding DEF Books
<1>5. CASE /\ at' = "ready" /\ opened' = Append(opened, "redis")
           /\ closers' = <<<<"redis">>>> \o closers /\ closed' = closed
  <2>1. PICK c, done : c = <<"redis">> /\ done = ToSet(closed)
    OBVIOUS
  <2>2. c \in Seq(Things) /\ ToSet(c) = {"redis"} /\ IsInjective(c)
    BY <1>2, <2>1, Alone
  <2>3. ToSet(c) \cap (done \cup Named(closers)) = {}
    BY <1>1, <1>2, <2>1, <2>2 DEF Pending
  <2>4. /\ <<c>> \o closers \in Seq(Seq(Things)) /\ Apart(<<c>> \o closers, done)
        /\ Named(<<c>> \o closers) = ToSet(c) \cup Named(closers)
    <3>1. closers \in Seq(Seq(Things)) /\ Apart(closers, done)
      BY <2>1 DEF Books
    <3>. QED
      BY <2>2, <2>3, <3>1, Deferring
  <2>5. /\ closers' \in Seq(Seq(Things)) /\ Apart(closers', ToSet(closed'))
        /\ Pending' = {"redis"} \cup Pending
    BY <1>5, <2>1, <2>2, <2>4 DEF Pending
  <2>. QED
    BY <1>1, <1>2, <1>4, <1>5, <2>5 DEF Books, Phases
<1>6. CASE /\ at' = "ready" /\ opened' = Append(opened, "redis")
           /\ closed' = Append(closed, "redis") /\ closers' = closers
  <2>1. closed' \in Seq(Things) /\ ToSet(closed') = {"redis"} /\ IsInjective(closed')
    BY <1>2, <1>6, Adding DEF Books
  <2>2. Pending' = Pending
    BY <1>6 DEF Pending
  <2>3. Apart(closers, {"redis"})
    <3>1. \A i \in DOMAIN closers : "redis" \notin ToSet(closers[i])
      BY <1>1 DEF Pending, Named
    <3>. QED
      BY <3>1 DEF Books, Apart
  <2>. QED
    BY <1>1, <1>2, <1>4, <1>6, <2>1, <2>2, <2>3 DEF Books, Phases, Stores
<1>. QED
  BY <1>3, <1>5, <1>6 DEF Configure

LEMMA BooksOfCloser ==
  ASSUME Books, RunCloser
  PROVE  Books'
<1>1. /\ at = "returning" /\ closers # << >> /\ UNCHANGED <<at, mode, opened>>
      /\ closers' = Tail(closers) /\ closed' = closed \o Reverse(Head(closers))
  BY DEF RunCloser, CloseDiscoverySources
<1>2. PICK h, done : h = Head(closers) /\ done = ToSet(closed)
  OBVIOUS
<1>3. /\ h \in Seq(Things) /\ IsInjective(h) /\ ToSet(h) \cap done = {}
      /\ Tail(closers) \in Seq(Seq(Things)) /\ Apart(Tail(closers), done \cup ToSet(h))
      /\ Named(closers) = ToSet(h) \cup Named(Tail(closers))
  BY <1>1, <1>2, RunningOne DEF Books
<1>4. PICK r : r = Reverse(h)
  OBVIOUS
<1>5. r \in Seq(Things) /\ ToSet(r) = ToSet(h) /\ IsInjective(r)
  BY <1>3, <1>4, Reversing
<1>6. /\ closed' \in Seq(Things) /\ ToSet(closed') = done \cup ToSet(h) /\ IsInjective(closed')
  BY <1>1, <1>2, <1>3, <1>4, <1>5, Joining DEF Books
<1>7. ToSet(opened) = ToSet(closed') \cup Pending'
  BY <1>1, <1>2, <1>3, <1>6 DEF Books, Pending
<1>. QED
  BY <1>1, <1>3, <1>6, <1>7 DEF Books, Phases

LEMMA BooksOfExit ==
  ASSUME Books, Exit
  PROVE  Books'
BY BooksMove DEF Exit, Phases

LEMMA BooksKept == Books /\ [ServerNext]_serverVars => Books'
<1>. SUFFICES ASSUME Books, [ServerNext]_serverVars PROVE Books'
  OBVIOUS
<1>1. CASE ConfigFails \/ Start \/ Leave \/ Shutdown
  <2>1. /\ UNCHANGED <<mode, opened, closers, closed>> /\ at \notin {"stores", "returning", "exited"}
        /\ at' \in {"returning", "waiting"} \cup Listeners
    BY <1>1 DEF ConfigFails, Start, Leave, Shutdown, Unbuilt, After, Listeners
  <2>2. ToSet(closed) \cap Stores = {}
    BY <2>1 DEF Books
  <2>. QED
    BY <2>1, <2>2, BooksMove DEF Phases, Listeners
<1>2. CASE \/ Sweep \/ SweepOn \/ (\E c \in Callers : Request(c) \/ Answer(c))
           \/ ListenerFails \/ Signal \/ StopListening \/ TimeIsUp \/ StopSweeper
  <2>1. UNCHANGED <<mode, at, opened, closers, closed>>
    BY <1>2 DEF Sweep, SweepOn, Request, Answer, ListenerFails, Signal, StopListening, TimeIsUp,
                StopSweeper
  <2>. QED
    BY <2>1, BooksRest
<1>3. CASE UNCHANGED serverVars
  BY <1>3, BooksRest DEF serverVars
<1>. QED
  BY <1>1, <1>2, <1>3, BooksOfStore, BooksOfPlanner, BooksOfConfig, BooksOfCloser, BooksOfExit
     DEF ServerNext

-----------------------------------------------------------------------------
LEMMA QuietStart == ServerInit => Quiet
<1>. SUFFICES ASSUME ServerInit PROVE Quiet
  OBVIOUS
<1>1. /\ at = "stores" /\ closed = << >> /\ late = FALSE /\ failed = FALSE /\ listening = {}
      /\ serving = [c \in Callers |-> "none"] /\ sweeper = "off"
  BY DEF ServerInit
<1>2. ToSet(closed) = {} /\ Past = {}
  BY <1>1 DEF ToSet, Past, Listeners
<1>. QED
  BY <1>1, <1>2 DEF Quiet

(* Nothing runs yet.                                                       *)
LEMMA QuietBefore ==
  ASSUME Books, Books', Quiet,
         UNCHANGED <<mode, stopping, late, failed, listening, serving, sweeper>>,
         at \in {"stores", "config", "ready"}, at' \in {"stores", "config", "ready", "returning"}
  PROVE  Quiet'
<1>1. sweeper = "off" /\ listening = {} /\ \A c \in Callers : serving[c] = "none"
  BY DEF Quiet
<1>2. "none" \notin Past' /\ Joined'
  BY <1>1 DEF Past, Listeners, Joined
<1>3. \A l \in Past' : l \notin listening' /\ \A c \in Callers : serving'[c] # l
  BY <1>1, <1>2
<1>. QED
  BY <1>1, <1>2, <1>3 DEF Quiet

LEMMA QuietKept == Books /\ Books' /\ Quiet /\ [ServerNext]_serverVars => Quiet'
<1>. SUFFICES ASSUME Books, Books', Quiet, [ServerNext]_serverVars PROVE Quiet'
  OBVIOUS
<1>. DEFINE Over(ls, sv, past) == \A l \in past : l \notin ls /\ \A c \in Callers : sv[c] # l
<1>1. CASE OpenStore \/ BuildDiscoveryPlanner \/ Configure \/ ConfigFails
  <2>1. /\ UNCHANGED <<mode, stopping, late, failed, listening, serving, sweeper>>
        /\ at \in {"stores", "config", "ready"} /\ at' \in {"stores", "config", "ready", "returning"}
    BY <1>1 DEF OpenStore, BuildDiscoveryPlanner, Configure, ConfigFails, Unbuilt
  <2>. QED
    BY <2>1, QuietBefore
<1>2. CASE Start
  <2>1. /\ at = "ready" /\ at' = "waiting" /\ UNCHANGED <<closed, late, failed, serving>>
        /\ listening' \subseteq Listeners
    BY <1>2 DEF Start, Enabled, Listeners
  <2>2. Past' = {} /\ ToSet(closed) \cap Stores = {}
    BY <2>1 DEF Past, Books
  <2>. QED
    BY <2>1, <2>2 DEF Quiet
<1>3. CASE Sweep \/ SweepOn
  <2>1. /\ UNCHANGED <<at, closed, late, failed, listening, serving>>
        /\ at \notin {"stores", "config", "ready"} /\ ~Joined
    BY <1>3 DEF Sweep, SweepOn, Alive, Joined
  <2>2. ToSet(closed) \cap Stores = {} /\ Past' = Past
    BY <2>1 DEF Quiet, Past
  <2>. QED
    BY <2>1, <2>2 DEF Quiet
<1>4. ASSUME NEW c \in Callers, Request(c) \/ Answer(c) PROVE Quiet'
  <2>1. /\ UNCHANGED <<at, closed, late, failed, listening, sweeper>>
        /\ at \notin {"stores", "config", "ready"}
    BY <1>4 DEF Request, Answer, Alive
  <2>2. PICK l : (l \in listening \/ l = "none") /\ serving' = [serving EXCEPT ![c] = l]
    BY <1>4 DEF Request, Answer
  <2>3. l \in Listeners \cup {"none"} /\ serving' \in [Callers -> Listeners \cup {"none"}]
    BY <2>2 DEF Quiet
  <2>4. \A d \in Callers : serving'[d] = IF d = c THEN l ELSE serving[d]
    BY <2>2 DEF Quiet
  <2>5. Past' = Past /\ "none" \notin Past /\ Joined' = Joined
    BY <2>1 DEF Past, Listeners, Joined
  <2>6. late \/ failed \/ Over(listening, serving', Past)
    <3>1. CASE late \/ failed
      BY <3>1
    <3>2. CASE Over(listening, serving, Past)
      BY <2>2, <2>4, <2>5, <3>2
    <3>. QED
      BY <3>1, <3>2 DEF Quiet
  <2>. QED
    BY <2>1, <2>3, <2>5, <2>6 DEF Quiet
<1>5. CASE ListenerFails \/ StopListening
  <2>1. /\ UNCHANGED <<at, closed, late, serving, sweeper>>
        /\ listening' \subseteq listening
        /\ at \notin {"stores", "config", "ready"}
    BY <1>5 DEF ListenerFails, StopListening, Alive, Quiet, Listeners
  <2>3. failed' \in BOOLEAN /\ (failed => failed')
    <3>1. failed \in BOOLEAN
      BY DEF Quiet
    <3>2. failed' = failed \/ failed' = (failed \/ at = "waiting")
      BY <1>5 DEF ListenerFails, StopListening
    <3>3. (failed \/ at = "waiting") \in BOOLEAN
      OBVIOUS
    <3>. QED
      BY <3>1, <3>2, <3>3, Zenon
  <2>2. Past' = Past /\ Joined' = Joined
    BY <2>1 DEF Past, Joined
  <2>. QED
    BY <2>1, <2>2, <2>3 DEF Quiet
<1>6. CASE Signal \/ StopSweeper
  <2>1. UNCHANGED <<at, closed, late, failed, listening, serving, sweeper>>
    BY <1>6 DEF Signal, StopSweeper
  <2>2. Past' = Past /\ Joined' = Joined
    BY <2>1 DEF Past, Joined
  <2>. QED
    BY <2>1, <2>2 DEF Quiet
<1>7. CASE TimeIsUp
  <2>1. /\ UNCHANGED <<at, closed, failed, listening, serving, sweeper>> /\ late' = TRUE
    BY <1>7 DEF TimeIsUp
  <2>2. Joined' = Joined
    BY <2>1 DEF Joined
  <2>. QED
    BY <2>1, <2>2 DEF Quiet
<1>8. CASE Leave
  <2>1. /\ UNCHANGED <<closed, late, failed, listening, serving, sweeper>> /\ at = "waiting"
        /\ at' = "federation" \/ (at' = "returning" /\ failed)
    BY <1>8 DEF Leave
  <2>2. Joined' = Joined
    BY <2>1 DEF Joined
  <2>3. late \/ failed \/ Past' = {}
    BY <2>1 DEF Past
  <2>4. at' \notin {"stores", "config", "ready"}
    BY <2>1
  <2>. QED
    BY <2>1, <2>2, <2>3, <2>4 DEF Quiet
<1>9. CASE Shutdown
  <2>1. /\ UNCHANGED <<closed, late, failed, listening, serving, sweeper>>
        /\ at \in Listeners /\ at \notin listening /\ at' = After(at)
        /\ late \/ \A c \in Callers : serving[c] # at
    BY <1>9 DEF Shutdown
  <2>2. Joined' = Joined /\ at' \notin {"stores", "config", "ready"}
    BY <2>1 DEF Joined, After, Listeners
  <2>3. Past' = Past \cup {at}
    BY <2>1 DEF Past, After, Listeners
  <2>4. late \/ failed \/ Over(listening, serving, Past')
    BY <2>1, <2>3 DEF Quiet
  <2>. QED
    BY <2>1, <2>2, <2>4 DEF Quiet
<1>10. CASE RunCloser
  <2>1. UNCHANGED <<at, late, failed, listening, serving, sweeper>> /\ Joined
        /\ at = "returning"
    BY <1>10 DEF RunCloser
  <2>2. Past' = Past /\ Joined'
    BY <2>1 DEF Past, Joined
  <2>. QED
    BY <2>1, <2>2 DEF Quiet
<1>11. CASE Exit
  <2>1. /\ UNCHANGED <<closed, late, failed, sweeper>> /\ at' = "exited" /\ Joined
        /\ listening' = {} /\ serving' = [c \in Callers |-> "none"]
    BY <1>11 DEF Exit
  <2>2. "none" \notin Past' /\ Joined'
    BY <2>1 DEF Past, Listeners, Joined
  <2>. QED
    BY <2>1, <2>2 DEF Quiet
<1>12. CASE UNCHANGED serverVars
  BY <1>12 DEF serverVars, Quiet, Past, Joined
<1>. QED
  BY <1>1, <1>2, <1>3, <1>4, <1>5, <1>6, <1>7, <1>8, <1>9, <1>10, <1>11, <1>12 DEF ServerNext

(* Whatever fails and whenever: everything opened is closed once, when the *)
(* sweeper has ended, and no request is served meanwhile unless a listener *)
(* has failed or time was up (main.go, run).                               *)
THEOREM RunsEndInOrder == ServerSpec => []RunSound
<1>1. Books /\ Quiet => RunSound
  <2>. SUFFICES ASSUME Books, Quiet PROVE RunSound
    OBVIOUS
  <2>1. SweeperJoined
    BY DEF SweeperJoined, Quiet, Joined, Stores
  <2>2. ClosedOnce
    <3>1. ToSet(closed) \subseteq ToSet(opened)
      <4>1. CASE at = "stores"
        <5>1. closed = << >>
          BY <4>1 DEF Books
        <5>2. ToSet(closed) = {}
          BY <5>1 DEF ToSet
        <5>. QED
          BY <5>2
      <4>2. CASE at # "stores"
        BY <4>2 DEF Books
      <4>. QED
        BY <4>1, <4>2
    <3>2. ASSUME at = "exited" PROVE ToSet(closed) = ToSet(opened)
      <4>1. closers = << >> /\ ToSet(opened) = ToSet(closed) \cup Pending
        BY <3>2 DEF Books
      <4>2. Pending = {}
        BY <4>1 DEF Pending, Named
      <4>. QED
        BY <4>1, <4>2
    <3>. QED
      BY <3>1, <3>2 DEF ClosedOnce, Books
  <2>3. Drained
    <3>. SUFFICES ASSUME NEW c \in Callers, serving[c] # "none", at = "returning", ~failed, ~late
         PROVE  FALSE
      BY DEF Drained
    <3>1. Past = Listeners /\ serving[c] \in Listeners
      BY DEF Past, Quiet
    <3>. QED
      BY <3>1 DEF Quiet
  <2>. QED
    BY <2>1, <2>2, <2>3 DEF RunSound
<1>2. ServerInit => Books /\ Quiet
  BY BooksStart, QuietStart
<1>3. Books /\ Quiet /\ [ServerNext]_serverVars => (Books /\ Quiet)'
  BY BooksKept, QuietKept
<1>. QED
  BY <1>1, <1>2, <1>3, PTL DEF ServerSpec

-----------------------------------------------------------------------------
(* The rate limit.  What a stored holds now counts against what it has     *)
(* granted: together they stay within the limit over every period that     *)
(* ends now, and over the periods that have ended nothing is added.        *)
Covered(log, units, bursts) ==
  /\ \A from \in 0..second :
       Passed(log, from, second) * Token + units <= bursts * Burst + Refill * (second - from)
  /\ WithinLimit(log, bursts)
  /\ \A t \in Seconds : t >= second => log[t] = log[second]
LimitInv ==
  /\ second \in Seconds /\ losses \in Nat
  /\ shared \in [units : 0..Burst, at : 0..second, expires : Nat]
  /\ shared.expires = 0 \/ shared.expires = shared.at + TTL
  /\ granted \in [Seconds -> Nat]
  /\ Covered(granted, Available, 1 + losses)
  /\ buckets \in [Servers -> [units : 0..Burst, at : 0..second]]
  /\ admitted \in [Servers -> [Seconds -> Nat]]
  /\ \A s \in Servers : Covered(admitted[s], Refilled(buckets[s]), 1)

LEMMA LimitNumbers ==
  /\ Burst \in Nat /\ Token \in Nat /\ Refill \in Nat /\ LastSecond \in Nat
  /\ Token > 0 /\ Token <= Burst /\ Refill > 0 /\ LeastTTL \in Nat /\ LeastTTL > 0
  BY LimitAssumption

(* A stored that is forgotten would have filled up by then.                *)
LEMMA ExpiresFull ==
  /\ TTL \in Nat /\ TTL > 0
  /\ Refill * (TTL - 1) + Refill >= Burst
<1>. USE LimitNumbers
<1>. DEFINE fill == (2 * Burst) \div Refill
<1>1. fill \in Nat /\ Refill * fill + Refill > 2 * Burst
  OBVIOUS
<1>. HIDE DEF fill
<1>2. TTL \in {LeastTTL, fill} /\ TTL >= LeastTTL /\ TTL >= fill
  <2>1. \E x \in {LeastTTL, fill} : \A y \in {LeastTTL, fill} : x >= y
    BY <1>1, LeastTTL <= fill \/ fill <= LeastTTL
  <2>. QED
    BY <2>1 DEF TTL, Max, fill
<1>3. TTL \in Nat /\ TTL > 0
  BY <1>1, <1>2
<1>4. Refill * (TTL - 1) + Refill = Refill * TTL
  BY <1>3
<1>5. Refill * TTL >= Refill * fill /\ Refill * TTL >= Refill
  BY <1>1, <1>2, <1>3
<1>6. Refill * TTL \in Nat /\ Refill * fill \in Nat
  BY <1>1, <1>3
<1>7. Refill * TTL >= Burst
  BY <1>1, <1>5, <1>6
<1>. QED
  BY <1>3, <1>4, <1>7

LEMMA RefillsSlowly ==
  ASSUME NEW stored, stored.units \in 0..Burst, stored.at \in 0..second,
         second \in Nat, second' = second + 1
  PROVE  /\ Refilled(stored) \in 0..Burst
         /\ Refilled(stored)' <= Refilled(stored) + Refill
         /\ Refilled(stored)' \in 0..Burst
<1>. USE LimitNumbers
<1>1. PICK d \in Nat : d = second - stored.at
  OBVIOUS
<1>2. Refill * d \in Nat /\ Refill * (d + 1) = Refill * d + Refill
  OBVIOUS
<1>3. Refilled(stored) = Fewer(Burst, stored.units + Refill * d)
  BY <1>1 DEF Refilled
<1>4. Fewer(Burst, stored.units + Refill * ((second + 1) - stored.at))
        = Fewer(Burst, stored.units + Refill * (d + 1))
  BY <1>1
<1>. QED
  BY <1>2, <1>3, <1>4 DEF Fewer, Refilled

LEMMA PassedNumber ==
  ASSUME NEW log \in [Seconds -> Nat], NEW from \in Seconds, NEW to \in Seconds
  PROVE  Passed(log, from, to) \in Int /\ Passed(log, from, to) * Token \in Int
<1>1. CASE from = 0
  BY <1>1, LimitNumbers DEF Passed
<1>2. CASE from # 0
  <2>1. from - 1 \in Seconds
    BY <1>2, LimitNumbers DEF Seconds
  <2>2. PICK a, b : a = log[to] /\ b = log[from - 1] /\ a \in Nat /\ b \in Nat
    BY <2>1
  <2>3. Passed(log, from, to) = a - b
    BY <1>2, <2>2 DEF Passed
  <2>. QED
    BY <2>2, <2>3, LimitNumbers
<1>. QED
  BY <1>1, <1>2

(* A grant takes from the stored what it adds to the log.                  *)
LEMMA GrantHolds ==
  ASSUME second \in Seconds, NEW log \in [Seconds -> Nat], NEW units \in 0..Burst,
         NEW bursts \in Nat, Covered(log, units, bursts), units >= Token
  PROVE  /\ OneMore(log) \in [Seconds -> Nat]
         /\ Covered(OneMore(log), units - Token, bursts)
<1>. USE LimitNumbers DEF Seconds
<1>0. OneMore(log) \in [Seconds -> Nat]
  <2>1. \A t \in Seconds : (IF t >= second THEN log[t] + 1 ELSE log[t]) \in Nat
    OBVIOUS
  <2>. QED
    BY <2>1 DEF OneMore
<1>1. PICK more : more = OneMore(log) /\ more \in [Seconds -> Nat]
  BY <1>0
<1>2. /\ \A t \in Seconds : t >= second => more[t] = log[t] + 1
      /\ \A t \in Seconds : t < second => more[t] = log[t]
  BY <1>1 DEF OneMore
<1>3. ASSUME NEW from \in 0..second
      PROVE  /\ Passed(more, from, second) = Passed(log, from, second) + 1
             /\ Passed(log, from, second) \in Int
  <2>1. CASE from = 0
    BY <1>2, <2>1 DEF Passed
  <2>2. CASE from # 0
    <3>1. from - 1 \in Seconds /\ from - 1 < second
      BY <2>2
    <3>2. PICK a, b : a = log[second] /\ b = log[from - 1] /\ a \in Nat /\ b \in Nat
      BY <3>1
    <3>3. more[second] = a + 1 /\ more[from - 1] = b
      BY <1>2, <3>1, <3>2
    <3>4. Passed(log, from, second) = a - b /\ Passed(more, from, second) = (a + 1) - b
      BY <2>2, <3>2, <3>3 DEF Passed
    <3>5. (a + 1) - b = (a - b) + 1 /\ a - b \in Int
      BY <3>2
    <3>. QED
      BY <3>4, <3>5
  <2>. QED
    BY <2>1, <2>2
<1>4. ASSUME NEW from \in 0..second
      PROVE  Passed(more, from, second) * Token + (units - Token)
               <= bursts * Burst + Refill * (second - from)
  <2>1. PICK p \in Int : p = Passed(log, from, second) /\ Passed(more, from, second) = p + 1
    BY <1>3
  <2>2. (p + 1) * Token = p * Token + Token /\ p * Token \in Int
    OBVIOUS
  <2>3. PICK limit : limit = bursts * Burst + Refill * (second - from) /\ limit \in Int
    OBVIOUS
  <2>4. p * Token + units <= limit
    BY <2>1, <2>3 DEF Covered
  <2>5. (p + 1) * Token + (units - Token) <= limit
    BY <2>2, <2>3, <2>4
  <2>. QED
    BY <2>1, <2>3, <2>5
<1>5. WithinLimit(more, bursts)
  <2>. SUFFICES ASSUME NEW from \in 0..second, NEW to \in from..second
                PROVE  Passed(more, from, to) * Token <= bursts * Burst + Refill * (to - from)
    BY DEF WithinLimit
  <2>1. CASE to = second
    <3>1. PICK limit : limit = bursts * Burst + Refill * (second - from) /\ limit \in Int
      OBVIOUS
    <3>2. PICK p : p = Passed(more, from, second) * Token /\ p \in Int
      <4>1. from \in Seconds /\ second \in Seconds
        OBVIOUS
      <4>. QED
        BY <1>1, <4>1, PassedNumber
    <3>3. p + (units - Token) <= limit
      BY <1>4, <3>1, <3>2
    <3>. QED
      BY <2>1, <3>1, <3>2, <3>3
  <2>2. CASE to # second
    <3>1. Passed(more, from, to) = Passed(log, from, to)
      BY <1>2, <2>2 DEF Passed
    <3>. QED
      BY <3>1 DEF Covered, WithinLimit
  <2>. QED
    BY <2>1, <2>2
<1>6. \A t \in Seconds : t >= second => more[t] = more[second]
  BY <1>2 DEF Covered
<1>. QED
  BY <1>1, <1>4, <1>5, <1>6 DEF Covered

(* Emptier buckets and more bursts only help.                              *)
LEMMA HoldsMore ==
  ASSUME second \in Seconds, NEW log \in [Seconds -> Nat], NEW units \in Int, NEW fewer \in Int,
         NEW bursts \in Nat, NEW more \in Nat, Covered(log, units, bursts),
         bursts <= more, fewer + bursts * Burst <= units + more * Burst
  PROVE  Covered(log, fewer, more)
<1>. USE LimitNumbers DEF Seconds
<1>1. PICK b, m : b = bursts * Burst /\ m = more * Burst /\ b \in Nat /\ m \in Nat /\ b <= m
  OBVIOUS
<1>2. ASSUME NEW from \in 0..second, NEW to \in from..second
      PROVE  /\ Passed(log, from, to) * Token \in Int
             /\ Refill * (to - from) \in Int
  <2>0. from \in Seconds /\ to \in Seconds
    OBVIOUS
  <2>1. Passed(log, from, to) * Token \in Int
    BY <2>0, PassedNumber
  <2>. QED
    BY <2>1
<1>3. ASSUME NEW from \in 0..second
      PROVE  Passed(log, from, second) * Token + fewer <= m + Refill * (second - from)
  <2>1. Passed(log, from, second) * Token + units <= b + Refill * (second - from)
    BY <1>1 DEF Covered
  <2>2. PICK p, q : /\ p = Passed(log, from, second) * Token /\ q = Refill * (second - from)
                    /\ p \in Int /\ q \in Int
    BY <1>2
  <2>3. p + units <= b + q /\ fewer + b <= units + m
    BY <1>1, <2>1, <2>2
  <2>4. p + fewer <= m + q
    BY <1>1, <2>2, <2>3
  <2>. QED
    BY <2>2, <2>4
<1>4. WithinLimit(log, more)
  <2>. SUFFICES ASSUME NEW from \in 0..second, NEW to \in from..second
                PROVE  Passed(log, from, to) * Token <= more * Burst + Refill * (to - from)
    BY DEF WithinLimit
  <2>1. Passed(log, from, to) * Token <= b + Refill * (to - from)
    BY <1>1 DEF Covered, WithinLimit
  <2>2. PICK p, q : /\ p = Passed(log, from, to) * Token /\ q = Refill * (to - from)
                    /\ p \in Int /\ q \in Int
    BY <1>2
  <2>3. p <= b + q
    BY <2>1, <2>2
  <2>4. p <= m + q
    <3>1. b \in Nat /\ m \in Nat /\ b <= m
      BY <1>1
    <3>2. p \in Int /\ q \in Int
      BY <2>2
    <3>. HIDE LimitNumbers
    <3>. QED
      BY <2>3, <3>1, <3>2
  <2>. QED
    BY <1>1, <2>2, <2>4
<1>. QED
  BY <1>1, <1>3, <1>4 DEF Covered

(* A second later the stored holds no more than it held and was refilled.  *)
LEMMA WaitHolds ==
  ASSUME second \in Seconds, second < LastSecond, second' = second + 1,
         NEW log \in [Seconds -> Nat], NEW units \in Nat, NEW later \in 0..Burst,
         NEW bursts \in Nat \ {0}, Covered(log, units, bursts), later <= units + Refill
  PROVE  /\ \A from \in 0..second' :
              Passed(log, from, second') * Token + later
                <= bursts * Burst + Refill * (second' - from)
         /\ \A from \in 0..second', to \in 0..second' : from <= to =>
              Passed(log, from, to) * Token <= bursts * Burst + Refill * (to - from)
         /\ \A t \in Seconds : t >= second' => log[t] = log[second']
<1>. USE LimitNumbers DEF Seconds
<1>1. PICK b : b = bursts * Burst /\ b \in Nat /\ b >= Burst
  OBVIOUS
<1>2. PICK next : next = second' /\ next = second + 1 /\ next \in 0..LastSecond
  OBVIOUS
<1>3. \A t \in Seconds : t >= second => log[t] = log[second]
  BY DEF Covered
<1>4. ASSUME NEW from \in 0..next
      PROVE  Passed(log, from, next) * Token + later <= b + Refill * (next - from)
  <2>1. CASE from = next
    <3>1. Passed(log, from, next) = 0
      BY <1>2, <1>3, <2>1 DEF Passed
    <3>. QED
      BY <1>1, <1>2, <2>1, <3>1
  <2>2. CASE from # next
    <3>1. Passed(log, from, next) = Passed(log, from, second) /\ Passed(log, from, second) \in Int
      BY <1>2, <1>3, <2>2 DEF Passed
    <3>2. PICK p : p = Passed(log, from, second) * Token /\ p \in Int
      BY <3>1
    <3>3. p + units <= b + Refill * (second - from)
      BY <1>1, <1>2, <2>2, <3>2 DEF Covered
    <3>4. Refill * (next - from) = Refill * (second - from) + Refill
      BY <1>2, <2>2
    <3>5. Refill * (second - from) \in Int
      BY <2>2
    <3>6. p + later <= b + Refill * (next - from)
      BY <1>1, <3>2, <3>3, <3>4, <3>5
    <3>. QED
      BY <3>1, <3>2, <3>6
  <2>. QED
    BY <2>1, <2>2
<1>5. ASSUME NEW from \in 0..next, NEW to \in 0..next, from <= to
      PROVE  Passed(log, from, to) * Token <= b + Refill * (to - from)
  <2>1. Passed(log, from, to) * Token \in Int /\ Refill * (to - from) \in Int
    <3>1. Passed(log, from, to) \in Int
      BY <1>2 DEF Passed
    <3>. QED
      BY <1>2, <3>1
  <2>2. CASE to = next
    <3>1. Passed(log, from, to) * Token + later <= b + Refill * (to - from)
      BY <1>4, <2>2
    <3>. QED
      BY <1>1, <2>1, <3>1
  <2>3. CASE to # next
    BY <1>1, <1>2, <1>5, <2>3 DEF Covered, WithinLimit
  <2>. QED
    BY <2>2, <2>3
<1>6. \A t \in Seconds : t >= next => log[t] = log[next]
  BY <1>2, <1>3
<1>. QED
  BY <1>1, <1>2, <1>4, <1>5, <1>6

LEMMA AvailableUnits ==
  ASSUME LimitInv
  PROVE  /\ Available \in 0..Burst
         /\ \A s \in Servers : Refilled(buckets[s]) \in 0..Burst
         /\ shared.units \in 0..Burst /\ second \in Nat /\ shared.at \in 0..second
<1>. USE LimitNumbers
<1>1. ASSUME NEW stored, stored.units \in 0..Burst, stored.at \in 0..second, second \in Nat
      PROVE  Refilled(stored) \in 0..Burst
  <2>1. PICK d \in Nat : d = second - stored.at
    BY <1>1
  <2>2. Refill * d \in Nat
    OBVIOUS
  <2>. QED
    BY <1>1, <2>1, <2>2 DEF Refilled, Fewer
<1>2. second \in Nat
  BY DEF LimitInv, Seconds
<1>3. shared.units \in 0..Burst /\ shared.at \in 0..second
  BY DEF LimitInv
<1>4. Refilled(shared) \in 0..Burst
  BY <1>1, <1>2, <1>3
<1>5. Available \in 0..Burst
  BY <1>4 DEF Available
<1>6. ASSUME NEW s \in Servers PROVE Refilled(buckets[s]) \in 0..Burst
  <2>1. buckets[s].units \in 0..Burst /\ buckets[s].at \in 0..second
    BY DEF LimitInv
  <2>. QED
    BY <1>1, <1>2, <2>1
<1>. QED
  BY <1>2, <1>3, <1>5, <1>6

(* The script leaves what it does not grant, and the stored has just been  *)
(* written.                                                                *)
LEMMA ScriptHolds ==
  ASSUME LimitInv, NEW allowed \in BOOLEAN, Script(allowed), UNCHANGED second
  PROVE  /\ shared' \in [units : 0..Burst, at : 0..second, expires : Nat]
         /\ shared'.expires = shared'.at + TTL
         /\ granted' \in [Seconds -> Nat]
         /\ Covered(granted', Available', 1 + losses)
         /\ Available' \in 0..Burst
<1>. USE LimitNumbers
<1>1. PICK units : units = Available - (IF allowed THEN Token ELSE 0)
  OBVIOUS
<1>2. shared' = [units |-> units, at |-> second, expires |-> second + TTL]
  BY <1>1 DEF Script
<1>3. Available \in 0..Burst /\ second \in Nat
  BY AvailableUnits
<1>4. units \in 0..Burst
  <2>1. PICK a \in 0..Burst : a = Available
    BY <1>3
  <2>2. allowed => a >= Token
    BY <2>1 DEF Script
  <2>. QED
    BY <1>1, <2>1, <2>2
<1>5. Available' = units
  <2>1. second' < shared'.expires
    BY <1>2, <1>3, ExpiresFull
  <2>2. second' - shared'.at = 0 /\ shared'.units = units
    BY <1>2, <1>3
  <2>3. Refilled(shared)' = Fewer(Burst, units + Refill * 0)
    BY <2>2 DEF Refilled
  <2>. QED
    BY <1>4, <2>1, <2>3 DEF Available, Fewer
<1>6. /\ granted \in [Seconds -> Nat] /\ second \in Seconds /\ 1 + losses \in Nat
      /\ Covered(granted, Available, 1 + losses)
  BY DEF LimitInv
<1>7. granted' \in [Seconds -> Nat] /\ Covered(granted', units, 1 + losses)
  <2>1. CASE allowed
    <3>1. Available >= Token /\ granted' = OneMore(granted) /\ units = Available - Token
      BY <1>1, <2>1 DEF Script
    <3>. QED
      BY <1>3, <1>6, <3>1, GrantHolds
  <2>2. CASE ~allowed
    BY <1>1, <1>3, <1>6, <2>2 DEF Script
  <2>. QED
    BY <2>1, <2>2
<1>. QED
  BY <1>2, <1>3, <1>4, <1>5, <1>7, ExpiresFull

LEMMA LimitStarts == LimitInit => LimitInv
<1>. SUFFICES ASSUME LimitInit PROVE LimitInv
  OBVIOUS
<1>. USE LimitNumbers
<1>1. second = 0 /\ losses = 0 /\ second \in Seconds
  BY DEF LimitInit, Seconds
<1>2. shared = NoBucket /\ Available = Burst
  BY <1>1 DEF LimitInit, NoBucket, Available
<1>3. ASSUME NEW log, log = [t \in Seconds |-> 0]
      PROVE  log \in [Seconds -> Nat] /\ Covered(log, Burst, 1)
  <2>1. Passed(log, 0, 0) = 0
    BY <1>1, <1>3 DEF Passed
  <2>. QED
    BY <1>1, <1>3, <2>1 DEF Covered, WithinLimit
<1>4. granted \in [Seconds -> Nat] /\ Covered(granted, Available, 1 + losses)
  BY <1>1, <1>2, <1>3 DEF LimitInit
<1>5. /\ buckets \in [Servers -> [units : 0..Burst, at : 0..second]]
      /\ \A s \in Servers : Refilled(buckets[s]) = Burst
  BY <1>1 DEF LimitInit, Full, Refilled, Fewer
<1>6. /\ admitted \in [Servers -> [Seconds -> Nat]]
      /\ \A s \in Servers : Covered(admitted[s], Refilled(buckets[s]), 1)
  BY <1>3, <1>5 DEF LimitInit
<1>7. shared \in [units : 0..Burst, at : 0..second, expires : Nat] /\ shared.expires = 0
  BY <1>1, <1>2 DEF NoBucket
<1>. QED
  BY <1>1, <1>4, <1>5, <1>6, <1>7 DEF LimitInv

LEMMA LocalHolds ==
  ASSUME LimitInv, NEW s \in Servers, LocalAllow(s)
  PROVE  LimitInv'
<1>. USE LimitNumbers
<1>1. UNCHANGED <<second, shared, granted, losses>>
  BY DEF LocalAllow
<1>2. PICK units : units = Refilled(buckets[s]) /\ units \in 0..Burst
  BY AvailableUnits
<1>3. second \in Seconds /\ second \in Nat
  BY AvailableUnits DEF LimitInv
<1>4. /\ buckets' \in [Servers -> [units : 0..Burst, at : 0..second]]
      /\ admitted' \in [Servers -> [Seconds -> Nat]]
      /\ \A r \in Servers : Covered(admitted'[r], Refilled(buckets[r])', 1)
  <2>1. CASE units >= Token
    <3>1. /\ buckets' = [buckets EXCEPT ![s] = [units |-> units - Token, at |-> second]]
          /\ admitted' = [admitted EXCEPT ![s] = OneMore(@)]
      BY <1>2, <2>1 DEF LocalAllow
    <3>2. /\ OneMore(admitted[s]) \in [Seconds -> Nat]
          /\ Covered(OneMore(admitted[s]), units - Token, 1)
      <4>1. admitted[s] \in [Seconds -> Nat] /\ Covered(admitted[s], units, 1)
        BY <1>2 DEF LimitInv
      <4>. QED
        BY <1>2, <1>3, <2>1, <4>1, GrantHolds
    <3>3. /\ buckets' \in [Servers -> [units : 0..Burst, at : 0..second]]
          /\ admitted' \in [Servers -> [Seconds -> Nat]]
      BY <1>2, <1>3, <2>1, <3>1, <3>2 DEF LimitInv
    <3>4. Refilled(buckets[s])' = units - Token
      <4>1. /\ buckets'[s].units = units - Token /\ second' - buckets'[s].at = 0
        BY <1>1, <1>3, <3>1 DEF LimitInv
      <4>2. Refilled(buckets[s])' = Fewer(Burst, (units - Token) + Refill * 0)
        BY <4>1 DEF Refilled
      <4>. QED
        BY <1>2, <2>1, <4>2 DEF Fewer
    <3>5. ASSUME NEW r \in Servers PROVE Covered(admitted'[r], Refilled(buckets[r])', 1)
      <4>1. CASE r = s
        <5>1. admitted'[s] = OneMore(admitted[s])
          BY <3>1 DEF LimitInv
        <5>. QED
          BY <3>2, <3>4, <4>1, <5>1
      <4>2. CASE r # s
        <5>1. admitted'[r] = admitted[r] /\ buckets'[r] = buckets[r]
          BY <3>1, <4>2 DEF LimitInv
        <5>2. Refilled(buckets[r])' = Refilled(buckets[r])
          BY <1>1, <5>1 DEF Refilled
        <5>. QED
          BY <5>1, <5>2 DEF LimitInv
      <4>. QED
        BY <4>1, <4>2
    <3>. QED
      BY <3>3, <3>5
  <2>2. CASE ~(units >= Token)
    <3>1. UNCHANGED <<buckets, admitted>>
      BY <1>2, <2>2 DEF LocalAllow
    <3>2. \A r \in Servers : Refilled(buckets[r])' = Refilled(buckets[r])
      BY <1>1, <3>1 DEF Refilled
    <3>. QED
      BY <3>1, <3>2 DEF LimitInv
  <2>. QED
    BY <2>1, <2>2
<1>5. ASSUME NEW r \in Servers PROVE Covered(admitted[r], Refilled(buckets[r]), 1)'
  <2>1. Covered(admitted'[r], Refilled(buckets[r])', 1)
    BY <1>4
  <2>2. PICK u : u = Refilled(buckets[r])'
    OBVIOUS
  <2>. QED
    BY <1>1, <2>1, <2>2 DEF Covered, WithinLimit, Passed
<1>6. Covered(granted, Available, 1 + losses)'
  BY <1>1 DEF LimitInv, Covered, WithinLimit, Passed, Available, Refilled
<1>. QED
  BY <1>1, <1>4, <1>5, <1>6 DEF LimitInv

LEMMA LocalRests ==
  ASSUME LimitInv, UNCHANGED <<second, buckets, admitted>>
  PROVE  /\ (second \in Seconds)'
         /\ (buckets \in [Servers -> [units : 0..Burst, at : 0..second]])'
         /\ (admitted \in [Servers -> [Seconds -> Nat]])'
         /\ (\A s \in Servers : Covered(admitted[s], Refilled(buckets[s]), 1))'
  BY DEF LimitInv, Covered, WithinLimit, Passed, Refilled

LEMMA OneLossMore ==
  ASSUME NEW n \in Nat, NEW m, m \in {n, n + 1}
  PROVE  1 + n \in Nat /\ 1 + m \in Nat /\ 1 + n <= 1 + m
  OBVIOUS

LEMMA SharedHolds ==
  ASSUME LimitInv, UNCHANGED <<second, buckets, admitted>>,
         \/ /\ \/ \E allowed \in BOOLEAN : Script(allowed)
               \/ UNCHANGED <<shared, granted>>
            /\ losses' = losses \/ losses' = losses + 1
         \/ losses' = losses + 1 /\ shared' = NoBucket /\ UNCHANGED granted
  PROVE  LimitInv'
<1>. USE LimitNumbers
<1>1. losses \in Nat /\ second \in Seconds /\ second \in Nat
  BY AvailableUnits DEF LimitInv
<1>2. /\ losses' \in Nat /\ losses' >= losses
      /\ granted' \in [Seconds -> Nat] /\ shared' \in [units : 0..Burst, at : 0..second, expires : Nat]
      /\ shared'.expires = 0 \/ shared'.expires = shared'.at + TTL
      /\ Covered(granted', Available', 1 + losses')
  <2>1. ASSUME NEW allowed \in BOOLEAN, Script(allowed), losses' \in {losses, losses + 1}
        PROVE  Covered(granted', Available', 1 + losses')
    <3>1. /\ Covered(granted', Available', 1 + losses) /\ Available' \in 0..Burst
          /\ granted' \in [Seconds -> Nat]
      BY <2>1, ScriptHolds
    <3>2. PICK u \in Int, g \in [Seconds -> Nat] : u = Available' /\ g = granted'
      BY <3>1
    <3>0. losses' \in {losses, losses + 1}
      BY <2>1
    <3>a. 1 + losses \in Nat /\ 1 + losses' \in Nat /\ 1 + losses <= 1 + losses'
      BY <1>1, <3>0, OneLossMore
    <3>3. PICK b \in Nat, m \in Nat : b = 1 + losses /\ m = 1 + losses' /\ b <= m
      BY <3>a
    <3>4. u + b * Burst <= u + m * Burst
      BY <3>3
    <3>. QED
      BY <1>1, <3>1, <3>2, <3>3, <3>4, HoldsMore
  <2>2. CASE \E allowed \in BOOLEAN : Script(allowed) /\ losses' \in {losses, losses + 1}
    BY <1>1, <2>1, <2>2, ScriptHolds
  <2>3. CASE UNCHANGED <<shared, granted>> /\ losses' \in {losses, losses + 1}
    <3>1. Available' = Available
      BY <2>3 DEF Available, Refilled
    <3>0. losses' \in {losses, losses + 1}
      BY <2>3
    <3>a. 1 + losses \in Nat /\ 1 + losses' \in Nat /\ 1 + losses <= 1 + losses'
      BY <1>1, <3>0, OneLossMore
    <3>2. PICK b \in Nat, m \in Nat : b = 1 + losses /\ m = 1 + losses' /\ b <= m
      BY <3>a
    <3>3. PICK u \in Int : u = Available
      BY AvailableUnits
    <3>4. u + b * Burst <= u + m * Burst
      BY <3>2
    <3>5. granted \in [Seconds -> Nat] /\ Covered(granted, u, b)
      BY <3>2, <3>3 DEF LimitInv
    <3>6. Covered(granted, u, m)
      BY <1>1, <3>2, <3>4, <3>5, HoldsMore
    <3>. QED
      BY <1>1, <2>3, <3>1, <3>2, <3>3, <3>6 DEF LimitInv
  <2>4. CASE losses' = losses + 1 /\ shared' = NoBucket /\ UNCHANGED granted
    <3>1. Available' = Burst /\ shared'.expires = 0
          /\ shared' \in [units : 0..Burst, at : 0..second, expires : Nat]
      BY <1>1, <2>4 DEF Available, NoBucket
    <3>2. PICK b \in Nat, m \in Nat : b = 1 + losses /\ m = 1 + losses' /\ m = b + 1
      BY <1>1, <2>4
    <3>3. PICK u \in Int : u = Available /\ u >= 0
      BY AvailableUnits
    <3>4. Burst + b * Burst <= u + m * Burst
      BY <3>2, <3>3
    <3>5. granted \in [Seconds -> Nat] /\ Covered(granted, u, b)
      BY <3>2, <3>3 DEF LimitInv
    <3>6. Covered(granted, Burst, m)
      BY <1>1, <3>2, <3>4, <3>5, HoldsMore
    <3>. QED
      BY <1>1, <2>4, <3>1, <3>2, <3>5, <3>6
  <2>. QED
    BY <2>2, <2>3, <2>4
<1>3. Covered(granted, Available, 1 + losses)'
  BY <1>2 DEF Covered, WithinLimit, Passed
<1>. QED
  BY <1>2, <1>3, LocalRests DEF LimitInv

LEMMA TickHolds ==
  ASSUME LimitInv, SecondPasses
  PROVE  LimitInv'
<1>. USE LimitNumbers
<1>1. /\ second \in Seconds /\ second \in Nat /\ second < LastSecond /\ second' = second + 1
      /\ UNCHANGED <<shared, buckets, granted, admitted, losses>>
      /\ second' \in Seconds
  BY AvailableUnits DEF SecondPasses, Seconds
<1>2. ASSUME NEW log \in [Seconds -> Nat], NEW units \in Nat, NEW later \in 0..Burst,
             NEW bursts \in Nat \ {0}, Covered(log, units, bursts), later <= units + Refill
      PROVE  /\ \A from \in 0..second' :
                  Passed(log, from, second') * Token + later
                    <= bursts * Burst + Refill * (second' - from)
             /\ \A from \in 0..second' : \A to \in from..second' :
                  Passed(log, from, to) * Token <= bursts * Burst + Refill * (to - from)
             /\ \A t \in Seconds : t >= second' => log[t] = log[second']
  BY <1>1, <1>2, WaitHolds
<1>3. Available \in Nat /\ Available' \in 0..Burst /\ Available' <= Available + Refill
  <2>1. /\ Refilled(shared) \in 0..Burst /\ Refilled(shared)' <= Refilled(shared) + Refill
        /\ Refilled(shared)' \in 0..Burst
    <3>1. shared.units \in 0..Burst /\ shared.at \in 0..second
      BY AvailableUnits
    <3>2. Refilled(shared)' = Fewer(Burst, shared.units + Refill * (second' - shared.at))
      BY <1>1 DEF Refilled
    <3>. QED
      BY <1>1, <3>1, <3>2, RefillsSlowly DEF Refilled
  <2>2. CASE second' < shared.expires
    <3>1. second < shared.expires
      BY <1>1, <2>2 DEF LimitInv
    <3>. QED
      BY <1>1, <2>1, <2>2, <3>1 DEF Available
  <2>3. CASE ~(second < shared.expires)
    <3>1. ~(second' < shared.expires)
      BY <1>1, <2>3 DEF LimitInv
    <3>. QED
      BY <1>1, <2>3, <3>1 DEF Available
  <2>4. CASE second < shared.expires /\ ~(second' < shared.expires)
    <3>1. second + 1 = shared.at + TTL /\ shared.at \in Nat /\ shared.units \in 0..Burst
      BY <1>1, <2>4, ExpiresFull DEF LimitInv
    <3>2. second - shared.at = TTL - 1
      BY <1>1, <3>1, ExpiresFull
    <3>3. Refilled(shared) = Fewer(Burst, shared.units + Refill * (TTL - 1))
      BY <3>2 DEF Refilled
    <3>4. PICK fill \in Nat : fill = Refill * (TTL - 1) /\ fill + Refill >= Burst
      BY ExpiresFull
    <3>5. Refilled(shared) + Refill >= Burst
      BY <3>1, <3>3, <3>4 DEF Fewer
    <3>. QED
      BY <1>1, <2>1, <2>4, <3>5 DEF Available
  <2>. QED
    BY <2>2, <2>3, <2>4
<1>4. Covered(granted, Available, 1 + losses)'
  <2>1. /\ granted \in [Seconds -> Nat] /\ Covered(granted, Available, 1 + losses)
        /\ 1 + losses \in Nat \ {0}
    BY DEF LimitInv
  <2>2. PICK u \in Nat, v \in 0..Burst : u = Available /\ v = Available' /\ v <= u + Refill
    BY <1>3
  <2>. QED
    BY <1>1, <1>2, <2>1, <2>2 DEF Covered, WithinLimit, Passed
<1>5. ASSUME NEW s \in Servers PROVE Covered(admitted[s], Refilled(buckets[s]), 1)'
  <2>1. admitted[s] \in [Seconds -> Nat] /\ Covered(admitted[s], Refilled(buckets[s]), 1)
    BY DEF LimitInv
  <2>2. buckets[s].units \in 0..Burst /\ buckets[s].at \in 0..second
    BY DEF LimitInv
  <2>3. PICK stored : stored = buckets[s] /\ stored = buckets'[s]
    BY <1>1
  <2>4. PICK u \in Nat, v \in 0..Burst :
          u = Refilled(stored) /\ v = Refilled(stored)' /\ v <= u + Refill
    BY <1>1, <2>2, <2>3, RefillsSlowly
  <2>5. v = Refilled(buckets[s])'
    BY <2>3, <2>4 DEF Refilled
  <2>. QED
    <3>1. Covered(admitted[s], u, 1) /\ 1 \in Nat \ {0}
      BY <2>1, <2>3, <2>4
    <3>2. /\ \A from \in 0..second' :
               Passed(admitted[s], from, second') * Token + v
                 <= 1 * Burst + Refill * (second' - from)
          /\ \A from \in 0..second' : \A to \in from..second' :
               Passed(admitted[s], from, to) * Token <= 1 * Burst + Refill * (to - from)
          /\ \A t \in Seconds : t >= second' => admitted[s][t] = admitted[s][second']
      BY <1>2, <2>1, <2>4, <3>1
    <3>. QED
      BY <1>1, <2>5, <3>2 DEF Covered, WithinLimit, Passed
<1>6. shared' \in [units : 0..Burst, at : 0..second', expires : Nat]
      /\ buckets' \in [Servers -> [units : 0..Burst, at : 0..second']]
  <2>1. 0..second \subseteq 0..second'
    BY <1>1
  <2>. QED
    BY <1>1, <2>1 DEF LimitInv
<1>. QED
  BY <1>1, <1>4, <1>5, <1>6 DEF LimitInv

(* Redis grants no more than the limit over any period, through the expiry *)
(* of the stored, but for a burst each time its contents are lost; and no  *)
(* server by itself admits more, however its calls to Redis fail.  Proved  *)
(* for every size of stored and token and every rate of refill             *)
(* (redisTokenBucketScript, allow, local).                                 *)
THEOREM LimitsAreKept == LimitSpec => []LimitKept
<1>1. LimitInv => LimitKept
  BY DEF LimitInv, LimitKept, Covered
<1>2. LimitInv /\ [LimitNext]_limitVars => LimitInv'
  <2>. SUFFICES ASSUME LimitInv, [LimitNext]_limitVars PROVE LimitInv'
    OBVIOUS
  <2>1. ASSUME NEW s \in Servers, RedisAllow(s) PROVE LimitInv'
    BY <2>1, SharedHolds DEF RedisAllow
  <2>2. ASSUME NEW s \in Servers, RedisFails(s) PROVE LimitInv'
    BY <2>2, SharedHolds DEF RedisFails
  <2>3. CASE RedisEmptied
    BY <2>3, SharedHolds DEF RedisEmptied
  <2>4. CASE UNCHANGED limitVars
    BY <2>4, SharedHolds DEF limitVars
  <2>. QED
    BY <2>1, <2>2, <2>3, <2>4, LocalHolds, TickHolds DEF LimitNext
<1>. QED
  BY <1>1, <1>2, LimitStarts, PTL DEF LimitSpec

-----------------------------------------------------------------------------
(* Clients of the search providers.                                        *)

(* The bucket counts up to a number: the tokens it has given out, had it   *)
(* been empty at the start.  Every request sent and every search waiting   *)
(* to send one has a number of its own, no later than the moment it is due *)
(* and less than a burst before it.                                        *)
Spent == bucket.at - bucket.tokens
WithToken == {c \in Searches : searching[c].at \in {"pacing", "cleared"}}
DueIn(n, due) == n <= due /\ due < n + Limits.burst
DrawnToken(n) == n <= Spent /\ n <= bucket.last
Numbered(s, p) ==
  /\ s \in [DOMAIN sent -> Int] /\ p \in [Searches -> Int]
  /\ \A i \in DOMAIN sent : DueIn(s[i], sent[i].at) /\ DrawnToken(s[i])
  /\ \A c \in WithToken : /\ DueIn(p[c], searching[c].due) /\ DrawnToken(p[c])
                          /\ searching[c].waited => p[c] = searching[c].due
  /\ \A i, j \in DOMAIN sent : s[i] = s[j] => i = j
  /\ \A c, d \in WithToken : p[c] = p[d] => c = d
  /\ \A i \in DOMAIN sent, c \in WithToken : s[i] # p[c]
  
Places == {"idle", "queueing", "admitted", "pacing", "cleared", "sending"}
SearchRecord == [at : Places, query : Queries \cup {0}, due : Int, waited : BOOLEAN,
                 round : {1, 2}, carried : {0, 1}]
ClientTyped ==
  /\ client \in Clients /\ tick \in Nat /\ cooldown \in Nat
  /\ bucket \in [tokens : Int, at : Int, last : Int]
  /\ bucket.at <= tick /\ bucket.tokens <= Limits.burst
  /\ searching \in [Searches -> SearchRecord]
  /\ \A c \in Searches : /\ searching[c].round <= Control.requests
                         /\ searching[c].round = 1 => searching[c].carried = 0
  /\ sent \in Seq([query : Queries \cup {0}, at : Nat])

(* A token is used when it is due: time does not pass over it.             *)
Punctual ==
  /\ \A c \in Searches : searching[c].at = "pacing" => searching[c].due >= tick
  /\ \A c \in Searches : searching[c].at = "cleared" => searching[c].due = tick
  /\ \A i \in DOMAIN sent : sent[i].at <= tick
  /\ \A i, j \in DOMAIN sent : i <= j => sent[i].at <= sent[j].at

SlotsKept == IsFiniteSet(Holding) /\ Cardinality(Holding) <= Limits.slots

ExcusedKept ==
  /\ intruders = {} /\ excused \subseteq Searches
  /\ IsFiniteSet(excused) /\ Cardinality(excused) < Limits.slots
  /\ Cooling => \A c \in Searches : searching[c].at = "cleared" => c \in excused

(* A request as old as the delay, or as old as that by the time another    *)
(* can be sent; what else was sent is on the table, which has nothing but  *)
(* what was sent or is about to be.                                        *)
LongAgo(i) ==
  \/ tick - sent[i].at >= RepeatDelay
  \/ tick + 1 - sent[i].at >= RepeatDelay /\ \E j \in DOMAIN sent : sent[j].at = tick
Listed(i) == /\ sent[i].query \in DOMAIN recent
             /\ recent[sent[i].query] >= sent[i].at
TableKept ==
  /\ \A q \in DOMAIN recent : recent[q] \in Int
  /\ \A i \in DOMAIN sent : LongAgo(i) \/ Listed(i)
  /\ \A c \in WithToken, i \in DOMAIN sent : sent[i].query = searching[c].query => LongAgo(i)
  /\ \A q \in DOMAIN recent :
       \/ \E i \in DOMAIN sent : sent[i].query = q /\ sent[i].at = recent[q]
       \/ \E c \in WithToken : searching[c].query = q
  
ClientInv ==
  /\ ClientTyped /\ Punctual /\ SlotsKept /\ ExcusedKept
  /\ \E s, p : Numbered(s, p)
  /\ Control.guarded => TableKept
  /\ NoRepeats /\ VerdictsHold

-----------------------------------------------------------------------------
LEMMA LesserOf ==
  ASSUME NEW a \in Int, NEW b \in Int
  PROVE  Min({a, b}) = IF a <= b THEN a ELSE b
<1>1. \E x \in {a, b} : \A y \in {a, b} : x <= y
  BY a <= b \/ b <= a
<1>2. Min({a, b}) \in {a, b} /\ \A y \in {a, b} : Min({a, b}) <= y
  BY <1>1 DEF Min
<1>. QED
  BY <1>2

LEMMA GreaterOf ==
  ASSUME NEW a \in Int, NEW b \in Int
  PROVE  Max({a, b}) = IF a <= b THEN b ELSE a
<1>1. \E x \in {a, b} : \A y \in {a, b} : x >= y
  BY a <= b \/ b <= a
<1>2. Max({a, b}) \in {a, b} /\ \A y \in {a, b} : Max({a, b}) >= y
  BY <1>1 DEF Max
<1>. QED
  BY <1>2

LEMMA GreatestOfThree ==
  ASSUME NEW a \in Nat, NEW b \in Nat, NEW c \in Nat
  PROVE  Max({a, b, c}) \in Nat
<1>1. \E x \in {a, b, c} : \A y \in {a, b, c} : x >= y
  <2>1. CASE a >= b /\ a >= c
    BY <2>1
  <2>2. CASE b >= a /\ b >= c
    BY <2>2
  <2>3. CASE c >= a /\ c >= b
    BY <2>3
  <2>. QED
    BY <2>1, <2>2, <2>3
<1>2. Max({a, b, c}) \in {a, b, c}
  BY <1>1 DEF Max
<1>. QED
  BY <1>2

(* What the definitions of a client say, whichever it is.                  *)
LEMMA ClientLimits ==
  ASSUME client \in Clients
  PROVE  /\ Limits.slots \in Nat \ {0} /\ Limits.burst \in Nat \ {0}
         /\ client = "stackexchange" => Limits.slots = 1 /\ Limits.burst = 1
<1>1. client \in ClientNames
  BY ProviderConstants
<1>2. Ceiling.slots \in Nat \ {0} /\ Ceiling.burst \in Nat \ {0}
  BY <1>1 DEF Ceiling, Of, ClientNames, ArxivLimits, CrossrefLimits, GithubLimits,
     MwmblLimits, PubmedLimits, ScraplingLimits, StackexchangeLimits, WibyLimits,
     WikipediaLimits, YacyLimits, Single
<1>3. client = "stackexchange" => Ceiling = [slots |-> 1, burst |-> 1]
  BY DEF Ceiling, Of, StackexchangeLimits, Single
<1>4. Configured.slots \in Nat \ {0} /\ Configured.burst \in Nat \ {0}
  BY ProviderConstants
<1>5. Limits.slots = IF Ceiling.slots <= Configured.slots THEN Ceiling.slots ELSE Configured.slots
  BY <1>2, <1>4, LesserOf DEF Limits
<1>6. Limits.burst = IF Ceiling.burst <= Configured.burst THEN Ceiling.burst ELSE Configured.burst
  BY <1>2, <1>4, LesserOf DEF Limits
<1>. QED
  BY <1>2, <1>3, <1>4, <1>5, <1>6

LEMMA ClientControl ==
  ASSUME client \in Clients
  PROVE  /\ Control.requests \in {1, 2} /\ Control.guarded \in BOOLEAN
         /\ Control.guarded <=> client = "stackexchange"
         /\ Control.requests = 2 <=> client = "pubmed"
         /\ Control.fallback \in Nat
<1>1. client \in ClientNames
  BY ProviderConstants
<1>2. \/ Control = StackexchangeControl /\ client = "stackexchange"
      \/ Control = PubmedControl /\ client = "pubmed"
      \/ /\ Control \in {ArxivControl, CrossrefControl, GithubControl, MwmblControl,
                         ScraplingControl, WibyControl, WikipediaControl, YacyControl}
         /\ client # "stackexchange" /\ client # "pubmed"
  BY <1>1 DEF Control, Of, ClientNames
<1>3. /\ StackexchangeControl.requests = 1 /\ StackexchangeControl.guarded = TRUE
      /\ StackexchangeControl.fallback = 2
  BY DEF StackexchangeControl, ArxivControl, Long
<1>4. /\ PubmedControl.requests = 2 /\ PubmedControl.guarded = FALSE
      /\ PubmedControl.fallback = 1
  BY DEF PubmedControl, ArxivControl, Short
<1>5. ASSUME NEW k \in {ArxivControl, CrossrefControl, GithubControl, MwmblControl,
                       ScraplingControl, WibyControl, WikipediaControl, YacyControl}
      PROVE  k.requests = 1 /\ k.guarded = FALSE /\ k.fallback \in {1, 2}
  <2>1. k = ArxivControl \/ k = GithubControl \/ k = ScraplingControl \/ k = YacyControl
    BY DEF CrossrefControl, MwmblControl, WibyControl, WikipediaControl
  <2>2. CASE k = ArxivControl
    BY <2>2 DEF ArxivControl, Long
  <2>3. CASE k = GithubControl
    BY <2>3 DEF GithubControl, ArxivControl, Short
  <2>4. CASE k = ScraplingControl
    BY <2>4 DEF ScraplingControl, ArxivControl, Long
  <2>5. CASE k = YacyControl
    BY <2>5 DEF YacyControl, ArxivControl, Short
  <2>. QED
    BY <2>1, <2>2, <2>3, <2>4, <2>5
<1>6. Control.requests \in {1, 2} /\ (Control.requests = 2 <=> client = "pubmed")
  <2>. HIDE DEF Control
  <2>. QED
    BY <1>2, <1>3, <1>4, <1>5
<1>7. Control.fallback \in Nat
  BY <1>2, <1>3, <1>4, <1>5
<1>8. Control.guarded = (client = "stackexchange")
  <2>1. CASE client = "stackexchange"
    BY <1>2, <1>3, <2>1, Zenon
  <2>2. CASE client # "stackexchange"
    BY <1>2, <1>4, <1>5, <2>2, Zenon
  <2>. QED
    BY <2>1, <2>2
<1>. QED
  BY <1>6, <1>7, <1>8

LEMMA CoolsNaturally ==
  ASSUME client \in Clients, NEW a \in Reply
  PROVE  CooldownFor(a) \in Nat
<1>. DEFINE asked == IF a.status \in Control.heeds THEN a.delay ELSE 0
            quota == IF ~a.exhausted THEN 0 ELSE IF client = "pubmed" THEN Short ELSE Day
<1>1. asked \in Nat /\ a.backoff \in Nat /\ quota \in Nat
  BY DEF Reply, Short, Day
<1>2. Max({asked, a.backoff, quota}) \in Nat
  <2>. HIDE DEF asked, quota
  <2>. QED
    BY <1>1, GreatestOfThree
<1>. QED
  BY <1>2, ClientControl DEF CooldownFor

LEMMA SameClient ==
  ASSUME UNCHANGED client
  PROVE  Limits' = Limits /\ Control' = Control
<1>1. Ceiling' = Ceiling
  BY DEF Ceiling, Of
<1>2. Limits' = Limits
  BY <1>1 DEF Limits
<1>3. Control' = Control
  BY DEF Control, Of
<1>. QED
  BY <1>2, <1>3

-----------------------------------------------------------------------------
(* Numbers of their own pace the requests: those of the i-th to the j-th   *)
(* all lie between a burst before the former and the moment of the latter. *)
LEMMA NumbersPace ==
  ASSUME ClientTyped, Punctual, NEW s, NEW p, Numbered(s, p)
  PROVE  Paced
<1>. SUFFICES ASSUME NEW i \in DOMAIN sent, NEW j \in DOMAIN sent, i <= j
              PROVE  j - i + 1 <= Limits.burst + sent[j].at - sent[i].at
  BY DEF Paced
<1>. DEFINE f == [k \in i..j |-> s[k]]
            low == sent[i].at - Limits.burst + 1
            top == sent[j].at
<1>1. /\ i \in Nat /\ j \in Nat /\ i..j \subseteq DOMAIN sent
      /\ \A k \in DOMAIN sent : sent[k].at \in Nat
  <2>1. DOMAIN sent = 1..Len(sent) /\ Len(sent) \in Nat
    BY DEF ClientTyped
  <2>2. \A k \in DOMAIN sent : sent[k].at \in Nat
    <3>. SUFFICES ASSUME NEW k \in DOMAIN sent PROVE sent[k].at \in Nat
      OBVIOUS
    <3>1. sent[k] \in [query : Queries \cup {0}, at : Nat]
      BY <2>1, ElementOfSeq DEF ClientTyped
    <3>. QED
      BY <3>1
  <2>3. i \in Nat /\ j \in Nat /\ i..j \subseteq 1..Len(sent)
    BY <2>1
  <2>. QED
    BY <2>1, <2>2, <2>3
<1>2. Limits.burst \in Nat
  BY ClientLimits DEF ClientTyped
<1>3. low \in Int /\ top \in Int
  BY <1>1, <1>2
<1>4. ASSUME NEW k \in i..j
      PROVE  f[k] \in low..top
  <2>1. k \in DOMAIN sent /\ s[k] \in Int
    BY <1>1 DEF Numbered
  <2>2. sent[i].at <= sent[k].at /\ sent[k].at <= sent[j].at
    BY <1>1, <2>1 DEF Punctual
  <2>3. s[k] <= sent[k].at /\ sent[k].at < s[k] + Limits.burst
    BY <2>1 DEF Numbered, DueIn
  <2>4. f[k] = s[k] /\ sent[k].at \in Nat /\ sent[i].at \in Nat /\ sent[j].at \in Nat
    BY <1>1, <2>1
  <2>. QED
    BY <1>2, <2>1, <2>2, <2>3, <2>4
<1>5. f \in Injection(i..j, low..top)
  <2>1. \A k, l \in i..j : f[k] = f[l] => k = l
    BY <1>1 DEF Numbered
  <2>. HIDE DEF low, top
  <2>2. f \in [i..j -> low..top]
    BY <1>4
  <2>. HIDE DEF f
  <2>. QED
    BY <2>1, <2>2, Zenon DEF Injection, IsInjective
<1>6. IsFiniteSet(low..top) /\ Cardinality(low..top) = IF low > top THEN 0 ELSE top - low + 1
  <2>. HIDE DEF low, top
  <2>. QED
    BY <1>3, FS_Interval
<1>7. Cardinality(i..j) = j - i + 1
  BY <1>1, FS_Interval
<1>8. Cardinality(i..j) <= Cardinality(low..top)
  <2>. HIDE DEF f, low, top
  <2>. QED
    BY <1>5, <1>6, FS_Injection
<1>9. low <= top
  <2>1. f[i] \in low..top
    BY <1>1, <1>4
  <2>2. \A x \in low..top : low <= top
    BY <1>3
  <2>. QED
    BY <2>1, <2>2
<1>. QED
  BY <1>1, <1>2, <1>6, <1>7, <1>8, <1>9

LEMMA PacedAlways ==
  ClientTyped /\ Punctual /\ (\E s, p : Numbered(s, p)) => Paced
BY NumbersPace

(* One search moves on.                                                    *)
Moves(c, r) == searching' = [searching EXCEPT ![c] = r]
LEMMA OneMoves ==
  ASSUME ClientTyped, NEW c \in Searches, NEW r \in SearchRecord, Moves(c, r)
  PROVE  /\ searching' \in [Searches -> SearchRecord] /\ searching'[c] = r
         /\ \A d \in Searches : d # c => searching'[d] = searching[d]
BY DEF ClientTyped, Moves

LEMMA NumbersRest ==
  ASSUME ClientTyped, NEW s, NEW p, Numbered(s, p), UNCHANGED <<client, bucket, sent>>,
         NEW c \in Searches, NEW r \in SearchRecord, Moves(c, r),
         r.at \in {"pacing", "cleared"} =>
           /\ c \in WithToken /\ r.due = searching[c].due
           /\ r.waited => searching[c].waited
  PROVE  Numbered(s, p)'
<1>1. Limits' = Limits /\ Spent' = Spent
  BY SameClient DEF Spent
<1>2. ASSUME NEW d \in Searches, d \in WithToken'
      PROVE  /\ d \in WithToken /\ searching'[d].due = searching[d].due
             /\ searching'[d].waited => searching[d].waited
  <2>1. CASE d = c
    BY <1>2, <2>1, OneMoves DEF WithToken
  <2>2. CASE d # c
    BY <1>2, <2>2, OneMoves DEF WithToken
  <2>. QED
    BY <2>1, <2>2
<1>3. WithToken' \subseteq WithToken
  BY <1>2 DEF WithToken
<1>4. ASSUME NEW d \in WithToken'
      PROVE  /\ DueIn(p[d], searching[d].due)' /\ DrawnToken(p[d])'
             /\ searching'[d].waited => p[d] = searching'[d].due
  <2>1. d \in Searches /\ d \in WithToken
    BY <1>3 DEF WithToken
  <2>2. /\ DueIn(p[d], searching[d].due) /\ DrawnToken(p[d])
        /\ searching[d].waited => p[d] = searching[d].due
    BY <2>1 DEF Numbered
  <2>. QED
    BY <1>1, <1>2, <2>1, <2>2 DEF DueIn, DrawnToken
<1>5. \A i \in DOMAIN sent : DueIn(s[i], sent[i].at)' /\ DrawnToken(s[i])'
  BY <1>1 DEF Numbered, DueIn, DrawnToken
<1>. QED
  BY <1>3, <1>4, <1>5 DEF Numbered

(* A token is reserved for c: the next number is its own.                  *)
LEMMA ReservedNumber ==
  ASSUME ClientTyped, NEW s, NEW p, Numbered(s, p), UNCHANGED <<client, tick, sent>>,
         NEW c \in Searches, NEW r \in SearchRecord, Moves(c, r),
         c \notin WithToken, bucket' = Reservation, r.due = Reservation.last,
         r.waited = (Reservation.last > tick)
  PROVE  \E q : Numbered(s, q)'
<1>1. /\ tick \in Int /\ Limits.burst \in Nat /\ Limits.burst > 0
      /\ bucket.tokens \in Int /\ bucket.at \in Int /\ bucket.last \in Int
      /\ bucket.at <= tick
  BY ClientLimits DEF ClientTyped
<1>2. Tokens \in Int /\ Tokens <= Limits.burst /\ Tokens <= bucket.tokens + tick - bucket.at
  BY <1>1, LesserOf DEF Tokens
<1>3. Reservation = [tokens |-> Tokens - 1, at |-> tick,
                     last |-> tick + (IF Tokens - 1 < 0 THEN -(Tokens - 1) ELSE 0)]
  BY DEF Reservation
<1>a. PICK n \in Int : n = tick - Tokens + 1
  BY <1>1, <1>2
<1>. DEFINE apart == [d \in Searches |-> IF d = c THEN n ELSE p[d]]
<1>4. /\ bucket'.tokens = Tokens - 1 /\ bucket'.at = tick
      /\ bucket'.last = IF n > tick THEN n ELSE tick
  BY <1>1, <1>2, <1>3, <1>a
<1>. HIDE DEF Tokens, Reservation
<1>5. Spent \in Int /\ n \in Int /\ Spent' = n /\ Spent < n
  BY <1>1, <1>2, <1>4, <1>a DEF Spent
<1>6. DrawnToken(n)' /\ DueIn(n, r.due)' /\ (r.waited => n = r.due)
  <2>1. r.due = IF n > tick THEN n ELSE tick
    BY <1>4
  <2>2. Limits' = Limits
    BY SameClient
  <2>3. r.waited => r.due > tick
    BY <1>4, <2>1
  <2>4. DrawnToken(n)'
    BY <1>1, <1>4, <1>5 DEF DrawnToken
  <2>5. n <= r.due /\ r.due < n + Limits.burst
    BY <1>1, <1>2, <1>a, <2>1
  <2>6. DueIn(n, r.due)'
    BY <2>2, <2>5 DEF DueIn
  <2>7. r.waited => n = r.due
    BY <1>1, <1>2, <1>a, <2>1, <2>3
  <2>. QED
    BY <2>4, <2>6, <2>7
<1>7. ASSUME NEW m \in Int, DrawnToken(m)
      PROVE  DrawnToken(m)' /\ m # n
  BY <1>1, <1>4, <1>5, <1>7 DEF DrawnToken
<1>8. ASSUME NEW d \in Searches, d \in WithToken', d # c
      PROVE  d \in WithToken /\ searching'[d] = searching[d]
  BY <1>8, OneMoves DEF WithToken
<1>9. c \in WithToken' => searching'[c] = r
  BY OneMoves
<1>10. Limits' = Limits
  BY SameClient
<1>11. PICK q : /\ q \in [Searches -> Int] /\ q[c] = n
                /\ \A d \in Searches : d # c => q[d] = p[d]
  <2>1. /\ apart \in [Searches -> Int] /\ apart[c] = n
        /\ \A d \in Searches : d # c => apart[d] = p[d]
    BY <1>5 DEF Numbered
  <2>. QED
    BY <2>1
<1>12. ASSUME NEW d \in Searches, d \in WithToken'
       PROVE  /\ DueIn(q[d], searching[d].due)' /\ DrawnToken(q[d])'
              /\ searching'[d].waited => q[d] = searching'[d].due
  <2>1. CASE d = c
    <3>1. q[d] = n /\ searching'[d] = r
      BY <1>9, <1>11, <1>12, <2>1
    <3>. QED
      BY <1>6, <3>1, Zenon
  <2>2. CASE d # c
    <3>1. d \in WithToken /\ searching'[d] = searching[d] /\ q[d] = p[d]
      BY <1>8, <1>11, <1>12, <2>2
    <3>2. /\ DueIn(p[d], searching[d].due) /\ DrawnToken(p[d]) /\ p[d] \in Int
          /\ searching[d].waited => p[d] = searching[d].due
      BY <3>1 DEF Numbered
    <3>3. DrawnToken(p[d])'
      BY <1>7, <3>2
    <3>4. DueIn(p[d], searching[d].due)'
      BY <1>10, <3>1, <3>2, Zenon DEF DueIn
    <3>. QED
      BY <3>1, <3>2, <3>3, <3>4, Zenon
  <2>. QED
    BY <2>1, <2>2
<1>13. \A i \in DOMAIN sent : /\ s[i] \in Int /\ DueIn(s[i], sent[i].at)' /\ DrawnToken(s[i])'
                              /\ s[i] # n
  BY <1>7, <1>10 DEF Numbered, DueIn
<1>14. \A d \in WithToken' : d \in Searches /\ (d # c => d \in WithToken /\ q[d] = p[d] /\ q[d] # n)
  <2>. SUFFICES ASSUME NEW d \in WithToken', d # c
                PROVE  d \in WithToken /\ q[d] = p[d] /\ q[d] # n
    BY DEF WithToken
  <2>1. d \in Searches /\ d \in WithToken /\ q[d] = p[d]
    BY <1>8, <1>11 DEF WithToken
  <2>. QED
    BY <1>7, <2>1 DEF Numbered
<1>15. \A d, e \in WithToken' : q[d] = q[e] => d = e
  BY <1>11, <1>14 DEF Numbered
<1>16. \A i \in DOMAIN sent, d \in WithToken' : s[i] # q[d]
  BY <1>11, <1>13, <1>14 DEF Numbered
<1>17. Numbered(s, q)'
  <2>1. ASSUME NEW d \in WithToken'
        PROVE  /\ DueIn(q[d], searching[d].due)' /\ DrawnToken(q[d])'
               /\ searching'[d].waited => q[d] = searching'[d].due
    BY <1>12, <1>14
  <2>2. /\ s \in [DOMAIN sent' -> Int] /\ q \in [Searches -> Int]
        /\ \A i, j \in DOMAIN sent' : s[i] = s[j] => i = j
    BY <1>11 DEF Numbered
  <2>3. ASSUME NEW i \in DOMAIN sent'
        PROVE  DueIn(s[i], sent[i].at)' /\ DrawnToken(s[i])'
    BY <1>13
  <2>4. \A i \in DOMAIN sent', d \in WithToken' : s[i] # q[d]
    BY <1>16
  <2>. QED
    BY <1>15, <2>1, <2>2, <2>3, <2>4, Zenon DEF Numbered
<1>. QED
  BY <1>17

(* A request is sent: its number stays with it.                            *)
LEMMA SentNumber ==
  ASSUME ClientTyped, NEW s, NEW p, Numbered(s, p), UNCHANGED <<client, bucket>>,
         NEW c \in Searches, NEW r \in SearchRecord, Moves(c, r), r.at = "sending",
         c \in WithToken, searching[c].due = tick, searching[c].query \in Queries \cup {0},
         sent' = Append(sent, [query |-> searching[c].query, at |-> tick])
  PROVE  \E t : Numbered(t, p)'
<1>. DEFINE t == [i \in 1..(Len(sent) + 1) |-> IF i = Len(sent) + 1 THEN p[c] ELSE s[i]]
<1>1. /\ Len(sent) \in Nat /\ DOMAIN sent = 1..Len(sent)
      /\ DOMAIN sent' = 1..(Len(sent) + 1) /\ sent'[Len(sent) + 1].at = tick
      /\ \A i \in DOMAIN sent : sent'[i] = sent[i]
  BY DEF ClientTyped
<1>2. PICK u : /\ u \in [DOMAIN sent' -> Int] /\ u[Len(sent) + 1] = p[c]
               /\ \A i \in DOMAIN sent : u[i] = s[i]
  <2>1. t \in [DOMAIN sent' -> Int] /\ t[Len(sent) + 1] = p[c] /\ \A i \in DOMAIN sent : t[i] = s[i]
    BY <1>1 DEF Numbered, WithToken
  <2>. QED
    BY <2>1
<1>3. Limits' = Limits /\ Spent' = Spent /\ bucket' = bucket
  BY SameClient DEF Spent
<1>4. \A d \in WithToken' : d \in WithToken /\ d # c /\ searching'[d] = searching[d]
  BY OneMoves DEF WithToken
<1>5. DueIn(p[c], searching[c].due) /\ DrawnToken(p[c]) /\ p[c] \in Int
  BY DEF Numbered, WithToken
<1>6. ASSUME NEW i \in DOMAIN sent'
      PROVE  DueIn(u[i], sent[i].at)' /\ DrawnToken(u[i])'
  <2>1. CASE i = Len(sent) + 1
    BY <1>1, <1>2, <1>3, <1>5, <2>1 DEF DueIn, DrawnToken
  <2>2. CASE i \in DOMAIN sent
    <3>1. DueIn(s[i], sent[i].at) /\ DrawnToken(s[i])
      BY <2>2 DEF Numbered
    <3>. QED
      BY <1>1, <1>2, <1>3, <2>2, <3>1 DEF DueIn, DrawnToken
  <2>. QED
    BY <1>1, <2>1, <2>2
<1>7. ASSUME NEW d \in WithToken'
      PROVE  /\ DueIn(p[d], searching[d].due)' /\ DrawnToken(p[d])'
             /\ searching'[d].waited => p[d] = searching'[d].due
  <2>1. /\ DueIn(p[d], searching[d].due) /\ DrawnToken(p[d])
        /\ searching[d].waited => p[d] = searching[d].due
    BY <1>4 DEF Numbered
  <2>. QED
    BY <1>3, <1>4, <2>1 DEF DueIn, DrawnToken
<1>8. \A i, j \in DOMAIN sent' : u[i] = u[j] => i = j
  <2>1. \A i \in DOMAIN sent : u[i] # u[Len(sent) + 1]
    BY <1>2 DEF Numbered
  <2>2. \A i, j \in DOMAIN sent : u[i] = u[j] => i = j
    BY <1>2 DEF Numbered
  <2>3. \A i \in DOMAIN sent' : i \in DOMAIN sent \/ i = Len(sent) + 1
    BY <1>1
  <2>. QED
    BY <2>1, <2>2, <2>3
<1>9. \A i \in DOMAIN sent', d \in WithToken' : u[i] # p[d]
  <2>1. \A d \in WithToken' : p[c] # p[d]
    BY <1>4 DEF Numbered
  <2>2. \A i \in DOMAIN sent, d \in WithToken' : s[i] # p[d]
    BY <1>4 DEF Numbered
  <2>3. \A i \in DOMAIN sent' : i \in DOMAIN sent \/ i = Len(sent) + 1
    BY <1>1
  <2>. QED
    BY <1>2, <2>1, <2>2, <2>3
<1>10. p \in [Searches -> Int] /\ \A d, e \in WithToken' : p[d] = p[e] => d = e
  BY <1>4 DEF Numbered
<1>11. Numbered(u, p)'
  BY <1>2, <1>6, <1>7, <1>8, <1>9, <1>10, Zenon DEF Numbered
<1>. QED
  BY <1>11

(* A search gives up.  If its token goes back the number was the latest,   *)
(* and is free again.                                                      *)
LEMMA ReturnedNumber ==
  ASSUME ClientTyped, Punctual, NEW s, NEW p, Numbered(s, p), UNCHANGED <<client, tick, sent>>,
         NEW c \in Searches, NEW r \in SearchRecord, Moves(c, r), r.at = "idle",
         bucket' = Returned(c)
  PROVE  Numbered(s, p)'
<1>. DEFINE due == searching[c].due
            restored == 1 - (bucket.last - due)
            returns == searching[c].at = "pacing" /\ searching[c].waited /\ due >= tick
                       /\ restored > 0
<1>1. CASE ~returns
  <2>1. bucket' = bucket
    BY <1>1 DEF Returned
  <2>. QED
    BY <2>1, NumbersRest
<1>2. CASE returns
  <2>1. /\ tick \in Int /\ Limits.burst \in Nat /\ Limits.burst > 0
        /\ bucket.tokens \in Int /\ bucket.at \in Int /\ bucket.last \in Int /\ due \in Int
        /\ bucket.at <= tick
    BY ClientLimits DEF ClientTyped, SearchRecord
  <2>2. c \in WithToken /\ p[c] = due /\ DrawnToken(due)
    BY <1>2 DEF WithToken, Numbered
  <2>3. bucket.last = due /\ restored = 1
    BY <1>2, <2>1, <2>2 DEF DrawnToken
  <2>4. bucket' = [tokens |-> Min({Limits.burst, Tokens + 1}), at |-> tick,
                   last |-> IF due - 1 >= tick THEN due - 1 ELSE bucket.last]
    BY <1>2, <2>3 DEF Returned
  <2>5. Tokens \in Int /\ Tokens <= bucket.tokens + tick - bucket.at
    <3>1. PICK full, earned : full = Limits.burst /\ earned = bucket.tokens + tick - bucket.at
      OBVIOUS
    <3>2. full \in Int /\ earned \in Int
      BY <2>1, <3>1
    <3>3. Tokens = Min({full, earned})
      BY <3>1 DEF Tokens
    <3>. QED
      BY <3>1, <3>2, <3>3, LesserOf
  <2>. HIDE DEF Tokens
  <2>6. Min({Limits.burst, Tokens + 1}) \in Int /\ Min({Limits.burst, Tokens + 1}) <= Tokens + 1
    BY <2>1, <2>5, LesserOf
  <2>7. Spent \in Int /\ Spent' \in Int /\ Spent' >= Spent - 1
    BY <2>1, <2>4, <2>5, <2>6 DEF Spent
  <2>8. bucket'.last >= due - 1 /\ bucket'.last \in Int
    BY <2>1, <2>3, <2>4
  <2>9. ASSUME NEW m \in Int, DrawnToken(m), m # due
        PROVE  DrawnToken(m)'
    <3>1. due <= Spent /\ m <= due
      BY <2>2, <2>3, <2>9 DEF DrawnToken
    <3>2. m <= due - 1
      BY <2>1, <2>9, <3>1
    <3>. QED
      BY <2>1, <2>7, <2>8, <3>1, <3>2 DEF DrawnToken
  <2>10. Limits' = Limits /\ sent' = sent
    BY SameClient
  <2>11. \A d \in WithToken' : d \in WithToken /\ d # c /\ searching'[d] = searching[d]
    BY OneMoves DEF WithToken
  <2>12. ASSUME NEW i \in DOMAIN sent'
         PROVE  DueIn(s[i], sent[i].at)' /\ DrawnToken(s[i])'
    <3>1. DueIn(s[i], sent[i].at) /\ DrawnToken(s[i]) /\ s[i] \in Int /\ s[i] # due
      BY <2>2, <2>10 DEF Numbered
    <3>. QED
      BY <2>9, <2>10, <3>1 DEF DueIn
  <2>13. ASSUME NEW d \in WithToken'
         PROVE  /\ DueIn(p[d], searching[d].due)' /\ DrawnToken(p[d])'
                /\ searching'[d].waited => p[d] = searching'[d].due
    <3>1. /\ DueIn(p[d], searching[d].due) /\ DrawnToken(p[d])
          /\ searching[d].waited => p[d] = searching[d].due
          /\ p[d] \in Int /\ p[d] # due
      BY <2>2, <2>11 DEF Numbered, WithToken
    <3>. QED
      BY <2>9, <2>10, <2>11, <3>1 DEF DueIn
  <2>14. /\ s \in [DOMAIN sent' -> Int] /\ p \in [Searches -> Int]
         /\ \A i, j \in DOMAIN sent' : s[i] = s[j] => i = j
    BY <2>10 DEF Numbered
  <2>15. \A d, e \in WithToken' : p[d] = p[e] => d = e
    BY <2>11 DEF Numbered
  <2>16. \A i \in DOMAIN sent', d \in WithToken' : s[i] # p[d]
    BY <2>10, <2>11 DEF Numbered
  <2>. QED
    BY <2>12, <2>13, <2>14, <2>15, <2>16, Zenon DEF Numbered
<1>. QED
  BY <1>1, <1>2

-----------------------------------------------------------------------------
(* Slots and the cooldown.                                                 *)
InSlot == {"admitted", "pacing", "cleared", "sending"}

LEMMA SlotsRest ==
  ASSUME ClientTyped, SlotsKept, UNCHANGED client,
         NEW c \in Searches, NEW r \in SearchRecord, Moves(c, r),
         r.at \in InSlot => c \in Holding
  PROVE  SlotsKept'
<1>1. Holding' \subseteq Holding
  <2>. SUFFICES ASSUME NEW d \in Holding' PROVE d \in Holding
    OBVIOUS
  <2>1. CASE d = c
    BY <2>1, OneMoves DEF Holding, InSlot
  <2>2. CASE d # c
    BY <2>2, OneMoves DEF Holding
  <2>. QED
    BY <2>1, <2>2
<1>2. IsFiniteSet(Holding') /\ Cardinality(Holding') <= Cardinality(Holding)
  BY <1>1, FS_Subset DEF SlotsKept
<1>3. Cardinality(Holding) \in Nat /\ Cardinality(Holding') \in Nat /\ Limits.slots \in Nat
  BY <1>2, FS_CardinalityType, ClientLimits DEF SlotsKept, ClientTyped
<1>. QED
  BY <1>2, <1>3, SameClient DEF SlotsKept

LEMMA SlotTaken ==
  ASSUME ClientTyped, SlotsKept, UNCHANGED client,
         NEW c \in Searches, NEW r \in SearchRecord, Moves(c, r),
         Cardinality(Holding) < Limits.slots
  PROVE  SlotsKept'
<1>1. Holding' \subseteq Holding \cup {c}
  <2>. SUFFICES ASSUME NEW d \in Holding', d # c PROVE d \in Holding
    OBVIOUS
  <2>. QED
    BY OneMoves DEF Holding
<1>2. /\ IsFiniteSet(Holding \cup {c})
      /\ Cardinality(Holding \cup {c}) = IF c \in Holding THEN Cardinality(Holding)
                                         ELSE Cardinality(Holding) + 1
  BY FS_AddElement DEF SlotsKept
<1>3. IsFiniteSet(Holding') /\ Cardinality(Holding') <= Cardinality(Holding \cup {c})
  BY <1>1, <1>2, FS_Subset
<1>4. Cardinality(Holding) \in Nat /\ Cardinality(Holding') \in Nat /\ Limits.slots \in Nat
  BY <1>3, FS_CardinalityType, ClientLimits DEF SlotsKept, ClientTyped
<1>. QED
  BY <1>2, <1>3, <1>4, SameClient DEF SlotsKept

(* With one slot the searches that hold one are one.                       *)
LEMMA OneHolds ==
  ASSUME ClientTyped, SlotsKept, client = "stackexchange",
         NEW c \in Holding, NEW d \in Holding
  PROVE  c = d
<1>. SUFFICES ASSUME c # d PROVE FALSE
  OBVIOUS
<1>1. /\ IsFiniteSet({c}) /\ Cardinality({c}) = 1
  BY FS_Singleton
<1>2. Cardinality({c} \cup {d}) = 2
  BY <1>1, FS_AddElement
<1>3. Cardinality({c} \cup {d}) <= Cardinality(Holding)
  BY FS_Subset DEF SlotsKept
<1>4. Cardinality(Holding) <= 1
  BY ClientLimits DEF SlotsKept, ClientTyped
<1>5. Cardinality(Holding) \in Nat
  BY FS_CardinalityType DEF SlotsKept
<1>. QED
  BY <1>2, <1>3, <1>4, <1>5

LEMMA ExcusedRest ==
  ASSUME ClientTyped, ExcusedKept, UNCHANGED <<client, tick, cooldown, excused, intruders>>,
         NEW c \in Searches, NEW r \in SearchRecord, Moves(c, r),
         r.at = "cleared" => ~Cooling
  PROVE  ExcusedKept'
<1>1. Cooling' = Cooling
  BY DEF Cooling
<1>2. ASSUME Cooling', NEW d \in Searches, searching'[d].at = "cleared"
      PROVE  d \in excused'
  <2>1. CASE d = c
    BY <1>1, <1>2, <2>1, OneMoves
  <2>2. CASE d # c
    BY <1>1, <1>2, <2>2, OneMoves DEF ExcusedKept
  <2>. QED
    BY <2>1, <2>2
<1>. QED
  BY <1>2, SameClient DEF ExcusedKept

(* An answer opens the cooldown, or does not.                              *)
LEMMA ExcusedOpens ==
  ASSUME ClientTyped, ExcusedKept, SlotsKept, UNCHANGED <<client, tick, intruders>>,
         NEW c \in Searches, NEW r \in SearchRecord, Moves(c, r),
         searching[c].at = "sending", r.at # "cleared", NEW pause \in Nat,
         cooldown' = Max({cooldown, IF pause > 0 THEN tick + pause ELSE 0}),
         excused' = IF pause > 0 /\ ~Cooling
                    THEN {d \in Searches : searching[d].at = "cleared"} ELSE excused
  PROVE  ExcusedKept' /\ cooldown' \in Nat
<1>1. tick \in Nat /\ cooldown \in Nat /\ Limits.slots \in Nat
  BY ClientLimits DEF ClientTyped
<1>2. cooldown' \in Nat /\ cooldown' = IF cooldown <= (IF pause > 0 THEN tick + pause ELSE 0)
                                       THEN (IF pause > 0 THEN tick + pause ELSE 0) ELSE cooldown
  BY <1>1, GreaterOf
<1>3. \A d \in Searches : searching'[d].at = "cleared" <=> searching[d].at = "cleared"
  <2>. SUFFICES ASSUME NEW d \in Searches
                PROVE  searching'[d].at = "cleared" <=> searching[d].at = "cleared"
    OBVIOUS
  <2>. QED
    BY OneMoves
<1>4. CASE pause > 0 /\ ~Cooling
  <2>1. excused' \subseteq Holding \ {c}
    BY <1>4 DEF Holding
  <2>2. IsFiniteSet(Holding \ {c}) /\ Cardinality(Holding \ {c}) = Cardinality(Holding) - 1
    BY FS_RemoveElement DEF SlotsKept, Holding
  <2>3. IsFiniteSet(excused') /\ Cardinality(excused') <= Cardinality(Holding \ {c})
    BY <2>1, <2>2, FS_Subset
  <2>4. Cardinality(excused') \in Nat /\ Cardinality(Holding) \in Nat
    BY <2>3, FS_CardinalityType DEF SlotsKept
  <2>5. Cardinality(excused') < Limits.slots
    BY <1>1, <2>2, <2>3, <2>4 DEF SlotsKept
  <2>. QED
    BY <1>2, <1>3, <1>4, <2>3, <2>5, SameClient DEF ExcusedKept
<1>5. CASE ~(pause > 0 /\ ~Cooling)
  <2>1. excused' = excused
    BY <1>5
  <2>2. Cooling' => Cooling
    <3>1. CASE pause > 0
      BY <1>5, <3>1
    <3>2. CASE ~(pause > 0)
      <4>1. cooldown' = cooldown /\ tick' = tick
        BY <1>1, <1>2, <3>2
      <4>. QED
        BY <4>1 DEF Cooling
    <3>. QED
      BY <3>1, <3>2
  <2>. QED
    BY <1>2, <1>3, <2>1, <2>2, SameClient DEF ExcusedKept
<1>. QED
  BY <1>4, <1>5

LEMMA ExcusedSends ==
  ASSUME ClientTyped, ExcusedKept, UNCHANGED <<client, tick, cooldown>>,
         NEW c \in Searches, NEW r \in SearchRecord, Moves(c, r),
         searching[c].at = "cleared", r.at # "cleared", excused' = excused \ {c},
         intruders' = IF Cooling /\ c \notin excused THEN intruders \cup {c} ELSE intruders
  PROVE  ExcusedKept'
<1>1. Cooling' = Cooling /\ intruders' = {}
  BY DEF Cooling, ExcusedKept
<1>2. IsFiniteSet(excused') /\ Cardinality(excused') <= Cardinality(excused)
  BY FS_Subset DEF ExcusedKept
<1>3. Cardinality(excused') \in Nat /\ Cardinality(excused) \in Nat /\ Limits.slots \in Nat
  BY <1>2, FS_CardinalityType, ClientLimits DEF ExcusedKept, ClientTyped
<1>4. Cardinality(excused') < Limits'.slots
  BY <1>2, <1>3, SameClient DEF ExcusedKept
<1>5. ASSUME Cooling', NEW d \in Searches, searching'[d].at = "cleared"
      PROVE  d \in excused'
  BY <1>1, <1>5, OneMoves DEF ExcusedKept
<1>6. excused' \subseteq Searches
  BY DEF ExcusedKept
<1>. QED
  BY <1>1, <1>2, <1>4, <1>5, <1>6 DEF ExcusedKept

-----------------------------------------------------------------------------
(* The table of recent queries.                                            *)
LEMMA SentTyped ==
  ASSUME ClientTyped
  PROVE  /\ Len(sent) \in Nat /\ DOMAIN sent = 1..Len(sent)
         /\ \A i \in DOMAIN sent : sent[i].at \in Nat /\ sent[i].query \in Queries \cup {0}
<1>1. Len(sent) \in Nat /\ DOMAIN sent = 1..Len(sent)
  BY DEF ClientTyped
<1>2. ASSUME NEW i \in DOMAIN sent
      PROVE  sent[i].at \in Nat /\ sent[i].query \in Queries \cup {0}
  <2>1. sent[i] \in [query : Queries \cup {0}, at : Nat]
    BY <1>1, ElementOfSeq DEF ClientTyped
  <2>. QED
    BY <2>1
<1>. QED
  BY <1>1, <1>2

LEMMA TableRests ==
  ASSUME ClientTyped, TableKept, UNCHANGED <<client, tick, sent, recent>>,
         NEW c \in Searches, NEW r \in SearchRecord, Moves(c, r),
         r.at \in {"pacing", "cleared"} <=> c \in WithToken,
         c \in WithToken => r.query = searching[c].query
  PROVE  TableKept'
<1>1. WithToken' = WithToken /\ \A d \in WithToken : searching'[d].query = searching[d].query
  <2>1. \A d \in Searches : d \in WithToken' <=> d \in WithToken
    BY OneMoves DEF WithToken
  <2>2. \A d \in WithToken : searching'[d].query = searching[d].query
    BY OneMoves DEF WithToken
  <2>. QED
    BY <2>1, <2>2 DEF WithToken
<1>2. \A i \in DOMAIN sent : (LongAgo(i)' <=> LongAgo(i)) /\ (Listed(i)' <=> Listed(i))
  BY DEF LongAgo, Listed
<1>3. sent' = sent /\ recent' = recent
  OBVIOUS
<1>4. \A i \in DOMAIN sent' : LongAgo(i)' \/ Listed(i)'
  BY <1>2, <1>3 DEF TableKept
<1>5. \A d \in WithToken', i \in DOMAIN sent' :
        sent'[i].query = searching'[d].query => LongAgo(i)'
  BY <1>1, <1>2, <1>3 DEF TableKept
<1>6. \A q \in DOMAIN recent' :
       \/ \E i \in DOMAIN sent' : sent'[i].query = q /\ sent'[i].at = recent'[q]
       \/ \E d \in WithToken' : searching'[d].query = q
  BY <1>1, <1>3 DEF TableKept
<1>7. \A q \in DOMAIN recent' : recent'[q] \in Int
  BY <1>3 DEF TableKept
<1>. QED
  BY <1>4, <1>5, <1>6, <1>7 DEF TableKept

(* A reservation is given back: what was sent of its query is long ago.    *)
LEMMA TableReleases ==
  ASSUME ClientTyped, TableKept, UNCHANGED <<client, tick, sent>>,
         NEW c \in Searches, NEW r \in SearchRecord, Moves(c, r),
         c \in WithToken, r.at \notin {"pacing", "cleared"},
         recent' = Without(recent, {searching[c].query})
  PROVE  TableKept'
<1>1. /\ DOMAIN recent' = DOMAIN recent \ {searching[c].query}
      /\ \A q \in DOMAIN recent' : recent'[q] = recent[q]
  BY DEF Without
<1>2. \A d \in WithToken' : d \in WithToken /\ searching'[d] = searching[d]
  BY OneMoves DEF WithToken
<1>3. \A d \in WithToken : d # c => d \in WithToken' /\ searching'[d] = searching[d]
  BY OneMoves DEF WithToken
<1>4. \A i \in DOMAIN sent : LongAgo(i)' <=> LongAgo(i)
  BY DEF LongAgo
<1>5. sent' = sent
  OBVIOUS
<1>6. ASSUME NEW i \in DOMAIN sent'
      PROVE  LongAgo(i)' \/ Listed(i)'
  <2>1. CASE sent[i].query = searching[c].query
    BY <1>4, <1>5, <2>1 DEF TableKept
  <2>2. CASE sent[i].query # searching[c].query
    <3>1. LongAgo(i) \/ Listed(i)
      BY <1>5 DEF TableKept
    <3>2. Listed(i) => Listed(i)'
      BY <1>1, <1>5, <2>2 DEF Listed
    <3>. QED
      BY <1>4, <1>5, <3>1, <3>2
  <2>. QED
    BY <2>1, <2>2
<1>7. \A d \in WithToken', i \in DOMAIN sent' :
        sent'[i].query = searching'[d].query => LongAgo(i)'
  BY <1>2, <1>4, <1>5 DEF TableKept
<1>8. ASSUME NEW q \in DOMAIN recent'
      PROVE  \/ \E i \in DOMAIN sent' : sent'[i].query = q /\ sent'[i].at = recent'[q]
             \/ \E d \in WithToken' : searching'[d].query = q
  <2>1. CASE \E i \in DOMAIN sent : sent[i].query = q /\ sent[i].at = recent[q]
    BY <1>1, <1>5, <2>1
  <2>2. CASE \E d \in WithToken : searching[d].query = q
    BY <1>1, <1>3, <2>2
  <2>. QED
    BY <1>1, <2>1, <2>2 DEF TableKept
<1>9. \A q \in DOMAIN recent' : recent'[q] \in Int
  BY <1>1 DEF TableKept
<1>. QED
  BY <1>6, <1>7, <1>8, <1>9 DEF TableKept

(* As many queries within the delay as it has moments: one was sent now,   *)
(* and one so long ago that the next request comes after its delay.        *)
LEMMA FullTable ==
  ASSUME NEW now \in Int, NEW table, NEW m \in Nat, NEW n \in Nat \ {0}, m <= n,
         \A k \in DOMAIN table : table[k] \in now - m + 1 .. now,
         \A k, l \in DOMAIN table : table[k] = table[l] => k = l,
         ~(Cardinality(DOMAIN table) < n)
  PROVE  /\ \E k \in DOMAIN table : table[k] = now
         /\ \E k \in DOMAIN table : table[k] = now - m + 1
<1>. DEFINE moments == now - m + 1 .. now
            f == [k \in DOMAIN table |-> table[k]]
<1>1. IsFiniteSet(moments) /\ Cardinality(moments) = m
  BY FS_Interval
<1>2. f \in Injection(DOMAIN table, moments)
  <2>1. f \in [DOMAIN table -> moments]
    OBVIOUS
  <2>2. \A k, l \in DOMAIN table : f[k] = f[l] => k = l
    OBVIOUS
  <2>. HIDE DEF f, moments
  <2>. QED
    BY <2>1, <2>2, Zenon DEF Injection, IsInjective
<1>3. /\ IsFiniteSet(DOMAIN table) /\ Cardinality(DOMAIN table) <= Cardinality(moments)
      /\ Cardinality(DOMAIN table) = Cardinality(moments) <=> f \in Surjection(DOMAIN table, moments)
  <2>. HIDE DEF f, moments
  <2>. QED
    BY <1>1, <1>2, FS_Injection
<1>4. Cardinality(DOMAIN table) = Cardinality(moments) /\ m > 0
  BY <1>1, <1>3, FS_CardinalityType
<1>5. \A t \in moments : \E k \in DOMAIN table : f[k] = t
  <2>. HIDE DEF f, moments
  <2>. QED
    BY <1>3, <1>4 DEF Surjection
<1>6. now \in moments /\ now - m + 1 \in moments
  BY <1>4
<1>. QED
  BY <1>5, <1>6

LEMMA PacedApart ==
  ASSUME ClientTyped, Paced, client = "stackexchange",
         NEW i \in DOMAIN sent, NEW j \in DOMAIN sent, sent[i].at = sent[j].at
  PROVE  i = j
<1>1. Limits.burst = 1 /\ i \in Nat /\ j \in Nat /\ sent[i].at \in Nat
  BY ClientLimits, SentTyped DEF ClientTyped
<1>2. i <= j => j - i + 1 <= 1 + sent[j].at - sent[i].at
  BY <1>1 DEF Paced
<1>3. j <= i => i - j + 1 <= 1 + sent[i].at - sent[j].at
  BY <1>1 DEF Paced
<1>. QED
  BY <1>1, <1>2, <1>3

LEMMA DroppedLongAgo ==
  ASSUME ClientTyped, Punctual, Paced, TableKept, client = "stackexchange", WithToken = {},
         NEW k \in Oldest(Live)
  PROVE  /\ k \in DOMAIN recent /\ tick + 1 - recent[k] >= RepeatDelay
         /\ \E j \in DOMAIN sent : sent[j].at = tick
<1>1. RepeatDelay \in Nat /\ RecentCap \in Nat \ {0} /\ RepeatDelay <= RecentCap /\ tick \in Int
  BY ProviderConstants DEF ClientTyped
<1>2. ASSUME NEW q \in DOMAIN Live
      PROVE  /\ q \in DOMAIN recent /\ Live[q] = recent[q] /\ recent[q] \in Int
             /\ tick - recent[q] < RepeatDelay
             /\ \E i \in DOMAIN sent : sent[i].query = q /\ sent[i].at = recent[q]
  <2>1. q \in DOMAIN recent /\ Live[q] = recent[q] /\ ~(tick - recent[q] >= RepeatDelay)
    BY DEF Live, Without
  <2>2. recent[q] \in Int /\ \E i \in DOMAIN sent : sent[i].query = q /\ sent[i].at = recent[q]
    BY <2>1 DEF TableKept
  <2>. QED
    BY <1>1, <2>1, <2>2
<1>3. \A q \in DOMAIN Live : Live[q] \in tick - RepeatDelay + 1 .. tick
  <2>. SUFFICES ASSUME NEW q \in DOMAIN Live
                PROVE  Live[q] \in tick - RepeatDelay + 1 .. tick
    OBVIOUS
  <2>1. recent[q] <= tick
    BY <1>2 DEF Punctual
  <2>2. Live[q] = recent[q] /\ recent[q] \in Int /\ tick - recent[q] < RepeatDelay
    BY <1>2
  <2>. HIDE DEF Live
  <2>. QED
    BY <1>1, <2>1, <2>2
<1>4. ASSUME NEW q \in DOMAIN Live, NEW l \in DOMAIN Live, Live[q] = Live[l]
      PROVE  q = l
  <2>1. PICK i \in DOMAIN sent : sent[i].query = q /\ sent[i].at = Live[q]
    BY <1>2
  <2>2. PICK j \in DOMAIN sent : sent[j].query = l /\ sent[j].at = Live[l]
    BY <1>2
  <2>3. i = j
    BY <1>4, <2>1, <2>2, PacedApart
  <2>. QED
    BY <2>1, <2>2, <2>3
<1>5. ~(Cardinality(DOMAIN Live) < RecentCap)
  BY DEF Oldest
<1>6. k = CHOOSE q \in DOMAIN Live : \A l \in DOMAIN Live : Live[q] <= Live[l]
  BY <1>5 DEF Oldest
<1>. HIDE DEF Live
<1>7. /\ \E q \in DOMAIN Live : Live[q] = tick
      /\ \E q \in DOMAIN Live : Live[q] = tick - RepeatDelay + 1
  BY <1>1, <1>3, <1>4, <1>5, FullTable
<1>8. \E q \in DOMAIN Live : \A l \in DOMAIN Live : Live[q] <= Live[l]
  BY <1>1, <1>3, <1>7
<1>9. k \in DOMAIN Live /\ \A l \in DOMAIN Live : Live[k] <= Live[l]
  BY <1>6, <1>8
<1>10. Live[k] <= tick - RepeatDelay + 1 /\ Live[k] = recent[k] /\ k \in DOMAIN recent
  BY <1>2, <1>7, <1>9
<1>11. tick + 1 - recent[k] >= RepeatDelay
  <2>1. recent[k] \in Int
    BY <1>2, <1>9
  <2>. QED
    BY <1>1, <1>10, <2>1
<1>12. \E j \in DOMAIN sent : sent[j].at = tick
  BY <1>2, <1>7
<1>. QED
  BY <1>10, <1>11, <1>12

LEMMA TableReserves ==
  ASSUME ClientTyped, Punctual, Paced, SlotsKept, TableKept, client = "stackexchange",
         UNCHANGED <<client, tick, sent>>,
         NEW c \in Searches, NEW r \in SearchRecord, Moves(c, r),
         searching[c].at = "admitted", searching[c].query \notin DOMAIN Live,
         r.at = "pacing", r.query = searching[c].query,
         recent' = With(Without(Live, Oldest(Live)), searching[c].query)
  PROVE  TableKept'
<1>. DEFINE own == searching[c].query
<1>1. WithToken = {}
  <2>. SUFFICES ASSUME NEW d \in WithToken PROVE FALSE
    OBVIOUS
  <2>1. c \in Holding /\ d \in Holding
    BY DEF Holding, WithToken
  <2>2. c = d
    BY <2>1, OneHolds
  <2>. QED
    BY <2>2 DEF WithToken
<1>2. c \in WithToken' /\ searching'[c].query = own /\ \A d \in WithToken' : d = c
  <2>1. c \in WithToken' /\ searching'[c].query = own
    BY OneMoves DEF WithToken
  <2>2. \A d \in WithToken' : d = c
    BY <1>1, OneMoves DEF WithToken
  <2>. QED
    BY <2>1, <2>2
<1>3. /\ DOMAIN recent' = (DOMAIN Live \ Oldest(Live)) \cup {own}
      /\ recent'[own] = tick
      /\ \A k \in DOMAIN Live \ Oldest(Live) : k # own => recent'[k] = Live[k]
  <2>. HIDE DEF Live, Oldest
  <2>. QED
    BY DEF With, Without
<1>4. /\ DOMAIN Live \subseteq DOMAIN recent
      /\ \A k \in DOMAIN Live : Live[k] = recent[k]
      /\ \A k \in DOMAIN recent : k \notin DOMAIN Live => tick - recent[k] >= RepeatDelay
  BY DEF Live, Without
<1>. HIDE DEF Live, Oldest
<1>5. \A i \in DOMAIN sent : LongAgo(i)' <=> LongAgo(i)
  BY DEF LongAgo
<1>6. RepeatDelay \in Nat /\ tick \in Nat /\ sent' = sent /\ tick' = tick
  BY ProviderConstants DEF ClientTyped
<1>7. ASSUME NEW i \in DOMAIN sent, Listed(i), ~LongAgo(i)
      PROVE  sent[i].query \in DOMAIN Live \ Oldest(Live)
  <2>1. sent[i].at \in Int /\ recent[sent[i].query] \in Int /\ sent[i].query \in DOMAIN recent
        /\ recent[sent[i].query] >= sent[i].at
    BY <1>7, SentTyped DEF TableKept, Listed
  <2>2. sent[i].query \in DOMAIN Live
    <3>1. tick - sent[i].at < RepeatDelay
      BY <1>6, <1>7, <2>1 DEF LongAgo
    <3>2. ~(tick - recent[sent[i].query] >= RepeatDelay)
      BY <1>6, <2>1, <3>1
    <3>. QED
      BY <1>4, <2>1, <3>2
  <2>3. ASSUME sent[i].query \in Oldest(Live)
        PROVE  FALSE
    <3>1. tick + 1 - recent[sent[i].query] >= RepeatDelay /\ \E j \in DOMAIN sent : sent[j].at = tick
      BY <1>1, <2>3, DroppedLongAgo
    <3>2. tick + 1 - sent[i].at >= RepeatDelay
      BY <1>6, <2>1, <3>1
    <3>. QED
      BY <1>7, <3>1, <3>2 DEF LongAgo
  <2>. QED
    BY <2>2, <2>3
<1>8. ASSUME NEW i \in DOMAIN sent'
      PROVE  LongAgo(i)' \/ Listed(i)'
  <2>1. CASE LongAgo(i)
    BY <1>5, <1>6, <2>1
  <2>2. CASE ~LongAgo(i)
    <3>1. Listed(i)
      BY <1>6, <2>2 DEF TableKept
    <3>2. sent[i].query \in DOMAIN Live \ Oldest(Live)
      BY <1>6, <1>7, <2>2, <3>1
    <3>3. recent'[sent[i].query] = recent[sent[i].query] /\ sent[i].query \in DOMAIN recent'
      BY <1>3, <1>4, <3>2
    <3>4. Listed(i)'
      BY <1>6, <3>1, <3>3 DEF Listed
    <3>. QED
      BY <3>4
  <2>. QED
    BY <2>1, <2>2
<1>9. ASSUME NEW d \in WithToken', NEW i \in DOMAIN sent', sent'[i].query = searching'[d].query
      PROVE  LongAgo(i)'
  <2>1. i \in DOMAIN sent /\ sent[i].query = own
    BY <1>2, <1>6, <1>9
  <2>2. ASSUME ~LongAgo(i)
        PROVE  FALSE
    BY <1>7, <2>1, <2>2 DEF TableKept
  <2>. QED
    BY <1>5, <2>1, <2>2
<1>10. ASSUME NEW q \in DOMAIN recent'
       PROVE  /\ recent'[q] \in Int
              /\ \/ \E i \in DOMAIN sent' : sent'[i].query = q /\ sent'[i].at = recent'[q]
                 \/ \E d \in WithToken' : searching'[d].query = q
  <2>1. CASE q = own
    BY <1>2, <1>3, <1>6, <2>1
  <2>2. CASE q # own
    <3>1. q \in DOMAIN recent /\ recent'[q] = recent[q]
      BY <1>3, <1>4, <2>2
    <3>2. recent[q] \in Int /\ \E i \in DOMAIN sent : sent[i].query = q /\ sent[i].at = recent[q]
      BY <1>1, <3>1 DEF TableKept
    <3>. QED
      BY <1>6, <3>1, <3>2
  <2>. QED
    BY <2>1, <2>2
<1>. QED
  BY <1>8, <1>9, <1>10 DEF TableKept

LEMMA TableSends ==
  ASSUME ClientTyped, Punctual, Paced', SlotsKept, TableKept, client = "stackexchange",
         UNCHANGED <<client, tick>>, NoRepeats, ClientTyped',
         NEW c \in Searches, NEW r \in SearchRecord, Moves(c, r),
         searching[c].at = "cleared", r.at = "sending",
         sent' = Append(sent, [query |-> searching[c].query, at |-> tick]),
         recent' = With(recent, searching[c].query)
  PROVE  TableKept' /\ NoRepeats'
<1>. DEFINE own == searching[c].query
<1>1. /\ Len(sent) \in Nat /\ DOMAIN sent = 1..Len(sent)
      /\ DOMAIN sent' = 1..(Len(sent) + 1)
      /\ sent'[Len(sent) + 1].at = tick /\ sent'[Len(sent) + 1].query = own
      /\ \A i \in DOMAIN sent : sent'[i] = sent[i]
  BY DEF ClientTyped
<1>2. \A i \in DOMAIN sent' : i \in DOMAIN sent \/ i = Len(sent) + 1
  BY <1>1
<1>3. DOMAIN sent \subseteq DOMAIN sent' /\ Len(sent) + 1 \in DOMAIN sent'
  BY <1>1
<1>4. RepeatDelay \in Nat /\ tick \in Nat /\ tick' = tick /\ client' = client
  BY ProviderConstants DEF ClientTyped
<1>5. /\ DOMAIN recent' = DOMAIN recent \cup {own} /\ recent'[own] = tick
      /\ \A k \in DOMAIN recent : k # own => recent'[k] = recent[k]
  BY DEF With
<1>6. WithToken' = {}
  <2>. SUFFICES ASSUME NEW d \in WithToken' PROVE FALSE
    OBVIOUS
  <2>1. d # c /\ d \in WithToken
    BY OneMoves DEF WithToken
  <2>2. c \in Holding /\ d \in Holding
    BY <2>1 DEF Holding, WithToken
  <2>. QED
    BY <2>1, <2>2, OneHolds
<1>7. \A i \in DOMAIN sent : LongAgo(i) => LongAgo(i)'
  BY <1>1, <1>3, <1>4 DEF LongAgo
<1>8. ASSUME NEW i \in DOMAIN sent'
      PROVE  LongAgo(i)' \/ Listed(i)'
  <2>1. CASE i = Len(sent) + 1
    BY <1>1, <1>4, <1>5, <2>1 DEF Listed
  <2>2. CASE i \in DOMAIN sent
    <3>1. CASE LongAgo(i)
      BY <1>7, <2>2, <3>1
    <3>2. CASE Listed(i) /\ sent[i].query = own
      <4>1. sent[i].at <= tick
        BY <2>2 DEF Punctual
      <4>. QED
        BY <1>1, <1>4, <1>5, <2>2, <3>2, <4>1, SentTyped DEF Listed
    <3>3. CASE Listed(i) /\ sent[i].query # own
      BY <1>1, <1>5, <2>2, <3>3 DEF Listed
    <3>. QED
      BY <2>2, <3>1, <3>2, <3>3 DEF TableKept
  <2>. QED
    BY <1>2, <2>1, <2>2
<1>9. ASSUME NEW q \in DOMAIN recent'
      PROVE  /\ recent'[q] \in Int
             /\ \/ \E i \in DOMAIN sent' : sent'[i].query = q /\ sent'[i].at = recent'[q]
                \/ \E d \in WithToken' : searching'[d].query = q
  <2>1. CASE q = own
    BY <1>1, <1>3, <1>4, <1>5, <2>1
  <2>2. CASE q # own
    <3>1. q \in DOMAIN recent /\ recent'[q] = recent[q]
      BY <1>5, <2>2
    <3>2. recent[q] \in Int
      BY <3>1 DEF TableKept
    <3>3. \A d \in WithToken : d = c
      <4>1. \A d \in WithToken : d \in Holding /\ c \in Holding
        BY DEF WithToken, Holding
      <4>. QED
        BY <4>1, OneHolds
    <3>4. \E i \in DOMAIN sent : sent[i].query = q /\ sent[i].at = recent[q]
      BY <2>2, <3>1, <3>3 DEF TableKept
    <3>. QED
      BY <1>1, <1>3, <3>1, <3>2, <3>4
  <2>. QED
    BY <2>1, <2>2
<1>10. TableKept'
  BY <1>6, <1>8, <1>9 DEF TableKept
<1>11. ASSUME NEW i \in DOMAIN sent, sent[i].query = own
       PROVE  tick - sent[i].at >= RepeatDelay
  <2>1. c \in WithToken
    BY DEF WithToken
  <2>2. LongAgo(i)
    BY <1>11, <2>1 DEF TableKept
  <2>3. ASSUME NEW j \in DOMAIN sent, sent[j].at = tick
        PROVE  FALSE
    <3>1. Limits'.burst = 1
      BY ClientLimits, SameClient DEF ClientTyped
    <3>2. /\ sent'[j].at = tick /\ j \in DOMAIN sent' /\ j \in Nat /\ j <= Len(sent)
          /\ Len(sent) + 1 \in DOMAIN sent'
      BY <1>1, <1>3, <2>3
    <3>3. PICK last : last = Len(sent) + 1
      OBVIOUS
    <3>4. last \in DOMAIN sent' /\ last \in Nat /\ j < last /\ sent'[last].at = tick
      BY <1>1, <3>2, <3>3
    <3>5. \A k, l \in DOMAIN sent' :
            k <= l => l - k + 1 <= Limits'.burst + sent'[l].at - sent'[k].at
      BY DEF Paced
    <3>6. j <= last
      BY <3>2, <3>4
    <3>7. last - j + 1 <= Limits'.burst + sent'[last].at - sent'[j].at
      BY <3>2, <3>4, <3>5, <3>6, Zenon
    <3>8. last - j + 1 <= 1 + tick - tick
      BY <3>1, <3>2, <3>4, <3>7, Zenon
    <3>. QED
      BY <1>4, <3>2, <3>4, <3>8
  <2>. QED
    BY <2>2, <2>3 DEF LongAgo
<1>12. Control.guarded
  BY ClientControl DEF ClientTyped
<1>13. ASSUME NEW i \in DOMAIN sent', NEW j \in DOMAIN sent', i < j,
              sent'[i].query = sent'[j].query
       PROVE  sent'[j].at - sent'[i].at >= RepeatDelay
  <2>1. i \in DOMAIN sent
    BY <1>1, <1>13
  <2>2. CASE j \in DOMAIN sent
    BY <1>1, <1>12, <1>13, <2>1, <2>2 DEF NoRepeats
  <2>3. CASE j = Len(sent) + 1
    BY <1>1, <1>11, <1>13, <2>1, <2>3
  <2>. QED
    BY <1>2, <2>2, <2>3
<1>14. NoRepeats'
  BY <1>13 DEF NoRepeats
<1>. QED
  BY <1>10, <1>14

(* Time passes: what is long ago stays so.                                 *)
LEMMA TableAges ==
  ASSUME ClientTyped, Punctual, TableKept,
         UNCHANGED <<client, sent, recent, searching>>, tick' = tick + 1
  PROVE  TableKept'
<1>1. RepeatDelay \in Nat /\ tick \in Nat /\ sent' = sent /\ recent' = recent /\ WithToken' = WithToken
  BY ProviderConstants DEF ClientTyped, WithToken
<1>2. ASSUME NEW i \in DOMAIN sent, LongAgo(i)
      PROVE  LongAgo(i)'
  <2>1. sent[i].at \in Nat
    BY SentTyped
  <2>2. tick + 1 - sent[i].at >= RepeatDelay
    BY <1>1, <1>2, <2>1 DEF LongAgo
  <2>. QED
    <3>1. sent'[i].at = sent[i].at /\ tick' = tick + 1
      BY <1>1
    <3>. QED
      BY <1>1, <2>1, <2>2, <3>1 DEF LongAgo
<1>3. \A i \in DOMAIN sent' : LongAgo(i)' \/ Listed(i)'
  <2>. SUFFICES ASSUME NEW i \in DOMAIN sent' PROVE LongAgo(i)' \/ Listed(i)'
    OBVIOUS
  <2>1. Listed(i) => Listed(i)'
    BY DEF Listed
  <2>. QED
    BY <1>1, <1>2, <2>1 DEF TableKept
<1>4. \A d \in WithToken', i \in DOMAIN sent' :
        sent'[i].query = searching'[d].query => LongAgo(i)'
  BY <1>1, <1>2 DEF TableKept
<1>5. \A q \in DOMAIN recent' :
        /\ recent'[q] \in Int
        /\ \/ \E i \in DOMAIN sent' : sent'[i].query = q /\ sent'[i].at = recent'[q]
           \/ \E d \in WithToken' : searching'[d].query = q
  BY <1>1 DEF TableKept
<1>. QED
  BY <1>3, <1>4, <1>5 DEF TableKept

-----------------------------------------------------------------------------
(* Verdicts.                                                               *)
LEMMA FailuresHold ==
  ASSUME told'.verdict \in {"none", "failed"}, told'.excluded = FALSE
  PROVE  VerdictsHold'
BY DEF VerdictsHold

(* What the rows of a readable answer are told as, for each client.        *)
Truly(a, verdict) ==
  /\ verdict \in {"authoritative_empty", "healthy"} =>
       /\ a.status = 200 /\ a.body = "whole"
       /\ client \in {"crossref", "wikipedia"} \/ a.bad = 0
       /\ client \in Claims \ {"pubmed", "github"} => a.claim = "all"
       /\ verdict = "authoritative_empty" => Hits(a) = 0 /\ a.claim = "all"
  /\ verdict \in {"healthy", "partial"} => Hits(a) = 1
  /\ verdict = "degraded_empty" => Hits(a) = 0

LEMMA RowsHold ==
  ASSUME client \in Clients, NEW a \in Reply, a.status = 200, a.body = "whole",
         a.dropped => client \in Filters, a.claim = "more" => client \in Claims,
         a.claim = "unknown" => client \in Claims \cup {"crossref", "wikipedia"}
  PROVE  Truly(a, RowsVerdict(a))
<1>1. /\ a.good \in {0, 1} /\ a.bad \in {0, 1} /\ a.claim \in {"all", "more", "unknown"}
      /\ a.bad > 0 <=> a.bad # 0
      /\ Hits(a) \in {0, 1} /\ (a.dropped => Hits(a) = 0) /\ (~a.dropped => Hits(a) = a.good)
  BY DEF Reply, Hits
<1>2. Sure(a) = IF Hits(a) = 1 THEN "healthy" ELSE "authoritative_empty"
  BY DEF Sure
<1>3. Unsure(a) = IF Hits(a) = 1 THEN "partial" ELSE "degraded_empty"
  BY DEF Unsure
<1>4. client \in ClientNames
  BY ProviderConstants
<1>5. CASE client = "arxiv"
  <2>1. RowsVerdict(a) = ArxivVerdict(a)
    BY <1>5 DEF RowsVerdict, Of
  <2>. QED
    BY <1>1, <1>2, <1>3, <1>5, <2>1 DEF ArxivVerdict, Truly
<1>6. CASE client = "crossref"
  <2>1. RowsVerdict(a) = CrossrefVerdict(a)
    BY <1>6 DEF RowsVerdict, Of
  <2>. QED
    BY <1>1, <1>2, <1>3, <1>6, <2>1 DEF CrossrefVerdict, Truly, Claims
<1>7. CASE client = "github"
  <2>1. RowsVerdict(a) = GithubVerdict(a)
    BY <1>7 DEF RowsVerdict, Of
  <2>. QED
    BY <1>1, <1>2, <1>3, <1>7, <2>1 DEF GithubVerdict, Truly
<1>8. CASE client \in {"mwmbl", "wiby", "stackexchange"}
  <2>1. RowsVerdict(a) = MwmblVerdict(a)
    BY <1>8 DEF RowsVerdict, Of, WibyVerdict, StackexchangeVerdict
  <2>. QED
    BY <1>1, <1>2, <1>3, <1>8, <2>1 DEF MwmblVerdict, Truly, Claims
<1>9. CASE client = "pubmed"
  <2>1. RowsVerdict(a) = PubmedVerdict(a)
    BY <1>9 DEF RowsVerdict, Of
  <2>2. Hits(a) = a.good
    BY <1>1, <1>9 DEF Filters
  <2>. QED
    BY <1>1, <1>9, <2>1, <2>2 DEF PubmedVerdict, Truly
<1>10. CASE client = "scrapling"
  <2>1. RowsVerdict(a) = ScraplingVerdict(a)
    BY <1>10 DEF RowsVerdict, Of
  <2>. QED
    BY <1>1, <1>2, <1>3, <1>10, <2>1 DEF ScraplingVerdict, Truly
<1>11. CASE client = "wikipedia"
  <2>1. RowsVerdict(a) = WikipediaVerdict(a)
    BY <1>11 DEF RowsVerdict, Of
  <2>. QED
    BY <1>1, <1>2, <1>3, <1>11, <2>1 DEF WikipediaVerdict, Truly, Claims
<1>12. CASE client \in {"yacy_local", "yacy_global"}
  <2>1. RowsVerdict(a) = YacyVerdict(a)
    BY <1>12 DEF RowsVerdict, Of
  <2>. QED
    BY <1>1, <1>2, <1>3, <1>12, <2>1 DEF YacyVerdict, Truly
<1>. QED
  BY <1>4, <1>5, <1>6, <1>7, <1>8, <1>9, <1>10, <1>11, <1>12 DEF ClientNames

(* What a search is told of the answer that ends it.                       *)
LEMMA AnswerHolds ==
  ASSUME ClientTyped, UNCHANGED client, NEW c \in Searches, NEW a \in Answers,
         NEW rows, rows = [a EXCEPT !.bad = Max({a.bad, searching[c].carried})],
         told'.answer = rows, told'.excluded = FALSE,
         told'.verdict = IF searching[c].round < Control.requests /\ a.status = 200
                            /\ a.body = "whole"
                         THEN PubmedIds(a) ELSE BatchVerdict(rows)
  PROVE  VerdictsHold'
<1>1. /\ a \in Reply /\ (a.dropped => client \in Filters)
      /\ (a.claim = "more" => client \in Claims)
      /\ (a.claim = "unknown" => client \in Claims \cup {"crossref", "wikipedia"})
  BY DEF Answers, Possible
<1>2. /\ searching[c] \in SearchRecord /\ searching[c].carried \in {0, 1}
      /\ searching[c].round \in {1, 2} /\ (searching[c].round = 1 => searching[c].carried = 0)
      /\ client \in Clients
  BY DEF ClientTyped, SearchRecord
<1>3. a.bad \in {0, 1} /\ Max({a.bad, searching[c].carried}) \in {0, 1}
      /\ (searching[c].carried = 0 => Max({a.bad, searching[c].carried}) = a.bad)
  <2>1. a.bad \in {0, 1}
    BY <1>1 DEF Reply
  <2>2. Max({a.bad, searching[c].carried})
          = IF a.bad <= searching[c].carried THEN searching[c].carried ELSE a.bad
    BY <1>2, <2>1, GreaterOf
  <2>. QED
    BY <1>2, <2>1, <2>2
<1>4. /\ rows \in Reply /\ rows.status = a.status /\ rows.body = a.body /\ rows.claim = a.claim
      /\ rows.dropped = a.dropped /\ rows.good = a.good
      /\ rows.bad = Max({a.bad, searching[c].carried})
  BY <1>1, <1>3 DEF Reply
<1>5. told'.answer = rows /\ told'.excluded = FALSE
  OBVIOUS
<1>. SUFFICES Truly(rows, told'.verdict)
  BY <1>5 DEF Truly, VerdictsHold
<1>6. CASE searching[c].round < Control.requests /\ a.status = 200 /\ a.body = "whole"
  <2>1. told'.verdict = PubmedIds(a)
    BY <1>6
  <2>2. searching[c].round = 1 /\ client = "pubmed"
    <3>1. Control.requests \in {1, 2} /\ (Control.requests = 2 <=> client = "pubmed")
      BY <1>2, ClientControl
    <3>. QED
      BY <1>2, <1>6, <3>1
  <2>3. rows.bad = a.bad
    BY <1>2, <1>3, <1>4, <2>2
  <2>4. /\ PubmedIds(a) \in {"failed", "more", "authoritative_empty"}
        /\ PubmedIds(a) = "authoritative_empty" => a.good # 1 /\ a.claim = "all" /\ a.bad = 0
    BY DEF PubmedIds
  <2>5. a.good \in {0, 1} /\ (Hits(rows) = 0 \/ Hits(rows) = a.good)
    BY <1>1, <1>4 DEF Hits, Reply
  <2>. QED
    BY <1>4, <1>6, <2>1, <2>2, <2>3, <2>4, <2>5 DEF Truly
<1>7. CASE ~(searching[c].round < Control.requests /\ a.status = 200 /\ a.body = "whole")
  <2>1. told'.verdict = BatchVerdict(rows)
    BY <1>7
  <2>2. CASE rows.status = 200 /\ rows.body = "whole"
    <3>1. Truly(rows, RowsVerdict(rows))
      BY <1>1, <1>2, <1>4, <2>2, RowsHold
    <3>. QED
      BY <2>1, <2>2, <3>1 DEF BatchVerdict
  <2>3. CASE ~(rows.status = 200 /\ rows.body = "whole")
    <3>1. told'.verdict = "failed"
      BY <2>1, <2>3 DEF BatchVerdict
    <3>. QED
      BY <3>1 DEF Truly
  <2>. QED
    BY <2>2, <2>3
<1>. QED
  BY <1>6, <1>7

-----------------------------------------------------------------------------
(* The steps.                                                              *)
LEMMA TypedMoves ==
  ASSUME ClientTyped, UNCHANGED <<client, tick>>,
         NEW c \in Searches, NEW r \in SearchRecord, Moves(c, r),
         r.round <= Control.requests, r.round = 1 => r.carried = 0, cooldown' \in Nat,
         bucket' \in [tokens : Int, at : Int, last : Int],
         bucket'.at <= tick, bucket'.tokens <= Limits.burst,
         sent' \in Seq([query : Queries \cup {0}, at : Nat])
  PROVE  ClientTyped'
<1>1. \A d \in Searches : /\ searching'[d].round <= Control.requests
                          /\ searching'[d].round = 1 => searching'[d].carried = 0
  BY OneMoves DEF ClientTyped
<1>. QED
  BY <1>1, OneMoves, SameClient DEF ClientTyped

LEMMA PunctualRests ==
  ASSUME ClientTyped, Punctual, UNCHANGED <<tick, sent>>,
         NEW c \in Searches, NEW r \in SearchRecord, Moves(c, r),
         r.at = "pacing" => r.due >= tick, r.at = "cleared" => r.due = tick
  PROVE  Punctual'
<1>1. \A d \in Searches : /\ searching'[d].at = "pacing" => searching'[d].due >= tick
                          /\ searching'[d].at = "cleared" => searching'[d].due = tick
  BY OneMoves DEF Punctual
<1>2. tick' = tick /\ sent' = sent
  OBVIOUS
<1>. QED
  BY <1>1, <1>2 DEF Punctual

LEMMA BucketsTyped ==
  ASSUME ClientTyped
  PROVE  /\ Reservation \in [tokens : Int, at : Int, last : Int]
         /\ Reservation.at <= tick /\ Reservation.tokens <= Limits.burst
         /\ Reservation.last >= tick
         /\ \A c \in Searches : /\ Returned(c) \in [tokens : Int, at : Int, last : Int]
                                /\ Returned(c).at <= tick /\ Returned(c).tokens <= Limits.burst
<1>1. /\ tick \in Nat /\ Limits.burst \in Nat
      /\ bucket.tokens \in Int /\ bucket.at \in Int /\ bucket.last \in Int
  BY ClientLimits DEF ClientTyped
<1>2. Tokens \in Int /\ Tokens <= Limits.burst
  BY <1>1, LesserOf DEF Tokens
<1>. HIDE DEF Tokens
<1>3. Reservation = [tokens |-> Tokens - 1, at |-> tick,
                     last |-> tick + (IF Tokens - 1 < 0 THEN -(Tokens - 1) ELSE 0)]
  BY DEF Reservation
<1>4. ASSUME NEW c \in Searches
      PROVE  /\ Returned(c) \in [tokens : Int, at : Int, last : Int]
             /\ Returned(c).at <= tick /\ Returned(c).tokens <= Limits.burst
  <2>. DEFINE due == searching[c].due
              restored == 1 - (bucket.last - due)
              returns == searching[c].at = "pacing" /\ searching[c].waited /\ due >= tick
                         /\ restored > 0
  <2>1. due \in Int /\ restored \in Int
    BY <1>1 DEF ClientTyped, SearchRecord
  <2>2. CASE returns
    <3>1. Returned(c) = [tokens |-> Min({Limits.burst, Tokens + restored}), at |-> tick,
                         last |-> IF restored = 1 /\ due - 1 >= tick THEN due - 1 ELSE bucket.last]
      BY <2>2 DEF Returned
    <3>2. /\ Min({Limits.burst, Tokens + restored}) \in Int
          /\ Min({Limits.burst, Tokens + restored}) <= Limits.burst
      <4>. HIDE DEF restored
      <4>. QED
        BY <1>1, <1>2, <2>1, LesserOf
    <3>. HIDE DEF due, restored
    <3>. QED
      BY <1>1, <2>1, <3>1, <3>2
  <2>3. CASE ~returns
    <3>1. Returned(c) = bucket
      BY <2>3 DEF Returned
    <3>. QED
      BY <3>1 DEF ClientTyped
  <2>. QED
    BY <2>2, <2>3
<1>. QED
  BY <1>1, <1>2, <1>3, <1>4

LEMMA NoRepeatsRest ==
  ASSUME NoRepeats, UNCHANGED <<client, sent>>
  PROVE  NoRepeats'
BY SameClient DEF NoRepeats

LEMMA IdleSearch ==
  ASSUME ClientTyped
  PROVE  /\ NotSearching \in SearchRecord /\ NotSearching.at = "idle"
         /\ NotSearching.round = 1 /\ NotSearching.carried = 0 /\ 1 <= Control.requests
<1>1. Control.requests \in {1, 2}
  BY ClientControl DEF ClientTyped
<1>. QED
  BY <1>1 DEF NotSearching, SearchRecord, Places

(* A search ends without an answer.                                        *)
LEMMA EndKeeps ==
  ASSUME ClientInv, NEW c \in Searches, Moves(c, NotSearching), VerdictsHold',
         UNCHANGED <<client, tick, cooldown, sent, excused, intruders>>,
         bucket' = bucket \/ bucket' = Returned(c),
         recent' = IF c \in WithToken THEN Released(c) ELSE recent
  PROVE  ClientInv'
<1>. DEFINE r == NotSearching
<1>1. ClientTyped /\ Punctual /\ SlotsKept /\ ExcusedKept /\ NoRepeats
  BY DEF ClientInv
<1>2. Moves(c, r) /\ r \in SearchRecord /\ r.at = "idle"
  BY <1>1, IdleSearch
<1>3. ClientTyped'
  <2>1. /\ bucket' \in [tokens : Int, at : Int, last : Int]
        /\ bucket'.at <= tick /\ bucket'.tokens <= Limits.burst
    BY <1>1, BucketsTyped DEF ClientTyped
  <2>2. cooldown' \in Nat /\ sent' \in Seq([query : Queries \cup {0}, at : Nat])
    BY <1>1 DEF ClientTyped
  <2>3. r.round <= Control.requests /\ (r.round = 1 => r.carried = 0)
    BY <1>1, IdleSearch
  <2>. HIDE DEF r
  <2>. QED
    BY <1>1, <1>2, <2>1, <2>2, <2>3, TypedMoves
<1>. HIDE DEF r
<1>4. Punctual'
  BY <1>1, <1>2, PunctualRests
<1>5. SlotsKept'
  BY <1>1, <1>2, SlotsRest DEF InSlot
<1>6. ExcusedKept'
  BY <1>1, <1>2, ExcusedRest
<1>7. \E s, p : Numbered(s, p)'
  <2>1. PICK s, p : Numbered(s, p)
    BY DEF ClientInv
  <2>2. CASE bucket' = bucket
    <3>1. Numbered(s, p)'
      BY <1>1, <1>2, <2>1, <2>2, NumbersRest
    <3>. QED
      BY <3>1
  <2>3. CASE bucket' = Returned(c)
    <3>1. Numbered(s, p)'
      BY <1>1, <1>2, <2>1, <2>3, ReturnedNumber
    <3>. QED
      BY <3>1
  <2>. QED
    BY <2>2, <2>3
<1>8. Control.guarded => TableKept'
  <2>. SUFFICES ASSUME Control.guarded PROVE TableKept'
    OBVIOUS
  <2>1. TableKept
    BY DEF ClientInv
  <2>2. CASE c \in WithToken
    <3>1. recent' = Without(recent, {searching[c].query})
      BY <2>2 DEF Released
    <3>. QED
      BY <1>1, <1>2, <2>1, <2>2, <3>1, TableReleases
  <2>3. CASE c \notin WithToken
    <3>1. recent' = recent
      BY <2>3
    <3>. QED
      BY <1>1, <1>2, <2>1, <2>3, <3>1, TableRests
  <2>. QED
    BY <2>2, <2>3
<1>9. NoRepeats' /\ VerdictsHold'
  BY <1>1, <1>2, NoRepeatsRest
<1>. QED
  BY <1>3, <1>4, <1>5, <1>6, <1>7, <1>8, <1>9, SameClient DEF ClientInv

LEMMA FailKeeps ==
  ASSUME ClientInv, NEW c \in Searches, Fail(c),
         UNCHANGED <<client, tick, cooldown, sent, excused, intruders>>,
         bucket' = bucket \/ bucket' = Returned(c),
         recent' = IF c \in WithToken THEN Released(c) ELSE recent
  PROVE  ClientInv'
<1>1. /\ told' = [answer |-> NoAnswer, verdict |-> "failed", excluded |-> FALSE]
      /\ Moves(c, NotSearching)
  BY DEF Fail, End, Moves
<1>2. VerdictsHold'
  BY <1>1, FailuresHold
<1>. QED
  BY <1>1, <1>2, EndKeeps

LEMMA ExcludedKeeps ==
  ASSUME ClientInv, NEW c \in Searches, client \in OneHost, ExcludedByDomain(c), c \notin WithToken,
         UNCHANGED <<client, tick, bucket, recent, cooldown, sent, excused, intruders>>
  PROVE  ClientInv'
<1>1. /\ told' = [answer |-> NoAnswer, verdict |-> "authoritative_empty", excluded |-> TRUE]
      /\ Moves(c, NotSearching)
  BY DEF ExcludedByDomain, Moves
<1>2. /\ told'.verdict = "authoritative_empty" /\ told'.excluded = TRUE
      /\ client' \in OneHost
  BY <1>1
<1>3. VerdictsHold'
  BY <1>2 DEF VerdictsHold
<1>. QED
  BY <1>1, <1>3, EndKeeps

(* A search goes on without touching bucket, table or what was sent.       *)
LEMMA GoesOnKeeps ==
  ASSUME ClientInv, NEW c \in Searches, NEW r \in SearchRecord, Become(c, r),
         UNCHANGED <<client, tick, bucket, recent, cooldown, sent, excused, intruders>>,
         r.round = searching[c].round \/ r.round = 1,
         r.round = 1 => r.carried = 0,
         r.at \in {"pacing", "cleared"} <=> c \in WithToken,
         c \in WithToken => /\ r.due = searching[c].due /\ r.query = searching[c].query
                            /\ r.waited = searching[c].waited,
         r.at = "pacing" => r.due >= tick, r.at = "cleared" => r.due = tick /\ ~Cooling,
         r.at \in InSlot => c \in Holding \/ Cardinality(Holding) < Limits.slots
  PROVE  ClientInv'
<1>1. ClientTyped /\ Punctual /\ SlotsKept /\ ExcusedKept /\ NoRepeats
  BY DEF ClientInv
<1>2. Moves(c, r) /\ told' = Silence
  BY DEF Become, Moves
<1>3. ClientTyped'
  <2>1. r.round <= Control.requests
    BY <1>1, IdleSearch DEF ClientTyped
  <2>. QED
    BY <1>1, <1>2, <2>1, TypedMoves DEF ClientTyped
<1>4. Punctual'
  BY <1>1, <1>2, PunctualRests
<1>5. SlotsKept'
  BY <1>1, <1>2, SlotsRest, SlotTaken
<1>6. ExcusedKept'
  BY <1>1, <1>2, ExcusedRest
<1>7. \E s, p : Numbered(s, p)'
  <2>1. PICK s, p : Numbered(s, p)
    BY DEF ClientInv
  <2>2. Numbered(s, p)'
    BY <1>1, <1>2, <2>1, NumbersRest
  <2>. QED
    BY <2>2
<1>8. Control.guarded => TableKept'
  BY <1>1, <1>2, TableRests DEF ClientInv
<1>9. NoRepeats' /\ VerdictsHold'
  BY <1>1, <1>2, NoRepeatsRest, FailuresHold DEF Silence
<1>. QED
  BY <1>3, <1>4, <1>5, <1>6, <1>7, <1>8, <1>9, SameClient DEF ClientInv

LEMMA BeginKeepsClient ==
  ASSUME ClientInv, NEW c \in Searches, BeginSearch(c)
  PROVE  ClientInv'
<1>1. ClientTyped /\ searching[c].at = "idle" /\ c \notin WithToken
  BY DEF ClientInv, BeginSearch, WithToken
<1>2. CASE Fail(c)
  BY <1>1, <1>2, FailKeeps DEF BeginSearch
<1>3. CASE client \in OneHost /\ ExcludedByDomain(c)
  BY <1>1, <1>3, ExcludedKeeps DEF BeginSearch
<1>4. CASE ~Fail(c) /\ ~(client \in OneHost /\ ExcludedByDomain(c))
  <2>1. PICK q : q \in Queries /\ Become(c, [NotSearching EXCEPT !.at = "queueing", !.query = q])
    <3>1. (CHOOSE q \in Queries : TRUE) \in Queries
      BY ProviderConstants
    <3>. QED
      BY <1>4, <3>1 DEF BeginSearch
  <2>2. PICK r : r = [NotSearching EXCEPT !.at = "queueing", !.query = q]
    OBVIOUS
  <2>3. r = [at |-> "queueing", query |-> q, due |-> 0, waited |-> FALSE, round |-> 1,
             carried |-> 0]
    BY <2>2 DEF NotSearching
  <2>4. /\ r \in SearchRecord /\ r.at = "queueing" /\ r.round = 1 /\ r.carried = 0
    BY <2>1, <2>3 DEF SearchRecord, Places
  <2>5. Become(c, r)
    BY <2>1, <2>2
  <2>6. UNCHANGED <<client, tick, bucket, cooldown, recent, sent, excused, intruders>>
    BY DEF BeginSearch
  <2>. QED
    BY <1>1, <2>4, <2>5, <2>6, GoesOnKeeps DEF InSlot
<1>. QED
  BY <1>2, <1>3, <1>4

LEMMA SlotKeepsClient ==
  ASSUME ClientInv, NEW c \in Searches, AcquireSlot(c)
  PROVE  ClientInv'
<1>. DEFINE r == [searching[c] EXCEPT !.at = "admitted"]
<1>1. ClientTyped /\ searching[c].at = "queueing" /\ c \notin WithToken
  BY DEF ClientInv, AcquireSlot, WithToken
<1>2. /\ r \in SearchRecord /\ r.at = "admitted" /\ r.round = searching[c].round
      /\ (r.round = 1 => r.carried = 0)
  BY <1>1 DEF ClientTyped, SearchRecord, Places
<1>3. Become(c, r) /\ Cardinality(Holding) < Limits.slots
      /\ UNCHANGED <<client, tick, bucket, recent, cooldown, sent, excused, intruders>>
  BY DEF AcquireSlot, Move
<1>. HIDE DEF r
<1>. QED
  BY <1>1, <1>2, <1>3, GoesOnKeeps

LEMMA CheckKeepsClient ==
  ASSUME ClientInv, NEW c \in Searches, Check(c)
  PROVE  ClientInv'
<1>1. /\ ClientTyped /\ Punctual /\ searching[c].at = "pacing" /\ c \in WithToken /\ c \in Holding
      /\ searching[c].due <= tick
  BY DEF ClientInv, Check, WithToken, Holding
<1>2. CASE Cooling
  BY <1>1, <1>2, FailKeeps DEF Check, CoolingAfterWait
<1>3. CASE ~Cooling
  <2>. DEFINE r == [searching[c] EXCEPT !.at = "cleared"]
  <2>1. /\ r \in SearchRecord /\ r.at = "cleared" /\ r.round = searching[c].round
        /\ (r.round = 1 => r.carried = 0) /\ r.due = searching[c].due
        /\ r.query = searching[c].query /\ r.waited = searching[c].waited
    BY <1>1 DEF ClientTyped, SearchRecord, Places
  <2>2. searching[c].due = tick
    <3>1. searching[c].due \in Int /\ tick \in Int /\ searching[c].due >= tick
      BY <1>1 DEF ClientTyped, SearchRecord, Punctual
    <3>. QED
      BY <1>1, <3>1
  <2>3. /\ Become(c, r)
        /\ UNCHANGED <<client, tick, bucket, recent, cooldown, sent, excused, intruders>>
    BY <1>3 DEF Check, CoolingAfterWait, Move
  <2>. HIDE DEF r
  <2>. QED
    BY <1>1, <1>3, <2>1, <2>2, <2>3, GoesOnKeeps
<1>. QED
  BY <1>2, <1>3

LEMMA GiveUpKeepsClient ==
  ASSUME ClientInv, NEW c \in Searches, GiveUp(c)
  PROVE  ClientInv'
<1>1. searching[c].at \in {"pacing", "cleared"} <=> c \in WithToken
  BY DEF WithToken
<1>. QED
  BY <1>1, FailKeeps DEF GiveUp

LEMMA WaitKeepsClient ==
  ASSUME ClientInv, NEW c \in Searches, WaitRate(c)
  PROVE  ClientInv'
<1>1. /\ ClientTyped /\ Punctual /\ SlotsKept /\ ExcusedKept /\ NoRepeats
      /\ searching[c].at = "admitted" /\ c \notin WithToken /\ c \in Holding
  BY DEF ClientInv, WaitRate, WithToken, Holding
<1>2. CASE Cooling \/ Repeated(c) \/ Reservation.last - tick > Patience
  BY <1>1, <1>2, FailKeeps DEF WaitRate
<1>3. CASE ~(Cooling \/ Repeated(c) \/ Reservation.last - tick > Patience)
  <2>1. PICK r : r = [searching[c] EXCEPT !.at = "pacing", !.due = Reservation.last,
                                          !.waited = Reservation.last > tick]
    OBVIOUS
  <2>2. r = [at |-> "pacing", query |-> searching[c].query, due |-> Reservation.last,
             waited |-> (Reservation.last > tick), round |-> searching[c].round,
             carried |-> searching[c].carried]
    <3>1. searching[c] \in SearchRecord
      BY <1>1 DEF ClientTyped
    <3>2. PICK last, delayed : last = Reservation.last /\ delayed = (Reservation.last > tick)
      OBVIOUS
    <3>3. r = [searching[c] EXCEPT !.at = "pacing", !.due = last, !.waited = delayed]
      BY <2>1, <3>2
    <3>4. r = [at |-> "pacing", query |-> searching[c].query, due |-> last,
               waited |-> delayed, round |-> searching[c].round,
               carried |-> searching[c].carried]
      BY <3>1, <3>3 DEF SearchRecord
    <3>. QED
      BY <3>2, <3>4
  <2>3. /\ bucket' = Reservation /\ Become(c, r)
        /\ recent' = IF Control.guarded
                     THEN With(Without(Live, Oldest(Live)), searching[c].query) ELSE recent
        /\ UNCHANGED <<client, tick, cooldown, sent, excused, intruders>>
    BY <1>3, <2>1 DEF WaitRate
  <2>4. /\ Reservation.last \in Int /\ Reservation.last >= tick
        /\ Reservation \in [tokens : Int, at : Int, last : Int]
        /\ Reservation.at <= tick /\ Reservation.tokens <= Limits.burst
    BY <1>1, BucketsTyped
  <2>. HIDE DEF Reservation
  <2>5. /\ r \in SearchRecord /\ r.at = "pacing" /\ r.round <= Control.requests
        /\ (r.round = 1 => r.carried = 0) /\ r.query = searching[c].query
        /\ r.due = Reservation.last /\ r.waited = (Reservation.last > tick)
    <3>1. (Reservation.last > tick) \in BOOLEAN
      OBVIOUS
    <3>2. r \in SearchRecord
      BY <1>1, <2>2, <2>4, <3>1 DEF ClientTyped, SearchRecord, Places
    <3>. QED
      BY <1>1, <2>2, <3>2 DEF ClientTyped
  <2>6. Moves(c, r) /\ told' = Silence
    BY <2>3 DEF Become, Moves
  <2>7. ClientTyped'
    BY <1>1, <2>3, <2>4, <2>5, <2>6, TypedMoves DEF ClientTyped
  <2>8. Punctual'
    BY <1>1, <2>3, <2>4, <2>5, <2>6, PunctualRests
  <2>9. SlotsKept'
    BY <1>1, <2>3, <2>5, <2>6, SlotsRest
  <2>10. ExcusedKept'
    BY <1>1, <2>3, <2>5, <2>6, ExcusedRest
  <2>11. PICK s, p : Numbered(s, p)
    BY DEF ClientInv
  <2>12. \E q : Numbered(s, q)'
    BY <1>1, <2>3, <2>5, <2>6, <2>11, ReservedNumber
  <2>13. Control.guarded => TableKept'
    <3>. SUFFICES ASSUME Control.guarded PROVE TableKept'
      OBVIOUS
    <3>1. client = "stackexchange" /\ TableKept /\ Control.requests = 1
      BY <1>1, ClientControl DEF ClientTyped, ClientInv
    <3>2. searching[c].query \notin DOMAIN Live
      <4>1. searching[c].round = 1
        BY <1>1, <3>1 DEF ClientTyped, SearchRecord
      <4>. QED
        BY <1>3, <4>1 DEF Repeated
    <3>3. Paced
      BY <1>1, <2>11, NumbersPace
    <3>4. recent' = With(Without(Live, Oldest(Live)), searching[c].query)
      BY <2>3
    <3>. QED
      BY <1>1, <2>3, <2>5, <2>6, <3>1, <3>2, <3>3, <3>4, TableReserves
  <2>14. NoRepeats' /\ VerdictsHold'
    BY <1>1, <2>3, <2>6, NoRepeatsRest, FailuresHold DEF Silence
  <2>. QED
    BY <2>3, <2>7, <2>8, <2>9, <2>10, <2>12, <2>13, <2>14, SameClient DEF ClientInv
<1>. QED
  BY <1>2, <1>3

LEMMA SendKeepsClient ==
  ASSUME ClientInv, NEW c \in Searches, SendQuery(c)
  PROVE  ClientInv'
<1>. DEFINE r == [searching[c] EXCEPT !.at = "sending"]
<1>1. /\ ClientTyped /\ Punctual /\ SlotsKept /\ ExcusedKept /\ NoRepeats
      /\ searching[c].at = "cleared" /\ c \in WithToken /\ c \in Holding
  BY DEF ClientInv, SendQuery, WithToken, Holding
<1>2. searching[c] \in SearchRecord /\ searching[c].query \in Queries \cup {0} /\ searching[c].due = tick
  BY <1>1 DEF ClientTyped, SearchRecord, Punctual
<1>3. /\ r \in SearchRecord /\ r.at = "sending" /\ r.round <= Control.requests
      /\ (r.round = 1 => r.carried = 0)
  BY <1>1, <1>2 DEF ClientTyped, SearchRecord, Places
<1>4. /\ Moves(c, r) /\ told' = Silence
      /\ sent' = Append(sent, [query |-> searching[c].query, at |-> tick])
      /\ intruders' = IF Cooling /\ c \notin excused THEN intruders \cup {c} ELSE intruders
      /\ excused' = excused \ {c}
      /\ recent' = IF Control.guarded THEN With(recent, searching[c].query) ELSE recent
      /\ UNCHANGED <<client, tick, bucket, cooldown>>
  BY DEF SendQuery, Move, Become, Moves
<1>. HIDE DEF r
<1>5. ClientTyped'
  <2>1. sent' \in Seq([query : Queries \cup {0}, at : Nat])
    BY <1>1, <1>2, <1>4 DEF ClientTyped
  <2>. QED
    BY <1>1, <1>3, <1>4, <2>1, TypedMoves DEF ClientTyped
<1>6. Punctual'
  <2>1. \A d \in Searches : /\ searching'[d].at = "pacing" => searching'[d].due >= tick
                            /\ searching'[d].at = "cleared" => searching'[d].due = tick
    BY <1>1, <1>3, <1>4, OneMoves DEF Punctual
  <2>2. /\ Len(sent) \in Nat /\ DOMAIN sent = 1..Len(sent) /\ DOMAIN sent' = 1..(Len(sent) + 1)
        /\ sent'[Len(sent) + 1].at = tick /\ \A i \in DOMAIN sent : sent'[i] = sent[i]
    BY <1>1, <1>4 DEF ClientTyped
  <2>3. \A i \in DOMAIN sent' : i \in DOMAIN sent \/ i = Len(sent) + 1
    BY <2>2
  <2>4. \A i \in DOMAIN sent' : sent'[i].at <= tick
    BY <1>1, <2>2, <2>3 DEF Punctual, ClientTyped
  <2>5. ASSUME NEW i \in DOMAIN sent', NEW j \in DOMAIN sent', i <= j
        PROVE  sent'[i].at <= sent'[j].at
    <3>1. CASE j = Len(sent) + 1
      BY <2>2, <2>4, <3>1
    <3>2. CASE j \in DOMAIN sent
      <4>1. i \in DOMAIN sent
        BY <2>2, <2>5, <3>2
      <4>. QED
        BY <1>1, <2>2, <2>5, <3>2, <4>1 DEF Punctual
    <3>. QED
      BY <2>3, <3>1, <3>2
  <2>. QED
    BY <1>4, <2>1, <2>4, <2>5 DEF Punctual
<1>7. SlotsKept'
  BY <1>1, <1>3, <1>4, SlotsRest
<1>8. ExcusedKept'
  BY <1>1, <1>3, <1>4, ExcusedSends
<1>9. \E s, p : Numbered(s, p)'
  <2>1. PICK s, p : Numbered(s, p)
    BY DEF ClientInv
  <2>2. \E t : Numbered(t, p)'
    BY <1>1, <1>2, <1>3, <1>4, <2>1, SentNumber
  <2>. QED
    BY <2>2
<1>10. Paced'
  <2>1. (ClientTyped /\ Punctual /\ (\E s, p : Numbered(s, p)) => Paced)'
    BY PacedAlways, PTL
  <2>. QED
    BY <1>5, <1>6, <1>9, <2>1
<1>11. (Control.guarded => TableKept') /\ NoRepeats'
  <2>1. CASE Control.guarded
    <3>1. client = "stackexchange" /\ TableKept
      BY <1>1, <2>1, ClientControl DEF ClientTyped, ClientInv
    <3>2. recent' = With(recent, searching[c].query)
      BY <1>4, <2>1
    <3>. QED
      BY <1>1, <1>3, <1>4, <1>5, <1>10, <3>1, <3>2, TableSends
  <2>2. CASE ~Control.guarded
    BY <1>4, <2>2, SameClient DEF NoRepeats
  <2>. QED
    BY <2>1, <2>2
<1>12. VerdictsHold'
  BY <1>4, FailuresHold DEF Silence
<1>. QED
  BY <1>4, <1>5, <1>6, <1>7, <1>8, <1>9, <1>11, <1>12, SameClient DEF ClientInv

LEMMA ReceiveKeepsClient ==
  ASSUME ClientInv, NEW c \in Searches, Receive(c)
  PROVE  ClientInv'
<1>1. /\ ClientTyped /\ Punctual /\ SlotsKept /\ ExcusedKept /\ NoRepeats
      /\ searching[c].at = "sending" /\ c \notin WithToken /\ c \in Holding
  BY DEF ClientInv, Receive, WithToken, Holding
<1>2. UNCHANGED <<client, tick, bucket, recent, sent, intruders>>
  BY DEF Receive
<1>3. PICK a \in Answers :
        LET before == searching[c]
            rows == [a EXCEPT !.bad = Max({a.bad, before.carried})]
            more == /\ before.round < Control.requests /\ a.status = 200 /\ a.body = "whole"
                    /\ PubmedIds(a) = "more" IN
        /\ cooldown' = Max({cooldown, IF CooldownFor(a) > 0 THEN tick + CooldownFor(a) ELSE 0})
        /\ excused' = IF CooldownFor(a) > 0 /\ ~Cooling
                     THEN {d \in Searches : searching[d].at = "cleared"} ELSE excused
        /\ \/ /\ more
              /\ Become(c, [before EXCEPT !.at = "admitted", !.round = 2, !.carried = a.bad])
           \/ more /\ Fail(c)
           \/ /\ ~more
              /\ End(c, rows, IF before.round < Control.requests /\ a.status = 200 /\ a.body = "whole"
                              THEN PubmedIds(a) ELSE BatchVerdict(rows))
  BY DEF Receive
<1>4. a \in Reply /\ a.bad \in {0, 1} /\ CooldownFor(a) \in Nat
  BY <1>1, CoolsNaturally DEF Answers, Reply, ClientTyped
<1>5. \E r \in SearchRecord :
        /\ Moves(c, r) /\ r.at \in {"admitted", "idle"} /\ r.round <= Control.requests
        /\ (r.round = 1 => r.carried = 0)
  <2>1. CASE searching' = [searching EXCEPT ![c] = NotSearching]
    BY <1>1, <2>1, IdleSearch DEF Moves
  <2>2. CASE /\ searching[c].round < Control.requests
             /\ Become(c, [searching[c] EXCEPT !.at = "admitted", !.round = 2, !.carried = a.bad])
    <3>1. searching[c] \in SearchRecord /\ Control.requests \in {1, 2}
      BY <1>1, ClientControl DEF ClientTyped
    <3>2. PICK bad : bad = a.bad
      OBVIOUS
    <3>3. PICK r : r = [searching[c] EXCEPT !.at = "admitted", !.round = 2, !.carried = bad]
      OBVIOUS
    <3>4. r = [at |-> "admitted", query |-> searching[c].query, due |-> searching[c].due,
               waited |-> searching[c].waited, round |-> 2, carried |-> bad]
      BY <3>1, <3>3 DEF SearchRecord
    <3>5. r \in SearchRecord /\ r.at = "admitted" /\ r.round = 2
      BY <1>4, <3>1, <3>2, <3>4 DEF SearchRecord, Places
    <3>6. Control.requests = 2
      BY <2>2, <3>1 DEF SearchRecord
    <3>7. Moves(c, r)
      BY <2>2, <3>2, <3>3 DEF Become, Moves
    <3>. QED
      BY <3>5, <3>6, <3>7
  <2>. QED
    BY <1>3, <2>1, <2>2 DEF Fail, End
<1>6. PICK r \in SearchRecord :
        /\ Moves(c, r) /\ r.at \in {"admitted", "idle"} /\ r.round <= Control.requests
        /\ (r.round = 1 => r.carried = 0)
  BY <1>5
<1>7. ExcusedKept' /\ cooldown' \in Nat
  <2>1. PICK pause \in Nat : pause = CooldownFor(a)
    BY <1>4
  <2>2. /\ cooldown' = Max({cooldown, IF pause > 0 THEN tick + pause ELSE 0})
        /\ excused' = IF pause > 0 /\ ~Cooling
                     THEN {d \in Searches : searching[d].at = "cleared"} ELSE excused
    BY <1>3, <2>1
  <2>3. r.at # "cleared"
    BY <1>6
  <2>. QED
    BY <1>1, <1>2, <1>6, <2>2, <2>3, ExcusedOpens
<1>8. ClientTyped'
  BY <1>1, <1>2, <1>6, <1>7, TypedMoves DEF ClientTyped
<1>9. Punctual'
  BY <1>1, <1>2, <1>6, PunctualRests
<1>10. SlotsKept'
  BY <1>1, <1>2, <1>6, SlotsRest
<1>11. \E s, p : Numbered(s, p)'
  <2>1. PICK s, p : Numbered(s, p)
    BY DEF ClientInv
  <2>2. Numbered(s, p)'
    BY <1>1, <1>2, <1>6, <2>1, NumbersRest
  <2>. QED
    BY <2>2
<1>12. Control.guarded => TableKept'
  BY <1>1, <1>2, <1>6, TableRests DEF ClientInv
<1>13. NoRepeats'
  BY <1>1, <1>2, NoRepeatsRest
<1>14. VerdictsHold'
  <2>. DEFINE rows == [a EXCEPT !.bad = Max({a.bad, searching[c].carried})]
  <2>1. CASE told' = Silence
    BY <2>1, FailuresHold DEF Silence
  <2>3. CASE told' = [answer |-> NoAnswer, verdict |-> "failed", excluded |-> FALSE]
    BY <2>3, FailuresHold
  <2>2. CASE told' = [answer |-> rows,
                      verdict |-> IF searching[c].round < Control.requests /\ a.status = 200
                                     /\ a.body = "whole"
                                  THEN PubmedIds(a) ELSE BatchVerdict(rows),
                      excluded |-> FALSE]
    <3>1. PICK told1 : told1 = rows
      OBVIOUS
    <3>2. PICK verdict1 :
            verdict1 = IF searching[c].round < Control.requests /\ a.status = 200
                          /\ a.body = "whole"
                       THEN PubmedIds(a) ELSE BatchVerdict(told1)
      OBVIOUS
    <3>3. told' = [answer |-> told1, verdict |-> verdict1, excluded |-> FALSE]
      BY <2>2, <3>1, <3>2
    <3>4. told'.answer = told1 /\ told'.verdict = verdict1 /\ told'.excluded = FALSE
      BY <3>3
    <3>5. told'.verdict = IF searching[c].round < Control.requests /\ a.status = 200
                             /\ a.body = "whole"
                          THEN PubmedIds(a) ELSE BatchVerdict(told1)
      BY <3>2, <3>4
    <3>6. told'.answer = told1 /\ told'.excluded = FALSE
      BY <3>4
    <3>7. told1 = [a EXCEPT !.bad = Max({a.bad, searching[c].carried})]
      BY <3>1
    <3>8. a \in Answers /\ client' = client /\ ClientTyped
      BY <1>1, <1>2
    <3>. QED
      BY <3>5, <3>6, <3>7, <3>8, AnswerHolds
  <2>. QED
    BY <1>3, <2>1, <2>2, <2>3 DEF Become, Fail, End
<1>. QED
  BY <1>2, <1>7, <1>8, <1>9, <1>10, <1>11, <1>12, <1>13, <1>14, SameClient DEF ClientInv

LEMMA TickKeepsClient ==
  ASSUME ClientInv, TickPasses
  PROVE  ClientInv'
<1>1. ClientTyped /\ Punctual /\ SlotsKept /\ ExcusedKept /\ NoRepeats
  BY DEF ClientInv
<1>2. /\ tick' = tick + 1 /\ told' = Silence
      /\ UNCHANGED <<client, bucket, cooldown, recent, searching, sent, excused, intruders>>
      /\ \A c \in Searches : /\ searching[c].at # "cleared"
                             /\ searching[c].at = "pacing" => searching[c].due > tick
  BY DEF TickPasses
<1>3. tick \in Nat /\ tick' \in Nat /\ tick' >= tick
  BY <1>1, <1>2 DEF ClientTyped
<1>4. Limits' = Limits /\ Control' = Control
  BY <1>2, SameClient
<1>5. ClientTyped'
  <2>1. bucket'.at <= tick'
    BY <1>1, <1>2, <1>3 DEF ClientTyped
  <2>. QED
    BY <1>1, <1>2, <1>3, <1>4, <2>1 DEF ClientTyped
<1>6. Punctual'
  <2>1. ASSUME NEW c \in Searches, searching'[c].at = "pacing"
        PROVE  searching'[c].due >= tick'
    <3>1. searching[c].due \in Int /\ searching[c].due > tick /\ searching' = searching
      BY <1>1, <1>2, <2>1 DEF ClientTyped, SearchRecord
    <3>. QED
      BY <1>2, <1>3, <3>1
  <2>2. \A i \in DOMAIN sent' : sent'[i].at <= tick'
    <3>1. \A i \in DOMAIN sent : sent[i].at \in Nat /\ sent[i].at <= tick
      BY <1>1, SentTyped DEF Punctual
    <3>. QED
      BY <1>2, <1>3, <3>1
  <2>3. \A c \in Searches : searching'[c].at # "cleared"
    BY <1>2
  <2>4. \A i, j \in DOMAIN sent' : i <= j => sent'[i].at <= sent'[j].at
    BY <1>1, <1>2 DEF Punctual
  <2>. QED
    BY <2>1, <2>2, <2>3, <2>4 DEF Punctual
<1>7. SlotsKept'
  BY <1>1, <1>2, <1>4 DEF SlotsKept, Holding
<1>8. ExcusedKept'
  BY <1>1, <1>2, <1>4 DEF ExcusedKept
<1>9. \E s, p : Numbered(s, p)'
  <2>1. PICK s, p : Numbered(s, p)
    BY DEF ClientInv
  <2>2. WithToken' = WithToken /\ Spent' = Spent
    BY <1>2 DEF WithToken, Spent
  <2>3. Numbered(s, p)'
    BY <1>2, <1>4, <2>1, <2>2 DEF Numbered, DueIn, DrawnToken
  <2>. QED
    BY <2>3
<1>10. Control.guarded => TableKept'
  BY <1>1, <1>2, TableAges DEF ClientInv
<1>11. NoRepeats' /\ VerdictsHold'
  BY <1>1, <1>2, NoRepeatsRest, FailuresHold DEF Silence
<1>. QED
  BY <1>4, <1>5, <1>6, <1>7, <1>8, <1>9, <1>10, <1>11 DEF ClientInv

LEMMA ClientStarts == ProvidersInit => ClientInv
<1>. SUFFICES ASSUME ProvidersInit PROVE ClientInv
  OBVIOUS
<1>. USE DEF ProvidersInit
<1>1. /\ client \in Clients /\ tick = 0 /\ cooldown = 0 /\ intruders = {} /\ excused = {}
      /\ sent = << >> /\ recent = << >> /\ bucket = [tokens |-> Limits.burst, at |-> 0, last |-> 0]
      /\ searching = [c \in Searches |-> NotSearching] /\ told = Silence
  OBVIOUS
<1>2. Limits.burst \in Nat /\ Limits.slots \in Nat /\ Limits.slots > 0
  BY ClientLimits
<1>3. /\ NotSearching \in SearchRecord /\ NotSearching.at = "idle"
      /\ NotSearching.round = 1 /\ NotSearching.carried = 0 /\ 1 <= Control.requests
  <2>1. Control.requests \in {1, 2}
    BY ClientControl
  <2>. QED
    BY <2>1 DEF NotSearching, SearchRecord, Places
<1>4. ClientTyped
  BY <1>1, <1>2, <1>3 DEF ClientTyped
<1>5. Holding = {} /\ WithToken = {} /\ DOMAIN sent = {} /\ DOMAIN recent = {}
  BY <1>1, <1>3 DEF Holding, WithToken
<1>6. Punctual
  BY <1>1, <1>3, <1>5 DEF Punctual
<1>7. SlotsKept /\ ExcusedKept
  BY <1>1, <1>2, <1>3, <1>5, FS_EmptySet DEF SlotsKept, ExcusedKept
<1>8. \E s, p : Numbered(s, p)
  <2>1. PICK s, p : s = [i \in DOMAIN sent |-> 0] /\ p = [c \in Searches |-> 0]
    OBVIOUS
  <2>2. Numbered(s, p)
    BY <1>5, <2>1 DEF Numbered
  <2>. QED
    BY <2>2
<1>9. TableKept /\ NoRepeats
  BY <1>5 DEF TableKept, NoRepeats
<1>10. VerdictsHold
  BY <1>1 DEF VerdictsHold, Silence
<1>. QED
  BY <1>4, <1>6, <1>7, <1>8, <1>9, <1>10 DEF ClientInv

LEMMA ClientInductive == ClientInv /\ [ProvidersNext]_providerVars => ClientInv'
<1>. SUFFICES ASSUME ClientInv, [ProvidersNext]_providerVars PROVE ClientInv'
  OBVIOUS
<1>1. ASSUME NEW c \in Searches,
             \/ BeginSearch(c) \/ AcquireSlot(c) \/ WaitRate(c) \/ Check(c) \/ SendQuery(c)
             \/ Receive(c) \/ GiveUp(c)
      PROVE  ClientInv'
  BY <1>1, BeginKeepsClient, SlotKeepsClient, WaitKeepsClient, CheckKeepsClient,
     SendKeepsClient, ReceiveKeepsClient, GiveUpKeepsClient
<1>2. CASE UNCHANGED providerVars
  <2>1. /\ UNCHANGED <<client, tick, bucket, cooldown, recent, searching>>
        /\ UNCHANGED <<told, sent, excused, intruders>>
    BY <1>2 DEF providerVars
  <2>2. Limits' = Limits /\ Control' = Control
    BY <2>1, SameClient
  <2>3. ClientTyped' /\ Punctual'
    BY <2>1, <2>2 DEF ClientInv, ClientTyped, Punctual
  <2>4. SlotsKept' /\ ExcusedKept'
    BY <2>1, <2>2 DEF ClientInv, SlotsKept, ExcusedKept, Holding, Cooling
  <2>5. \E s, p : Numbered(s, p)'
    <3>1. PICK s, p : Numbered(s, p)
      BY DEF ClientInv
    <3>2. WithToken' = WithToken /\ Spent' = Spent
      BY <2>1 DEF WithToken, Spent
    <3>3. Numbered(s, p)'
      BY <2>1, <2>2, <3>1, <3>2 DEF Numbered, DueIn, DrawnToken
    <3>. QED
      BY <3>3
  <2>6. Control.guarded => TableKept'
    BY <2>1 DEF ClientInv, TableKept, LongAgo, Listed, WithToken
  <2>7. NoRepeats'
    BY <2>1, NoRepeatsRest DEF ClientInv
  <2>8. VerdictsHold'
    BY <2>1 DEF ClientInv, VerdictsHold, Hits
  <2>. QED
    BY <2>2, <2>3, <2>4, <2>5, <2>6, <2>7, <2>8 DEF ClientInv
<1>. QED
  BY <1>1, <1>2, TickKeepsClient DEF ProvidersNext

(* However searches queue, give up and come back: a provider gets no more  *)
(* than the burst and one request per interval, none that had not passed   *)
(* its last check when an answer opened the cooldown, no query again       *)
(* within the delay, and no verdict says more than its answer did.         *)
THEOREM ClientsAreHonest == ProvidersSpec => []ClientsHonest
<1>1. ClientInv => ClientsHonest
  <2>. SUFFICES ASSUME ClientInv PROVE ClientsHonest
    OBVIOUS
  <2>1. PICK s, p : Numbered(s, p)
    BY DEF ClientInv
  <2>2. Paced
    BY <2>1, NumbersPace DEF ClientInv
  <2>. QED
    BY <2>2 DEF ClientInv, ExcusedKept, CoolingRespected, ClientsHonest
<1>2. ProvidersSpec => []ClientInv
  BY ClientStarts, ClientInductive, PTL DEF ProvidersSpec
<1>. QED
  BY <1>1, <1>2, PTL
=============================================================================
