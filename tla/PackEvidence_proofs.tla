------------------------- MODULE PackEvidence_proofs -------------------------
(***************************************************************************)
(* What holds around a pack for every value of the constants.  First the   *)
(* publisher's evidence gate: why its counts are exact and its grants      *)
(* paced.  Then the consumer's channel: why nothing withdrawn comes back.  *)
(* Then the publisher's other commands: why the evidence bundles tell of   *)
(* every row, and why the packs that are built stand by their sources.     *)
(***************************************************************************)
EXTENDS EvidenceGate, EvidenceFiles, PackChannel, PackBuild, FiniteSetTheorems, SequenceTheorems,
        WellFoundedInduction, TLAPS

-----------------------------------------------------------------------------
(* The evidence gate.                                                      *)

Index == Nat \X Hosts \X Nat
Held(records) == {h \in Hosts : records[h].active}

(* What the store's parts say of each other, of any version of them: the   *)
(* sweep inside Acquire has versions of its own.                           *)
RecordsSound(records) ==
  \A h \in Hosts :
    /\ records[h].gen = 0 => records[h] = NoRecord
    /\ records[h].gen <= generation
    /\ records[h].active =>
         records[h].until >= records[h].last + RequestTimeout + ControlGrace
ExpiriesExact(records, index) ==
  \A x \in Index : x \in index <=> /\ records[x[2]].active
                                   /\ x[1] = records[x[2]].until
                                   /\ x[3] = records[x[2]].gen
PrunesMatch(records, index) ==
  \A x \in index :
    /\ x[3] # 0 /\ x[3] <= generation
    /\ records[x[2]].gen = x[3] =>
         /\ ~records[x[2]].active
         /\ x[1] = records[x[2]].prune
         /\ x[1] = PruneAt(records[x[2]])
PrunesCover(records, index) ==
  \A h \in Hosts : ~records[h].active /\ records[h].prune # 0
    => <<records[h].prune, h, records[h].gen>> \in index
RestCovered(records) ==
  \A h \in Hosts : rest[h] <= gateTime \/ /\ records[h].gen # 0
                                          /\ rest[h] <= PruneAt(records[h])
Sound(records, exp, pru) ==
  /\ RecordsSound(records) /\ ExpiriesExact(records, exp)
  /\ PrunesMatch(records, pru) /\ PrunesCover(records, pru)
  /\ RestCovered(records)
Typed(records, exp, pru) ==
  records \in [Hosts -> Record] /\ exp \subseteq Index /\ pru \subseteq Index

-----------------------------------------------------------------------------
LEMMA PolicyTypes ==
  /\ MinHostInterval \in Nat /\ MinHostInterval > 0
  /\ RequestTimeout \in Nat /\ RequestTimeout > 0
  /\ MaxRetryAfter \in Nat /\ ControlGrace \in Nat
  /\ GlobalConcurrency \in Nat /\ Slack \in Nat /\ Slack <= ControlGrace
  /\ RetryAfters \subseteq Nat
  BY GatePolicyAssumption, SlackAssumption

LEMMA NoRecordTyped == NoRecord \in Record
  BY DEF NoRecord, Record

LEMMA PruneAtType ==
  ASSUME NEW r \in Record
  PROVE  PruneAt(r) \in Nat /\ PruneAt(r) > 0
  BY PolicyTypes DEF PruneAt, Eligible, Larger, Record

LEMMA EndedType ==
  ASSUME NEW r \in Record
  PROVE  /\ Ended(r) \in Record /\ ~Ended(r).active
         /\ PruneAt(r) > gateTime =>
              /\ Ended(r).gen = r.gen /\ Ended(r).prune = PruneAt(r)
              /\ PruneAt(Ended(r)) = PruneAt(r)
              /\ Ended(r).attempt = r.attempt
         /\ ~(PruneAt(r) > gateTime) => Ended(r) = NoRecord
<1>1. CASE PruneAt(r) > gateTime
  <2>1. Ended(r) = [r EXCEPT !.active = FALSE, !.prune = PruneAt(r)]
    BY <1>1 DEF Ended
  <2>2. /\ Ended(r) \in Record /\ ~Ended(r).active
        /\ Ended(r).gen = r.gen /\ Ended(r).prune = PruneAt(r)
        /\ Ended(r).last = r.last /\ Ended(r).cooldown = r.cooldown
        /\ Ended(r).attempt = r.attempt
    BY <2>1, PruneAtType DEF Record
  <2> QED
    BY <1>1, <2>2 DEF PruneAt, Eligible
<1>2. CASE ~(PruneAt(r) > gateTime)
  BY <1>2, NoRecordTyped DEF Ended, NoRecord
<1> QED
  BY <1>1, <1>2

(* What ends leases and schedules the records that stay: reaper, release.  *)
EndAll(H) == [h \in Hosts |-> IF h \in H THEN Ended(hosts[h]) ELSE hosts[h]]

LEMMA EndAllTyped ==
  ASSUME GateTypeOK, NEW H \in SUBSET Hosts
  PROVE  /\ EndAll(H) \in [Hosts -> Record]
         /\ Puts(prunes, Schedule(H)) \subseteq Index
<1>1. \A h \in Hosts : hosts[h] \in Record
  BY DEF GateTypeOK
<1>2. EndAll(H) \in [Hosts -> Record]
  BY <1>1, EndedType DEF EndAll
<1>3. Schedule(H) \subseteq Index
  <2>1. ASSUME NEW h \in H
        PROVE  <<PruneAt(hosts[h]), h, hosts[h].gen>> \in Index
    BY <1>1, PruneAtType DEF Index, Record
  <2> QED
    BY <2>1 DEF Schedule
<1> QED
  BY <1>2, <1>3 DEF Puts, GateTypeOK, Index

LEMMA InSchedule ==
  ASSUME NEW H \in SUBSET Hosts, NEW x
  PROVE  x \in Schedule(H) <=>
           \E h \in H : PruneAt(hosts[h]) > gateTime
                        /\ x = <<PruneAt(hosts[h]), h, hosts[h].gen>>
  BY DEF Schedule

LEMMA EndAllSound ==
  ASSUME GateTypeOK, Sound(hosts, expiries, prunes),
         NEW H \in SUBSET Held(hosts), NEW left \in SUBSET Index,
         \A x \in Index : x \in left <=> x \in expiries /\ x[2] \notin H
  PROVE  Sound(EndAll(H), left, Puts(prunes, Schedule(H)))
<1> DEFINE recs == EndAll(H)
           idx == Puts(prunes, Schedule(H))
<1>1. \A h \in Hosts : hosts[h] \in Record
  BY DEF GateTypeOK
<1>2. /\ H \in SUBSET Hosts
      /\ \A h \in H : recs[h] = Ended(hosts[h]) /\ hosts[h].active
      /\ \A h \in Hosts \ H : recs[h] = hosts[h]
  BY DEF EndAll, Held
<1>3. \A h \in H : hosts[h].gen # 0 /\ hosts[h].gen <= generation
  BY <1>2 DEF Sound, RecordsSound, NoRecord
<1>4. RecordsSound(recs)
  <2> SUFFICES ASSUME NEW h \in Hosts
               PROVE  /\ recs[h].gen = 0 => recs[h] = NoRecord
                      /\ recs[h].gen <= generation
                      /\ recs[h].active =>
                           recs[h].until
                             >= recs[h].last + RequestTimeout + ControlGrace
    BY DEF RecordsSound
  <2>1. CASE h \in H
    <3>1. generation \in Nat /\ NoRecord.gen = 0
      BY DEF GateTypeOK, NoRecord
    <3>2. CASE PruneAt(hosts[h]) > gateTime
      BY <2>1, <3>2, <1>1, <1>2, <1>3, EndedType
    <3>3. CASE ~(PruneAt(hosts[h]) > gateTime)
      BY <2>1, <3>1, <3>3, <1>1, <1>2, <1>3, EndedType
    <3> QED
      BY <3>2, <3>3
  <2>2. CASE h \notin H
    BY <2>2, <1>2 DEF Sound, RecordsSound
  <2> QED
    BY <2>1, <2>2
<1>5. ExpiriesExact(recs, left)
  <2> SUFFICES ASSUME NEW x \in Index
               PROVE  x \in left <=> /\ recs[x[2]].active
                                     /\ x[1] = recs[x[2]].until
                                     /\ x[3] = recs[x[2]].gen
    BY DEF ExpiriesExact
  <2>0. x[2] \in Hosts
    BY DEF Index
  <2>1. CASE x[2] \in H
    BY <2>0, <2>1, <1>1, <1>2, EndedType
  <2>2. CASE x[2] \notin H
    BY <2>0, <2>2, <1>2 DEF Sound, ExpiriesExact
  <2> QED
    BY <2>1, <2>2
<1>6. PrunesMatch(recs, idx)
  <2> SUFFICES ASSUME NEW x \in idx
               PROVE  /\ x[3] # 0 /\ x[3] <= generation
                      /\ recs[x[2]].gen = x[3] =>
                           /\ ~recs[x[2]].active
                           /\ x[1] = recs[x[2]].prune
                           /\ x[1] = PruneAt(recs[x[2]])
    BY DEF PrunesMatch
  <2>1. CASE x \in Schedule(H)
    <3>1. PICK h \in H : PruneAt(hosts[h]) > gateTime
                         /\ x = <<PruneAt(hosts[h]), h, hosts[h].gen>>
      BY <2>1, <1>2, InSchedule
    <3> QED
      BY <3>1, <1>1, <1>2, <1>3, EndedType
  <2>2. CASE x \in prunes
    <3>1. x[2] \in Hosts
      BY <2>2 DEF GateTypeOK
    <3>2. /\ x[3] # 0 /\ x[3] <= generation
          /\ hosts[x[2]].gen = x[3] =>
               /\ ~hosts[x[2]].active
               /\ x[1] = hosts[x[2]].prune
               /\ x[1] = PruneAt(hosts[x[2]])
      BY <2>2 DEF Sound, PrunesMatch
    <3>3. CASE x[2] \in H
      <4>1. hosts[x[2]].gen # x[3]
        BY <3>2, <3>3, <1>2
      <4>2. recs[x[2]].gen \in {0, hosts[x[2]].gen}
        BY <3>1, <3>3, <1>1, <1>2, EndedType DEF NoRecord
      <4> QED
        BY <4>1, <4>2, <3>2
    <3>4. CASE x[2] \notin H
      BY <3>1, <3>2, <3>4, <1>2
    <3> QED
      BY <3>3, <3>4
  <2> QED
    BY <2>1, <2>2 DEF Puts
<1>7. PrunesCover(recs, idx)
  <2> SUFFICES ASSUME NEW h \in Hosts, ~recs[h].active, recs[h].prune # 0
               PROVE  <<recs[h].prune, h, recs[h].gen>> \in idx
    BY DEF PrunesCover
  <2>1. CASE h \in H
    <3>1. PruneAt(hosts[h]) > gateTime
      BY <2>1, <1>1, <1>2, EndedType DEF NoRecord
    <3>2. <<PruneAt(hosts[h]), h, hosts[h].gen>> \in Schedule(H)
      BY <2>1, <3>1, <1>2, InSchedule
    <3> QED
      BY <2>1, <3>1, <3>2, <1>1, <1>2, EndedType DEF Puts
  <2>2. CASE h \notin H
    <3>1. <<hosts[h].prune, h, hosts[h].gen>> \in prunes
      BY <2>2, <1>2 DEF Sound, PrunesCover
    <3>2. \A x \in Schedule(H) : x[2] # h
      BY <2>2, <1>2, InSchedule
    <3> QED
      BY <3>1, <3>2, <2>2, <1>2 DEF Puts
  <2> QED
    BY <2>1, <2>2
<1>8. RestCovered(recs)
  <2> SUFFICES ASSUME NEW h \in Hosts
               PROVE  rest[h] <= gateTime \/ /\ recs[h].gen # 0
                                             /\ rest[h] <= PruneAt(recs[h])
    BY DEF RestCovered
  <2>1. rest[h] <= gateTime \/ /\ hosts[h].gen # 0
                               /\ rest[h] <= PruneAt(hosts[h])
    BY DEF Sound, RestCovered
  <2>2. CASE h \in H
    <3>1. rest[h] \in Nat /\ gateTime \in Nat /\ PruneAt(hosts[h]) \in Nat
      BY <1>1, PruneAtType DEF GateTypeOK
    <3> QED
      BY <2>1, <2>2, <3>1, <1>1, <1>2, EndedType
  <2>3. CASE h \notin H
    BY <2>1, <2>3, <1>2
  <2> QED
    BY <2>2, <2>3
<1> QED
  BY <1>4, <1>5, <1>6, <1>7, <1>8 DEF Sound

-----------------------------------------------------------------------------
(* The pruner only takes records that no longer restrain their host.       *)
Removed(records, batch) ==
     {h \in Hosts : \E x \in batch : /\ x[2] = h /\ x[3] = records[h].gen
                                     /\ ~records[h].active
                                     /\ records[h].prune <= gateTime}
   
LEMMA PrunedIs ==
  ASSUME NEW records, NEW batch
  PROVE  \A h \in Hosts : Pruned(records, batch)[h] =
           IF h \in Removed(records, batch) THEN NoRecord ELSE records[h]
  BY DEF Pruned, Removed
   
LEMMA PrunedTyped ==
  ASSUME NEW records \in [Hosts -> Record], NEW batch
  PROVE  Pruned(records, batch) \in [Hosts -> Record]
  BY NoRecordTyped DEF Pruned

LEMMA PruneSound ==
  ASSUME GateTypeOK, NEW records \in [Hosts -> Record],
         NEW exp \in SUBSET Index, NEW pru \in SUBSET Index,
         Sound(records, exp, pru), NEW batch \in SUBSET DueOf(pru)
  PROVE  /\ Sound(Pruned(records, batch), exp, pru \ batch)
         /\ Held(Pruned(records, batch)) = Held(records)
<1> DEFINE kept == Pruned(records, batch)
<1>1. \A h \in Hosts :
        /\ h \in Removed(records, batch) => kept[h] = NoRecord
        /\ h \notin Removed(records, batch) => kept[h] = records[h]
  BY PrunedIs
<1>2. \A x \in batch : x \in pru /\ x[1] <= gateTime /\ x[2] \in Hosts
  BY DEF DueOf, Index
<1>3. NoRecord.gen = 0 /\ NoRecord.active = FALSE /\ NoRecord.prune = 0
  BY DEF NoRecord
<1>4. \A h \in Removed(records, batch) :
        /\ h \in Hosts /\ ~records[h].active /\ records[h].gen # 0
        /\ PruneAt(records[h]) <= gateTime
  BY <1>2 DEF Removed, Sound, PrunesMatch
<1>5. RecordsSound(kept)
  <2>1. generation \in Nat
    BY DEF GateTypeOK
  <2> QED
    BY <2>1, <1>1, <1>3 DEF Sound, RecordsSound
<1>6. ExpiriesExact(kept, exp)
  <2> SUFFICES ASSUME NEW x \in Index
               PROVE  x \in exp <=> /\ kept[x[2]].active
                                    /\ x[1] = kept[x[2]].until
                                    /\ x[3] = kept[x[2]].gen
    BY DEF ExpiriesExact
  <2>1. x[2] \in Hosts
    BY DEF Index
  <2>2. x \in exp <=> /\ records[x[2]].active
                      /\ x[1] = records[x[2]].until
                      /\ x[3] = records[x[2]].gen
    BY DEF Sound, ExpiriesExact
  <2> QED
    BY <2>1, <2>2, <1>1, <1>3, <1>4
<1>7. PrunesMatch(kept, pru \ batch)
  <2> SUFFICES ASSUME NEW x \in pru \ batch
               PROVE  /\ x[3] # 0 /\ x[3] <= generation
                      /\ kept[x[2]].gen = x[3] =>
                           /\ ~kept[x[2]].active
                           /\ x[1] = kept[x[2]].prune
                           /\ x[1] = PruneAt(kept[x[2]])
    BY DEF PrunesMatch
  <2>1. x[2] \in Hosts
    BY DEF Index
  <2>2. /\ x[3] # 0 /\ x[3] <= generation
        /\ records[x[2]].gen = x[3] =>
             /\ ~records[x[2]].active
             /\ x[1] = records[x[2]].prune
             /\ x[1] = PruneAt(records[x[2]])
    BY DEF Sound, PrunesMatch
  <2> QED
    BY <2>1, <2>2, <1>1, <1>3
<1>8. PrunesCover(kept, pru \ batch)
  <2> SUFFICES ASSUME NEW h \in Hosts, ~kept[h].active, kept[h].prune # 0
               PROVE  <<kept[h].prune, h, kept[h].gen>> \in pru \ batch
    BY DEF PrunesCover
  <2>1. h \notin Removed(records, batch) /\ kept[h] = records[h]
    BY <1>1, <1>3
  <2> DEFINE x == <<records[h].prune, h, records[h].gen>>
  <2>2. x \in pru
    BY <2>1 DEF Sound, PrunesCover
  <2>3. x \notin batch
    <3> SUFFICES ASSUME x \in batch
                 PROVE  FALSE
      OBVIOUS
    <3>1. records[h].prune <= gateTime
      BY <1>2
    <3>2. x[2] = h /\ x[3] = records[h].gen
      OBVIOUS
    <3> QED
      BY <2>1, <3>1, <3>2 DEF Removed
  <2> QED
    BY <2>1, <2>2, <2>3
<1>9. RestCovered(kept)
  <2> SUFFICES ASSUME NEW h \in Hosts
               PROVE  rest[h] <= gateTime \/ /\ kept[h].gen # 0
                                             /\ rest[h] <= PruneAt(kept[h])
    BY DEF RestCovered
  <2>1. rest[h] <= gateTime \/ /\ records[h].gen # 0
                               /\ rest[h] <= PruneAt(records[h])
    BY DEF Sound, RestCovered
  <2>2. rest[h] \in Nat /\ gateTime \in Nat /\ PruneAt(records[h]) \in Nat
    BY PruneAtType DEF GateTypeOK
  <2>3. CASE h \in Removed(records, batch)
    BY <2>1, <2>2, <2>3, <1>4
  <2>4. CASE h \notin Removed(records, batch)
    BY <2>1, <2>4, <1>1
  <2> QED
    BY <2>3, <2>4
<1>10. Held(kept) = Held(records)
  BY <1>1, <1>3, <1>4 DEF Held
<1> QED
  BY <1>5, <1>6, <1>7, <1>8, <1>9, <1>10 DEF Sound

(* Leases ended are counted off.                                           *)
LEMMA HeldFinite ==
  ASSUME NEW records
  PROVE  IsFiniteSet(Held(records)) /\ Cardinality(Held(records)) \in Nat
  BY GateNamesAssumption, FS_Subset, FS_CardinalityType DEF Held

LEMMA EndAllCount ==
  ASSUME GateTypeOK, NEW H \in SUBSET Held(hosts)
  PROVE  /\ Held(EndAll(H)) = Held(hosts) \ H
         /\ Cardinality(Held(EndAll(H)))
              = Cardinality(Held(hosts)) - Cardinality(H)
         /\ Cardinality(H) \in Nat
<1>1. \A h \in Hosts : hosts[h] \in Record
  BY DEF GateTypeOK
<1>2. Held(EndAll(H)) = Held(hosts) \ H
  BY <1>1, EndedType DEF Held, EndAll
<1>3. IsFiniteSet(Held(hosts)) /\ IsFiniteSet(H)
  BY HeldFinite, FS_Subset
<1>4. Held(hosts) \cap H = H
  OBVIOUS
<1> QED
  BY <1>2, <1>3, <1>4, FS_Difference, FS_CardinalityType

-----------------------------------------------------------------------------
(* The sweep at the head of Acquire leaves a sound store.                  *)
Fits ==
  /\ Sound(hosts, expiries, prunes)
  /\ active = Cardinality(Held(hosts)) /\ active <= GlobalConcurrency

LEMMA LapsedIs ==
  ASSUME GateTypeOK, Fits
  PROVE  \A h \in Hosts : h \in Lapsed <=> hosts[h].active
                                           /\ hosts[h].until <= gateTime
<1> SUFFICES ASSUME NEW h \in Hosts, hosts[h].active, hosts[h].until <= gateTime
             PROVE  \E x \in DueOf(expiries) : x[2] = h /\ x[3] = hosts[h].gen
  BY DEF Lapsed
<1> DEFINE x == <<hosts[h].until, h, hosts[h].gen>>
<1>1. x \in Index
  BY DEF GateTypeOK, Record, Index
<1>2. x \in expiries
  BY <1>1 DEF Fits, Sound, ExpiriesExact
<1> QED
  BY <1>2 DEF DueOf

LEMMA SweepTyped ==
  ASSUME GateTypeOK
  PROVE  Typed(Swept, expiries \ DueOf(expiries),
               SweptPrunes \ FirstOf(SweptPrunes))
<1>1. Lapsed \in SUBSET Hosts
  BY DEF Lapsed
<1>2. Reaped = EndAll(Lapsed)
  BY DEF Reaped, EndAll
<1>3. Swept \in [Hosts -> Record]
  BY <1>1, <1>2, EndAllTyped, PrunedTyped DEF Swept
<1> QED
  BY <1>1, <1>3, EndAllTyped DEF Typed, SweptPrunes, GateTypeOK, Index

LEMMA SweepSound ==
  ASSUME GateTypeOK, Fits
  PROVE  /\ Sound(Swept, expiries \ DueOf(expiries),
                  SweptPrunes \ FirstOf(SweptPrunes))
         /\ ActiveAfterReap = Cardinality(Held(Swept))
         /\ ActiveAfterReap \in Nat /\ ActiveAfterReap <= GlobalConcurrency
<1> DEFINE left == expiries \ DueOf(expiries)
<1>1. Lapsed \in SUBSET Held(hosts)
  BY DEF Lapsed, Held
<1>2. Reaped = EndAll(Lapsed)
  BY DEF Reaped, EndAll
<1>3. \A x \in Index : x \in left <=> x \in expiries /\ x[2] \notin Lapsed
  <2> SUFFICES ASSUME NEW x \in Index, x \in expiries
               PROVE  x[1] <= gateTime <=> x[2] \in Lapsed
    BY DEF DueOf
  <2>1. x[2] \in Hosts
    BY DEF Index
  <2>2. hosts[x[2]].active /\ x[1] = hosts[x[2]].until
    BY DEF Fits, Sound, ExpiriesExact
  <2> QED
    BY <2>1, <2>2, LapsedIs
<1>4. left \in SUBSET Index
  BY DEF GateTypeOK, Index
<1>5. Sound(Reaped, left, SweptPrunes)
  BY <1>1, <1>2, <1>3, <1>4, EndAllSound DEF Fits, SweptPrunes
<1>6. Reaped \in [Hosts -> Record] /\ SweptPrunes \in SUBSET Index
  BY <1>1, <1>2, EndAllTyped DEF SweptPrunes, Held
<1>7. FirstOf(SweptPrunes) \in SUBSET DueOf(SweptPrunes)
  BY DEF FirstOf
<1>8. /\ Sound(Swept, left, SweptPrunes \ FirstOf(SweptPrunes))
      /\ Held(Swept) = Held(Reaped)
  BY <1>4, <1>5, <1>6, <1>7, PruneSound DEF Swept
<1>9. /\ Cardinality(Held(Reaped))
           = Cardinality(Held(hosts)) - Cardinality(Lapsed)
      /\ Cardinality(Lapsed) \in Nat
  BY <1>1, <1>2, EndAllCount
<1>10. Cardinality(Held(Swept)) \in Nat /\ active \in Nat
  BY HeldFinite DEF GateTypeOK
<1> QED
  BY <1>8, <1>9, <1>10, PolicyTypes DEF Fits, ActiveAfterReap

(* What the sweep does to one host: nothing, or its lease, if it had one,  *)
(* has lapsed, and the record stays or goes.                               *)
LEMMA SweepKeeps ==
  ASSUME GateTypeOK, Fits, NEW h \in Hosts
  PROVE  \/ Swept[h] = hosts[h]
         \/ /\ ~Swept[h].active
            /\ hosts[h].active => hosts[h].until <= gateTime
            /\ Swept[h].gen \in {0, hosts[h].gen}
            /\ Swept[h] # NoRecord => Swept[h].attempt = hosts[h].attempt
<1>1. hosts[h] \in Record
  BY DEF GateTypeOK
<1>2. \/ Reaped[h] = hosts[h]
      \/ /\ Reaped[h] = Ended(hosts[h])
         /\ hosts[h].active /\ hosts[h].until <= gateTime
  BY DEF Reaped, Lapsed
<1>3. \/ Swept[h] = Reaped[h]
      \/ Swept[h] = NoRecord /\ ~Reaped[h].active
  BY PrunedIs DEF Swept, Removed
<1>4. NoRecord.gen = 0 /\ ~NoRecord.active
  BY DEF NoRecord
<1> QED
  BY <1>1, <1>2, <1>3, <1>4, EndedType

-----------------------------------------------------------------------------
(* The workers' records: whoever is not idle has an attempt and a host.    *)
Busy == \A w \in Workers : \/ work[w] = IdleWorker
                            \/ /\ work[w].attempt \in Attempts
                               /\ work[w].host \in Hosts
IInv == GateTypeOK /\ Busy /\ Fits

LEMMA IdleTyped == IdleWorker \in Worker
  BY DEF IdleWorker, Worker

LEMMA MessageTyped ==
  ASSUME GateTypeOK, Busy, NEW w \in Workers, work[w] # IdleWorker,
         NEW op \in {"acquire", "record", "release"},
         NEW retry \in {0} \cup RetryAfters
  PROVE  Message(w, op, retry) \in Request
<1>1. work[w] \in Worker
  BY DEF GateTypeOK
<1>2. work[w].attempt \in Attempts /\ work[w].host \in Hosts
  BY DEF Busy
<1> QED
  BY <1>1, <1>2 DEF Message, Request, Worker

LEMMA AnswerTyped ==
  ASSUME GateTypeOK, Busy, NEW m \in net, NEW after \in Worker,
         \/ after = IdleWorker
         \/ /\ after.attempt = work[m.worker].attempt
            /\ after.host = work[m.worker].host,
         Answer(m, after)
  PROVE  /\ work' \in [Workers -> Worker] /\ net' \subseteq Request
         /\ Busy'
<1>1. m.worker \in Workers /\ m.attempt \in Attempts
  BY DEF GateTypeOK, Request
<1>0. m.op \in {"acquire", "record", "release"}
  BY DEF GateTypeOK, Request
<1>2. net' \subseteq Request
  BY DEF Answer, GateTypeOK
<1>3. CASE work' = work
  BY <1>2, <1>3 DEF GateTypeOK, Busy
<1>4. CASE Awaits(m) /\ work' = [work EXCEPT ![m.worker] = after]
  <2>1. work' \in [Workers -> Worker]
    BY <1>4 DEF GateTypeOK
  <2>2. work[m.worker] # IdleWorker
    BY <1>0, <1>4 DEF Awaits, IdleWorker
  <2>3. ASSUME NEW w \in Workers
        PROVE  \/ work'[w] = IdleWorker
               \/ work'[w].attempt \in Attempts /\ work'[w].host \in Hosts
    <3>1. CASE w = m.worker
      <4>1. work'[w] = after
        BY <1>1, <1>4, <3>1 DEF GateTypeOK
      <4>2. work[w].attempt \in Attempts /\ work[w].host \in Hosts
        BY <2>2, <3>1 DEF Busy
      <4> QED
        BY <3>1, <4>1, <4>2
    <3>2. CASE w # m.worker
      BY <1>1, <1>4, <3>2 DEF GateTypeOK, Busy
    <3> QED
      BY <3>1, <3>2
  <2> QED
    BY <1>2, <2>1, <2>3 DEF Busy
<1> QED
  BY <1>3, <1>4 DEF Answer

LEMMA LeasedTyped ==
  ASSUME NEW m, NEW r \in Record, work[m.worker] \in Worker
  PROVE  /\ Leased(m, r) \in Worker
         /\ Leased(m, r).attempt = work[m.worker].attempt
         /\ Leased(m, r).host = work[m.worker].host
<1>1. r.gen \in Nat /\ r.last + Slack \in Nat
  BY PolicyTypes DEF Record
<1> QED
  BY <1>1 DEF Leased, Worker

(* The store kept, or swept and otherwise kept.                            *)
LEMMA SameStore ==
  ASSUME Fits, UNCHANGED <<store, gateTime, rest>>
  PROVE  Fits'
  BY DEF Fits, store, Sound, RecordsSound, ExpiriesExact, PrunesMatch,
         PrunesCover, RestCovered, Held, Index

LEMMA SweptStore ==
  ASSUME GateTypeOK, Fits, SweepWith(Swept),
         UNCHANGED <<generation, gateTime, rest>>
  PROVE  /\ Fits'
         /\ hosts' \in [Hosts -> Record] /\ active' \in Nat
         /\ expiries' \subseteq Index /\ prunes' \subseteq Index
<1> DEFINE exp == expiries \ DueOf(expiries)
           pru == SweptPrunes \ FirstOf(SweptPrunes)
<1>1. Typed(Swept, exp, pru)
  BY SweepTyped
<1>2. /\ Sound(Swept, exp, pru)
      /\ ActiveAfterReap = Cardinality(Held(Swept))
      /\ ActiveAfterReap \in Nat /\ ActiveAfterReap <= GlobalConcurrency
  BY SweepSound
<1>3. /\ hosts' = Swept /\ expiries' = exp /\ prunes' = pru
      /\ active' = ActiveAfterReap
      /\ generation' = generation /\ gateTime' = gateTime /\ rest' = rest
  BY DEF SweepWith
<1> HIDE DEF exp, pru
<1>4. Sound(hosts, expiries, prunes)'
  BY <1>2, <1>3 DEF Sound, RecordsSound, ExpiriesExact, PrunesMatch,
                    PrunesCover, RestCovered
<1>5. active' = Cardinality(Held(hosts)') /\ active' <= GlobalConcurrency
  BY <1>2, <1>3 DEF Held
<1> QED
  BY <1>1, <1>2, <1>3, <1>4, <1>5 DEF Fits, Typed

-----------------------------------------------------------------------------
(* Grant: the record it overwrites restrains nothing any more.             *)
LEMMA FreeRecord ==
  ASSUME GateTypeOK, Fits, NEW h \in Hosts, ~Resting(Swept[h])
  PROVE  ~Swept[h].active /\ rest[h] <= gateTime
<1>1. Swept[h] \in Record
  BY SweepTyped DEF Typed
<1>2. /\ Swept[h].gen = 0 => Swept[h] = NoRecord
      /\ rest[h] <= gateTime \/ /\ Swept[h].gen # 0
                                /\ rest[h] <= PruneAt(Swept[h])
  BY SweepSound DEF Sound, RecordsSound, RestCovered
<1>3. PruneAt(Swept[h]) \in Nat /\ gateTime \in Nat /\ rest[h] \in Nat
  BY <1>1, PruneAtType DEF GateTypeOK
<1>4. Swept[h].until \in Nat
  BY <1>1 DEF Record
<1> QED
  BY <1>2, <1>3, <1>4 DEF Resting, Larger, NoRecord

LEMMA GrantKeeps ==
  ASSUME IInv, NEW m \in net, Grant(m)
  PROVE  IInv'
<1> DEFINE h == m.host
           until == gateTime + RequestTimeout + MaxRetryAfter + ControlGrace
           r == [gen |-> generation + 1, attempt |-> m.attempt,
                 active |-> TRUE, until |-> until, last |-> gateTime,
                 cooldown |-> 0, prune |-> 0]
           exp == expiries \ DueOf(expiries)
           pru == SweptPrunes \ FirstOf(SweptPrunes)
           new == <<until, h, generation + 1>>
<1>1. GateTypeOK /\ Busy /\ Fits
  BY DEF IInv
<1>2. h \in Hosts /\ m.attempt \in Attempts /\ m.worker \in Workers
  BY <1>1 DEF GateTypeOK, Request
<1>3. gateTime \in Nat /\ generation \in Nat /\ until \in Nat
      /\ until >= gateTime + RequestTimeout + ControlGrace
  BY <1>1, PolicyTypes DEF GateTypeOK
<1>4. /\ r \in Record /\ r.gen = generation + 1 /\ r.attempt = m.attempt
      /\ r.active /\ r.until = until /\ r.last = gateTime /\ r.prune = 0
      /\ r.cooldown = 0
  <2>1. generation + 1 \in Nat
    BY <1>3
  <2> HIDE DEF until
  <2> QED
    BY <2>1, <1>2, <1>3 DEF Record
<1>5. Typed(Swept, exp, pru)
  BY <1>1, SweepTyped
<1>6. /\ Sound(Swept, exp, pru)
      /\ ActiveAfterReap = Cardinality(Held(Swept))
      /\ ActiveAfterReap \in Nat /\ ActiveAfterReap <= GlobalConcurrency
  BY <1>1, SweepSound
<1>7. /\ hosts' = [Swept EXCEPT ![h] = r]
      /\ expiries' = Puts(exp, {new}) /\ prunes' = pru
      /\ active' = ActiveAfterReap + 1 /\ generation' = generation + 1
      /\ rest' = [rest EXCEPT ![h] = gateTime + MinHostInterval]
      /\ gateTime' = gateTime /\ ~Full /\ ~Resting(Swept[h])
      /\ Answer(m, Leased(m, r))
  BY DEF Grant
<1>8. ~Swept[h].active
  BY <1>1, <1>2, <1>7, FreeRecord
<1> HIDE DEF h, r, exp, pru, until
<1>9. /\ hosts' \in [Hosts -> Record] /\ hosts'[h] = r
      /\ \A g \in Hosts \ {h} : hosts'[g] = Swept[g]
  BY <1>2, <1>4, <1>5, <1>7 DEF Typed
<1>10. new \in Index
  BY <1>2, <1>3 DEF Index
<1>11. RecordsSound(hosts)'
  <2> SUFFICES ASSUME NEW g \in Hosts
               PROVE  /\ hosts'[g].gen = 0 => hosts'[g] = NoRecord
                      /\ hosts'[g].gen <= generation'
                      /\ hosts'[g].active =>
                           hosts'[g].until >= hosts'[g].last
                                               + RequestTimeout + ControlGrace
    BY DEF RecordsSound, NoRecord
  <2>1. CASE g = h
    BY <2>1, <1>3, <1>4, <1>7, <1>9
  <2>2. CASE g # h
    <3>1. Swept[g].gen <= generation /\ Swept[g].gen \in Nat
      BY <1>5, <1>6 DEF Sound, RecordsSound, Typed, Record
    <3> QED
      BY <2>2, <3>1, <1>3, <1>6, <1>7, <1>9 DEF Sound, RecordsSound
  <2> QED
    BY <2>1, <2>2
<1>12. ExpiriesExact(hosts, expiries)'
  <2> SUFFICES ASSUME NEW x \in Index
               PROVE  x \in expiries' <=> /\ hosts'[x[2]].active
                                          /\ x[1] = hosts'[x[2]].until
                                          /\ x[3] = hosts'[x[2]].gen
    BY DEF ExpiriesExact, Index
  <2>1. x[2] \in Hosts /\ x = <<x[1], x[2], x[3]>>
    BY DEF Index
  <2>2. x \in exp <=> /\ Swept[x[2]].active
                      /\ x[1] = Swept[x[2]].until
                      /\ x[3] = Swept[x[2]].gen
    BY <1>6 DEF Sound, ExpiriesExact
  <2>3. x \in expiries' <=> \/ x \in exp /\ (x[1] # until \/ x[2] # h)
                            \/ x = new
    BY <1>7 DEF Puts
  <2>4. CASE x[2] = h
    <3>1. x \in expiries' <=> x = new
      BY <2>2, <2>3, <2>4, <1>8
    <3> QED
      BY <2>1, <2>4, <3>1, <1>4, <1>9
  <2>5. CASE x[2] # h
    BY <2>1, <2>2, <2>3, <2>5, <1>9
  <2> QED
    BY <2>4, <2>5
<1>13. PrunesMatch(hosts, prunes)'
  <2> SUFFICES ASSUME NEW x \in pru
               PROVE  /\ x[3] # 0 /\ x[3] <= generation'
                      /\ hosts'[x[2]].gen = x[3] =>
                           /\ ~hosts'[x[2]].active
                           /\ x[1] = hosts'[x[2]].prune
                           /\ x[1] = PruneAt(hosts'[x[2]])
    BY <1>7 DEF PrunesMatch, PruneAt, Eligible, Larger
  <2>1. /\ x[3] # 0 /\ x[3] <= generation
        /\ Swept[x[2]].gen = x[3] =>
             /\ ~Swept[x[2]].active
             /\ x[1] = Swept[x[2]].prune
             /\ x[1] = PruneAt(Swept[x[2]])
    BY <1>6 DEF Sound, PrunesMatch
  <2>2. x[2] \in Hosts /\ x[3] \in Nat
    BY <1>5 DEF Typed, Index
  <2>3. CASE x[2] = h
    BY <2>1, <2>2, <2>3, <1>3, <1>4, <1>7, <1>9
  <2>4. CASE x[2] # h
    BY <2>1, <2>2, <2>4, <1>3, <1>7, <1>9
  <2> QED
    BY <2>3, <2>4
<1>14. PrunesCover(hosts, prunes)'
  BY <1>4, <1>6, <1>7, <1>9 DEF Sound, PrunesCover
<1>15. RestCovered(hosts)' /\ rest' \in [Hosts -> Nat]
  <2>1. rest' \in [Hosts -> Nat]
    BY <1>1, <1>2, <1>3, <1>7, PolicyTypes DEF GateTypeOK
  <2> SUFFICES ASSUME NEW g \in Hosts
               PROVE  rest'[g] <= gateTime' \/ /\ hosts'[g].gen # 0
                                               /\ rest'[g] <= PruneAt(hosts'[g])
    BY <2>1 DEF RestCovered, PruneAt, Eligible, Larger
  <2>2. CASE g = h
    <3>1. rest'[g] = gateTime + MinHostInterval
      BY <2>2, <1>1, <1>2, <1>7 DEF GateTypeOK
    <3>2. PruneAt(r) >= gateTime + MinHostInterval
      BY <1>3, <1>4, PolicyTypes DEF PruneAt, Eligible, Larger
    <3> QED
      BY <2>2, <3>1, <3>2, <1>3, <1>4, <1>9
  <2>3. CASE g # h
    <3>1. rest'[g] = rest[g]
      BY <2>3, <1>1, <1>2, <1>7 DEF GateTypeOK
    <3> QED
      BY <2>3, <3>1, <1>6, <1>7, <1>9 DEF Sound, RestCovered
  <2> QED
    BY <2>2, <2>3
<1>16. active' = Cardinality(Held(hosts)') /\ active' <= GlobalConcurrency
  <2>1. Held(hosts)' = Held(Swept) \cup {h} /\ h \notin Held(Swept)
    BY <1>2, <1>4, <1>8, <1>9 DEF Held
  <2>2. Cardinality(Held(hosts)') = Cardinality(Held(Swept)) + 1
    BY <2>1, HeldFinite, FS_AddElement
  <2> QED
    BY <2>2, <1>6, <1>7, PolicyTypes DEF Full
<1>17. expiries' \subseteq Index /\ prunes' \subseteq Index
  BY <1>5, <1>7, <1>10 DEF Puts, Typed
<1>18. /\ work' \in [Workers -> Worker] /\ net' \subseteq Request /\ Busy'
  <2>1. work[m.worker] \in Worker
    BY <1>1, <1>2 DEF GateTypeOK
  <2>3. /\ Leased(m, r) \in Worker
        /\ Leased(m, r).attempt = work[m.worker].attempt
        /\ Leased(m, r).host = work[m.worker].host
    BY <2>1, <1>4, LeasedTyped
  <2> QED
    BY <2>3, <1>1, <1>7, AnswerTyped
<1>19. Fits'
  BY <1>11, <1>12, <1>13, <1>14, <1>15, <1>16 DEF Fits, Sound
<1>20. GateTypeOK'
  <2>1. active' \in Nat /\ generation' \in Nat /\ gateTime' \in Nat
    BY <1>3, <1>6, <1>7
  <2> QED
    BY <2>1, <1>9, <1>15, <1>17, <1>18 DEF GateTypeOK, Index
<1> QED
  BY <1>18, <1>19, <1>20 DEF IInv

-----------------------------------------------------------------------------
(* RecordResponse: a shortened lease still outlasts its request.           *)
LEMMA ShortenedLasts ==
  ASSUME NEW r \in Record, gateTime \in Nat,
         r.until >= r.last + RequestTimeout + ControlGrace
  PROVE  /\ Shortened(r) \in Nat
         /\ Shortened(r) >= r.last + RequestTimeout + ControlGrace
<1>1. r.until \in Nat /\ r.last \in Nat
  BY DEF Record
<1>2. /\ gateTime \in Nat /\ RequestTimeout \in Nat /\ ControlGrace \in Nat
      /\ r.until >= r.last + RequestTimeout + ControlGrace
  BY PolicyTypes
<1> QED
  BY <1>1, <1>2 DEF Shortened, Smaller

LEMMA Matched ==
  ASSUME IInv, NEW m \in net, Matches(m)
  PROVE  /\ m.host \in Hosts /\ hosts[m.host] \in Record
         /\ hosts[m.host].gen # 0
<1>1. m.host \in Hosts /\ m.attempt \in Attempts /\ hosts[m.host] \in Record
  BY DEF IInv, GateTypeOK, Request
<1>2. hosts[m.host].gen = 0 => hosts[m.host] = NoRecord
  BY <1>1 DEF IInv, Fits, Sound, RecordsSound
<1> QED
  BY <1>1, <1>2, GateNamesAssumption DEF Matches, NoRecord

LEMMA RecordKeeps ==
  ASSUME IInv, NEW m \in net, RecordResponse(m)
  PROVE  IInv'
<1> DEFINE h == m.host
           r == hosts[h]
           cool == IF m.retry > 0 THEN Larger(r.cooldown, gateTime + m.retry)
                                  ELSE r.cooldown
           until == IF r.active THEN Shortened(r) ELSE r.until
           new == <<until, h, r.gen>>
<1>1. GateTypeOK /\ Busy /\ Fits
  BY DEF IInv
<1>2. h \in Hosts /\ r \in Record /\ r.gen # 0
  BY Matched DEF RecordResponse
<1>3. /\ m.worker \in Workers /\ m.retry \in Nat
      /\ gateTime \in Nat /\ generation \in Nat /\ rest[h] \in Nat
  <2>1. m.worker \in Workers /\ m.retry \in {0} \cup RetryAfters
    BY <1>1 DEF GateTypeOK, Request
  <2>2. {0} \cup RetryAfters \subseteq Nat
    BY PolicyTypes
  <2>3. gateTime \in Nat /\ generation \in Nat /\ rest[h] \in Nat
    BY <1>1, <1>2 DEF GateTypeOK
  <2> QED
    BY <2>1, <2>2, <2>3
<1>4. /\ r.gen \in Nat /\ r.until \in Nat /\ r.last \in Nat
      /\ r.cooldown \in Nat /\ r.prune \in Nat
  BY <1>2 DEF Record
<1>5. cool \in Nat /\ cool >= r.cooldown
  BY <1>3, <1>4 DEF Larger
<1>6. /\ r.active => r.until >= r.last + RequestTimeout + ControlGrace
      /\ r.gen <= generation
  BY <1>1, <1>2 DEF Fits, Sound, RecordsSound
<1>7. /\ until \in Nat
      /\ r.active => until >= r.last + RequestTimeout + ControlGrace
  BY <1>2, <1>3, <1>4, <1>6, ShortenedLasts
<1>8. /\ hosts' = [hosts EXCEPT ![h].cooldown = cool, ![h].until = until,
                                ![h].prune = 0]
      /\ expiries' = IF r.active
                     THEN Puts(WithoutKey(expiries, r.until, h), {new})
                     ELSE expiries
      /\ prunes' = IF r.prune # 0 THEN WithoutKey(prunes, r.prune, h) ELSE prunes
      /\ rest' = [rest EXCEPT ![h] = Larger(@, cool)]
      /\ Answer(m, [work[m.worker] EXCEPT !.phase = "reading"])
      /\ active' = active /\ generation' = generation /\ gateTime' = gateTime
  BY DEF RecordResponse
<1> HIDE DEF cool, until
<1>9. /\ hosts' \in [Hosts -> Record]
      /\ hosts'[h].gen = r.gen /\ hosts'[h].active = r.active
      /\ hosts'[h].until = until /\ hosts'[h].last = r.last
      /\ hosts'[h].cooldown = cool /\ hosts'[h].prune = 0
      /\ \A g \in Hosts \ {h} : hosts'[g] = hosts[g]
  <2> DEFINE s == [r EXCEPT !.cooldown = cool, !.until = until, !.prune = 0]
  <2>1. hosts' = [hosts EXCEPT ![h] = s]
    BY <1>1, <1>2, <1>8 DEF GateTypeOK
  <2>2. /\ s \in Record /\ s.gen = r.gen /\ s.active = r.active
        /\ s.until = until /\ s.last = r.last /\ s.cooldown = cool
        /\ s.prune = 0
    BY <1>2, <1>5, <1>7 DEF Record
  <2> HIDE DEF s
  <2> QED
    BY <2>1, <2>2, <1>1, <1>2 DEF GateTypeOK
<1>10. new \in Index
  BY <1>2, <1>4, <1>7 DEF Index
<1>11. RecordsSound(hosts)'
  <2> SUFFICES ASSUME NEW g \in Hosts
               PROVE  /\ hosts'[g].gen = 0 => hosts'[g] = NoRecord
                      /\ hosts'[g].gen <= generation'
                      /\ hosts'[g].active =>
                           hosts'[g].until >= hosts'[g].last
                                               + RequestTimeout + ControlGrace
    BY DEF RecordsSound, NoRecord
  <2>1. CASE g = h
    BY <2>1, <1>2, <1>6, <1>7, <1>8, <1>9
  <2>2. CASE g # h
    BY <2>2, <1>1, <1>8, <1>9 DEF Fits, Sound, RecordsSound
  <2> QED
    BY <2>1, <2>2
<1>12. ExpiriesExact(hosts, expiries)'
  <2> SUFFICES ASSUME NEW x \in Index
               PROVE  x \in expiries' <=> /\ hosts'[x[2]].active
                                          /\ x[1] = hosts'[x[2]].until
                                          /\ x[3] = hosts'[x[2]].gen
    BY DEF ExpiriesExact, Index
  <2>1. x[2] \in Hosts /\ x = <<x[1], x[2], x[3]>>
    BY DEF Index
  <2>2. x \in expiries <=> /\ hosts[x[2]].active
                           /\ x[1] = hosts[x[2]].until
                           /\ x[3] = hosts[x[2]].gen
    BY <1>1 DEF Fits, Sound, ExpiriesExact
  <2>3. CASE ~r.active
    <3>1. expiries' = expiries
      BY <2>3, <1>8
    <3> QED
      BY <2>1, <2>2, <2>3, <3>1, <1>9
  <2>4. CASE r.active
    <3>1. expiries' = Puts(WithoutKey(expiries, r.until, h), {new})
      BY <2>4, <1>8
    <3>2. x \in expiries' <=> \/ /\ x \in expiries
                                 /\ x[1] # r.until \/ x[2] # h
                                 /\ x[1] # until \/ x[2] # h
                              \/ x = new
      BY <3>1 DEF Puts, WithoutKey
    <3>3. CASE x[2] = h
      <4>1. x \in expiries' <=> x = new
        BY <2>2, <3>2, <3>3
      <4> QED
        BY <2>1, <2>4, <3>3, <4>1, <1>9
    <3>4. CASE x[2] # h
      BY <2>1, <2>2, <3>2, <3>4, <1>9
    <3> QED
      BY <3>3, <3>4
  <2> QED
    BY <2>3, <2>4
<1>13. prunes' \subseteq prunes
  BY <1>8 DEF WithoutKey
<1>14. PrunesMatch(hosts, prunes)'
  <2> SUFFICES ASSUME NEW x \in prunes'
               PROVE  /\ x[3] # 0 /\ x[3] <= generation'
                      /\ hosts'[x[2]].gen = x[3] =>
                           /\ ~hosts'[x[2]].active
                           /\ x[1] = hosts'[x[2]].prune
                           /\ x[1] = PruneAt(hosts'[x[2]])
    BY DEF PrunesMatch, PruneAt, Eligible, Larger
  <2>1. /\ x[3] # 0 /\ x[3] <= generation
        /\ hosts[x[2]].gen = x[3] =>
             /\ ~hosts[x[2]].active
             /\ x[1] = hosts[x[2]].prune
             /\ x[1] = PruneAt(hosts[x[2]])
    BY <1>1, <1>13 DEF Fits, Sound, PrunesMatch
  <2>2. x[2] \in Hosts
    BY <1>1, <1>13 DEF GateTypeOK
  <2>3. CASE x[2] = h
    <3>1. hosts[h].gen # x[3]
      <4> SUFFICES ASSUME hosts[h].gen = x[3]
                   PROVE  FALSE
        OBVIOUS
      <4>1. x[1] = r.prune /\ x[1] > 0
        BY <2>1, <2>3, <1>2, PruneAtType
      <4>2. x \in WithoutKey(prunes, r.prune, h)
        BY <4>1, <1>4, <1>8
      <4> QED
        BY <2>3, <4>1, <4>2 DEF WithoutKey
    <3> QED
      BY <2>1, <2>3, <3>1, <1>8, <1>9
  <2>4. CASE x[2] # h
    BY <2>1, <2>2, <2>4, <1>8, <1>9
  <2> QED
    BY <2>3, <2>4
<1>15. PrunesCover(hosts, prunes)'
  <2> SUFFICES ASSUME NEW g \in Hosts, ~hosts'[g].active, hosts'[g].prune # 0
               PROVE  <<hosts'[g].prune, g, hosts'[g].gen>> \in prunes'
    BY DEF PrunesCover
  <2>1. g # h /\ hosts'[g] = hosts[g]
    BY <1>9
  <2>2. <<hosts[g].prune, g, hosts[g].gen>> \in prunes
    BY <2>1, <1>1 DEF Fits, Sound, PrunesCover
  <2> QED
    BY <2>1, <2>2, <1>8 DEF WithoutKey
<1>16. RestCovered(hosts)' /\ rest' \in [Hosts -> Nat]
  <2>1. rest' \in [Hosts -> Nat] /\ rest'[h] = Larger(rest[h], cool)
        /\ \A g \in Hosts \ {h} : rest'[g] = rest[g]
    <3>1. Larger(rest[h], cool) \in Nat
      BY <1>3, <1>5 DEF Larger
    <3> QED
      BY <3>1, <1>1, <1>2, <1>8 DEF GateTypeOK
  <2> SUFFICES ASSUME NEW g \in Hosts
               PROVE  rest'[g] <= gateTime' \/ /\ hosts'[g].gen # 0
                                               /\ rest'[g] <= PruneAt(hosts'[g])
    BY <2>1 DEF RestCovered, PruneAt, Eligible, Larger
  <2>2. rest[g] <= gateTime \/ /\ hosts[g].gen # 0 /\ rest[g] <= PruneAt(hosts[g])
    BY <1>1 DEF Fits, Sound, RestCovered
  <2>3. CASE g = h
    <3>1. PruneAt(hosts'[h]) = Larger(r.last + MinHostInterval, cool)
      BY <1>9 DEF PruneAt, Eligible
    <3>2. PruneAt(r) = Larger(r.last + MinHostInterval, r.cooldown)
      BY DEF PruneAt, Eligible
    <3>3. MinHostInterval \in Nat
      BY PolicyTypes
    <3> QED
      BY <2>1, <2>2, <2>3, <3>1, <3>2, <3>3, <1>2, <1>3, <1>4, <1>5, <1>8, <1>9
         DEF Larger
  <2>4. CASE g # h
    BY <2>1, <2>2, <2>4, <1>8, <1>9
  <2> QED
    BY <2>3, <2>4
<1>17. Held(hosts)' = Held(hosts)
  BY <1>2, <1>9 DEF Held
<1>18. expiries' \subseteq Index /\ prunes' \subseteq Index
  BY <1>1, <1>8, <1>10, <1>13 DEF Puts, WithoutKey, GateTypeOK, Index
<1>19. work' \in [Workers -> Worker] /\ net' \subseteq Request /\ Busy'
  <2> DEFINE w == [work[m.worker] EXCEPT !.phase = "reading"]
  <2>1. work[m.worker] \in Worker
    BY <1>1, <1>3 DEF GateTypeOK
  <2>2. /\ w \in Worker /\ w.attempt = work[m.worker].attempt
        /\ w.host = work[m.worker].host
    BY <2>1 DEF Worker
  <2> QED
    BY <2>2, <1>1, <1>8, AnswerTyped
<1>20. Fits'
  BY <1>1, <1>8, <1>11, <1>12, <1>14, <1>15, <1>16, <1>17 DEF Fits, Sound
<1>21. GateTypeOK'
  BY <1>1, <1>3, <1>8, <1>9, <1>16, <1>18, <1>19 DEF GateTypeOK, Index
<1> QED
  BY <1>19, <1>20, <1>21 DEF IInv

-----------------------------------------------------------------------------
LEMMA ReleaseKeeps ==
  ASSUME IInv, NEW m \in net, Release(m)
  PROVE  IInv'
<1> DEFINE h == m.host
           left == WithoutKey(expiries, hosts[h].until, h)
<1>1. GateTypeOK /\ Busy /\ Fits
  BY DEF IInv
<1>2. work' \in [Workers -> Worker] /\ net' \subseteq Request /\ Busy'
  BY <1>1, IdleTyped, AnswerTyped DEF Release
<1>3. UNCHANGED <<generation, gateTime, rest>>
  BY DEF Release
<1>4. CASE ~StillHeld(m)
  <2>1. UNCHANGED <<store, gateTime, rest>>
    BY <1>4 DEF Release, store
  <2>2. Fits'
    BY <1>1, <2>1, SameStore
  <2> QED
    BY <1>1, <1>2, <2>1, <2>2 DEF IInv, GateTypeOK, store
<1>5. CASE StillHeld(m)
  <2>1. h \in Hosts /\ hosts[h].active
    BY <1>5, Matched DEF StillHeld
  <2>2. /\ hosts' = [hosts EXCEPT ![h] = Ended(hosts[h])]
        /\ expiries' = left
        /\ prunes' = Puts(prunes, Schedule({h}))
        /\ active' = active - 1
    BY <1>5 DEF Release
  <2>3. {h} \in SUBSET Held(hosts)
    BY <2>1 DEF Held
  <2>4. hosts' = EndAll({h})
    BY <2>2, <1>1 DEF EndAll, GateTypeOK
  <2>5. \A x \in Index : x \in left <=> x \in expiries /\ x[2] \notin {h}
    BY <1>1 DEF Fits, Sound, ExpiriesExact, WithoutKey
  <2>6. left \in SUBSET Index
    BY <1>1 DEF GateTypeOK, WithoutKey, Index
  <2>7. Sound(EndAll({h}), left, Puts(prunes, Schedule({h})))
    BY <1>1, <2>3, <2>5, <2>6, EndAllSound DEF Fits
  <2>8. /\ EndAll({h}) \in [Hosts -> Record]
        /\ Puts(prunes, Schedule({h})) \subseteq Index
    BY <1>1, <2>1, EndAllTyped
  <2>9. /\ Cardinality(Held(EndAll({h}))) = Cardinality(Held(hosts)) - 1
        /\ Cardinality(Held(EndAll({h}))) \in Nat
    BY <1>1, <2>3, EndAllCount, HeldFinite, FS_Singleton
  <2> HIDE DEF left
  <2>10. Sound(hosts, expiries, prunes)'
    BY <2>2, <2>4, <2>7, <1>3
       DEF Sound, RecordsSound, ExpiriesExact, PrunesMatch, PrunesCover,
           RestCovered
  <2>11. /\ active' = Cardinality(Held(hosts)') /\ active' <= GlobalConcurrency
         /\ active' \in Nat
    <3>1. Held(hosts)' = Held(EndAll({h}))
      BY <2>4 DEF Held
    <3> QED
      BY <3>1, <2>2, <2>9, <1>1, PolicyTypes DEF Fits, GateTypeOK
  <2> QED
    BY <1>1, <1>2, <1>3, <2>2, <2>4, <2>6, <2>8, <2>10, <2>11
       DEF IInv, Fits, GateTypeOK, Index
<1> QED
  BY <1>4, <1>5

(* What a worker does by itself leaves the store alone.                    *)
LEMMA WorkerKeeps ==
  ASSUME IInv, UNCHANGED <<store, gateTime, rest>>,
         work' \in [Workers -> Worker], net' \subseteq Request, Busy'
  PROVE  IInv'
<1>1. Fits'
  BY SameStore DEF IInv
<1> QED
  BY <1>1 DEF IInv, GateTypeOK, store

LEMMA TurnTyped ==
  ASSUME GateTypeOK, Busy, NEW w \in Workers, NEW after \in Worker,
         work' = [work EXCEPT ![w] = after],
         after = IdleWorker \/ (after.attempt \in Attempts /\ after.host \in Hosts)
  PROVE  work' \in [Workers -> Worker] /\ Busy'
<1>1. work' \in [Workers -> Worker]
  BY DEF GateTypeOK
<1>2. ASSUME NEW v \in Workers
      PROVE  \/ work'[v] = IdleWorker
             \/ work'[v].attempt \in Attempts /\ work'[v].host \in Hosts
  BY DEF GateTypeOK, Busy
<1> QED
  BY <1>1, <1>2 DEF Busy

LEMMA InitHolds == GateInit => IInv
<1> SUFFICES ASSUME GateInit
             PROVE  IInv
  OBVIOUS
<1>1. GateTypeOK /\ Busy
  <2>1. hosts \in [Hosts -> Record] /\ work \in [Workers -> Worker]
    BY NoRecordTyped, IdleTyped DEF GateInit
  <2> QED
    BY <2>1 DEF GateInit, GateTypeOK, Busy
<1>2. \A h \in Hosts : hosts[h] = NoRecord /\ rest[h] = 0
  BY DEF GateInit
<1>3. NoRecord.gen = 0 /\ ~NoRecord.active /\ NoRecord.prune = 0
  BY DEF NoRecord
<1>4. Sound(hosts, expiries, prunes)
  <2>1. generation = 0 /\ expiries = {} /\ prunes = {} /\ gateTime = 1
    BY DEF GateInit
  <2>2. \A x \in Index : ~hosts[x[2]].active
    BY <1>2, <1>3 DEF Index
  <2> QED
    BY <1>2, <1>3, <2>1, <2>2
       DEF Sound, RecordsSound, ExpiriesExact, PrunesMatch, PrunesCover,
           RestCovered
<1>5. Held(hosts) = {}
  BY <1>2, <1>3 DEF Held
<1> QED
  BY <1>1, <1>4, <1>5, FS_EmptySet, PolicyTypes DEF IInv, Fits, GateInit

LEMMA StepKeeps == IInv /\ [GateNext]_gateVars => IInv'
<1> SUFFICES ASSUME IInv, [GateNext]_gateVars
             PROVE  IInv'
  OBVIOUS
<1>0. GateTypeOK /\ Busy /\ Fits
  BY DEF IInv
<1>1. ASSUME NEW m \in net, AcquireFails(m)
      PROVE  IInv'
  BY <1>0, <1>1, IdleTyped, AnswerTyped, WorkerKeeps DEF AcquireFails
<1>2. ASSUME NEW m \in net, GrantAgain(m) \/ Deny(m)
      PROVE  IInv'
  <2>1. m.worker \in Workers /\ m.host \in Hosts
    BY <1>0 DEF GateTypeOK, Request
  <2>2. work[m.worker] \in Worker /\ Swept[m.host] \in Record
    BY <1>0, <2>1, SweepTyped DEF GateTypeOK, Typed
  <2>3. PICK after \in Worker :
          /\ after.attempt = work[m.worker].attempt
          /\ after.host = work[m.worker].host
          /\ Answer(m, after)
    <3>1. CASE GrantAgain(m)
      BY <2>2, <3>1, LeasedTyped DEF GrantAgain
    <3>2. CASE Deny(m)
      <4> DEFINE s == [work[m.worker] EXCEPT !.phase = "denied"]
      <4>1. /\ s \in Worker /\ s.attempt = work[m.worker].attempt
            /\ s.host = work[m.worker].host
        BY <2>2 DEF Worker
      <4> QED
        BY <3>2, <4>1 DEF Deny
    <3> QED
      BY <1>2, <3>1, <3>2
  <2>4. work' \in [Workers -> Worker] /\ net' \subseteq Request /\ Busy'
    BY <1>0, <2>3, AnswerTyped
  <2>5. SweepWith(Swept) /\ UNCHANGED <<generation, gateTime, rest>>
    BY <1>2 DEF GrantAgain, Deny
  <2> QED
    BY <1>0, <2>4, <2>5, SweptStore DEF IInv, GateTypeOK, Index
<1>3. ASSUME NEW m \in net, RecordRefused(m)
      PROVE  IInv'
  <2>1. m.worker \in Workers /\ m.op \in {"acquire", "record", "release"}
    BY <1>0 DEF GateTypeOK, Request
  <2>2. CASE work' = work /\ net' = net \ {m}
    BY <1>0, <1>3, <2>2, WorkerKeeps DEF RecordRefused, GateTypeOK, Busy
  <2>3. CASE /\ Awaits(m)
             /\ work' = [work EXCEPT ![m.worker].phase = "releasing",
                                     ![m.worker].by = 0]
             /\ net' = (net \ {m}) \cup {Message(m.worker, "release", 0)}
    <3> DEFINE w == m.worker
               s == [work[w] EXCEPT !.phase = "releasing", !.by = 0]
    <3>1. work[w] \in Worker /\ work[w] # IdleWorker
      BY <1>0, <2>1, <2>3 DEF GateTypeOK, Awaits, IdleWorker
    <3>2. work[w].attempt \in Attempts /\ work[w].host \in Hosts
      BY <1>0, <2>1, <3>1 DEF Busy
    <3>3. /\ s \in Worker /\ s.attempt = work[w].attempt
          /\ s.host = work[w].host
      BY <3>1 DEF Worker
    <3>4. work' = [work EXCEPT ![w] = s]
      BY <1>0, <2>1, <2>3 DEF GateTypeOK
    <3>5. work' \in [Workers -> Worker] /\ Busy'
      BY <1>0, <2>1, <3>2, <3>3, <3>4, TurnTyped
    <3>6. Message(w, "release", 0) \in Request
      BY <1>0, <2>1, <3>1, MessageTyped
    <3> QED
      BY <1>0, <1>3, <2>3, <3>5, <3>6, WorkerKeeps
         DEF RecordRefused, GateTypeOK
  <2> QED
    BY <1>3, <2>2, <2>3 DEF RecordRefused
<1>4. ASSUME NEW m \in net, Lost(m)
      PROVE  IInv'
  BY <1>0, <1>4, WorkerKeeps DEF Lost, GateTypeOK, Busy
<1>5. ASSUME NEW w \in Workers, NEW h \in Hosts, Ask(w, h)
      PROVE  IInv'
  <2>1. PICK a \in Attempts :
          /\ work' = [work EXCEPT ![w] =
               [IdleWorker EXCEPT !.phase = "asking", !.attempt = a, !.host = h]]
          /\ net' = net \cup {[op |-> "acquire", worker |-> w, attempt |-> a,
                               host |-> h, gen |-> 0, retry |-> 0]}
    BY <1>5 DEF Ask, Send
  <2> DEFINE s == [IdleWorker EXCEPT !.phase = "asking", !.attempt = a, !.host = h]
  <2>2. s \in Worker /\ s.attempt = a /\ s.host = h
    BY DEF IdleWorker, Worker
  <2>3. work' \in [Workers -> Worker] /\ Busy'
    BY <1>0, <2>1, <2>2, TurnTyped
  <2>4. net' \subseteq Request
    BY <1>0, <2>1 DEF GateTypeOK, Request
  <2> QED
    BY <1>5, <2>3, <2>4, WorkerKeeps DEF Ask
<1>6. ASSUME NEW w \in Workers,
             \/ AskAgain(w) \/ Dispatch(w) \/ Finish(w)
             \/ \E retry \in RetryAfters : Headers(w, retry)
      PROVE  IInv'
  <2>1. work[w] \in Worker /\ work[w] # IdleWorker /\ gateTime \in Nat
    BY <1>0, <1>6 DEF GateTypeOK, AskAgain, Dispatch, Finish, Headers, IdleWorker
  <2>2. work[w].attempt \in Attempts /\ work[w].host \in Hosts
    BY <1>0, <2>1 DEF Busy
  <2>3. PICK phase \in {"asking", "sending", "releasing", "recording"},
             by \in Nat :
          work' = [work EXCEPT ![w] =
                     [work[w] EXCEPT !.phase = phase, !.by = by]]
    <3>1. work[w].by \in Nat /\ gateTime + RequestTimeout \in Nat /\ 0 \in Nat
      BY <2>1, PolicyTypes DEF Worker
    <3>2. \A phase \in {"asking", "recording"} :
            [work[w] EXCEPT !.phase = phase]
              = [work[w] EXCEPT !.phase = phase, !.by = work[w].by]
      BY <2>1 DEF Worker
    <3>3. CASE AskAgain(w) \/ \E retry \in RetryAfters : Headers(w, retry)
      BY <1>0, <3>1, <3>2, <3>3 DEF AskAgain, Headers, GateTypeOK
    <3>4. CASE Dispatch(w)
      BY <1>0, <3>1, <3>4 DEF Dispatch, GateTypeOK
    <3>5. CASE Finish(w)
      BY <1>0, <3>1, <3>5 DEF Finish, GateTypeOK
    <3> QED
      BY <1>6, <3>3, <3>4, <3>5
  <2> DEFINE s == [work[w] EXCEPT !.phase = phase, !.by = by]
  <2>4. /\ s \in Worker /\ s.attempt = work[w].attempt
        /\ s.host = work[w].host
    BY <2>1 DEF Worker
  <2>5. work' \in [Workers -> Worker] /\ Busy'
    BY <1>0, <2>2, <2>3, <2>4, TurnTyped
  <2>6. net' \subseteq Request
    <3>1. \A op \in {"acquire", "record", "release"},
             retry \in {0} \cup RetryAfters :
               Message(w, op, retry) \in Request
      BY <1>0, <2>1, MessageTyped
    <3>2. net \subseteq Request
      BY <1>0 DEF GateTypeOK
    <3>3. CASE AskAgain(w)
      BY <3>1, <3>2, <3>3 DEF AskAgain, Send
    <3>4. CASE \E retry \in RetryAfters : Headers(w, retry)
      BY <3>1, <3>2, <3>4 DEF Headers, Send
    <3>5. CASE Finish(w)
      BY <3>1, <3>2, <3>5 DEF Finish, Send
    <3>6. CASE Dispatch(w)
      BY <3>2, <3>6 DEF Dispatch
    <3> QED
      BY <1>6, <3>3, <3>4, <3>5, <3>6
  <2>7. UNCHANGED <<store, gateTime, rest>>
    BY <1>6 DEF AskAgain, Dispatch, Finish, Headers
  <2> QED
    BY <2>5, <2>6, <2>7, WorkerKeeps
<1>7. ASSUME NEW w \in Workers, Abandon(w)
      PROVE  IInv'
  <2>1. work' \in [Workers -> Worker] /\ Busy'
    BY <1>0, <1>7, IdleTyped DEF Abandon, GateTypeOK, Busy
  <2> QED
    BY <1>0, <1>7, <2>1, WorkerKeeps DEF Abandon, GateTypeOK
<1>8. CASE GateTick
  <2>1. UNCHANGED <<store, work, net, rest>> /\ gateTime' = gateTime + 1
    BY <1>8 DEF GateTick
  <2>2. gateTime \in Nat /\ rest \in [Hosts -> Nat]
    BY <1>0 DEF GateTypeOK
  <2>3. RestCovered(hosts)'
    BY <1>0, <2>1, <2>2
       DEF Fits, Sound, RestCovered, store, PruneAt, Eligible, Larger
  <2>4. Fits'
    BY <1>0, <2>1, <2>3 DEF Fits, Sound, RecordsSound, ExpiriesExact,
       PrunesMatch, PrunesCover, Held, Index, store
  <2> QED
    BY <1>0, <2>1, <2>2, <2>4 DEF IInv, GateTypeOK, Busy, store
<1>9. CASE UNCHANGED gateVars
  BY <1>0, <1>9, WorkerKeeps DEF gateVars, GateTypeOK, Busy
<1> QED
  BY <1>1, <1>2, <1>3, <1>4, <1>5, <1>6, <1>7, <1>8, <1>9, GrantKeeps,
     RecordKeeps, ReleaseKeeps DEF GateNext, Serve

LEMMA Invariant == GateSpec => []IInv
  BY InitHolds, StepKeeps, PTL DEF GateSpec

-----------------------------------------------------------------------------
(* Who may still have a request out, and why he holds the lease for it: an *)
(* attempt is one worker's, its messages are his and for his host, and a   *)
(* release is on its way only once he has finished.                        *)
Outstanding(w) == \/ work[w].phase = "granted" /\ gateTime <= work[w].by
                  \/ InFlight(w)
HoldsLease(w) ==
  LET r == hosts[work[w].host]
      sent == r.last + Slack
  IN  /\ r.active /\ r.gen = work[w].gen /\ r.attempt = work[w].attempt
      /\ work[w].by <= IF work[w].phase = "granted" THEN sent ELSE sent + RequestTimeout
AttemptsApart ==
  \A v, w \in Workers :
    work[v] # IdleWorker /\ work[v].attempt = work[w].attempt => v = w
Addressed ==
  \A m \in net, w \in Workers : work[w].attempt = m.attempt =>
    /\ m.worker = w /\ m.host = work[w].host
    /\ m.op = "release" => work[w].phase = "releasing"
Covered == \A w \in Workers : Outstanding(w) => HoldsLease(w)
RInv == IInv /\ AttemptsApart /\ Addressed /\ Covered

LEMMA OutstandingBusy ==
  ASSUME IInv, NEW w \in Workers, Outstanding(w)
  PROVE  /\ work[w] \in Worker /\ work[w] # IdleWorker
         /\ work[w].attempt \in Attempts /\ work[w].host \in Hosts
         /\ hosts[work[w].host] \in Record /\ gateTime \in Nat
<1>1. work[w] \in Worker /\ work[w] # IdleWorker
  BY DEF IInv, GateTypeOK, Outstanding, InFlight, IdleWorker
<1>2. work[w].attempt \in Attempts /\ work[w].host \in Hosts
  BY <1>1 DEF IInv, Busy
<1> QED
  BY <1>1, <1>2 DEF IInv, GateTypeOK

(* The lease outlasts the request it was granted for.                      *)
LEMMA LeaseOutlasts ==
  ASSUME RInv, NEW w \in Workers, Outstanding(w)
  PROVE  /\ hosts[work[w].host].active
         /\ hosts[work[w].host].until > gateTime
<1> DEFINE r == hosts[work[w].host]
<1>1. /\ work[w] \in Worker /\ work[w].host \in Hosts
      /\ r \in Record /\ gateTime \in Nat
  BY OutstandingBusy DEF RInv
<1>2. HoldsLease(w)
  BY DEF RInv, Covered
<1>3. r.active => r.until >= r.last + RequestTimeout + ControlGrace
  BY <1>1 DEF RInv, IInv, Fits, Sound, RecordsSound
<1>4. work[w].by \in Nat /\ r.until \in Nat /\ r.last \in Nat
  BY <1>1 DEF Worker, Record
<1>5. \/ work[w].phase = "granted" /\ gateTime <= work[w].by
      \/ work[w].phase # "granted" /\ gateTime < work[w].by
  BY DEF Outstanding, InFlight
<1>6. r.active /\ work[w].by <= IF work[w].phase = "granted" THEN r.last + Slack
                                ELSE r.last + Slack + RequestTimeout
  BY <1>2 DEF HoldsLease
<1> HIDE DEF r
<1>7. r.active /\ r.until > gateTime
  BY <1>1, <1>3, <1>4, <1>5, <1>6, PolicyTypes
<1> QED
  BY <1>7 DEF r

(* Whatever is served, the record of such a host keeps its lease.          *)
SameLease(h) ==
  /\ hosts'[h].active = hosts[h].active /\ hosts'[h].gen = hosts[h].gen
  /\ hosts'[h].attempt = hosts[h].attempt /\ hosts'[h].last = hosts[h].last

LEMMA ServeKeepsLease ==
  ASSUME RInv, NEW m \in net, Serve(m), NEW w \in Workers, Outstanding(w)
  PROVE  SameLease(work[w].host)
<1> DEFINE h == work[w].host
<1>1. /\ h \in Hosts /\ hosts[h] \in Record /\ gateTime \in Nat
      /\ work[w].attempt \in Attempts
  BY OutstandingBusy DEF RInv
<1>2. hosts[h].active /\ hosts[h].until > gateTime /\ hosts[h].until \in Nat
  BY <1>1, LeaseOutlasts DEF Record
<1>3. GateTypeOK /\ Fits
  BY DEF RInv, IInv
<1>4. Swept[h] = hosts[h]
  BY <1>1, <1>2, <1>3, SweepKeeps
<1>5. CASE AcquireFails(m) \/ RecordRefused(m)
  BY <1>5 DEF AcquireFails, RecordRefused, store, SameLease
<1>6. CASE GrantAgain(m) \/ Deny(m)
  BY <1>4, <1>6 DEF GrantAgain, Deny, SweepWith, SameLease
<1>7. CASE Grant(m)
  <2>1. Swept \in [Hosts -> Record] /\ m.host \in Hosts
    BY <1>3, SweepTyped DEF Typed, GateTypeOK, Request
  <2>2. ~Swept[m.host].active
    BY <1>3, <1>7, <2>1, FreeRecord DEF Grant
  <2>3. hosts'[h] = Swept[h]
    BY <1>1, <1>2, <1>4, <1>7, <2>1, <2>2 DEF Grant
  <2> QED
    BY <1>4, <2>3 DEF SameLease
<1>8. CASE RecordResponse(m)
  BY <1>1, <1>3, <1>8 DEF RecordResponse, SameLease, GateTypeOK, Record
<1>9. CASE Release(m)
  <2>1. m.host \in Hosts
    BY <1>3 DEF GateTypeOK, Request
  <2>2. m.host = h => ~StillHeld(m)
    <3> SUFFICES ASSUME m.host = h, StillHeld(m)
                 PROVE  FALSE
      OBVIOUS
    <3>1. work[w].attempt = m.attempt
      BY DEF StillHeld, Matches, RInv, Covered, HoldsLease
    <3>2. work[w].phase = "releasing"
      BY <1>9, <3>1 DEF Release, RInv, Addressed
    <3> QED
      BY <3>2 DEF Outstanding, InFlight
  <2>3. hosts'[h] = hosts[h]
    BY <1>1, <1>3, <1>9, <2>1, <2>2 DEF Release, GateTypeOK
  <2> QED
    BY <2>3 DEF SameLease
<1> QED
  BY <1>5, <1>6, <1>7, <1>8, <1>9 DEF Serve

LEMMA StillOnLease ==
  ASSUME RInv, NEW w \in Workers, Outstanding(w)', work'[w] = work[w],
         gateTime' \in Nat, gateTime <= gateTime',
         Outstanding(w) => SameLease(work[w].host)
  PROVE  HoldsLease(w)'
<1>1. work[w] \in Worker /\ gateTime \in Nat
  BY DEF RInv, IInv, GateTypeOK
<1>2. work[w].by \in Nat
  BY <1>1 DEF Worker
<1>3. Outstanding(w)
  BY <1>1, <1>2 DEF Outstanding, InFlight
<1>4. HoldsLease(w) /\ SameLease(work[w].host)
  BY <1>3 DEF RInv, Covered
<1> QED
  BY <1>4 DEF HoldsLease, SameLease

(* A worker's turn, which leaves it its attempt or ends it, and what it    *)
(* may send.                                                               *)
Sent(m, w, after) ==
  /\ m.worker = w /\ m.attempt = after.attempt /\ m.host = after.host
  /\ m.op = "release" => after.phase = "releasing"
Turn(w, after) ==
  /\ work' = [work EXCEPT ![w] = after]
  /\ after # IdleWorker =>
       /\ work[w] # IdleWorker
       /\ after.attempt = work[w].attempt /\ after.host = work[w].host
       /\ work[w].phase = "releasing" => after.phase = "releasing"
  /\ \A m \in net' : m \in net \/ (after # IdleWorker /\ Sent(m, w, after))

LEMMA IdleOrBusy ==
  ASSUME IInv, NEW w \in Workers
  PROVE  work[w].attempt \in Attempts <=> work[w] # IdleWorker
BY GateNamesAssumption DEF IInv, Busy, IdleWorker

LEMMA TurnApart ==
  ASSUME RInv, NEW w \in Workers, NEW after \in Worker, Turn(w, after),
         net' \subseteq Request
  PROVE  AttemptsApart' /\ Addressed'
<1>1. work'[w] = after /\ \A v \in Workers \ {w} : work'[v] = work[v]
  BY DEF Turn, RInv, IInv, GateTypeOK
<1>2. \A v \in Workers : /\ work[v].attempt \in Attempts <=> work[v] # IdleWorker
                         /\ work'[v] # IdleWorker =>
                              work[v] # IdleWorker /\ work'[v].attempt = work[v].attempt
  BY <1>1, IdleOrBusy DEF RInv, Turn
<1>3. IdleWorker.attempt = NoAttempt
  BY DEF IdleWorker
<1>4. AttemptsApart'
  <2> SUFFICES ASSUME NEW u \in Workers, NEW v \in Workers, work'[u] # IdleWorker,
                      work'[u].attempt = work'[v].attempt
               PROVE  u = v
    BY DEF AttemptsApart
  <2>1. work[u] # IdleWorker /\ work'[u].attempt = work[u].attempt
        /\ work[u].attempt \in Attempts
    BY <1>2
  <2>2. work'[v] # IdleWorker
    BY <1>3, <2>1, GateNamesAssumption
  <2>3. work'[v].attempt = work[v].attempt
    BY <1>2, <2>2
  <2> QED
    BY <2>1, <2>3 DEF RInv, AttemptsApart
<1>5. Addressed'
  <2> SUFFICES ASSUME NEW m \in net', NEW v \in Workers, work'[v].attempt = m.attempt
               PROVE  /\ m.worker = v /\ m.host = work'[v].host
                      /\ m.op = "release" => work'[v].phase = "releasing"
    BY DEF Addressed
  <2>1. m.attempt \in Attempts
    BY DEF Request
  <2>2. work'[v] # IdleWorker
    BY <1>3, <2>1, GateNamesAssumption
  <2>3. work[v] # IdleWorker /\ work[v].attempt = m.attempt
    BY <1>2, <2>2
  <2>4. CASE m \in net
    <3>1. /\ m.worker = v /\ m.host = work[v].host
          /\ m.op = "release" => work[v].phase = "releasing"
      BY <2>3, <2>4 DEF RInv, Addressed
    <3>2. CASE v = w
      BY <1>1, <2>2, <3>1, <3>2 DEF Turn
    <3>3. CASE v # w
      BY <1>1, <3>1, <3>3
    <3> QED
      BY <3>2, <3>3
  <2>5. CASE m \notin net
    <3>1. after # IdleWorker /\ Sent(m, w, after)
      BY <2>5 DEF Turn
    <3>2. work[w] # IdleWorker /\ work[w].attempt = m.attempt
      BY <3>1 DEF Turn, Sent
    <3>3. v = w
      BY <2>3, <3>2 DEF RInv, AttemptsApart
    <3> QED
      BY <1>1, <3>1, <3>3 DEF Sent
  <2> QED
    BY <2>4, <2>5
<1> QED
  BY <1>4, <1>5

(* So a turn keeps the invariant if it leaves the leases of the others     *)
(* alone and its own worker, if it may have a request out, on its lease.   *)
LEMMA TurnKeeps ==
  ASSUME RInv, IInv', NEW w \in Workers, NEW after \in Worker, Turn(w, after),
         gateTime' = gateTime,
         \A v \in Workers : Outstanding(v) => SameLease(work[v].host),
         work'[w] # work[w] /\ Outstanding(w)' => HoldsLease(w)'
  PROVE  RInv'
<1>1. AttemptsApart' /\ Addressed'
  BY TurnApart DEF IInv, GateTypeOK
<1>2. ASSUME NEW v \in Workers, Outstanding(v)'
      PROVE  HoldsLease(v)'
  <2>1. gateTime' \in Nat
    BY DEF IInv, GateTypeOK
  <2>2. v # w => work'[v] = work[v]
    BY DEF Turn, RInv, IInv, GateTypeOK
  <2>3. CASE work'[v] = work[v]
    BY <1>2, <2>1, <2>3, StillOnLease
  <2> QED
    BY <1>2, <2>2, <2>3
<1> QED
  BY <1>1, <1>2 DEF RInv, Covered

LEMMA AnswerTurn ==
  ASSUME RInv, NEW m \in net, NEW after, Answer(m, after),
         \/ after = IdleWorker
         \/ /\ after \in Worker
            /\ after.attempt = work[m.worker].attempt
            /\ after.host = work[m.worker].host
            /\ m.op # "release"
  PROVE  /\ m.worker \in Workers
         /\ \E st \in {after, work[m.worker]} \cap Worker :
              Turn(m.worker, st) /\ (st = work[m.worker] \/ (Awaits(m) /\ st = after))
<1> DEFINE w == m.worker
<1>1. w \in Workers /\ m.op \in {"acquire", "record", "release"}
  BY DEF RInv, IInv, GateTypeOK, Request
<1>2. net' \subseteq net /\ IdleWorker \in Worker /\ work[w] \in Worker
  BY <1>1, IdleTyped DEF Answer, RInv, IInv, GateTypeOK
<1>3. CASE work' = work
  <2>1. work' = [work EXCEPT ![w] = work[w]]
    BY <1>1, <1>3 DEF RInv, IInv, GateTypeOK
  <2>2. Turn(w, work[w])
    BY <1>2, <2>1 DEF Turn
  <2> QED
    BY <1>1, <1>2, <2>2
<1>4. CASE Awaits(m) /\ work' = [work EXCEPT ![m.worker] = after]
  <2>1. after \in Worker
    BY <1>2
  <2>2. work[w] # IdleWorker
    BY <1>1, <1>4 DEF Awaits, IdleWorker
  <2>3. m.op # "release" => work[w].phase # "releasing"
    BY <1>1, <1>4 DEF Awaits
  <2>4. Turn(w, after)
    BY <1>2, <1>4, <2>2, <2>3 DEF Turn
  <2> QED
    BY <1>1, <1>4, <2>1, <2>4
<1> QED
  BY <1>3, <1>4 DEF Answer

LEMMA ServeKeeps ==
  ASSUME RInv, IInv', NEW m \in net, Serve(m)
  PROVE  RInv'
<1> DEFINE w == m.worker
<1>1. /\ w \in Workers /\ m.host \in Hosts /\ m.attempt \in Attempts
      /\ work[w] \in Worker /\ gateTime \in Nat
      /\ m.op \in {"acquire", "record", "release"}
  BY DEF RInv, IInv, GateTypeOK, Request
<1>2. \A v \in Workers : Outstanding(v) => SameLease(work[v].host)
  BY ServeKeepsLease
<1>3. gateTime' = gateTime
  BY DEF Serve, AcquireFails, GrantAgain, Deny, Grant, RecordRefused,
         RecordResponse, Release
<1>4. Awaits(m) => work[w].attempt = m.attempt /\ work[w].host = m.host
  BY <1>1 DEF Awaits, RInv, Addressed
<1>5. \A after \in Worker : Turn(w, after) => work'[w] = after
  BY <1>1 DEF Turn, RInv, IInv, GateTypeOK
<1>6. CASE AcquireFails(m) \/ Release(m)
  <2>1. Answer(m, IdleWorker)
    BY <1>6 DEF AcquireFails, Release
  <2>2. PICK st \in Worker : Turn(w, st) /\ st \in {work[w], IdleWorker}
    BY <2>1, AnswerTurn
  <2>3. work'[w] # work[w] => ~Outstanding(w)'
    BY <1>5, <2>2 DEF Outstanding, InFlight, IdleWorker
  <2> QED
    BY <1>1, <1>2, <1>3, <2>2, <2>3, TurnKeeps
<1>7. CASE Deny(m)
  <2> DEFINE s == [work[w] EXCEPT !.phase = "denied"]
  <2>1. /\ s \in Worker /\ s.attempt = work[w].attempt /\ s.host = work[w].host
        /\ s.phase = "denied"
    BY <1>1 DEF Worker
  <2>2. Answer(m, s) /\ m.op = "acquire"
    BY <1>7 DEF Deny
  <2> HIDE DEF s
  <2>3. PICK st \in Worker : Turn(w, st) /\ st \in {work[w], s}
    BY <2>1, <2>2, AnswerTurn
  <2>4. work'[w] # work[w] => ~Outstanding(w)'
    BY <1>5, <2>1, <2>3 DEF Outstanding, InFlight
  <2> QED
    BY <1>1, <1>2, <1>3, <2>3, <2>4, TurnKeeps
<1>8. CASE GrantAgain(m) \/ Grant(m)
  <2>1. PICK r \in Record :
          /\ Answer(m, Leased(m, r)) /\ hosts'[m.host] = r
          /\ r.active /\ r.attempt = m.attempt
    <3>1. Swept \in [Hosts -> Record]
      BY SweepTyped DEF RInv, IInv, Typed
    <3>2. CASE GrantAgain(m)
      BY <1>1, <3>1, <3>2 DEF GrantAgain, SweepWith, Mine
    <3>3. CASE Grant(m)
      <4> DEFINE s == [gen |-> generation + 1, attempt |-> m.attempt, active |-> TRUE,
                       until |-> gateTime + RequestTimeout + MaxRetryAfter + ControlGrace,
                       last |-> gateTime, cooldown |-> 0, prune |-> 0]
      <4>1. hosts' = [Swept EXCEPT ![m.host] = s] /\ Answer(m, Leased(m, s))
        BY <3>3 DEF Grant
      <4>2. s.active /\ s.attempt = m.attempt
        OBVIOUS
      <4> HIDE DEF s
      <4>3. hosts'[m.host] = s
        BY <1>1, <3>1, <4>1
      <4>4. s \in Record
        BY <1>1, <4>3 DEF IInv, GateTypeOK
      <4> QED
        BY <4>1, <4>2, <4>3, <4>4
    <3> QED
      BY <1>8, <3>2, <3>3
  <2> DEFINE s == Leased(m, r)
  <2>2. /\ s \in Worker /\ s.attempt = work[w].attempt /\ s.host = work[w].host
    BY <1>1, LeasedTyped
  <2>3. s.phase = "granted" /\ s.gen = r.gen /\ s.by = r.last + Slack
    BY <1>1 DEF Leased, Worker
  <2>4. m.op = "acquire"
    BY <1>8 DEF GrantAgain, Grant
  <2> HIDE DEF s
  <2>5. PICK st \in Worker : /\ Turn(w, st)
                             /\ st = work[w] \/ (Awaits(m) /\ st = s)
    BY <2>1, <2>2, <2>4, AnswerTurn DEF s
  <2>6. work'[w] # work[w] => HoldsLease(w)'
    <3> SUFFICES ASSUME work'[w] # work[w]
                 PROVE  HoldsLease(w)'
      OBVIOUS
    <3>1. Awaits(m) /\ work'[w] = s
      BY <1>5, <2>5
    <3>2. hosts'[work'[w].host] = r /\ r.attempt = work'[w].attempt
      BY <1>4, <2>1, <2>2, <3>1
    <3>3. r.last + Slack <= r.last + Slack
      BY PolicyTypes DEF Record
    <3> QED
      BY <2>1, <2>3, <3>1, <3>2, <3>3 DEF HoldsLease
  <2> QED
    BY <1>1, <1>2, <1>3, <2>5, <2>6, TurnKeeps
<1>9. CASE RecordResponse(m)
  <2> DEFINE s == [work[w] EXCEPT !.phase = "reading"]
  <2>1. /\ s \in Worker /\ s.attempt = work[w].attempt /\ s.host = work[w].host
        /\ s.phase = "reading" /\ s.gen = work[w].gen /\ s.by = work[w].by
    BY <1>1 DEF Worker
  <2>2. Answer(m, s) /\ m.op = "record"
    BY <1>9 DEF RecordResponse
  <2> HIDE DEF s
  <2>3. PICK st \in Worker : /\ Turn(w, st)
                             /\ st = work[w] \/ (Awaits(m) /\ st = s)
    BY <2>1, <2>2, AnswerTurn
  <2>4. work'[w] # work[w] /\ Outstanding(w)' => HoldsLease(w)'
    <3> SUFFICES ASSUME work'[w] # work[w], Outstanding(w)'
                 PROVE  HoldsLease(w)'
      OBVIOUS
    <3>1. work'[w] = s /\ work[w].phase = "recording"
      BY <1>5, <2>2, <2>3 DEF Awaits
    <3>2. Outstanding(w)
      BY <1>3, <2>1, <3>1 DEF Outstanding, InFlight
    <3>3. HoldsLease(w) /\ SameLease(work[w].host)
      BY <1>1, <1>2, <3>2 DEF RInv, Covered
    <3> QED
      BY <2>1, <3>1, <3>3 DEF HoldsLease, SameLease
  <2> QED
    BY <1>1, <1>2, <1>3, <2>3, <2>4, TurnKeeps
<1>10. CASE RecordRefused(m)
  <2>1. CASE work' = work /\ net' = net \ {m}
    <3>1. Turn(w, work[w])
      BY <1>1, <2>1 DEF Turn, RInv, IInv, GateTypeOK
    <3>2. work'[w] = work[w]
      BY <2>1
    <3> QED
      BY <1>1, <1>2, <1>3, <3>1, <3>2, TurnKeeps
  <2>2. CASE /\ Awaits(m)
             /\ work' = [work EXCEPT ![w].phase = "releasing", ![w].by = 0]
             /\ net' = (net \ {m}) \cup {Message(w, "release", 0)}
    <3> DEFINE s == [work[w] EXCEPT !.phase = "releasing", !.by = 0]
    <3>1. /\ s \in Worker /\ s.attempt = work[w].attempt /\ s.host = work[w].host
          /\ s.phase = "releasing"
      BY <1>1 DEF Worker
    <3>2. work' = [work EXCEPT ![w] = s]
      BY <1>1, <2>2 DEF RInv, IInv, GateTypeOK
    <3>3. work[w] # IdleWorker
      BY <1>1, <2>2 DEF Awaits, IdleWorker
    <3> HIDE DEF s
    <3>4. Turn(w, s)
      <4>1. s # IdleWorker
        BY <3>1 DEF IdleWorker
      <4>2. Sent(Message(w, "release", 0), w, s)
        BY <3>1 DEF Sent, Message
      <4> QED
        BY <2>2, <3>1, <3>2, <3>3, <4>1, <4>2 DEF Turn
    <3>5. ~Outstanding(w)'
      BY <1>5, <3>1, <3>4 DEF Outstanding, InFlight
    <3> QED
      BY <1>1, <1>2, <1>3, <3>1, <3>4, <3>5, TurnKeeps
  <2> QED
    BY <1>10, <2>1, <2>2 DEF RecordRefused
<1> QED
  BY <1>6, <1>7, <1>8, <1>9, <1>10 DEF Serve

LEMMA RequestStepKeeps ==
  ASSUME RInv, IInv', GateNext, ~\E m \in net : Serve(m)
  PROVE  RInv'
<1>0. /\ work \in [Workers -> Worker] /\ net \subseteq Request /\ gateTime \in Nat
      /\ net' \subseteq Request /\ gateTime' \in Nat
  BY DEF RInv, IInv, GateTypeOK
<1>1. hosts' = hosts /\ \A h \in Hosts : SameLease(h)
  BY DEF GateNext, Lost, Ask, AskAgain, Dispatch, Headers, Finish, Abandon,
         GateTick, store, SameLease
<1>2. \A v \in Workers : Outstanding(v) => SameLease(work[v].host)
  BY <1>1 DEF SameLease
<1>3. CASE (\E m \in net : Lost(m)) \/ GateTick
  <2>1. work' = work /\ net' \subseteq net /\ gateTime <= gateTime'
    BY <1>0, <1>3 DEF Lost, GateTick
  <2>2. AttemptsApart' /\ Addressed'
    BY <2>1 DEF RInv, AttemptsApart, Addressed
  <2>3. Covered'
    BY <1>0, <1>2, <2>1, StillOnLease DEF Covered
  <2> QED
    BY <2>2, <2>3 DEF RInv
<1>4. ASSUME NEW w \in Workers, NEW h \in Hosts, Ask(w, h)
      PROVE  RInv'
  <2>1. PICK a \in Attempts \ Mentioned :
          /\ work' = [work EXCEPT ![w] =
               [IdleWorker EXCEPT !.phase = "asking", !.attempt = a, !.host = h]]
          /\ net' = net \cup {[op |-> "acquire", worker |-> w, attempt |-> a,
                               host |-> h, gen |-> 0, retry |-> 0]}
    BY <1>4 DEF Ask, Send
  <2>2. /\ work'[w].attempt = a /\ work'[w].host = h /\ work'[w].phase = "asking"
        /\ \A v \in Workers \ {w} : work'[v] = work[v]
    BY <1>0, <2>1 DEF IdleWorker
  <2>3. /\ \A v \in Workers : work[v].attempt # a
        /\ \A m \in net : m.attempt # a
    BY DEF Mentioned
  <2>4. work[w] = IdleWorker /\ gateTime' = gateTime
    BY <1>4 DEF Ask
  <2>5. AttemptsApart'
    <3> SUFFICES ASSUME NEW u \in Workers, NEW v \in Workers, work'[u] # IdleWorker,
                        work'[u].attempt = work'[v].attempt
                 PROVE  u = v
      BY DEF AttemptsApart
    <3> QED
      BY <2>2, <2>3 DEF RInv, AttemptsApart
  <2>6. Addressed'
    <3> SUFFICES ASSUME NEW m \in net', NEW v \in Workers,
                        work'[v].attempt = m.attempt
                 PROVE  /\ m.worker = v /\ m.host = work'[v].host
                        /\ m.op = "release" => work'[v].phase = "releasing"
      BY DEF Addressed
    <3>1. CASE m \in net
      BY <2>2, <2>3, <3>1 DEF RInv, Addressed
    <3>2. CASE m \notin net
      <4>1. m = [op |-> "acquire", worker |-> w, attempt |-> a,
                 host |-> h, gen |-> 0, retry |-> 0]
        BY <2>1, <3>2
      <4> QED
        BY <2>2, <2>3, <4>1
    <3> QED
      BY <3>1, <3>2
  <2>7. Covered'
    <3> SUFFICES ASSUME NEW v \in Workers, Outstanding(v)'
                 PROVE  HoldsLease(v)'
      BY DEF Covered
    <3>1. v # w
      BY <2>2 DEF Outstanding, InFlight
    <3> QED
      BY <1>0, <1>2, <2>2, <2>4, <3>1, StillOnLease
  <2> QED
    BY <2>5, <2>6, <2>7 DEF RInv
<1>5. ASSUME NEW w \in Workers, Abandon(w)
      PROVE  RInv'
  <2>1. IdleWorker \in Worker /\ Turn(w, IdleWorker) /\ gateTime' = gateTime
    BY <1>5, IdleTyped DEF Abandon, Turn
  <2>2. ~Outstanding(w)'
    BY <1>0, <1>5 DEF Abandon, Outstanding, InFlight, IdleWorker
  <2> QED
    BY <1>2, <2>1, <2>2, TurnKeeps
<1>6. ASSUME NEW w \in Workers,
             \/ AskAgain(w) \/ Dispatch(w) \/ Finish(w)
             \/ \E retry \in RetryAfters : Headers(w, retry)
      PROVE  RInv'
  <2>1. work[w] # IdleWorker /\ work[w] \in Worker /\ gateTime' = gateTime
    BY <1>0, <1>6 DEF AskAgain, Dispatch, Finish, Headers, IdleWorker
  <2> DEFINE s == work'[w]
  <2>2. /\ s \in Worker /\ work' = [work EXCEPT ![w] = s]
        /\ s.attempt = work[w].attempt /\ s.host = work[w].host /\ s.gen = work[w].gen
        /\ s # IdleWorker
    <3>1. s \in Worker
      BY DEF IInv, GateTypeOK
    <3> QED
      BY <1>0, <1>6, <2>1, <3>1
         DEF AskAgain, Dispatch, Finish, Headers, Worker, IdleWorker
  <2>3. /\ s.phase # "releasing" => work[w].phase # "releasing"
        /\ \A m \in net' : m \in net \/ Sent(m, w, s)
    <3>1. CASE AskAgain(w)
      BY <1>0, <2>2, <3>1 DEF AskAgain, Send, Sent, Message
    <3>2. CASE Dispatch(w)
      BY <1>0, <3>2 DEF Dispatch
    <3>3. CASE Finish(w)
      BY <1>0, <2>2, <3>3 DEF Finish, Send, Sent, Message
    <3>4. CASE \E retry \in RetryAfters : Headers(w, retry)
      BY <1>0, <2>2, <3>4 DEF Headers, Send, Sent, Message
    <3> QED
      BY <1>6, <3>1, <3>2, <3>3, <3>4
  <2>4. Outstanding(w)' => HoldsLease(w)'
    <3> SUFFICES ASSUME Outstanding(w)'
                 PROVE  HoldsLease(w)'
      OBVIOUS
    <3>1. ~AskAgain(w) /\ ~Finish(w)
      <4>1. s.phase \in {"granted", "sending", "recording", "reading"}
        BY DEF Outstanding, InFlight
      <4>2. AskAgain(w) => s.phase = "asking"
        BY <1>0 DEF AskAgain
      <4>3. Finish(w) => s.phase = "releasing"
        BY <1>0 DEF Finish
      <4> QED
        BY <4>1, <4>2, <4>3
    <3>2. CASE Dispatch(w)
      <4>1. /\ work[w].phase = "granted" /\ gateTime <= work[w].by
            /\ s.phase = "sending" /\ s.by = gateTime + RequestTimeout
        BY <1>0, <3>2 DEF Dispatch
      <4>2. HoldsLease(w)
        BY <4>1 DEF Outstanding, RInv, Covered
      <4>3. hosts[work[w].host] \in Record /\ work[w].by \in Nat
        BY <2>1, <4>1, OutstandingBusy DEF Outstanding, RInv, Worker
      <4>4. hosts[work[w].host].last \in Nat
        BY <4>3 DEF Record
      <4> HIDE DEF s
      <4> QED
        BY <1>0, <1>1, <2>2, <4>1, <4>2, <4>3, <4>4, PolicyTypes DEF HoldsLease, s
    <3>3. CASE \E retry \in RetryAfters : Headers(w, retry)
      <4>1. /\ work[w].phase = "sending" /\ gateTime < work[w].by
            /\ s.phase = "recording" /\ s.by = work[w].by
        BY <1>0, <3>3 DEF Headers
      <4>2. HoldsLease(w)
        BY <4>1 DEF Outstanding, InFlight, RInv, Covered
      <4> QED
        BY <1>1, <2>2, <4>1, <4>2 DEF HoldsLease
    <3> QED
      BY <1>6, <3>1, <3>2, <3>3
  <2>5. Turn(w, s)
    BY <2>1, <2>2, <2>3 DEF Turn
  <2> HIDE DEF s
  <2> QED
    BY <1>2, <2>1, <2>2, <2>4, <2>5, TurnKeeps
<1> QED
  BY <1>3, <1>4, <1>5, <1>6 DEF GateNext

LEMMA RequestInit == GateInit => RInv
<1> SUFFICES ASSUME GateInit
             PROVE  RInv
  OBVIOUS
<1>1. \A w \in Workers : work[w] = IdleWorker
  BY DEF GateInit
<1>2. AttemptsApart /\ Covered
  BY <1>1 DEF AttemptsApart, Covered, Outstanding, InFlight, IdleWorker
<1>3. Addressed
  BY DEF GateInit, Addressed
<1> QED
  BY <1>2, <1>3, InitHolds DEF RInv

LEMMA RequestInvariant == GateSpec => []RInv
<1>1. RInv /\ [GateNext]_gateVars => RInv'
  <2> SUFFICES ASSUME RInv, [GateNext]_gateVars
               PROVE  RInv'
    OBVIOUS
  <2>1. IInv'
    BY StepKeeps DEF RInv
  <2>2. CASE UNCHANGED gateVars
    <3>1. /\ work' = work /\ net' = net /\ gateTime' = gateTime /\ hosts' = hosts
      BY <2>2 DEF gateVars, store
    <3>2. AttemptsApart' /\ Addressed' /\ Covered'
      BY <3>1 DEF RInv, AttemptsApart, Addressed, Covered, Outstanding, InFlight,
                  HoldsLease
    <3> QED
      BY <2>1, <3>2 DEF RInv
  <2> QED
    BY <2>1, <2>2, ServeKeeps, RequestStepKeeps
<1> QED
  BY <1>1, RequestInit, PTL DEF GateSpec

-----------------------------------------------------------------------------
(* The gate's records, indexes, counters, requests and workers keep their  *)
(* types.                                                                  *)
THEOREM GateTyped == GateSpec => []GateTypeOK
<1>1. IInv => GateTypeOK
  BY DEF IInv
<1> QED
  BY <1>1, Invariant, PTL

(* The active count, the host records and the two schedules agree in every *)
(* reachable state, and no more leases are in force than the policy allows.*)
THEOREM CountsAreExact == GateSpec => []CountExact
<1>1. IInv => CountExact
  <2> SUFFICES ASSUME IInv
               PROVE  CountExact
    OBVIOUS
  <2>1. expiries \subseteq Index /\ \A h \in Hosts : hosts[h] \in Record
    BY DEF IInv, GateTypeOK, Index
  <2>2. /\ ExpiriesExact(hosts, expiries) /\ PrunesCover(hosts, prunes)
        /\ active = Cardinality(Held(hosts)) /\ active <= GlobalConcurrency
    BY DEF IInv, Fits, Sound
  <2>3. \A h \in Held(hosts) : <<hosts[h].until, h, hosts[h].gen>> \in expiries
    <3> SUFFICES ASSUME NEW h \in Held(hosts)
                 PROVE  <<hosts[h].until, h, hosts[h].gen>> \in expiries
      OBVIOUS
    <3>1. <<hosts[h].until, h, hosts[h].gen>> \in Index
      BY <2>1 DEF Held, Record, Index
    <3> QED
      BY <2>2, <3>1 DEF ExpiriesExact, Held
  <2>4. \A x \in expiries : /\ x[2] \in Held(hosts)
                             /\ x = <<hosts[x[2]].until, x[2], hosts[x[2]].gen>>
    BY <2>1, <2>2 DEF ExpiriesExact, Held, Index
  <2> QED
    BY <2>2, <2>3, <2>4 DEF CountExact, PrunesCover, Held
<1> QED
  BY <1>1, Invariant, PTL

(* A host is never granted before its minimum interval, nor before a       *)
(* Retry-After accepted for it, has passed, whatever was deleted since.    *)
THEOREM GrantsArePaced == GateSpec => PacedGrants
<1> DEFINE Paced == \A h \in Hosts :
              hosts'[h].gen # hosts[h].gen /\ hosts'[h].gen # 0
                => gateTime >= rest[h]
<1>1. IInv /\ [GateNext]_gateVars => [Paced]_gateVars
  <2> SUFFICES ASSUME IInv, GateNext, NEW h \in Hosts,
                      hosts'[h].gen # hosts[h].gen, hosts'[h].gen # 0
               PROVE  gateTime >= rest[h]
    OBVIOUS
  <2>1. GateTypeOK /\ Fits
    BY DEF IInv
  <2>2. gateTime \in Nat /\ rest[h] \in Nat /\ hosts[h] \in Record
    BY <2>1 DEF GateTypeOK
  <2>3. ASSUME NEW m \in net, Grant(m)
        PROVE  gateTime >= rest[h]
    <3>1. Swept \in [Hosts -> Record] /\ m.host \in Hosts
      BY <2>1, SweepTyped DEF Typed, GateTypeOK, Request
    <3>2. CASE h = m.host
      BY <2>1, <2>2, <2>3, <3>2, FreeRecord DEF Grant
    <3>3. CASE h # m.host
      BY <2>1, <2>3, <3>1, <3>3, SweepKeeps DEF Grant
    <3> QED
      BY <3>2, <3>3
  <2>4. ASSUME NEW m \in net, GrantAgain(m) \/ Deny(m)
        PROVE  FALSE
    BY <2>1, <2>4, SweepKeeps DEF GrantAgain, Deny, SweepWith
  <2>5. ASSUME NEW m \in net, RecordResponse(m)
        PROVE  FALSE
    BY <2>1, <2>5 DEF RecordResponse, GateTypeOK, Record
  <2>6. ASSUME NEW m \in net, Release(m)
        PROVE  FALSE
    <3>1. m.host \in Hosts
      BY <2>1 DEF GateTypeOK, Request
    <3>2. hosts' = hosts \/ hosts' = [hosts EXCEPT ![m.host] = Ended(@)]
      BY <2>6 DEF Release
    <3>3. Ended(hosts[h]).gen \in {0, hosts[h].gen}
      BY <2>2, EndedType DEF NoRecord
    <3> QED
      BY <2>1, <3>1, <3>2, <3>3 DEF GateTypeOK
  <2>7. hosts' # hosts
    OBVIOUS
  <2> QED
    BY <2>3, <2>4, <2>5, <2>6, <2>7
       DEF GateNext, Serve, AcquireFails, RecordRefused, Lost, Ask, AskAgain,
           Dispatch, Headers, Finish, Abandon, GateTick, store
<1> QED
  BY <1>1, Invariant, PTL DEF GateSpec, PacedGrants

(* No host has two requests out and the run no more than the policy allows, *)
(* although leases lapse, are shortened while bodies are read and are given *)
(* back late: a request is out only while its lease is in force, and each   *)
(* lease is one worker's.                                                   *)
THEOREM RequestsAreBounded == GateSpec => []RequestsBounded
<1>1. RInv => RequestsBounded
  <2> SUFFICES ASSUME RInv
               PROVE  RequestsBounded
    OBVIOUS
  <2> DEFINE out == {w \in Workers : InFlight(w)}
             f == [w \in out |-> work[w].host]
  <2>1. \A w \in out : /\ work[w].host \in Hosts /\ work[w] # IdleWorker
                       /\ hosts[work[w].host].active
                       /\ hosts[work[w].host].attempt = work[w].attempt
    BY OutstandingBusy DEF Outstanding, RInv, Covered, HoldsLease
  <2>2. \A v, w \in out : work[v].host = work[w].host => v = w
    BY <2>1 DEF RInv, AttemptsApart
  <2>3. f \in Injection(out, Held(hosts))
    BY <2>1, <2>2 DEF Injection, IsInjective, Held
  <2>4. Cardinality(out) <= Cardinality(Held(hosts)) /\ IsFiniteSet(out)
    BY <2>3, HeldFinite, FS_Injection
  <2>5. active = Cardinality(Held(hosts)) /\ active <= GlobalConcurrency
    BY DEF RInv, IInv, Fits
  <2>6. Cardinality(out) <= GlobalConcurrency
    BY <2>4, <2>5, HeldFinite, FS_CardinalityType, PolicyTypes
  <2> QED
    BY <2>2, <2>6 DEF RequestsBounded
<1> QED
  BY <1>1, RequestInvariant, PTL

-----------------------------------------------------------------------------
(* The channel.  A version is on disk, in every role, before a command     *)
(* reports it, and one command at a time moves the roles.                  *)


(* What holds of the roles, in memory and on disk.                         *)
Durable == \A r \in Roles : reported <= state[r] /\ reported <= stateDisk[r]

(* What holds of a command, given the roles s and the newest version that  *)
(* has been reported: while it refreshes, the roles before its own are at  *)
(* the head it has read, and what it selects is not older than what had    *)
(* been reported when it began.                                            *)
Refreshed(c, s) ==
  /\ c.at \in {"snapshot", "targets", "refreshed"} => s["timestamp"] # 0
  /\ c.at \in {"targets", "refreshed"} => s["snapshot"] = s["timestamp"]
  /\ c.at = "refreshed" => s["targets"] = s["timestamp"]
Consistent(c, newest) ==
  /\ c \in Command
  /\ c.at # "idle" => c.base \in Revisions
  /\ c.at \in Selected => c.rev \in Revisions /\ c.version \in Generations
  /\ c.floor <= newest
  /\ c.version # 0 => c.version >= c.floor /\ c.rev = channel[c.version]

Shelves ==
  /\ channel \in Feeds /\ offered \in Generations /\ openDay \in 0..LastOpenDay
  /\ bundles \in [Outputs -> Revisions \cup {0}] /\ unsafe \subseteq Outputs
  /\ bound \in Revisions
  /\ candidates \subseteq [base : Revisions, rev : Revisions, holds : Revisions]
  /\ CandidatesProven
Trust ==
  /\ reported \in Generations \cup {0}
  /\ state \in [Roles -> Generations \cup {0}]
  /\ stateDisk \in [Roles -> Generations \cup {0}]
  /\ Durable
Work ==
  /\ command \in [Operators -> Command]
  /\ \A o \in Operators : Consistent(command[o], reported) /\ Refreshed(command[o], state)
  /\ OneSelects
CInv == Shelves /\ Trust /\ Work

LEMMA Feed ==
  ASSUME channel \in Feeds
  PROVE  /\ Generations \subseteq Nat \ {0} /\ 1 \in Generations
         /\ \A g \in Generations : channel[g] \in Revisions \cup {0}
<1>1. channel \in Seq(Revisions \cup {0}) /\ channel # << >>
  BY ChannelAssumption
<1>2. Generations = 1..Len(channel) /\ Len(channel) \in Nat /\ Len(channel) > 0
  BY <1>1 DEF Generations
<1> QED
  BY <1>1, <1>2

LEMMA NewerOf ==
  ASSUME NEW m \in Nat, NEW n \in Nat, m <= n
  PROVE  Max({m, n}) = n
<1>1. \A x : (x \in {m, n} /\ \A y \in {m, n} : x >= y) <=> x = n
  OBVIOUS
<1>2. (CHOOSE x \in {m, n} : \A y \in {m, n} : x >= y) = n
  BY <1>1
<1> QED
  BY <1>2 DEF Max

LEMMA RolesAre == /\ "timestamp" \in Roles /\ "snapshot" \in Roles /\ "targets" \in Roles
                  /\ \A r \in Roles : r \in InSelection
  BY DEF Roles, InSelection

LEMMA IdleIs ==
  ASSUME channel \in Feeds, NEW newest \in Nat, NEW s
  PROVE  /\ Idle.at = "idle" /\ Consistent(Idle, newest) /\ Refreshed(Idle, s)
         /\ Idle.floor = 0 /\ Idle.version = 0 /\ Idle.rev = 0
<1>1. (CHOOSE x \in Outputs : TRUE) \in Outputs
  BY ChannelAssumption
<1>2. Idle \in Command /\ Idle.at = "idle" /\ Idle.floor = 0 /\ Idle.version = 0 /\ Idle.rev = 0
  BY <1>1 DEF Idle, Command, Commands
<1> QED
  BY <1>2 DEF Consistent, Refreshed, Selected

LEMMA CountersAre ==
  ASSUME CInv
  PROVE  /\ Generations \subseteq Nat \ {0} /\ reported \in Nat /\ offered \in Nat
         /\ \A r \in Roles : state[r] \in Nat /\ stateDisk[r] \in Nat
  BY Feed DEF CInv, Shelves, Trust

-----------------------------------------------------------------------------
(* One command moves: it must be consistent where it gets to, and the      *)
(* roles move only in its selection.                                       *)
LEMMA CommandMoves ==
  ASSUME CInv, NEW o \in Operators, NEW c, command' = [command EXCEPT ![o] = c],
         channel' = channel, reported' \in Nat, reported <= reported',
         Consistent(c, reported'), Refreshed(c, state'),
         c.at \in InSelection => command[o].at \in InSelection \/ LockFree,
         state' = state \/ command[o].at \in InSelection
  PROVE  Work'
<1>1. c \in Command
  BY DEF Consistent
<1>2. /\ command' \in [Operators -> Command] /\ command'[o] = c
      /\ \A p \in Operators \ {o} : command'[p] = command[p]
  BY <1>1 DEF CInv, Work
<1>3. ASSUME NEW p \in Operators \ {o}
      PROVE  Consistent(command[p], reported') /\ Refreshed(command[p], state')
  <2>1. Consistent(command[p], reported) /\ Refreshed(command[p], state) /\ reported \in Nat
    BY CountersAre DEF CInv, Work
  <2>2. command[p].floor \in Nat
    BY <2>1, Feed DEF Consistent, Command, CInv, Shelves
  <2>3. Consistent(command[p], reported')
    BY <2>1, <2>2 DEF Consistent
  <2>4. state' = state \/ command[p].at \notin InSelection
    BY DEF CInv, Work, OneSelects
  <2>5. Refreshed(command[p], state')
    BY <2>1, <2>4 DEF Refreshed, InSelection
  <2> QED
    BY <2>3, <2>5
<1>4. OneSelects'
  <2> SUFFICES ASSUME NEW p \in Operators, NEW q \in Operators,
                      command'[p].at \in InSelection, command'[q].at \in InSelection
               PROVE  p = q
    BY DEF OneSelects
  <2> QED
    BY <1>2 DEF CInv, Work, OneSelects, LockFree
<1>5. \A p \in Operators :
         Consistent(command'[p], reported') /\ Refreshed(command'[p], state')
  BY <1>2, <1>3
<1>6. \A p \in Operators : (Consistent(command[p], reported) /\ Refreshed(command[p], state))'
  BY <1>5 DEF Consistent, Refreshed, Command, Generations
<1>7. (command \in [Operators -> Command])'
  BY <1>2 DEF Command, Generations
<1> QED
  BY <1>4, <1>6, <1>7 DEF Work

(* A command that moves by itself, or ends.                                *)
LEMMA GoesOn ==
  ASSUME CInv, NEW o \in Operators, NEW to, Goes(o, to), UNCHANGED channel,
         to \in InSelection \cup Selected, command[o].at # "idle",
         to \in Selected => command[o].at \in Selected,
         to \in InSelection => command[o].at \in InSelection,
         reported' = reported,
         state' = state \/ command[o].at \in InSelection,
         Refreshed([at |-> to], state')
  PROVE  Work'
<1> DEFINE c == [command[o] EXCEPT !.at = to]
<1>1. Consistent(command[o], reported) /\ reported \in Nat
  BY CountersAre DEF CInv, Work
<1>2. command' = [command EXCEPT ![o] = c]
  BY DEF Goes, CInv, Work
<1>3. /\ c \in Command /\ c.at = to /\ c.base = command[o].base /\ c.rev = command[o].rev
      /\ c.version = command[o].version /\ c.floor = command[o].floor
  BY <1>1 DEF Consistent, Command
<1> HIDE DEF c
<1>4. Consistent(c, reported')
  BY <1>1, <1>3 DEF Consistent
<1>5. Refreshed(c, state')
  BY <1>3 DEF Refreshed
<1>6. c.at \in InSelection => command[o].at \in InSelection
  BY <1>3
<1>7. reported <= reported' /\ reported' \in Nat
  BY <1>1
<1> QED
  BY <1>2, <1>4, <1>5, <1>6, <1>7, CommandMoves

LEMMA Ends ==
  ASSUME CInv, NEW o \in Operators, Finished(o), UNCHANGED <<channel, reported>>,
         state' = state \/ command[o].at \in InSelection
  PROVE  Work'
<1>1. reported' \in Nat /\ reported <= reported'
  BY CountersAre
<1>2. Consistent(Idle, reported') /\ Refreshed(Idle, state') /\ Idle.at = "idle"
  BY <1>1, IdleIs DEF CInv, Shelves
<1>3. Idle.at \notin InSelection
  BY <1>2 DEF InSelection
<1> QED
  BY <1>1, <1>2, <1>3, CommandMoves DEF Finished

LEMMA ShelvesStay ==
  ASSUME CInv, Untouched, NoFiles
  PROVE  Shelves'
BY DEF CInv, Shelves, Untouched, NoFiles, Generations, CandidatesProven

LEMMA TrustStays ==
  ASSUME CInv, UNCHANGED channel, NoState
  PROVE  Trust'
BY DEF CInv, Trust, NoState, Generations, Durable

-----------------------------------------------------------------------------
LEMMA OpenKeeps ==
  ASSUME CInv, NEW o \in Operators, NEW does \in Commands, NEW x \in Outputs,
         OpenState(o, does, x)
  PROVE  CInv'
<1> DEFINE c == [Idle EXCEPT !.at = "timestamp", !.does = does, !.to = x, !.base = bound,
                             !.floor = reported]
<1>1. channel \in Feeds /\ reported \in Nat /\ bound \in Revisions
  BY CountersAre DEF CInv, Shelves
<1>2. Consistent(Idle, reported) /\ Idle.version = 0 /\ Idle.rev = 0
  BY <1>1, IdleIs
<1>3. reported \in Generations \cup {0}
  BY DEF CInv, Trust
<1>4. /\ c \in Command /\ c.at = "timestamp" /\ c.base = bound /\ c.version = 0
      /\ c.floor = reported
  BY <1>1, <1>2, <1>3, RolesAre DEF Consistent, Command
<1> HIDE DEF c
<1>5. UNCHANGED <<channel, reported, state>> /\ LockFree /\ command' = [command EXCEPT ![o] = c]
  BY DEF OpenState, Untouched, NoState, c
<1>6. Consistent(c, reported') /\ Refreshed(c, state')
  BY <1>1, <1>4, <1>5 DEF Consistent, Refreshed, Selected
<1>7. reported' \in Nat /\ reported <= reported'
  BY <1>1, <1>5
<1>8. Work'
  BY <1>5, <1>6, <1>7, CommandMoves
<1> QED
  BY <1>5, <1>8, ShelvesStay, TrustStays DEF OpenState, CInv

(* The roles only rise: each is moved to the version the one before it has *)
(* in this refresh, and the first never back.                              *)
LEMMA RefreshKeeps ==
  ASSUME CInv, NEW o \in Operators, Refresh(o)
  PROVE  CInv'
<1>1. /\ UNCHANGED <<channel, reported, stateDisk>> /\ Untouched /\ NoFiles
      /\ command[o].at \in Roles
  BY DEF Refresh, Untouched, Roles
<1>2. Refreshed(command[o], state) /\ Consistent(command[o], reported)
  BY DEF CInv, Work
<1>3. /\ reported \in Nat /\ offered \in Nat \ {0}
      /\ \A r \in Roles : state[r] \in Nat /\ reported <= state[r]
  BY CountersAre DEF CInv, Trust, Durable, Shelves
<1>4. offered \in Generations /\ state \in [Roles -> Generations \cup {0}]
  BY DEF CInv, Shelves, Trust
<1>5. \A version \in Generations \cup {0}, role \in Roles :
        Kept(role, version) /\ reported <= version =>
          /\ state'[role] = version /\ \A r \in Roles \ {role} : state'[r] = state[r]
          /\ Trust'
  BY <1>1, <1>4 DEF Kept, CInv, Trust, Durable, Generations
<1>6. CASE command[o].at = "timestamp" /\ NoOlder(offered, "timestamp")
           /\ Kept("timestamp", offered) /\ Goes(o, "snapshot")
  <2>1. reported <= offered
    BY <1>3, <1>6, RolesAre DEF NoOlder
  <2>2. state'["timestamp"] = offered /\ Trust'
    BY <1>4, <1>5, <1>6, <2>1, RolesAre
  <2>3. Refreshed([at |-> "snapshot"], state')
    BY <1>1, <1>3, <1>6, <2>2, RolesAre DEF Refreshed
  <2>4. Work'
    BY <1>1, <1>6, <2>3, GoesOn, RolesAre DEF Selected
  <2> QED
    BY <1>1, <2>2, <2>4, ShelvesStay DEF CInv
<1>7. CASE command[o].at = "snapshot" /\ NoOlder(state["timestamp"], "snapshot")
           /\ Kept("snapshot", state["timestamp"]) /\ Goes(o, "targets")
  <2>1. reported <= state["timestamp"] /\ state["timestamp"] # 0
    BY <1>2, <1>3, <1>7, RolesAre DEF Refreshed
  <2>2. /\ state'["snapshot"] = state["timestamp"] /\ Trust'
        /\ state'["timestamp"] = state["timestamp"]
    BY <1>4, <1>5, <1>7, <2>1, RolesAre
  <2>3. Refreshed([at |-> "targets"], state')
    BY <1>1, <1>7, <2>1, <2>2, RolesAre DEF Refreshed
  <2>4. Work'
    BY <1>1, <1>7, <2>3, GoesOn, RolesAre DEF Selected
  <2> QED
    BY <1>1, <2>2, <2>4, ShelvesStay DEF CInv
<1>8. CASE command[o].at = "targets" /\ Kept("targets", state["snapshot"])
           /\ Goes(o, "refreshed")
  <2>1. /\ reported <= state["snapshot"] /\ state["timestamp"] # 0
        /\ state["snapshot"] = state["timestamp"]
    BY <1>2, <1>3, <1>8, RolesAre DEF Refreshed
  <2>2. /\ state'["targets"] = state["snapshot"] /\ Trust'
        /\ state'["timestamp"] = state["timestamp"]
        /\ state'["snapshot"] = state["snapshot"]
    BY <1>4, <1>5, <1>8, <2>1, RolesAre
  <2>3. Refreshed([at |-> "refreshed"], state')
    BY <1>1, <1>8, <2>1, <2>2 DEF Refreshed, InSelection
  <2>4. Work'
    BY <1>1, <1>8, <2>3, GoesOn, RolesAre DEF Selected, InSelection
  <2> QED
    BY <1>1, <2>2, <2>4, ShelvesStay DEF CInv
<1>9. CASE Goes(o, "refused") /\ UNCHANGED state
  <2>1. Refreshed([at |-> "refused"], state')
    BY <1>1, <1>9 DEF Refreshed, InSelection
  <2>2. Work'
    BY <1>1, <1>9, <2>1, GoesOn, RolesAre DEF Selected, InSelection
  <2>3. Trust'
    BY <1>1, <1>9, TrustStays DEF NoState
  <2> QED
    BY <1>1, <2>2, <2>3, ShelvesStay DEF CInv
<1> QED
  BY <1>6, <1>7, <1>8, <1>9 DEF Refresh

LEMMA SyncKeeps ==
  ASSUME CInv, NEW o \in Operators, TrustedStateSynced(o)
  PROVE  CInv'
<1>1. /\ Untouched /\ NoFiles /\ UNCHANGED <<channel, state>>
      /\ command[o].at \in {"refreshed", "refused"}
  BY DEF TrustedStateSynced, Untouched
<1>2. Refreshed(command[o], state) /\ Consistent(command[o], reported)
  BY DEF CInv, Work
<1>3. /\ reported \in Nat /\ Generations \subseteq Nat \ {0}
      /\ \A r \in Roles : /\ state[r] \in Nat /\ reported <= state[r]
                         /\ stateDisk[r] \in Nat /\ reported <= stateDisk[r]
  BY CountersAre DEF CInv, Trust, Durable
<1>4. Shelves'
  BY <1>1, ShelvesStay
<1>5. CASE SyncTrustedState /\ command[o].at = "refused" /\ Finished(o) /\ UNCHANGED reported
  <2>1. Trust'
    BY <1>1, <1>3, <1>5 DEF SyncTrustedState, CInv, Trust, Durable, Generations
  <2>2. Work'
    BY <1>1, <1>5, Ends
  <2> QED
    BY <1>4, <2>1, <2>2 DEF CInv
<1>6. ASSUME SyncTrustedState, command[o].at = "refreshed",
             NEW v, v = state["targets"],
             command' = [command EXCEPT ![o].at = IF Absent(v) THEN "idle" ELSE "manifest",
                                        ![o].version = v, ![o].rev = channel[v]],
             reported' = Max({reported, v})
      PROVE  CInv'
  <2> DEFINE c == [command[o] EXCEPT !.at = IF Absent(v) THEN "idle" ELSE "manifest",
                                     !.version = v, !.rev = channel[v]]
  <2>1. /\ v \in Nat /\ reported <= v /\ v # 0
        /\ state["timestamp"] = v /\ state["snapshot"] = v
    BY <1>2, <1>3, <1>6, RolesAre DEF Refreshed
  <2>2. v \in Generations
    BY <1>6, <2>1, RolesAre DEF CInv, Trust
  <2>3. channel[v] \in Revisions \cup {0}
    BY <2>2, Feed DEF CInv, Shelves
  <2>4. reported' = v
    BY <1>3, <1>6, <2>1, NewerOf
  <2>5. \A r \in Roles : state[r] = v
    BY <1>6, <2>1 DEF Roles
  <2>6. Trust'
    <3>1. stateDisk' = state /\ state' = state /\ channel' = channel
      BY <1>1, <1>6 DEF SyncTrustedState
    <3>2. Durable'
      BY <2>1, <2>4, <2>5, <3>1 DEF Durable
    <3>3. state \in [Roles -> Generations \cup {0}]
      BY DEF CInv, Trust
    <3> QED
      BY <2>2, <2>4, <3>1, <3>2, <3>3 DEF Trust, Generations
  <2>7. command' = [command EXCEPT ![o] = c]
    BY <1>6 DEF CInv, Work
  <2>8. /\ c \in Command /\ c.at = IF Absent(v) THEN "idle" ELSE "manifest"
        /\ c.base = command[o].base /\ c.floor = command[o].floor
        /\ c.version = v /\ c.rev = channel[v]
    BY <1>2, <2>2, <2>3 DEF Consistent, Command, Selected, InSelection
  <2> HIDE DEF c
  <2>9. command[o].floor \in Nat /\ command[o].floor <= reported
    <3>1. command[o] \in Command /\ command[o].floor <= reported
      BY <1>2 DEF Consistent
    <3>2. command[o].floor \in Generations \cup {0}
      BY <3>1 DEF Command
    <3>3. Generations \cup {0} \subseteq Nat
      BY <1>3
    <3> QED
      BY <3>1, <3>2, <3>3
  <2>10. Consistent(c, reported')
    <3>1. c.base \in Revisions
      BY <1>1, <1>2, <2>8 DEF Consistent
    <3>2. c.at \in Selected => c.rev \in Revisions
      BY <2>3, <2>8 DEF Absent, Selected
    <3>3. c.floor <= v
      BY <1>3, <2>1, <2>8, <2>9
    <3> QED
      BY <2>2, <2>4, <2>8, <3>1, <3>2, <3>3, <2>1, <1>3, <2>9 DEF Consistent
  <2>11. Refreshed(c, state')
    BY <2>8 DEF Refreshed
  <2>12. command[o].at \in InSelection /\ reported' \in Nat /\ reported <= reported'
    BY <1>6, <2>1, <2>4 DEF InSelection
  <2>13. Work'
    BY <1>1, <2>7, <2>10, <2>11, <2>12, CommandMoves
  <2> QED
    BY <1>4, <2>6, <2>13 DEF CInv
<1>7. ASSUME NEW synced \in SUBSET Roles,
             stateDisk' = [r \in Roles |-> IF r \in synced THEN state[r] ELSE stateDisk[r]],
             Finished(o), UNCHANGED reported
      PROVE  CInv'
  <2>1. Trust'
    BY <1>1, <1>3, <1>7 DEF CInv, Trust, Durable, Generations
  <2>2. Work'
    BY <1>1, <1>7, Ends
  <2> QED
    BY <1>4, <2>1, <2>2 DEF CInv
<1> QED
  BY <1>1, <1>5, <1>6, <1>7 DEF TrustedStateSynced

LEMMA VerifyKeeps ==
  ASSUME CInv, NEW o \in Operators, VerifyManifest(o)
  PROVE  CInv'
<1>1. /\ Untouched /\ NoFiles /\ NoState /\ UNCHANGED <<channel, state, reported>>
      /\ command[o].at = "manifest"
  BY DEF VerifyManifest, Untouched, NoState
<1>2. CASE Finished(o)
  BY <1>1, <1>2, Ends, ShelvesStay, TrustStays DEF CInv
<1>3. ASSUME NEW to \in {"downloading", "proving"}, Goes(o, to)
      PROVE  CInv'
  <2>1. /\ to \in Selected /\ to \notin InSelection /\ command[o].at \in Selected
        /\ Refreshed([at |-> to], state')
    BY <1>1 DEF Selected, InSelection, Refreshed
  <2>2. Work'
    BY <1>1, <1>3, <2>1, GoesOn
  <2> QED
    BY <1>1, <2>2, ShelvesStay, TrustStays DEF CInv
<1> QED
  BY <1>2, <1>3 DEF VerifyManifest

LEMMA DownloadKeeps ==
  ASSUME CInv, NEW o \in Operators, Download(o)
  PROVE  CInv'
<1>1. /\ Untouched /\ NoFiles /\ NoState /\ UNCHANGED <<channel, state, reported>>
      /\ command[o].at = "downloading" /\ Goes(o, "staged")
  BY DEF Download, Untouched, NoState
<1>2. /\ "staged" \in Selected /\ "staged" \notin InSelection /\ command[o].at \in Selected
      /\ Refreshed([at |-> "staged"], state') /\ command[o].at # "idle"
  BY <1>1 DEF Selected, InSelection, Refreshed
<1>3. Work'
  BY <1>1, <1>2, GoesOn
<1> QED
  BY <1>1, <1>3, ShelvesStay, TrustStays DEF CInv

LEMMA RenameKeeps ==
  ASSUME CInv, NEW o \in Operators, RenameNoReplace(o)
  PROVE  CInv'
<1>1. /\ Untouched /\ NoState /\ UNCHANGED <<channel, state, reported, bound, candidates>>
      /\ command[o].at = "staged" /\ Goes(o, "committed")
  BY DEF RenameNoReplace, Untouched, NoState
<1>2. /\ "committed" \in Selected /\ "committed" \notin InSelection
      /\ command[o].at \in Selected
      /\ Refreshed([at |-> "committed"], state') /\ command[o].at # "idle"
  BY <1>1 DEF Selected, InSelection, Refreshed
<1>3. Work'
  BY <1>1, <1>2, GoesOn
<1>4. command[o].to \in Outputs /\ command[o].rev \in Revisions
  BY <1>2 DEF CInv, Work, Consistent, Command
<1>5. bundles' \in [Outputs -> Revisions \cup {0}] /\ unsafe' \subseteq Outputs
  BY <1>4 DEF RenameNoReplace, CInv, Shelves
<1>6. Shelves'
  BY <1>1, <1>5 DEF CInv, Shelves, Untouched, Generations, CandidatesProven
<1> QED
  BY <1>1, <1>3, <1>6, TrustStays DEF CInv

LEMMA SyncParentKeeps ==
  ASSUME CInv, NEW o \in Operators, SyncRetrievalParent(o)
  PROVE  CInv'
<1>1. /\ Untouched /\ NoState /\ UNCHANGED <<channel, state, reported>> /\ Finished(o)
  BY DEF SyncRetrievalParent, Untouched, NoState
<1>2. Work'
  BY <1>1, Ends
<1>3. Shelves'
  BY DEF SyncRetrievalParent, CInv, Shelves, Untouched, Generations, CandidatesProven
<1> QED
  BY <1>1, <1>2, <1>3, TrustStays DEF CInv

(* What the candidate holds is read again when it is written, and the      *)
(* registry that was read at the beginning is the one it advances.         *)
LEMMA MaterializeKeeps ==
  ASSUME CInv, NEW o \in Operators, Materialize(o)
  PROVE  CInv'
<1>1. /\ Untouched /\ NoState /\ UNCHANGED <<channel, state, reported, bundles, unsafe, bound>>
      /\ Finished(o) /\ command[o].at = "proving"
  BY DEF Materialize, Untouched, NoState
<1>2. Work'
  BY <1>1, Ends
<1>3. command[o].rev \in Revisions /\ command[o].base \in Revisions
  BY <1>1 DEF CInv, Work, Consistent, Selected
<1> DEFINE new == [base |-> command[o].base, rev |-> command[o].rev,
                   holds |-> bundles[command[o].to]]
<1>4. /\ candidates' = candidates \cup {new}
      /\ new.holds = new.rev /\ PromotableTo(new.base, new.rev)
      /\ new \in [base : Revisions, rev : Revisions, holds : Revisions]
  BY <1>3 DEF Materialize, Proven
<1> HIDE DEF new
<1>5. CandidatesProven'
  BY <1>4 DEF CInv, Shelves, CandidatesProven, PromotableTo
<1>6. Shelves'
  BY <1>1, <1>4, <1>5 DEF CInv, Shelves, Untouched, Generations
<1> QED
  BY <1>1, <1>2, <1>6, TrustStays DEF CInv

LEMMA FailureKeeps ==
  ASSUME CInv, NEW o \in Operators, ChannelCommandFails(o)
  PROVE  CInv'
<1>1. /\ Untouched /\ NoFiles /\ NoState /\ UNCHANGED <<channel, state, reported>>
      /\ Finished(o)
  BY DEF ChannelCommandFails, Untouched, NoState
<1> QED
  BY <1>1, Ends, ShelvesStay, TrustStays DEF CInv

-----------------------------------------------------------------------------
LEMMA WorkStays ==
  ASSUME CInv, UNCHANGED <<channel, command, state, reported>>
  PROVE  Work'
BY DEF CInv, Work, Consistent, Refreshed, OneSelects, Command, Generations

LEMMA AroundKeeps ==
  ASSUME CInv, CopyMetadata \/ (\E x \in Outputs : RemoveBundle(x)) \/ DayEnds
  PROVE  CInv'
<1>1. NoState /\ UNCHANGED <<channel, command, state, reported>>
  BY DEF CopyMetadata, RemoveBundle, DayEnds, Untouched, NoState
<1>2. Shelves'
  <2>1. CASE CopyMetadata
    BY <2>1 DEF CopyMetadata, NoFiles, CInv, Shelves, Generations, CandidatesProven
  <2>2. CASE \E x \in Outputs : RemoveBundle(x)
    BY <2>2 DEF RemoveBundle, Untouched, CInv, Shelves, Generations, CandidatesProven
  <2>3. CASE DayEnds
    BY <2>3, ChannelAssumption
       DEF DayEnds, NoFiles, CInv, Shelves, Generations, CandidatesProven
  <2> QED
    BY <2>1, <2>2, <2>3
<1> QED
  BY <1>1, <1>2, WorkStays, TrustStays DEF CInv

LEMMA ActivationKeeps ==
  ASSUME CInv, ActivateCandidate
  PROVE  CInv'
<1>1. Untouched /\ NoState /\ UNCHANGED <<channel, command, state, reported>>
  BY DEF ActivateCandidate, Untouched, NoState
<1>2. bound' \in Revisions
  BY DEF ActivateCandidate, CInv, Shelves
<1>3. Shelves'
  BY <1>2 DEF ActivateCandidate, Untouched, CInv, Shelves, Generations, CandidatesProven
<1> QED
  BY <1>1, <1>3, WorkStays, TrustStays DEF CInv

(* What a power failure takes back had not been reported.                  *)
LEMMA PowerFailureKeeps ==
  ASSUME CInv, ChannelPowerFails
  PROVE  CInv'
<1>1. Untouched /\ UNCHANGED <<channel, bound, candidates, reported>> /\ unsafe' = {}
  BY DEF ChannelPowerFails, Untouched
<1>2. bundles' \in [Outputs -> Revisions \cup {0}]
  BY DEF ChannelPowerFails, CInv, Shelves
<1>3. Shelves'
  BY <1>1, <1>2 DEF Untouched, CInv, Shelves, Generations, CandidatesProven
<1>4. /\ state' \in [Roles -> Generations \cup {0}] /\ stateDisk' = state'
      /\ \A r \in Roles : state'[r] \in {state[r], stateDisk[r]}
  BY DEF ChannelPowerFails, CInv, Trust
<1>5. Trust'
  BY <1>1, <1>4 DEF CInv, Trust, Durable, Generations
<1>6. command' = [p \in Operators |-> Idle]
  BY DEF ChannelPowerFails
<1>7. reported \in Nat /\ channel \in Feeds
  BY CountersAre DEF CInv, Shelves
<1>8. Consistent(Idle, reported) /\ Refreshed(Idle, state') /\ Idle.at = "idle"
  BY <1>7, IdleIs
<1>9. Idle \in Command
  BY <1>8 DEF Consistent
<1>10. \A p \in Operators : (Consistent(command[p], reported) /\ Refreshed(command[p], state))'
  BY <1>1, <1>6, <1>8 DEF Consistent, Refreshed, Command, Generations
<1>11. (command \in [Operators -> Command])' /\ OneSelects'
  BY <1>1, <1>6, <1>8, <1>9 DEF Command, Generations, OneSelects, InSelection
<1>12. Work'
  BY <1>10, <1>11 DEF Work
<1> QED
  BY <1>3, <1>5, <1>12 DEF CInv

LEMMA ChannelInitHolds ==
  ASSUME ChannelInit
  PROVE  CInv
<1>1. channel \in Feeds /\ offered \in Generations /\ reported = 0
  BY Feed DEF ChannelInit
<1>2. Shelves
  BY <1>1, ChannelAssumption DEF ChannelInit, Shelves, CandidatesProven
<1>3. Trust
  BY <1>1 DEF ChannelInit, Trust, Durable
<1>4. /\ Idle.at = "idle" /\ Consistent(Idle, reported) /\ Refreshed(Idle, state)
      /\ Idle \in Command
  BY <1>1, IdleIs DEF Consistent
<1>5. command = [o \in Operators |-> Idle]
  BY DEF ChannelInit
<1>6. OneSelects
  BY <1>4, <1>5 DEF OneSelects, InSelection
<1>7. Work
  BY <1>4, <1>5, <1>6 DEF Work
<1> QED
  BY <1>2, <1>3, <1>7 DEF CInv

LEMMA ChannelStepKeeps ==
  ASSUME CInv, [ChannelNext]_channelVars
  PROVE  CInv'
<1>1. CASE UNCHANGED channelVars
  <2>1. UNCHANGED <<channel, command, state, reported>> /\ Untouched /\ NoFiles /\ NoState
    BY <1>1 DEF channelVars, Untouched, NoFiles, NoState
  <2> QED
    BY <2>1, WorkStays, ShelvesStay, TrustStays DEF CInv
<1>2. CASE CopyMetadata \/ (\E x \in Outputs : RemoveBundle(x)) \/ DayEnds
  BY <1>2, AroundKeeps
<1>3. CASE ActivateCandidate \/ ChannelPowerFails
  BY <1>3, ActivationKeeps, PowerFailureKeeps
<1>4. ASSUME NEW o \in Operators,
             \/ \E does \in Commands, x \in Outputs : OpenState(o, does, x)
             \/ Refresh(o) \/ TrustedStateSynced(o) \/ VerifyManifest(o)
      PROVE  CInv'
  BY <1>4, OpenKeeps, RefreshKeeps, SyncKeeps, VerifyKeeps
<1>5. ASSUME NEW o \in Operators,
             \/ Download(o) \/ RenameNoReplace(o) \/ SyncRetrievalParent(o)
             \/ Materialize(o) \/ ChannelCommandFails(o)
      PROVE  CInv'
  BY <1>5, DownloadKeeps, RenameKeeps, SyncParentKeeps, MaterializeKeeps, FailureKeeps
<1> QED
  BY <1>1, <1>2, <1>3, <1>4, <1>5 DEF ChannelNext

LEMMA ChannelInvariant == ChannelSpec => []CInv
  BY ChannelInitHolds, ChannelStepKeeps, PTL DEF ChannelSpec

-----------------------------------------------------------------------------
(* Every variable keeps its type, and a command past its selection has a   *)
(* revision, a version and the registry's revision to work with, through   *)
(* commands that die and power failures: OpenState to ChannelPowerFails.   *)
THEOREM ChannelTyped == ChannelSpec => []ChannelTypeOK
<1>1. CInv => ChannelTypeOK
  <2> SUFFICES ASSUME CInv  PROVE ChannelTypeOK
    OBVIOUS
  <2>1. \A o \in Operators : command[o].at \in Selected => command[o].at # "idle"
    BY DEF Selected
  <2>2. \A o \in Operators : command[o].at \in Selected =>
          /\ command[o].rev \in Revisions /\ command[o].base \in Revisions
          /\ command[o].version \in Generations
    BY <2>1 DEF CInv, Work, Consistent
  <2> QED
    BY <2>2 DEF CInv, Shelves, Trust, Work, ChannelTypeOK
<1> QED
  BY <1>1, ChannelInvariant, PTL

(* For any feed, pack revisions, operators and outputs: no command selects *)
(* a version older than one reported before it began, whatever metadata is *)
(* copied in, dies or is lost with the power; one command at a time        *)
(* selects; and a candidate registry is written only for the pack that     *)
(* lies proven in its directory (channel.go, main.go of fetchmark-pack).   *)
THEOREM ChannelIsSound == ChannelSpec => []ChannelSound
<1>1. CInv => ChannelSound
  <2> SUFFICES ASSUME CInv  PROVE ChannelSound
    OBVIOUS
  <2>1. NeverBack
    BY DEF CInv, Work, Consistent, NeverBack
  <2> QED
    BY <2>1 DEF CInv, Shelves, Work, ChannelSound
<1> QED
  BY <1>1, ChannelInvariant, PTL

-----------------------------------------------------------------------------
(* The evidence files.  Lists are functions on 1..n, whatever they hold.   *)
LEMMA LeastNumber ==
  ASSUME NEW S \in SUBSET Nat, S # {}
  PROVE  \E n \in S : \A m \in S : n <= m
<1>1. PICK n \in S : \A m \in S : <<m, n>> \notin OpToRel(<, Nat)
  BY WFMin, NatLessThanWellFounded, Zenon
<1>2. \A m \in S : ~(m < n)
  BY <1>1, Zenon DEF OpToRel
<1>. QED
  BY <1>2

LEMMA GreatestEntry ==
  ASSUME NEW n \in Nat \ {0}, NEW f, \A i \in 1..n : f[i] \in Nat
  PROVE  \E i \in 1..n : \A j \in 1..n : f[i] >= f[j]
<1> DEFINE Good(k) == \E i \in 1..k : \A j \in 1..k : f[i] >= f[j]
           Bad == {k \in 1..n : ~Good(k)}
<1>1. SUFFICES ASSUME Bad # {} PROVE FALSE
  BY <1>1
<1>2. PICK k \in Bad : \A m \in Bad : k <= m
  <2>1. Bad \in SUBSET Nat
    OBVIOUS
  <2> QED
    BY <1>1, <2>1, LeastNumber
<1>3. k \in 1..n /\ ~Good(k)
  BY <1>2
<1>4. k # 1
  BY <1>3
<1>5. k - 1 \in 1..n /\ Good(k - 1)
  <2>1. k - 1 \in 1..n /\ ~(k <= k - 1)
    BY <1>3, <1>4
  <2>2. k - 1 \notin Bad
    BY <1>2, <2>1
  <2> QED
    BY <2>1, <2>2
<1>6. PICK i \in 1..(k - 1) : \A j \in 1..(k - 1) : f[i] >= f[j]
  BY <1>5
<1>7. f[i] \in Nat /\ f[k] \in Nat /\ i \in 1..k /\ k \in 1..k
  BY <1>3, <1>6
<1>8. CASE f[i] >= f[k]
  <2>1. \A j \in 1..k : f[i] >= f[j]
    BY <1>6, <1>8
  <2> QED
    BY <2>1, <1>3, <1>7
<1>9. CASE f[k] > f[i]
  <2>1. \A j \in 1..k : f[k] >= f[j]
    <3> TAKE j \in 1..k
    <3>1. CASE j = k
      BY <3>1, <1>7
    <3>2. CASE j # k
      <4>1. j \in 1..(k - 1) /\ f[j] \in Nat
        BY <3>2, <1>3
      <4> QED
        BY <4>1, <1>6, <1>7, <1>9
    <3> QED
      BY <3>1, <3>2
  <2> QED
    BY <2>1, <1>3, <1>7
<1> QED
  BY <1>7, <1>8, <1>9

IsList(f, n) == f = [i \in 1..n |-> f[i]]

LEMMA ListIs ==
  ASSUME NEW n \in Nat, NEW f, IsList(f, n)
  PROVE  /\ f \in Seq({f[i] : i \in 1..n})
         /\ Len(f) = n /\ DOMAIN f = 1..n
<1>1. f \in [1..n -> {f[i] : i \in 1..n}] /\ DOMAIN f = 1..n
  BY DEF IsList
<1>2. f \in Seq({f[i] : i \in 1..n})
  BY <1>1, SeqDef
<1>3. Len(f) \in Nat /\ DOMAIN f = 1..Len(f)
  BY <1>2, LenProperties
<1> QED
  BY <1>1, <1>2, <1>3

LEMMA SeqIsList ==
  ASSUME NEW S, NEW s \in Seq(S)
  PROVE  Len(s) \in Nat /\ DOMAIN s = 1..Len(s) /\ IsList(s, Len(s))
BY LenProperties DEF IsList

LEMMA ListAppend ==
  ASSUME NEW n \in Nat, NEW f, IsList(f, n), NEW x
  PROVE  /\ IsList(Append(f, x), n + 1) /\ Len(Append(f, x)) = n + 1
         /\ \A i \in 1..n : Append(f, x)[i] = f[i]
         /\ Append(f, x)[n + 1] = x
<1> DEFINE S == {f[i] : i \in 1..n} \cup {x}
<1>1. f \in Seq(S) /\ Len(f) = n
  <2>1. PICK F : F = {f[i] : i \in 1..n}
    OBVIOUS
  <2>2. f \in Seq(F) /\ Len(f) = n
    BY <2>1, ListIs
  <2>3. F \subseteq S
    BY <2>1
  <2> HIDE DEF S
  <2> QED
    BY <2>2, <2>3, SeqMonotonic
<1>2. /\ Append(f, x) \in Seq(S) /\ Len(Append(f, x)) = n + 1
      /\ \A i \in 1..n : Append(f, x)[i] = f[i]
      /\ Append(f, x)[n + 1] = x
  BY <1>1, AppendProperties
<1> QED
  BY <1>2, SeqIsList

Joins(h, f, g) == h = f \o g
LEMMA ListConcat ==
  ASSUME NEW x \in Nat, NEW f, IsList(f, x), NEW y \in Nat, NEW g, IsList(g, y),
         NEW h, Joins(h, f, g)
  PROVE  /\ IsList(h, x + y) /\ Len(h) = x + y
         /\ \A i \in 1..x : h[i] = f[i]
         /\ \A i \in 1..y : h[x + i] = g[i]
<1> DEFINE S == {f[i] : i \in 1..x} \cup {g[i] : i \in 1..y}
<1>1. f \in Seq(S) /\ Len(f) = x /\ g \in Seq(S) /\ Len(g) = y
  <2>1. PICK F, G : F = {f[i] : i \in 1..x} /\ G = {g[i] : i \in 1..y}
    OBVIOUS
  <2>2. f \in Seq(F) /\ Len(f) = x
    BY <2>1, ListIs
  <2>3. g \in Seq(G) /\ Len(g) = y
    BY <2>1, ListIs
  <2>4. F \subseteq S /\ G \subseteq S
    BY <2>1
  <2> HIDE DEF S
  <2> QED
    BY <2>2, <2>3, <2>4, SeqMonotonic
<1>2. /\ h \in Seq(S) /\ Len(h) = x + y
      /\ \A i \in 1..(x + y) : h[i] = IF i <= x THEN f[i] ELSE g[i - x]
  BY <1>1, ConcatProperties DEF Joins
<1>3. \A i \in 1..x : h[i] = f[i]
  BY <1>2
<1>4. \A i \in 1..y : h[x + i] = g[i]
  BY <1>2
<1> QED
  BY <1>2, <1>3, <1>4, SeqIsList

-----------------------------------------------------------------------------
(* The selections and their shards.                                        *)
LEMMA SelectionIs ==
  ASSUME NEW v \in DOMAIN Selections
  PROVE  /\ Len(Selections[v]) \in Nat \ {0} /\ IsList(Selections[v], Len(Selections[v]))
         /\ Selections[v] \in Seq(SelectedRows)
<1>1. Selections[v] \in Seq(SelectedRows) \ {<<>>}
  BY EvidenceConstants
<1>2. Len(Selections[v]) # 0
  BY <1>1, EmptySeq
<1> QED
  BY <1>1, <1>2, SeqIsList

LEMMA ShardsIs ==
  ASSUME NEW v \in DOMAIN Selections
  PROVE  Shards(v) \in Nat
<1>1. PICK n, s : n = Len(Selections[v]) + ShardSize - 1 /\ s = ShardSize
  OBVIOUS
<1>2. n \in Nat /\ s \in Nat \ {0}
  BY <1>1, SelectionIs, EvidenceConstants
<1>3. n \div s \in Nat
  BY <1>2
<1> QED
  BY <1>1, <1>3 DEF Shards

LEMMA MostIs ==
  ASSUME DOMAIN Selections # {}
  PROVE  /\ MostShards \in Nat
         /\ \A v \in DOMAIN Selections : Shards(v) <= MostShards
<1> DEFINE n == Len(Selections)
           f == [v \in 1..n |-> Shards(v)]
           S == {Shards(v) : v \in DOMAIN Selections}
<1>1. n \in Nat \ {0} /\ DOMAIN Selections = 1..n
  BY EvidenceConstants, SeqIsList
<1>2. \A i \in 1..n : f[i] \in Nat
  BY <1>1, ShardsIs
<1>3. PICK i \in 1..n : \A j \in 1..n : f[i] >= f[j]
  <2> HIDE DEF n, f
  <2> QED
    BY <1>1, <1>2, GreatestEntry
<1>4. f[i] \in S /\ \A y \in S : f[i] >= y
  BY <1>1, <1>3
<1>5. MostShards \in S /\ \A y \in S : MostShards >= y
  BY <1>4 DEF MostShards, Max
<1> QED
  BY <1>5, <1>1, ShardsIs

LEMMA MinIs ==
  ASSUME NEW a \in Int, NEW b \in Int
  PROVE  Min({a, b}) \in Int /\ Min({a, b}) \in {a, b} /\ Min({a, b}) <= a /\ Min({a, b}) <= b
<1>1. \E x \in {a, b} : \A y \in {a, b} : x =< y
  OBVIOUS
<1>2. Min({a, b}) \in {a, b} /\ \A y \in {a, b} : Min({a, b}) =< y
  BY <1>1 DEF Min
<1> QED
  BY <1>2

LEMMA ManifestIs ==
  ASSUME NEW v \in DOMAIN Selections
  PROVE  /\ IsList(Manifest(v), Shards(v))
         /\ \A k \in 1..Shards(v) : /\ Manifest(v)[k][1] \in Int /\ Manifest(v)[k][2] \in Int
                                    /\ Manifest(v)[k][2] <= Len(Selections[v])
<1>1. Shards(v) \in Nat /\ ShardSize \in Nat /\ Len(Selections[v]) \in Nat
  BY ShardsIs, SelectionIs, EvidenceConstants
<1>2. ASSUME NEW k \in 1..Shards(v)
      PROVE  /\ Manifest(v)[k][1] \in Int /\ Manifest(v)[k][2] \in Int
             /\ Manifest(v)[k][2] <= Len(Selections[v])
  <2>1. Manifest(v)[k] = <<(k - 1) * ShardSize + 1, Min({k * ShardSize, Len(Selections[v])})>>
    BY DEF Manifest
  <2>2. (k - 1) * ShardSize \in Int /\ k * ShardSize \in Int
    BY <1>1
  <2>3. PICK x, y : x = k * ShardSize /\ y = Len(Selections[v])
    OBVIOUS
  <2>4. x \in Int /\ y \in Int
    BY <1>1, <2>2, <2>3
  <2>5. Min({x, y}) \in Int /\ Min({x, y}) <= y
    BY <2>4, MinIs
  <2> QED
    BY <2>1, <2>2, <2>3, <2>5
<1>3. IsList(Manifest(v), Shards(v))
  BY DEF IsList, Manifest
<1> QED
  BY <1>2, <1>3

LEMMA ShardRowsIs ==
  ASSUME NEW v \in DOMAIN Selections, NEW k \in 1..Shards(v),
         NEW a, NEW b, a = Manifest(v)[k][1], b = Manifest(v)[k][2]
  PROVE  /\ a \in Int /\ b \in Int
         /\ Len(ShardRows(v, k)) = IF a <= b THEN b - a + 1 ELSE 0
         /\ IsList(ShardRows(v, k), Len(ShardRows(v, k)))
         /\ Len(ShardRows(v, k)) \in Nat
         /\ \A i \in 1..(b - a + 1) : ShardRows(v, k)[i] = Selections[v][a + i - 1]
<1>1. a \in Int /\ b \in Int
  BY ManifestIs
<1>2. PICK s : s = Selections[v]
  OBVIOUS
<1> DEFINE S == {s[i] : i \in a..b}
<1>3. \A i \in a..b : s[i] \in S
  OBVIOUS
<1>4. /\ SubSeq(s, a, b) \in Seq(S)
      /\ Len(SubSeq(s, a, b)) = IF a <= b THEN b - a + 1 ELSE 0
      /\ \A i \in 1..(b - a + 1) : SubSeq(s, a, b)[i] = s[a + i - 1]
  <2> HIDE DEF S
  <2> QED
    BY <1>1, <1>3, SubSeqProperties
<1>5. ShardRows(v, k) = SubSeq(s, a, b)
  BY <1>2 DEF ShardRows
<1> QED
  BY <1>1, <1>2, <1>4, <1>5, SeqIsList

(* A bundle is collected from a selection, or from a shard of one.         *)
GoodInput(input) ==
  \E v \in DOMAIN Selections, k \in 0..MostShards : k <= Shards(v) /\ input = <<v, k>>

LEMMA InputIs ==
  ASSUME NEW input, GoodInput(input)
  PROVE  Len(InputRows(input)) \in Nat /\ IsList(InputRows(input), Len(InputRows(input)))
<1>1. PICK v \in DOMAIN Selections, k \in 0..MostShards : k <= Shards(v) /\ input = <<v, k>>
  BY DEF GoodInput
<1>2. input[1] = v /\ input[2] = k
  BY <1>1
<1>3. MostShards \in Nat /\ Shards(v) \in Nat
  BY MostIs, ShardsIs
<1>4. CASE k = 0
  BY <1>2, <1>4, SelectionIs DEF InputRows
<1>5. CASE k # 0
  <2>1. k \in 1..Shards(v)
    BY <1>1, <1>3, <1>5
  <2>2. InputRows(input) = ShardRows(v, k)
    BY <1>2, <1>5 DEF InputRows
  <2> QED
    BY <2>1, <2>2, ShardRowsIs
<1> QED
  BY <1>4, <1>5

-----------------------------------------------------------------------------
(* What verdicts tell of rows: of the first, in order; of all of them.     *)
TellsFirst(verdicts, rows) ==
  /\ Len(verdicts) \in Nat /\ IsList(verdicts, Len(verdicts))
  /\ Len(verdicts) <= Len(rows)
  /\ \A i \in 1..Len(verdicts) : verdicts[i].row = rows[i]
Tells(verdicts, rows) == TellsFirst(verdicts, rows) /\ Len(verdicts) = Len(rows)
AllAgree(verdicts) == \A i \in 1..Len(verdicts) : PolicyAgrees(verdicts[i])

(* What a command publishes.                                               *)
Cut(d) == \E v \in DOMAIN Selections : d = <<v, Manifest(v)>>
Merged(d) ==
  \E v \in DOMAIN Selections :
    /\ d[1] = <<v, Manifest(v)>> /\ Tells(d[2], Selections[v]) /\ AllAgree(d[2])
    /\ Counts(d[2]) = d[3].counts
Collected(d) ==
  GoodInput(d[1]) /\ Tells(d[2], InputRows(d[1])) /\ Counts(d[2]) = d[3]
OutputOf(job, d) ==
  /\ job = Partition => Cut(d)
  /\ job = Merging => Merged(d)
  /\ job \in 0..MostShards => Collected(d)
Published(directories) ==
  /\ directories = [job \in EvidenceJobs |-> directories[job]]
  /\ \A job \in EvidenceJobs : directories[job] = Missing \/ OutputOf(job, directories[job])

(* What a process does, step by step.                                      *)
Verifying(r) ==
  /\ r.job = Merging
  /\ \E v \in DOMAIN Selections :
       /\ r.input = <<v, Manifest(v)>> /\ TellsFirst(r.got, Selections[v]) /\ AllAgree(r.got)
       /\ IF r.at = "verifying"
          THEN /\ Len(r.sources) \in Nat /\ IsList(r.sources, Len(r.sources))
               /\ Len(r.got) = EndOf(Manifest(v), Len(r.sources))
          ELSE Len(r.got) = Len(Selections[v])
Working(r) ==
  /\ r.job \in EvidenceJobs
  /\ r.at \in {"away", "claimed", "collecting", "verifying", "revalidating", "cutting", "cut",
               "ready", "committed"}
  /\ r.at = "claimed" => r.got = <<>> /\ r.sources = <<>>
  /\ r.at = "collecting" =>
       /\ r.job \in 0..MostShards /\ GoodInput(r.input) /\ TellsFirst(r.got, InputRows(r.input))
       /\ IsList(r.row, Len(InputRows(r.input)))
  /\ r.at \in {"cutting", "cut"} => r.job = Partition /\ r.input[1] \in DOMAIN Selections
  /\ r.at = "cut" => Cut(r.got)
  /\ r.at \in {"verifying", "revalidating"} => Verifying(r)
  /\ r.at \in {"ready", "committed"} => OutputOf(r.job, r.got)
Shaped(r) ==
  r = [job |-> r.job, at |-> r.at, input |-> r.input, row |-> r.row, policies |-> r.policies,
       sources |-> r.sources, got |-> r.got, again |-> r.again]
Manned(publishers) ==
  /\ publishers = [p \in Publishers |-> publishers[p]]
  /\ \A p \in Publishers : Shaped(publishers[p]) /\ Working(publishers[p])
Occupied(r) == r.at # "away"
    
(* The inductive invariant.                                                *)
EInv ==
  /\ selection \in DOMAIN Selections
  /\ locks \subseteq EvidenceJobs /\ stagings \subseteq EvidenceJobs
  /\ Published(directory) /\ Manned(publisher)
  /\ \A p \in Publishers : Occupied(publisher[p]) => publisher[p].job \in locks
  /\ \A p, q \in Publishers :
       p # q /\ Occupied(publisher[p]) /\ Occupied(publisher[q]) => publisher[p].job # publisher[q].job
        
LEMMA JobsAre ==
  ASSUME DOMAIN Selections # {}
  PROVE  /\ MostShards \in Nat /\ Partition = MostShards + 1 /\ Merging = MostShards + 2
         /\ EvidenceJobs = 0..(MostShards + 2)
         /\ Partition \in EvidenceJobs /\ Merging \in EvidenceJobs
         /\ \A job \in EvidenceJobs : Collecting(job) <=> job \in 0..MostShards
         /\ \A job \in EvidenceJobs : job \in 0..MostShards \/ job = Partition \/ job = Merging
BY MostIs DEF Partition, Merging, EvidenceJobs, Collecting

LEMMA AwayIs ==
  /\ Shaped(AwayPublisher) /\ AwayPublisher.at = "away"
  /\ DOMAIN Selections # {} => Working(AwayPublisher)
<1>1. Shaped(AwayPublisher) /\ AwayPublisher.at = "away" /\ AwayPublisher.job = 0
  BY DEF Shaped, AwayPublisher
<1>2. ASSUME DOMAIN Selections # {} PROVE 0 \in EvidenceJobs
  BY <1>2, JobsAre
<1> QED
  BY <1>1, <1>2 DEF Working

LEMMA EvidenceInitHolds == EvidenceInit => EInv
<1> SUFFICES ASSUME EvidenceInit PROVE EInv
  OBVIOUS
<1>1. selection \in DOMAIN Selections /\ directory = [job \in EvidenceJobs |-> Missing]
      /\ locks = {} /\ stagings = {} /\ publisher = [p \in Publishers |-> AwayPublisher]
  BY DEF EvidenceInit
<1>2. Published(directory)
  BY <1>1 DEF Published
<1>3. Manned(publisher) /\ \A p \in Publishers : ~Occupied(publisher[p])
  BY <1>1, AwayIs DEF Manned, Occupied
<1> QED
  BY <1>1, <1>2, <1>3 DEF EInv

(* One process moves on, or leaves.                                        *)
LEMMA ProcessMoves ==
  ASSUME EInv, NEW p \in Publishers, NEW r, publisher' = [publisher EXCEPT ![p] = r],
         Shaped(r), Working(r), selection' \in DOMAIN Selections,
         locks' \subseteq EvidenceJobs, stagings' \subseteq EvidenceJobs, Published(directory)',
         \A q \in Publishers : q # p /\ Occupied(publisher[q]) => publisher[q].job \in locks',
         Occupied(r) => /\ r.job \in locks'
                        /\ \A q \in Publishers : q # p /\ Occupied(publisher[q]) => publisher[q].job # r.job
  PROVE  EInv'
<1>1. /\ publisher = [q \in Publishers |-> publisher[q]]
      /\ \A q \in Publishers : Shaped(publisher[q]) /\ Working(publisher[q])
  BY DEF EInv, Manned
<1>2. /\ publisher' = [q \in Publishers |-> publisher'[q]]
      /\ publisher'[p] = r /\ \A q \in Publishers : q # p => publisher'[q] = publisher[q]
  BY <1>1
<1>3. Manned(publisher)'
  BY <1>1, <1>2 DEF Manned
<1>4. \A q \in Publishers : Occupied(publisher'[q]) => publisher'[q].job \in locks'
  BY <1>2
<1>5. \A s, q \in Publishers :
        s # q /\ Occupied(publisher'[s]) /\ Occupied(publisher'[q]) => publisher'[s].job # publisher'[q].job
  <2> TAKE s, q \in Publishers
  <2>1. \A x, y \in Publishers :
          x # y /\ Occupied(publisher[x]) /\ Occupied(publisher[y]) => publisher[x].job # publisher[y].job
    BY DEF EInv
  <2> QED
    BY <1>2, <2>1
<1> QED
  BY <1>3, <1>4, <1>5 DEF EInv

LEMMA ProcessWorks ==
  ASSUME EInv, NEW p \in Publishers, NEW r, publisher' = [publisher EXCEPT ![p] = r],
         Shaped(r), Working(r), Occupied(publisher[p]), r.job = publisher[p].job,
         UNCHANGED <<selection, locks>>,
         stagings' \subseteq EvidenceJobs, Published(directory)'
  PROVE  EInv'
<1>1. /\ selection' \in DOMAIN Selections /\ locks' \subseteq EvidenceJobs
      /\ \A q \in Publishers : q # p /\ Occupied(publisher[q]) => publisher[q].job \in locks'
      /\ r.job \in locks'
      /\ \A q \in Publishers : q # p /\ Occupied(publisher[q]) => publisher[q].job # r.job
  BY DEF EInv
<1> QED
  BY <1>1, ProcessMoves

LEMMA ProcessLeaves ==
  ASSUME EInv, NEW p \in Publishers, publisher' = [publisher EXCEPT ![p] = AwayPublisher],
         Occupied(publisher[p]), locks' \in {locks, locks \ {publisher[p].job}},
         UNCHANGED <<selection, directory>>, stagings' \subseteq EvidenceJobs
  PROVE  EInv'
<1>1. /\ selection' \in DOMAIN Selections /\ locks' \subseteq EvidenceJobs
      /\ \A q \in Publishers : q # p /\ Occupied(publisher[q]) => publisher[q].job \in locks'
      /\ Published(directory)'
  BY DEF EInv
<1>2. Shaped(AwayPublisher) /\ Working(AwayPublisher) /\ ~Occupied(AwayPublisher)
  <2>1. DOMAIN Selections # {}
    BY DEF EInv
  <2> QED
    BY <2>1, AwayIs DEF Occupied
<1> QED
  BY <1>1, <1>2, ProcessMoves

LEMMA ProcessIs ==
  ASSUME EInv, NEW p \in Publishers
  PROVE  /\ Shaped(publisher[p]) /\ Working(publisher[p]) /\ DOMAIN publisher = Publishers
         /\ Occupied(publisher[p]) => publisher[p].job \in locks
         /\ Published(directory) /\ DOMAIN Selections # {} /\ stagings \subseteq EvidenceJobs
<1>1. publisher = [q \in Publishers |-> publisher[q]]
  BY DEF EInv, Manned
<1> QED
  BY <1>1 DEF EInv, Manned

-----------------------------------------------------------------------------
(* Every command.                                                          *)
LEMMA ClaimKeeps ==
  ASSUME EInv, NEW p \in Publishers, NEW job \in EvidenceJobs, ClaimOutput(p, job)
  PROVE  EInv'
<1>1. PICK r : r = [AwayPublisher EXCEPT !.job = job, !.at = "claimed"]
  OBVIOUS
<1>2. /\ r.job = job /\ r.at = "claimed" /\ r.got = <<>> /\ r.sources = <<>> /\ Shaped(r)
  BY <1>1 DEF AwayPublisher, Missing, Shaped
<1>3. Working(r)
  BY <1>2 DEF Working
<1>4. /\ publisher' = [publisher EXCEPT ![p] = r] /\ job \notin locks
      /\ locks' = locks \cup {job} /\ UNCHANGED <<selection, directory, stagings>>
  BY <1>1 DEF ClaimOutput
<1>5. /\ selection' \in DOMAIN Selections /\ locks' \subseteq EvidenceJobs
      /\ stagings' \subseteq EvidenceJobs /\ Published(directory)'
      /\ \A q \in Publishers : Occupied(publisher[q]) =>
           publisher[q].job \in locks' /\ publisher[q].job # job
  BY <1>4 DEF EInv
<1> QED
  BY <1>2, <1>3, <1>4, <1>5, ProcessMoves

LEMMA LeavingKeeps ==
  ASSUME EInv, NEW p \in Publishers,
         OutputTaken(p) \/ CommandEnds(p) \/ CommandFails(p) \/ CommandKilled(p)
  PROVE  EInv'
<1>1. /\ publisher' = [publisher EXCEPT ![p] = AwayPublisher] /\ Occupied(publisher[p])
      /\ locks' \in {locks, locks \ {publisher[p].job}}
      /\ UNCHANGED <<selection, directory>>
      /\ stagings' \in {stagings, stagings \ {publisher[p].job}}
  BY DEF OutputTaken, CommandEnds, CommandFails, CommandKilled, Unlock, PublisherAt, Occupied
<1>2. stagings' \subseteq EvidenceJobs
  BY <1>1 DEF EInv
<1> QED
  BY <1>1, <1>2, ProcessLeaves

LEMMA InputOfIs ==
  ASSUME EInv, NEW job \in 0..MostShards, InputOf(job) # Missing
  PROVE  GoodInput(InputOf(job))
<1>1. selection \in DOMAIN Selections /\ DOMAIN Selections # {} /\ Published(directory)
  BY DEF EInv
<1>2. MostShards \in Nat /\ Partition \in EvidenceJobs
  BY <1>1, JobsAre
<1>3. CASE job = 0
  <2>1. InputOf(job) = <<selection, 0>>
    BY <1>3 DEF InputOf
  <2>2. 0 <= Shards(selection) /\ 0 \in 0..MostShards
    BY <1>1, <1>2, ShardsIs
  <2> QED
    BY <1>1, <2>1, <2>2 DEF GoodInput
<1>4. CASE job # 0
  <2>1. ~(job > MostShards)
    BY <1>2
  <2>2. directory[Partition] # Missing
    BY <1>4, <2>1 DEF InputOf
  <2>3. Cut(directory[Partition])
    BY <1>1, <1>2, <2>2 DEF Published, OutputOf
  <2>4. PICK v \in DOMAIN Selections : directory[Partition] = <<v, Manifest(v)>>
    BY <2>3 DEF Cut
  <2>5. directory[Partition][1] = v
    BY <2>4
  <2>6. job <= Shards(v) /\ InputOf(job) = <<v, job>>
    BY <1>4, <2>1, <2>2, <2>5 DEF InputOf
  <2> QED
    BY <2>6 DEF GoodInput
<1> QED
  BY <1>3, <1>4

LEMMA BeginKeeps ==
  ASSUME EInv, NEW p \in Publishers, BeginWork(p)
  PROVE  EInv'
<1>1. PICK b, job, input, cut :
        b = publisher[p] /\ job = b.job /\ input = InputOf(job) /\ cut = directory[Partition]
  OBVIOUS
<1>2. /\ b.at = "claimed" /\ (job = Merging => cut # Missing) /\ input # Missing
      /\ stagings' = stagings \cup {job} /\ UNCHANGED <<selection, directory, locks>>
  BY <1>1 DEF BeginWork, PublisherAt
<1>3. PICK place, given, row :
        /\ place = IF Collecting(job) THEN "collecting"
                   ELSE IF job = Merging THEN "verifying" ELSE "cutting"
        /\ given = IF job = Merging THEN cut ELSE input
        /\ row = IF Collecting(job) THEN UnreadRows(input) ELSE <<>>
  OBVIOUS
<1>4. /\ Shaped(b) /\ Working(b) /\ DOMAIN publisher = Publishers /\ Published(directory)
      /\ DOMAIN Selections # {} /\ Occupied(b) /\ job \in EvidenceJobs /\ b.got = <<>>
      /\ b.sources = <<>>
  BY <1>1, <1>2, ProcessIs DEF Working, Occupied
<1>5. PICK r : r = [b EXCEPT !.at = place, !.input = given, !.row = row]
  OBVIOUS
<1>6. publisher' = [publisher EXCEPT ![p] = r]
  BY <1>1, <1>3, <1>4, <1>5 DEF BeginWork
<1>7. r = [job |-> job, at |-> place, input |-> given, row |-> row, policies |-> b.policies,
           sources |-> <<>>, got |-> <<>>, again |-> b.again]
  BY <1>1, <1>4, <1>5 DEF Shaped
<1>8. Shaped(r) /\ r.job = job /\ r.at = place /\ r.input = given /\ r.row = row
      /\ r.got = <<>> /\ r.sources = <<>>
  BY <1>7 DEF Shaped
<1>9. IsList(<<>>, 0) /\ Len(<<>>) = 0
  BY DEF IsList
<1>13. stagings' \subseteq EvidenceJobs /\ Published(directory)' /\ UNCHANGED <<selection, locks>>
  BY <1>2, <1>4 DEF EInv
<1>10. CASE job \in 0..MostShards
  <2>1. Collecting(job) /\ job # Merging /\ job # Partition
    BY <1>4, <1>10, JobsAre
  <2>2. place = "collecting" /\ given = input /\ row = UnreadRows(input)
    BY <1>3, <2>1
  <2>3. GoodInput(input)
    BY <1>1, <1>2, <1>10, InputOfIs
  <2>4. Len(InputRows(input)) \in Nat /\ DOMAIN InputRows(input) = 1..Len(InputRows(input))
    BY <2>3, InputIs, ListIs
  <2>5. IsList(row, Len(InputRows(input)))
    BY <2>2, <2>4 DEF UnreadRows, IsList
  <2>6. TellsFirst(<<>>, InputRows(input))
    BY <1>9, <2>4 DEF TellsFirst
  <2>7. Working(r)
    BY <1>4, <1>8, <1>10, <2>2, <2>3, <2>5, <2>6 DEF Working
  <2> QED
    BY <1>1, <1>4, <1>6, <1>8, <1>13, <2>7, ProcessWorks
<1>11. CASE job = Merging
  <2>1. ~Collecting(job)
    BY <1>4, <1>11, JobsAre
  <2>2. place = "verifying" /\ given = cut /\ cut # Missing
    BY <1>2, <1>3, <1>11, <2>1
  <2>3. PICK v \in DOMAIN Selections : cut = <<v, Manifest(v)>>
    BY <1>1, <1>4, <2>2, JobsAre DEF Published, OutputOf, Cut
  <2>4. TellsFirst(<<>>, Selections[v]) /\ AllAgree(<<>>) /\ EndOf(Manifest(v), 0) = 0
    BY <1>9, SelectionIs DEF TellsFirst, AllAgree, EndOf
  <2>5. Verifying(r)
    BY <1>8, <1>9, <1>11, <2>2, <2>3, <2>4 DEF Verifying
  <2>6. Working(r)
    BY <1>4, <1>8, <2>2, <2>5 DEF Working
  <2> QED
    BY <1>1, <1>4, <1>6, <1>8, <1>13, <2>6, ProcessWorks
<1>12. CASE job = Partition
  <2>1. ~Collecting(job) /\ job # Merging /\ job # 0 /\ job > MostShards
    BY <1>4, <1>12, JobsAre
  <2>2. place = "cutting" /\ given = <<selection, 0>>
    BY <1>1, <1>3, <2>1 DEF InputOf
  <2>3. given[1] \in DOMAIN Selections
    BY <2>2 DEF EInv
  <2>4. Working(r)
    BY <1>4, <1>8, <1>12, <2>2, <2>3 DEF Working
  <2> QED
    BY <1>1, <1>4, <1>6, <1>8, <1>13, <2>4, ProcessWorks
<1> QED
  BY <1>4, <1>10, <1>11, <1>12, JobsAre

LEMMA ActivateKeeps ==
  ASSUME EInv, NEW p \in Publishers, ActivateOutput(p)
  PROVE  EInv'
<1>1. PICK b, job : b = publisher[p] /\ job = b.job
  OBVIOUS
<1>2. /\ b.at = "ready" /\ directory' = [directory EXCEPT ![job] = b.got]
      /\ stagings' = stagings \ {job} /\ UNCHANGED <<selection, locks>>
  BY <1>1 DEF ActivateOutput, PublisherAt
<1>3. /\ Shaped(b) /\ Working(b) /\ DOMAIN publisher = Publishers /\ Published(directory)
      /\ Occupied(b) /\ job \in EvidenceJobs /\ OutputOf(job, b.got)
  BY <1>1, <1>2, ProcessIs DEF Working, Occupied
<1>4. Published(directory)'
  <2>1. /\ directory = [x \in EvidenceJobs |-> directory[x]]
        /\ \A x \in EvidenceJobs : directory[x] = Missing \/ OutputOf(x, directory[x])
    BY <1>3 DEF Published
  <2>2. /\ directory' = [x \in EvidenceJobs |-> directory'[x]]
        /\ \A x \in EvidenceJobs : directory'[x] = IF x = job THEN b.got ELSE directory[x]
    BY <1>2, <2>1
  <2>3. \A x \in EvidenceJobs : directory'[x] = Missing \/ OutputOf(x, directory'[x])
    BY <1>3, <2>1, <2>2
  <2> QED
    BY <2>2, <2>3 DEF Published, Missing
<1>5. PICK r : r = [b EXCEPT !.at = "committed"]
  OBVIOUS
<1>6. publisher' = [publisher EXCEPT ![p] = r]
  BY <1>1, <1>5 DEF ActivateOutput, Step
<1>7. r = [job |-> job, at |-> "committed", input |-> b.input, row |-> b.row,
           policies |-> b.policies, sources |-> b.sources, got |-> b.got, again |-> b.again]
  BY <1>1, <1>3, <1>5 DEF Shaped
<1>8. Shaped(r) /\ r.job = job /\ r.at = "committed" /\ r.got = b.got
  BY <1>7 DEF Shaped
<1>9. Working(r)
  BY <1>3, <1>8 DEF Working
<1>10. stagings' \subseteq EvidenceJobs /\ UNCHANGED <<selection, locks>>
  BY <1>2 DEF EInv
<1> QED
  BY <1>1, <1>3, <1>4, <1>6, <1>8, <1>9, <1>10, ProcessWorks

LEMMA CuttingKeeps ==
  ASSUME EInv, NEW p \in Publishers, CutShards(p) \/ RecheckSelection(p)
  PROVE  EInv'
<1>1. PICK b : b = publisher[p]
  OBVIOUS
<1>2. /\ Shaped(b) /\ Working(b) /\ DOMAIN publisher = Publishers /\ Published(directory)
      /\ stagings \subseteq EvidenceJobs
  BY <1>1, ProcessIs
<1>3. /\ UNCHANGED <<selection, directory, locks, stagings>>
  BY DEF CutShards, RecheckSelection
<1>4. CASE CutShards(p)
  <2>1. b.at = "cutting"
    BY <1>1, <1>4 DEF CutShards, PublisherAt
  <2>2. PICK v : v = b.input[1]
    OBVIOUS
  <2>3. PICK r : r = [b EXCEPT !.at = "cut", !.got = <<v, Manifest(v)>>]
    OBVIOUS
  <2>4. publisher' = [publisher EXCEPT ![p] = r]
    BY <1>1, <1>2, <1>4, <2>2, <2>3 DEF CutShards
  <2>5. r = [job |-> b.job, at |-> "cut", input |-> b.input, row |-> b.row,
             policies |-> b.policies, sources |-> b.sources, got |-> <<v, Manifest(v)>>,
             again |-> b.again]
    BY <1>2, <2>3 DEF Shaped
  <2>6. Shaped(r) /\ r.job = b.job /\ r.at = "cut" /\ r.got = <<v, Manifest(v)>>
        /\ r.input = b.input
    BY <2>5 DEF Shaped
  <2>7. v \in DOMAIN Selections /\ b.job = Partition /\ b.job \in EvidenceJobs
    BY <1>2, <2>1, <2>2 DEF Working
  <2>8. Cut(r.got)
    BY <2>6, <2>7 DEF Cut
  <2>9. Working(r)
    BY <2>2, <2>6, <2>7, <2>8 DEF Working
  <2> QED
    BY <1>1, <1>2, <1>3, <2>1, <2>4, <2>6, <2>9, ProcessWorks DEF Occupied, EInv
<1>5. CASE RecheckSelection(p)
  <2>1. b.at = "cut"
    BY <1>1, <1>5 DEF RecheckSelection, PublisherAt
  <2>3. PICK r : r = [b EXCEPT !.at = "ready"]
    OBVIOUS
  <2>4. publisher' = [publisher EXCEPT ![p] = r]
    BY <1>1, <1>5, <2>3 DEF RecheckSelection, Step
  <2>5. r = [job |-> b.job, at |-> "ready", input |-> b.input, row |-> b.row,
             policies |-> b.policies, sources |-> b.sources, got |-> b.got,
             again |-> b.again]
    BY <1>2, <2>3 DEF Shaped
  <2>6. Shaped(r) /\ r.job = b.job /\ r.at = "ready" /\ r.got = b.got
    BY <2>5 DEF Shaped
  <2>7. b.job = Partition /\ b.job \in EvidenceJobs /\ Cut(b.got)
    BY <1>2, <2>1 DEF Working
  <2>8. Partition # Merging /\ Partition \notin 0..MostShards
    <3>1. DOMAIN Selections # {}
      BY DEF EInv
    <3> QED
      BY <3>1, JobsAre
  <2>9. OutputOf(r.job, r.got)
    BY <2>6, <2>7, <2>8 DEF OutputOf
  <2>10. Working(r)
    BY <2>6, <2>7, <2>9 DEF Working
  <2> QED
    BY <1>1, <1>2, <1>3, <2>1, <2>4, <2>6, <2>10, ProcessWorks DEF Occupied, EInv
<1> QED
  BY <1>4, <1>5

-----------------------------------------------------------------------------
(* Collecting.                                                             *)
LEMMA RowsKeep ==
  ASSUME EInv, NEW p \in Publishers, PublisherAt(p, "collecting"), NEW rows, NEW policies,
         IsList(rows, Len(InputRows(publisher[p].input))),
         publisher' = [publisher EXCEPT
           ![p] = [publisher[p] EXCEPT !.row = rows, !.policies = policies]],
         UNCHANGED <<selection, directory, locks, stagings>>
  PROVE  EInv'
<1>1. PICK b : b = publisher[p]
  OBVIOUS
<1>2. /\ Shaped(b) /\ Working(b) /\ b.at = "collecting" /\ Published(directory)
      /\ stagings \subseteq EvidenceJobs
  BY <1>1, ProcessIs DEF PublisherAt
<1>3. PICK r : r = [b EXCEPT !.row = rows, !.policies = policies]
  OBVIOUS
<1>4. publisher' = [publisher EXCEPT ![p] = r]
  BY <1>1, <1>3
<1>5. r = [job |-> b.job, at |-> b.at, input |-> b.input, row |-> rows,
           policies |-> policies, sources |-> b.sources, got |-> b.got, again |-> b.again]
  BY <1>2, <1>3 DEF Shaped
<1>6. /\ Shaped(r) /\ r.job = b.job /\ r.at = "collecting" /\ r.got = b.got
      /\ r.input = b.input /\ r.row = rows
  BY <1>2, <1>5 DEF Shaped
<1>7. Working(r)
  BY <1>1, <1>2, <1>6 DEF Working
<1> QED
  BY <1>1, <1>2, <1>4, <1>6, <1>7, ProcessWorks DEF Occupied, EInv
    
(* The rows of a process that collects.                                    *)
LEMMA CollectingIs ==
  ASSUME EInv, NEW p \in Publishers, PublisherAt(p, "collecting"),
         NEW n, n = Len(InputRows(publisher[p].input))
  PROVE  /\ n \in Nat /\ IsList(publisher[p].row, n) /\ DOMAIN publisher[p].row = 1..n
         /\ Len(publisher[p].row) = n
         /\ Shaped(publisher[p]) /\ DOMAIN publisher = Publishers
         /\ publisher[p] = [publisher[p] EXCEPT !.policies = publisher[p].policies]
         /\ TellsFirst(publisher[p].got, InputRows(publisher[p].input))
         /\ GoodInput(publisher[p].input) /\ publisher[p].job \in 0..MostShards
<1>1. PICK b : b = publisher[p]
  OBVIOUS
<1>2. Shaped(b) /\ Working(b) /\ DOMAIN publisher = Publishers /\ b.at = "collecting"
  BY <1>1, ProcessIs DEF PublisherAt
<1>3. /\ GoodInput(b.input) /\ IsList(b.row, n) /\ TellsFirst(b.got, InputRows(b.input))
      /\ b.job \in 0..MostShards
  BY <1>1, <1>2 DEF Working
<1>4. n \in Nat
  BY <1>1, <1>3, InputIs
<1>5. b = [b EXCEPT !.policies = b.policies]
  BY <1>2 DEF Shaped
<1> QED
  BY <1>1, <1>2, <1>3, <1>4, <1>5, ListIs

LEMMA RowMovedIs ==
  ASSUME EInv, NEW p \in Publishers, PublisherAt(p, "collecting"),
         NEW i, NEW place, publisher' = RowMoved(p, i, place),
         UNCHANGED <<selection, directory, locks, stagings>>
  PROVE  EInv'
<1>1. PICK b, n : b = publisher[p] /\ n = Len(InputRows(b.input))
  OBVIOUS
<1>2. /\ n \in Nat /\ IsList(b.row, n) /\ Shaped(b) /\ DOMAIN publisher = Publishers
  BY <1>1, CollectingIs
<1>3. PICK rows : rows = [b.row EXCEPT ![i] = [b.row[i] EXCEPT !.at = place]]
  OBVIOUS
<1>4. IsList(rows, n)
  BY <1>2, <1>3 DEF IsList
<1>5. [b EXCEPT !.row = rows] = [b EXCEPT !.row = rows, !.policies = b.policies]
  BY <1>2 DEF Shaped
<1>6. publisher' = [publisher EXCEPT ![p] = [b EXCEPT !.row = rows]]
  BY <1>1, <1>3 DEF RowMoved
<1> QED
  BY <1>1, <1>4, <1>5, <1>6, RowsKeep

LEMMA DecidedIs ==
  ASSUME EInv, NEW p \in Publishers, PublisherAt(p, "collecting"),
         NEW which, NEW said, NEW policies,
         publisher' = [publisher EXCEPT ![p] =
           [publisher[p] EXCEPT !.row = Decided(p, which, said), !.policies = policies]],
         UNCHANGED <<selection, directory, locks, stagings>>
  PROVE  EInv'
<1>1. PICK b, n : b = publisher[p] /\ n = Len(InputRows(b.input))
  OBVIOUS
<1>2. n \in Nat /\ DOMAIN b.row = 1..n
  BY <1>1, CollectingIs
<1>3. PICK rows : rows = Decided(p, which, said)
  OBVIOUS
<1>4. IsList(rows, n)
  BY <1>1, <1>2, <1>3 DEF IsList, Decided
<1> QED
  BY <1>1, <1>3, <1>4, RowsKeep

LEMMA AskingKeeps ==
  ASSUME EInv, NEW p \in Publishers, NEW i, RowAsksRobots(p, i)
  PROVE  EInv'
<1>1. PublisherAt(p, "collecting") /\ UNCHANGED <<selection, directory, locks, stagings>>
  BY DEF RowAsksRobots
<1>2. CASE CachedFor(p, i) # {}
  <2>1. PICK k \in CachedFor(p, i) :
          publisher' = [publisher EXCEPT
            ![p].row = Decided(p, {i}, publisher[p].policies[k].said)]
    BY <1>2 DEF RowAsksRobots
  <2>2. PICK b, rows, said : /\ b = publisher[p] /\ said = publisher[p].policies[k].said
                             /\ rows = Decided(p, {i}, said)
    OBVIOUS
  <2>3. publisher' = [publisher EXCEPT ![p] = [b EXCEPT !.row = rows]]
    BY <2>1, <2>2
  <2>4. [b EXCEPT !.row = rows] = [b EXCEPT !.row = rows, !.policies = b.policies]
    BY <2>2, ProcessIs DEF Shaped
  <2>5. publisher' = [publisher EXCEPT ![p] =
          [publisher[p] EXCEPT !.row = Decided(p, {i}, said), !.policies = b.policies]]
    BY <2>2, <2>3, <2>4
  <2> QED
    BY <1>1, <2>5, DecidedIs
<1>3. CASE CachedFor(p, i) = {}
  <2>1. PICK place : publisher' = RowMoved(p, i, place)
    BY <1>3 DEF RowAsksRobots
  <2> QED
    BY <1>1, <2>1, RowMovedIs
<1> QED
  BY <1>2, <1>3

LEMMA CollectingKeeps ==
  ASSUME EInv, NEW p \in Publishers, NEW i,
         StartRow(p) \/ RowAsksRobots(p, i) \/ RowRobotsAnswer(p, i) \/ PageAnswers(p, i)
  PROVE  EInv'
<1>1. CASE StartRow(p)
  <2>1. PublisherAt(p, "collecting") /\ UNCHANGED <<selection, directory, locks, stagings>>
        /\ publisher' = RowMoved(p, Min(RowsAt(p, {"unread"})), "robots")
    BY <1>1 DEF StartRow
  <2> QED
    BY <2>1, RowMovedIs
<1>2. CASE RowAsksRobots(p, i)
  BY <1>2, AskingKeeps
<1>3. CASE RowRobotsAnswer(p, i)
  <2>1. PublisherAt(p, "collecting") /\ UNCHANGED <<selection, directory, locks, stagings>>
    BY <1>3 DEF RowRobotsAnswer
  <2>2. PICK said :
          publisher' = [publisher EXCEPT
            ![p].row = Decided(p, {i} \cup OfHost(p, RowsAt(p, {"joined"}), i), said),
            ![p].policies = Remembered(@, TheRow(p, i).host, said)]
    BY <1>3 DEF RowRobotsAnswer
  <2>3. PICK b, rows, policies :
          /\ b = publisher[p]
          /\ rows = Decided(p, {i} \cup OfHost(p, RowsAt(p, {"joined"}), i), said)
          /\ policies = Remembered(b.policies, TheRow(p, i).host, said)
    OBVIOUS
  <2>4. Shaped(b) /\ DOMAIN publisher = Publishers
    BY <2>3, ProcessIs
  <2>5. [b EXCEPT !.row = rows].policies = b.policies
    BY <2>4 DEF Shaped
  <2>6. publisher' = [publisher EXCEPT ![p] = [b EXCEPT !.row = rows, !.policies = policies]]
    BY <2>2, <2>3, <2>4, <2>5
  <2> QED
    BY <2>1, <2>3, <2>6, DecidedIs
<1>4. CASE PageAnswers(p, i)
  <2>1. PublisherAt(p, "collecting") /\ UNCHANGED <<selection, directory, locks, stagings>>
    BY <1>4 DEF PageAnswers
  <2>2. PICK place : publisher' = RowMoved(p, i, place)
    BY <1>4 DEF PageAnswers
  <2> QED
    BY <2>1, <2>2, RowMovedIs
<1> QED
  BY <1>1, <1>2, <1>3, <1>4

LEMMA TellsNext ==
  ASSUME NEW verdicts, NEW rows, TellsFirst(verdicts, rows), Len(rows) \in Nat, NEW v,
         Len(verdicts) < Len(rows), v.row = rows[Len(verdicts) + 1]
  PROVE  TellsFirst(Append(verdicts, v), rows)
<1>1. PICK n \in Nat : n = Len(verdicts)
  BY DEF TellsFirst
<1>2. IsList(verdicts, n) /\ \A i \in 1..n : verdicts[i].row = rows[i]
  BY <1>1 DEF TellsFirst
<1>3. /\ IsList(Append(verdicts, v), n + 1) /\ Len(Append(verdicts, v)) = n + 1
      /\ \A i \in 1..n : Append(verdicts, v)[i] = verdicts[i]
      /\ Append(verdicts, v)[n + 1] = v
  BY <1>2, ListAppend
<1>4. \A i \in 1..(n + 1) : Append(verdicts, v)[i].row = rows[i]
  <2> TAKE i \in 1..(n + 1)
  <2>1. CASE i = n + 1
    BY <2>1, <1>1, <1>3
  <2>2. CASE i # n + 1
    <3>1. i \in 1..n
      BY <2>2
    <3> QED
      BY <3>1, <1>2, <1>3
  <2> QED
    BY <2>1, <2>2
<1>5. n + 1 <= Len(rows) /\ n + 1 \in Nat
  BY <1>1
<1> QED
  BY <1>3, <1>4, <1>5 DEF TellsFirst

LEMMA WritingKeeps ==
  ASSUME EInv, NEW p \in Publishers, WriteNext(p)
  PROVE  EInv'
<1>1. PICK b, rows, n : b = publisher[p] /\ rows = InputRows(b.input) /\ n = Len(rows)
  OBVIOUS
<1>2. /\ PublisherAt(p, "collecting") /\ b.at = "collecting"
      /\ UNCHANGED <<selection, directory, locks, stagings>>
  BY <1>1 DEF WriteNext, PublisherAt
<1>3. /\ n \in Nat /\ DOMAIN b.row = 1..n /\ IsList(b.row, n) /\ Shaped(b)
      /\ DOMAIN publisher = Publishers /\ TellsFirst(b.got, rows) /\ GoodInput(b.input)
      /\ b.job \in 0..MostShards
  BY <1>1, <1>2, CollectingIs
<1>4. PICK next, v : next = Len(b.got) + 1 /\ v = Verdict(p, next)
  OBVIOUS
<1>5. next \in 1..n /\ publisher' = [publisher EXCEPT ![p].got = Append(@, v)]
  BY <1>1, <1>3, <1>4 DEF WriteNext, Reported, RowsAt
<1>6. v.row = rows[next]
  BY <1>1, <1>4 DEF Verdict, TheRow
<1>7. Len(b.got) \in Nat /\ Len(b.got) < n
  BY <1>3, <1>4, <1>5 DEF TellsFirst
<1>8. PICK got : got = Append(b.got, v)
  OBVIOUS
<1>9. TellsFirst(got, rows)
  BY <1>1, <1>3, <1>4, <1>6, <1>7, <1>8, TellsNext
<1>10. PICK r : r = [b EXCEPT !.got = got]
  OBVIOUS
<1>11. publisher' = [publisher EXCEPT ![p] = r]
  BY <1>1, <1>5, <1>8, <1>10
<1>12. r = [job |-> b.job, at |-> b.at, input |-> b.input, row |-> b.row,
            policies |-> b.policies, sources |-> b.sources, got |-> got, again |-> b.again]
  BY <1>3, <1>10 DEF Shaped
<1>13. /\ Shaped(r) /\ r.job = b.job /\ r.at = "collecting" /\ r.got = got
       /\ r.input = b.input /\ r.row = b.row
  BY <1>2, <1>12 DEF Shaped
<1>14. b.job \in EvidenceJobs
  BY <1>1, ProcessIs DEF Working
<1>15. Working(r)
  BY <1>1, <1>3, <1>9, <1>13, <1>14 DEF Working
<1>16. Published(directory) /\ stagings \subseteq EvidenceJobs
  BY ProcessIs
<1> QED
  BY <1>1, <1>2, <1>11, <1>13, <1>15, <1>16, ProcessWorks DEF Occupied, EInv
    
LEMMA CollectedKeeps ==
  ASSUME EInv, NEW p \in Publishers, CollectionDone(p)
  PROVE  EInv'
<1>1. PICK b, rows, n : b = publisher[p] /\ rows = InputRows(b.input) /\ n = Len(rows)
  OBVIOUS
<1>2. /\ PublisherAt(p, "collecting") /\ b.at = "collecting" /\ Len(b.got) = Len(b.row)
      /\ UNCHANGED <<selection, directory, locks, stagings>>
  BY <1>1 DEF CollectionDone, PublisherAt
<1>3. /\ Len(b.row) = n /\ Shaped(b)
      /\ DOMAIN publisher = Publishers /\ TellsFirst(b.got, rows) /\ GoodInput(b.input)
      /\ b.job \in 0..MostShards
  BY <1>1, <1>2, CollectingIs
<1>4. PICK d : d = <<b.input, b.got, Counts(b.got)>>
  OBVIOUS
<1>5. Collected(d)
  BY <1>1, <1>2, <1>3, <1>4 DEF Collected, Tells
<1>6. PICK r : r = [b EXCEPT !.at = "ready", !.row = <<>>, !.policies = <<>>, !.got = d]
  OBVIOUS
<1>7. r = [job |-> b.job, at |-> "ready", input |-> b.input, row |-> <<>>,
           policies |-> <<>>, sources |-> b.sources, got |-> d, again |-> b.again]
  BY <1>3, <1>6 DEF Shaped
<1>8. publisher' = [publisher EXCEPT ![p] = r]
  <2>1. b.input = publisher[p].input /\ b.got = publisher[p].got
    BY <1>1
  <2>2. PICK x : x = [b EXCEPT !.at = "ready", !.row = <<>>, !.policies = <<>>]
    OBVIOUS
  <2>3. x.got = b.got
    BY <1>3, <2>2 DEF Shaped
  <2> QED
    BY <1>1, <1>3, <1>4, <1>6, <2>2, <2>3 DEF CollectionDone
<1>9. Shaped(r) /\ r.job = b.job /\ r.at = "ready" /\ r.got = d
  BY <1>7 DEF Shaped
<1>10. /\ Partition \notin 0..MostShards /\ Merging \notin 0..MostShards
       /\ b.job \in EvidenceJobs
  <2>1. DOMAIN Selections # {} /\ b.job \in EvidenceJobs
    BY <1>1, ProcessIs DEF Working
  <2> QED
    BY <2>1, JobsAre
<1>11. OutputOf(r.job, r.got)
  BY <1>3, <1>5, <1>9, <1>10 DEF OutputOf
<1>12. Working(r)
  BY <1>9, <1>10, <1>11 DEF Working
<1>13. Published(directory) /\ stagings \subseteq EvidenceJobs
  BY ProcessIs
<1> QED
  BY <1>1, <1>2, <1>8, <1>9, <1>12, <1>13, ProcessWorks DEF Occupied, EInv
    
-----------------------------------------------------------------------------
(* Merging.                                                                *)
LEMMA TellsOfShard ==
  ASSUME NEW v \in DOMAIN Selections, NEW k \in 1..Shards(v), ManifestValid(v, Manifest(v)),
         NEW got, TellsFirst(got, Selections[v]), AllAgree(got),
         Len(got) = EndOf(Manifest(v), k - 1),
         NEW more, Tells(more, ShardRows(v, k)), Accounts(ShardRows(v, k), more)
  PROVE  /\ TellsFirst(got \o more, Selections[v]) /\ AllAgree(got \o more)
         /\ Len(got \o more) = EndOf(Manifest(v), k)
<1>1. PICK a, e : a = Manifest(v)[k][1] /\ e = Manifest(v)[k][2]
  OBVIOUS
<1>2. PICK m, s : m = Len(got) /\ s = Selections[v]
  OBVIOUS
<1>3. /\ IsList(Manifest(v), Shards(v)) /\ a \in Int /\ e \in Int /\ e <= Len(s)
      /\ Shards(v) \in Nat /\ k # 0
  BY <1>1, <1>2, ManifestIs, ShardsIs
<1>4. k \in DOMAIN Manifest(v)
  BY <1>3, ListIs
<1>5. a = EndOf(Manifest(v), k - 1) + 1 /\ e - a + 1 \in 1..ShardSize
  BY <1>1, <1>4 DEF ManifestValid
<1>6. /\ m \in Nat /\ IsList(got, m) /\ Len(s) \in Nat
      /\ \A i \in 1..m : got[i].row = s[i] /\ PolicyAgrees(got[i])
  BY <1>2, SelectionIs DEF TellsFirst, AllAgree
<1>7. a = m + 1 /\ ShardSize \in Nat
  BY <1>2, <1>5, EvidenceConstants
<1>8. a <= e
  BY <1>3, <1>5, <1>7
<1>9. /\ Len(ShardRows(v, k)) = e - a + 1
      /\ IsList(ShardRows(v, k), e - a + 1)
      /\ \A i \in 1..(e - a + 1) : ShardRows(v, k)[i] = s[a + i - 1]
  BY <1>1, <1>2, <1>8, ShardRowsIs
<1>10. PICK n : n = e - m
  OBVIOUS
<1>11. n \in Nat /\ e - a + 1 = n /\ m + n = e
  BY <1>3, <1>6, <1>7, <1>8, <1>10
<1>12. /\ IsList(ShardRows(v, k), n) /\ Len(more) = n /\ IsList(more, n)
       /\ \A i \in 1..n : ShardRows(v, k)[i] = s[a + i - 1]
  BY <1>9, <1>11 DEF Tells, TellsFirst
<1>13. \A i \in 1..n : more[i].row = s[m + i] /\ PolicyAgrees(more[i])
  <2> TAKE i \in 1..n
  <2>1. i \in DOMAIN ShardRows(v, k)
    BY <1>11, <1>12, ListIs
  <2>2. more[i].row = ShardRows(v, k)[i] /\ PolicyAgrees(more[i])
    BY <2>1 DEF Accounts
  <2>3. a + i - 1 = m + i
    BY <1>6, <1>7
  <2> QED
    BY <2>2, <2>3, <1>12
<1>14. PICK all : all = got \o more
  OBVIOUS
<1>15. /\ IsList(all, m + n) /\ Len(all) = m + n
       /\ \A i \in 1..m : all[i] = got[i]
       /\ \A i \in 1..n : all[m + i] = more[i]
  <2>1. m \in Nat /\ IsList(got, m) /\ n \in Nat /\ IsList(more, n)
    BY <1>6, <1>11, <1>12
  <2>2. Joins(all, got, more)
    BY <1>14 DEF Joins
  <2> QED
    BY <2>1, <2>2, ListConcat
<1>16. \A i \in 1..(m + n) : all[i].row = s[i] /\ PolicyAgrees(all[i])
  <2> TAKE i \in 1..(m + n)
  <2>1. CASE i \in 1..m
    BY <2>1, <1>6, <1>15
  <2>2. CASE i \notin 1..m
    <3>1. PICK j : j = i - m
      OBVIOUS
    <3>2. j \in 1..n /\ m + j = i
      BY <3>1, <2>2, <1>6, <1>11
    <3>3. all[m + j] = more[j] /\ more[j].row = s[m + j] /\ PolicyAgrees(more[j])
      BY <3>2, <1>13, <1>15
    <3> QED
      BY <3>2, <3>3
  <2> QED
    BY <2>1, <2>2
<1>17. Len(all) = e /\ Len(all) \in Nat /\ EndOf(Manifest(v), k) = e
  BY <1>1, <1>3, <1>6, <1>11, <1>15 DEF EndOf
<1>18. TellsFirst(all, s)
  BY <1>3, <1>15, <1>16, <1>17 DEF TellsFirst
<1>19. AllAgree(all)
  BY <1>15, <1>16 DEF AllAgree
<1> QED
  BY <1>2, <1>14, <1>17, <1>18, <1>19

LEMMA ShardVerifyKeeps ==
  ASSUME EInv, NEW p \in Publishers, VerifyShard(p)
  PROVE  EInv'
<1>1. PICK b : b = publisher[p]
  OBVIOUS
<1>2. /\ Shaped(b) /\ Working(b) /\ DOMAIN publisher = Publishers /\ Published(directory)
      /\ stagings \subseteq EvidenceJobs /\ DOMAIN Selections # {}
      /\ b.at = "verifying" /\ UNCHANGED <<selection, directory, locks, stagings>>
  BY <1>1, ProcessIs DEF VerifyShard, PublisherAt
<1>3. b.job = Merging /\ b.job \in EvidenceJobs /\ Verifying(b)
  BY <1>2 DEF Working, Verifying
<1>4. PICK v \in DOMAIN Selections :
       /\ b.input = <<v, Manifest(v)>> /\ TellsFirst(b.got, Selections[v]) /\ AllAgree(b.got)
       /\ Len(b.sources) \in Nat /\ IsList(b.sources, Len(b.sources))
       /\ Len(b.got) = EndOf(Manifest(v), Len(b.sources))
  BY <1>2, <1>3 DEF Verifying
<1>5. PICK n, k, d : n = Len(b.sources) /\ k = n + 1 /\ d = directory[k]
  OBVIOUS
<1>6. b.input[1] = v /\ b.input[2] = Manifest(v)
  BY <1>4
<1>7. /\ k <= Shards(v) /\ Verified(b.input, k)
      /\ publisher' = [publisher EXCEPT ![p].sources = Append(@, d), ![p].got = @ \o d[2]]
  BY <1>1, <1>5, <1>6 DEF VerifyShard
<1>8. k \in 1..Shards(v) /\ k \in 0..MostShards /\ n \in Nat /\ k - 1 = n /\ k # 0
  <2>1. Shards(v) <= MostShards /\ MostShards \in Nat /\ Shards(v) \in Nat
    BY MostIs, ShardsIs
  <2> QED
    BY <2>1, <1>4, <1>5, <1>7
<1>9. /\ ManifestValid(v, Manifest(v)) /\ d # Missing /\ d[1] = <<v, k>>
      /\ Accounts(ShardRows(v, k), d[2])
  BY <1>5, <1>6, <1>7 DEF Verified
<1>10. Collected(d)
  <2>1. k \in EvidenceJobs
    BY <1>2, <1>8, JobsAre
  <2> QED
    BY <2>1, <1>2, <1>5, <1>8, <1>9 DEF Published, OutputOf
<1>11. Tells(d[2], ShardRows(v, k))
  <2>1. d[1][1] = v /\ d[1][2] = k
    BY <1>9
  <2>2. InputRows(d[1]) = ShardRows(v, k)
    BY <2>1, <1>8 DEF InputRows
  <2> QED
    BY <2>2, <1>10 DEF Collected
<1>12. PICK got, sources : got = b.got \o d[2] /\ sources = Append(b.sources, d)
  OBVIOUS
<1>13. TellsFirst(got, Selections[v]) /\ AllAgree(got) /\ Len(got) = EndOf(Manifest(v), k)
  <2>1. Len(b.got) = EndOf(Manifest(v), k - 1)
    BY <1>4, <1>5, <1>8
  <2>2. PICK more, had : more = d[2] /\ had = b.got
    OBVIOUS
  <2>3. /\ k \in 1..Shards(v) /\ ManifestValid(v, Manifest(v))
        /\ TellsFirst(had, Selections[v]) /\ AllAgree(had) /\ Len(had) = EndOf(Manifest(v), k - 1)
        /\ Tells(more, ShardRows(v, k)) /\ Accounts(ShardRows(v, k), more)
    BY <1>4, <1>8, <1>9, <1>11, <2>1, <2>2
  <2>4. /\ TellsFirst(had \o more, Selections[v]) /\ AllAgree(had \o more)
        /\ Len(had \o more) = EndOf(Manifest(v), k)
    BY <2>3, TellsOfShard
  <2> QED
    BY <1>12, <2>2, <2>4
<1>14. Len(sources) = k /\ IsList(sources, k) /\ k \in Nat
  BY <1>4, <1>5, <1>8, <1>12, ListAppend
<1>15. PICK r : r = [b EXCEPT !.sources = sources, !.got = got]
  OBVIOUS
<1>16. publisher' = [publisher EXCEPT ![p] = r]
  <2>1. PICK x : x = [b EXCEPT !.sources = sources]
    OBVIOUS
  <2>2. x.got = b.got
    BY <2>1, <1>2 DEF Shaped
  <2> QED
    BY <2>1, <2>2, <1>1, <1>2, <1>7, <1>12, <1>15
<1>17. r = [job |-> b.job, at |-> b.at, input |-> b.input, row |-> b.row,
            policies |-> b.policies, sources |-> sources, got |-> got, again |-> b.again]
  BY <1>2, <1>15 DEF Shaped
<1>18. /\ Shaped(r) /\ r.job = b.job /\ r.at = "verifying" /\ r.input = b.input
       /\ r.got = got /\ r.sources = sources
  BY <1>2, <1>17 DEF Shaped
<1>19. Verifying(r)
  BY <1>3, <1>4, <1>13, <1>14, <1>18 DEF Verifying
<1>20. Working(r)
  BY <1>3, <1>18, <1>19 DEF Working
<1> QED
  BY <1>1, <1>2, <1>16, <1>18, <1>20, ProcessWorks DEF Occupied, EInv
    
LEMMA VerifiedKeeps ==
  ASSUME EInv, NEW p \in Publishers, AllVerified(p)
  PROVE  EInv'
<1>1. PICK b : b = publisher[p]
  OBVIOUS
<1>2. /\ Shaped(b) /\ Working(b) /\ DOMAIN publisher = Publishers /\ Published(directory)
      /\ stagings \subseteq EvidenceJobs
      /\ b.at = "verifying" /\ UNCHANGED <<selection, directory, locks, stagings>>
      /\ publisher' = [publisher EXCEPT ![p].at = "revalidating", ![p].again = 1]
  BY <1>1, ProcessIs DEF AllVerified, PublisherAt
<1>3. b.job = Merging /\ b.job \in EvidenceJobs /\ Verifying(b)
  BY <1>2 DEF Working, Verifying
<1>4. PICK v \in DOMAIN Selections :
       /\ b.input = <<v, Manifest(v)>> /\ TellsFirst(b.got, Selections[v]) /\ AllAgree(b.got)
       /\ Len(b.sources) \in Nat /\ IsList(b.sources, Len(b.sources))
       /\ Len(b.got) = EndOf(Manifest(v), Len(b.sources))
  BY <1>2, <1>3 DEF Verifying
<1>5. PICK n, m : n = Len(b.sources) /\ m = Manifest(v)
  OBVIOUS
<1>6. b.input[1] = v /\ b.input[2] = m
  BY <1>4, <1>5
<1>7. n = Shards(v) /\ MergeReportValid(v, MergeReport(p))
  BY <1>1, <1>5, <1>6 DEF AllVerified
<1>8. /\ n \in Nat /\ DOMAIN b.sources = 1..n /\ IsList(m, n) /\ DOMAIN m = 1..n /\ Len(m) = n
  BY <1>4, <1>5, <1>7, ListIs, ManifestIs
<1>9. m = [k \in DOMAIN MergeReport(p).sources |-> MergeReport(p).sources[k].rows]
  <2>1. MergeReport(p).sources =
          [k \in 1..n |-> [rows |-> m[k], counts |-> b.sources[k][3]]]
    BY <1>1, <1>6, <1>8 DEF MergeReport
  <2>2. [k \in DOMAIN MergeReport(p).sources |-> MergeReport(p).sources[k].rows]
          = [k \in 1..n |-> m[k]]
    BY <2>1
  <2> QED
    BY <2>2, <1>8 DEF IsList
<1>10. ManifestValid(v, m)
  BY <1>7, <1>9 DEF MergeReportValid
<1>11. Len(b.got) = Len(Selections[v])
  BY <1>4, <1>5, <1>8, <1>10 DEF ManifestValid
<1>12. PICK r : r = [b EXCEPT !.at = "revalidating", !.again = 1]
  OBVIOUS
<1>13. publisher' = [publisher EXCEPT ![p] = r]
  BY <1>1, <1>2, <1>12
<1>14. r = [job |-> b.job, at |-> "revalidating", input |-> b.input, row |-> b.row,
            policies |-> b.policies, sources |-> b.sources, got |-> b.got, again |-> 1]
  BY <1>2, <1>12 DEF Shaped
<1>15. /\ Shaped(r) /\ r.job = b.job /\ r.at = "revalidating" /\ r.input = b.input
       /\ r.got = b.got
  BY <1>14 DEF Shaped
<1>16. Verifying(r)
  BY <1>3, <1>4, <1>11, <1>15 DEF Verifying
<1>17. Working(r)
  BY <1>3, <1>15, <1>16 DEF Working
<1> QED
  BY <1>1, <1>2, <1>13, <1>15, <1>17, ProcessWorks DEF Occupied, EInv
    
LEMMA MergeKeeps ==
  ASSUME EInv, NEW p \in Publishers, VerifyAgain(p) \/ MergeDone(p)
  PROVE  EInv'
<1>1. PICK b : b = publisher[p]
  OBVIOUS
<1>2. /\ Shaped(b) /\ Working(b) /\ DOMAIN publisher = Publishers /\ Published(directory)
      /\ stagings \subseteq EvidenceJobs /\ DOMAIN Selections # {}
      /\ b.at = "revalidating" /\ UNCHANGED <<selection, directory, locks, stagings>>
  BY <1>1, ProcessIs DEF VerifyAgain, MergeDone, PublisherAt
<1>3. b.job = Merging /\ b.job \in EvidenceJobs /\ Verifying(b)
  BY <1>2 DEF Working, Verifying
<1>4. PICK v \in DOMAIN Selections :
       /\ b.input = <<v, Manifest(v)>> /\ TellsFirst(b.got, Selections[v]) /\ AllAgree(b.got)
       /\ Len(b.got) = Len(Selections[v])
  BY <1>2, <1>3 DEF Verifying
<1>5. CASE VerifyAgain(p)
  <2>1. PICK k : publisher' = [publisher EXCEPT ![p].again = k]
    BY <1>5 DEF VerifyAgain
  <2>2. PICK r : r = [b EXCEPT !.again = k]
    OBVIOUS
  <2>3. publisher' = [publisher EXCEPT ![p] = r]
    BY <1>1, <2>1, <2>2
  <2>4. r = [job |-> b.job, at |-> b.at, input |-> b.input, row |-> b.row,
             policies |-> b.policies, sources |-> b.sources, got |-> b.got, again |-> k]
    BY <1>2, <2>2 DEF Shaped
  <2>5. /\ Shaped(r) /\ r.job = b.job /\ r.at = "revalidating" /\ r.input = b.input
        /\ r.got = b.got
    BY <1>2, <2>4 DEF Shaped
  <2>6. Verifying(r)
    BY <1>3, <1>4, <2>5 DEF Verifying
  <2>7. Working(r)
    BY <1>3, <2>5, <2>6 DEF Working
  <2> QED
    BY <1>1, <1>2, <2>3, <2>5, <2>7, ProcessWorks DEF Occupied, EInv
<1>6. CASE MergeDone(p)
  <2>1. PICK report, d : report = MergeReport(p) /\ d = <<b.input, b.got, report>>
    OBVIOUS
  <2>2. publisher' = [publisher EXCEPT ![p].at = "ready", ![p].again = 0, ![p].sources = <<>>,
          ![p].got = <<b.input, @, report>>]
    BY <1>1, <1>6, <2>1 DEF MergeDone
  <2>3. PICK r : r = [b EXCEPT !.at = "ready", !.again = 0, !.sources = <<>>, !.got = d]
    OBVIOUS
  <2>4. publisher' = [publisher EXCEPT ![p] = r]
    <3>1. PICK x : x = [b EXCEPT !.at = "ready", !.again = 0, !.sources = <<>>]
      OBVIOUS
    <3>2. x.got = b.got
      BY <3>1, <1>2 DEF Shaped
    <3> QED
      BY <3>1, <3>2, <1>1, <1>2, <2>1, <2>2, <2>3
  <2>5. r = [job |-> b.job, at |-> "ready", input |-> b.input, row |-> b.row,
             policies |-> b.policies, sources |-> <<>>, got |-> d, again |-> 0]
    BY <1>2, <2>3 DEF Shaped
  <2>6. Shaped(r) /\ r.job = b.job /\ r.at = "ready" /\ r.got = d
    BY <2>5 DEF Shaped
  <2>7. Counts(b.got) = report.counts
    BY <1>1, <2>1 DEF MergeReport
  <2>8. Merged(d)
    BY <1>4, <2>1, <2>7 DEF Merged, Tells
  <2>9. Merging # Partition /\ Merging \notin 0..MostShards
    BY <1>2, JobsAre
  <2>10. OutputOf(r.job, r.got)
    BY <1>3, <2>6, <2>8, <2>9 DEF OutputOf
  <2>11. Working(r)
    BY <1>3, <2>6, <2>10 DEF Working
  <2> QED
    BY <1>1, <1>2, <2>4, <2>6, <2>11, ProcessWorks DEF Occupied, EInv
<1> QED
  BY <1>5, <1>6

LEMMA OperatorKeeps ==
  ASSUME EInv, NEW job \in EvidenceJobs, CleanUp(job) \/ Discard(job) \/ ReplaceSelection
  PROVE  EInv'
<1>1. UNCHANGED publisher
  BY DEF CleanUp, Discard, ReplaceSelection
<1>2. /\ selection' \in DOMAIN Selections
      /\ locks' \subseteq EvidenceJobs /\ stagings' \subseteq EvidenceJobs
  BY DEF CleanUp, Discard, ReplaceSelection, EInv
<1>3. Published(directory)'
  <2>1. Published(directory)
    BY DEF EInv
  <2>2. directory' = directory \/ directory' = [directory EXCEPT ![job] = Missing]
    BY DEF CleanUp, Discard, ReplaceSelection
  <2> QED
    BY <2>1, <2>2 DEF Published
<1>4. \A p \in Publishers : Occupied(publisher[p]) => publisher[p].job \in locks'
  BY DEF CleanUp, Discard, ReplaceSelection, EInv, Occupied, PublisherAt
<1> QED
  BY <1>1, <1>2, <1>3, <1>4 DEF EInv, Manned

LEMMA EvidenceStepKeeps ==
  ASSUME EInv, [EvidenceNext]_evidenceVars
  PROVE  EInv'
<1>1. CASE UNCHANGED evidenceVars
  BY <1>1 DEF evidenceVars, EInv, Manned, Published
<1>2. ASSUME NEW p \in Publishers, NEW job \in EvidenceJobs, ClaimOutput(p, job)
      PROVE  EInv'
  BY <1>2, ClaimKeeps
<1>3. ASSUME NEW p \in Publishers,
             \/ OutputTaken(p) \/ BeginWork(p) \/ ActivateOutput(p) \/ CommandEnds(p)
             \/ CommandFails(p) \/ CommandKilled(p) \/ CutShards(p) \/ RecheckSelection(p)
             \/ StartRow(p) \/ WriteNext(p) \/ CollectionDone(p) \/ VerifyShard(p)
             \/ AllVerified(p) \/ VerifyAgain(p) \/ MergeDone(p)
      PROVE  EInv'
  BY <1>3, LeavingKeeps, BeginKeeps, ActivateKeeps, CuttingKeeps, CollectingKeeps, WritingKeeps,
     CollectedKeeps, ShardVerifyKeeps, VerifiedKeeps, MergeKeeps
<1>4. ASSUME NEW p \in Publishers, NEW i \in DOMAIN publisher[p].row,
             RowAsksRobots(p, i) \/ RowRobotsAnswer(p, i) \/ PageAnswers(p, i)
      PROVE  EInv'
  BY <1>4, CollectingKeeps
<1>5. ASSUME NEW job \in EvidenceJobs, CleanUp(job) \/ Discard(job)
      PROVE  EInv'
  BY <1>5, OperatorKeeps
<1>6. CASE ReplaceSelection
  <2>1. DOMAIN Selections # {}
    BY DEF EInv
  <2>2. Merging \in EvidenceJobs
    BY <2>1, JobsAre
  <2> QED
    BY <1>6, <2>2, OperatorKeeps
<1> QED
  BY <1>1, <1>2, <1>3, <1>4, <1>5, <1>6 DEF EvidenceNext

LEMMA EvidenceInvariant == EvidenceSpec => []EInv
<1>1. EvidenceInit => EInv
  BY EvidenceInitHolds
<1>2. EInv /\ [EvidenceNext]_evidenceVars => EInv'
  BY EvidenceStepKeeps
<1> QED
  BY <1>1, <1>2, PTL DEF EvidenceSpec

LEMMA TellsAll ==
  ASSUME NEW verdicts, NEW rows, Tells(verdicts, rows), IsList(rows, Len(rows))
  PROVE  [i \in DOMAIN verdicts |-> verdicts[i].row] = rows
<1>1. PICK n \in Nat : n = Len(verdicts) /\ n = Len(rows)
  BY DEF Tells, TellsFirst
<1>2. DOMAIN verdicts = 1..n /\ rows = [i \in 1..n |-> rows[i]]
  BY <1>1, ListIs DEF Tells, TellsFirst, IsList
<1>3. \A i \in 1..n : verdicts[i].row = rows[i]
  BY <1>1 DEF Tells, TellsFirst
<1> QED
  BY <1>2, <1>3

LEMMA ExactNow == EInv => EvidenceExact
<1> SUFFICES ASSUME EInv PROVE EvidenceExact
  OBVIOUS
<1>1. /\ selection \in DOMAIN Selections /\ DOMAIN Selections # {} /\ DOMAIN directory = EvidenceJobs
      /\ \A job \in EvidenceJobs : directory[job] = Missing \/ OutputOf(job, directory[job])
  BY DEF EInv, Published
<1>2. EvidenceTypeOK
  BY <1>1 DEF EInv, Manned, Working, EvidenceTypeOK, Occupied
<1>3. ASSUME NEW job \in EvidenceJobs \ {Partition}, directory[job] # Missing,
             NEW input, NEW verdicts, NEW rows,
             input = directory[job][1], verdicts = directory[job][2],
             rows = IF job = Merging THEN Selections[input[1]] ELSE InputRows(input)
      PROVE  /\ [i \in DOMAIN verdicts |-> verdicts[i].row] = rows
             /\ Counts(verdicts) = IF job = Merging THEN directory[job][3].counts
                                                     ELSE directory[job][3]
             /\ job = Merging => \A i \in DOMAIN verdicts : PolicyAgrees(verdicts[i])
  <2>1. OutputOf(job, directory[job])
    BY <1>1, <1>3
  <2>2. CASE job = Merging
    <3>1. PICK v \in DOMAIN Selections :
            /\ input = <<v, Manifest(v)>> /\ Tells(verdicts, Selections[v]) /\ AllAgree(verdicts)
            /\ Counts(verdicts) = directory[job][3].counts
      BY <1>3, <2>1, <2>2 DEF OutputOf, Merged
    <3>2. input[1] = v
      BY <3>1
    <3>3. rows = Selections[v]
      BY <1>3, <2>2, <3>2
    <3>4. [i \in DOMAIN verdicts |-> verdicts[i].row] = rows
      BY <3>1, <3>3, SelectionIs, TellsAll
    <3>5. DOMAIN verdicts = 1..Len(verdicts)
      BY <3>1, ListIs DEF Tells, TellsFirst
    <3> QED
      BY <2>2, <3>1, <3>4, <3>5 DEF AllAgree
  <2>3. CASE job # Merging
    <3>1. job \in 0..MostShards
      BY <1>1, <1>3, <2>3, JobsAre
    <3>2. Collected(directory[job]) /\ rows = InputRows(input)
      BY <1>3, <2>1, <2>3, <3>1 DEF OutputOf
    <3>3. GoodInput(input) /\ Tells(verdicts, rows) /\ Counts(verdicts) = directory[job][3]
      BY <1>3, <3>2 DEF Collected
    <3>4. [i \in DOMAIN verdicts |-> verdicts[i].row] = rows
      BY <3>2, <3>3, InputIs, TellsAll
    <3> QED
      BY <2>3, <3>3, <3>4
  <2> QED
    BY <2>2, <2>3
<1> QED
  BY <1>2, <1>3 DEF EvidenceExact

(* Bundles and merges tell of every row, whatever happens to the           *)
(* selection and the directories, for any processes and selections.        *)
THEOREM EvidenceIsExact == EvidenceSpec => []EvidenceExact
BY EvidenceInvariant, ExactNow, PTL

-----------------------------------------------------------------------------
(* The builder.  How long decisions last.                                  *)
LEMMA MinOfNumbers ==
  ASSUME NEW S \in SUBSET Nat, S # {}
  PROVE  Min(S) \in S /\ \A y \in S : Min(S) <= y
<1>1. \E x \in S : \A y \in S : x =< y
  BY LeastNumber
<1> QED
  BY <1>1 DEF Min

RowsOf(s) == Streams[s].rows
LEMMA RowIs ==
  ASSUME NEW s \in DOMAIN Streams, NEW k \in DOMAIN RowsOf(s)
  PROVE  /\ AdmissionUntil(RowsOf(s)[k]) \in Nat
         /\ \A d \in Decisions :
              /\ RowsOf(s)[k].admission[d].until \in Nat
              /\ RowsOf(s)[k].admission[d].from \in Nat
              /\ AdmissionUntil(RowsOf(s)[k]) <= RowsOf(s)[k].admission[d].until
         /\ RowsOf(s)[k].text # Gone
<1>1. PICK row : row = RowsOf(s)[k]
  OBVIOUS
<1>2. \A d \in Decisions : row.admission[d].until \in Nat /\ row.admission[d].from \in Nat
  BY <1>1, StreamConstants DEF RowsOf
<1>3. row.text # Gone
  BY <1>1, StreamConstants DEF RowsOf
<1>4. PICK U : U = {row.admission[d].until : d \in Decisions}
  OBVIOUS
<1>5. U \in SUBSET Nat /\ U # {}
  BY <1>2, <1>4 DEF Decisions
<1>6. Min(U) \in U /\ \A y \in U : Min(U) <= y
  BY <1>5, MinOfNumbers
<1>7. AdmissionUntil(row) = Min(U)
  BY <1>4 DEF AdmissionUntil
<1> QED
  BY <1>1, <1>2, <1>3, <1>4, <1>5, <1>6, <1>7

LEMMA EarliestIs ==
  ASSUME NEW s \in DOMAIN Streams, NEW K \in SUBSET DOMAIN RowsOf(s), K # {}
  PROVE  /\ Earliest(RowsOf(s), K) \in Nat
         /\ \A k \in K, d \in Decisions :
              Earliest(RowsOf(s), K) <= RowsOf(s)[k].admission[d].until
<1>1. PICK U : U = {AdmissionUntil(RowsOf(s)[k]) : k \in K}
  OBVIOUS
<1>2. U \in SUBSET Nat /\ U # {}
  BY <1>1, RowIs
<1>3. Min(U) \in U /\ \A y \in U : Min(U) <= y
  BY <1>2, MinOfNumbers
<1>4. Earliest(RowsOf(s), K) = Min(U)
  BY <1>1 DEF Earliest
<1>5. ASSUME NEW k \in K, NEW d \in Decisions
      PROVE  Min(U) <= RowsOf(s)[k].admission[d].until
  <2>1. Min(U) <= AdmissionUntil(RowsOf(s)[k]) /\ Min(U) \in Nat
    BY <1>1, <1>2, <1>3
  <2>2. /\ AdmissionUntil(RowsOf(s)[k]) \in Nat /\ RowsOf(s)[k].admission[d].until \in Nat
        /\ AdmissionUntil(RowsOf(s)[k]) <= RowsOf(s)[k].admission[d].until
    BY RowIs
  <2>3. PICK x, y, z : /\ x = Min(U) /\ y = AdmissionUntil(RowsOf(s)[k])
                       /\ z = RowsOf(s)[k].admission[d].until
    OBVIOUS
  <2> QED
    BY <2>1, <2>2, <2>3
<1> QED
  BY <1>2, <1>3, <1>4, <1>5

(* What a selection is: the records of some permitted rows of the stream,  *)
(* all decided by now.                                                     *)
Granted(s, K, exclusions, t) ==
  \A k \in K :
    /\ ~Excluded(RowsOf(s)[k], exclusions)
    /\ \A d \in Decisions : /\ RowsOf(s)[k].admission[d].granted
                            /\ RowsOf(s)[k].admission[d].from <= t
Selection(q, t) ==
  \E K \in SUBSET DOMAIN RowsOf(q.stream) :
    /\ K # {} /\ Granted(q.stream, K, q.exclusions, t)
    /\ q.selected = RecordsOf(RowsOf(q.stream), K)
    /\ q.until = Earliest(RowsOf(q.stream), K)
Origin(q) ==
  /\ q.created \in Nat /\ q.stream \in DOMAIN Streams
  /\ IF q.parent = NoParent THEN q.revision = 1 ELSE q.revision = 2 /\ ~q.evidence
  /\ q.parent = [u \in DOMAIN q.parent |-> q.parent[u]]
Emitted(q) ==
  q.operations = IF q.parent = NoParent THEN q.selected ELSE Changes(q.parent, q.selected)
BuildShaped(q) ==
       q = [at |-> q.at, stream |-> q.stream, evidence |-> q.evidence, exclusions |-> q.exclusions,
            created |-> q.created, expires |-> q.expires, parent |-> q.parent,
            revision |-> q.revision, selected |-> q.selected, rejected |-> q.rejected,
            until |-> q.until, operations |-> q.operations]
Building(q, t) ==
  /\ BuildShaped(q) /\ Origin(q) /\ q.at \in {"selecting", "selected", "signed"}
  /\ q.at # "selecting" => Selection(q, t)
  /\ q.at = "signed" => Emitted(q)

(* A published bundle.                                                     *)
Distributed(x) == IF x.parent = NoParent THEN x.operations ELSE Applied(x.parent, x.operations)
Lasting(decision, x) ==
  /\ decision.granted /\ decision.from <= x.published
  /\ decision.until > x.published + MinValidity
SourceOf(x, u) ==
  {k \in DOMAIN Rows(x) :
     /\ Rows(x)[k].url = u /\ Rows(x)[k].text = Distributed(x)[u]
     /\ ~Excluded(Rows(x)[k], x.exclusions)
     /\ \A d \in Decisions : Lasting(Rows(x)[k].admission[d], x)}
Stands(x) ==
  /\ Distributed(x) = x.selected
  /\ \A u \in DOMAIN Distributed(x) : SourceOf(x, u) # {}
  /\ x.evidence => RightsAgree(Rows(x))
  /\ IF x.parent # NoParent THEN VerifyDelta(x)
     ELSE DatedInTime(x) => VerifySnapshot(x)
Snapshot(x) ==
  x.parent = NoParent =>
    /\ x.revision = 1 /\ DOMAIN x.operations # {}
    /\ x.operations = [u \in DOMAIN x.operations |-> x.operations[u]]
BundleKept(x) == /\ Stands(x) /\ Snapshot(x) /\ x.created \in Nat /\ x.revision \in 1..2
      
(* The inductive invariant.                                                *)
BInv ==
  /\ quarter \in 0..LastQuarter /\ bundleWork \subseteq bundleLock /\ bundleLock \subseteq Bundles
  /\ build = [b \in Bundles |-> build[b]] /\ bundle = [b \in Bundles |-> bundle[b]]
  /\ \A b \in Bundles : build[b] # NoBuild => b \in bundleWork /\ Building(build[b], quarter)
  /\ \A b \in Bundles : bundle[b] # Unbuilt => BundleKept(bundle[b])
      
LEMMA BuildInitHolds == PackBuildInit => BInv
BY BuildConstants DEF PackBuildInit, BInv

-----------------------------------------------------------------------------
(* The records of a selection.                                             *)
LEMMA RecordsAre ==
  ASSUME NEW s \in DOMAIN Streams, NEW K \in SUBSET DOMAIN RowsOf(s), K # {},
         NEW records, records = RecordsOf(RowsOf(s), K)
  PROVE  /\ records = [u \in DOMAIN records |-> records[u]] /\ DOMAIN records # {}
         /\ \A u \in DOMAIN records :
              \E k \in K : RowsOf(s)[k].url = u /\ RowsOf(s)[k].text = records[u]
         /\ \A u \in DOMAIN records : records[u] # Gone
<1>1. PICK rows : rows = RowsOf(s)
  OBVIOUS
<1>2. records = [u \in {rows[k].url : k \in K} |-> rows[CHOOSE k \in K : rows[k].url = u].text]
  BY <1>1 DEF RecordsOf
<1>3. DOMAIN records = {rows[k].url : k \in K}
  BY <1>2
<1>4. ASSUME NEW u \in DOMAIN records
      PROVE  \E k \in K : rows[k].url = u /\ rows[k].text = records[u]
  <2>1. \E k \in K : rows[k].url = u
    BY <1>3
  <2>2. PICK c : c = CHOOSE k \in K : rows[k].url = u
    OBVIOUS
  <2>3. c \in K /\ rows[c].url = u
    BY <2>1, <2>2
  <2>4. records[u] = rows[c].text
    BY <1>2, <1>3, <2>2
  <2> QED
    BY <2>3, <2>4
<1>5. \A u \in DOMAIN records : records[u] # Gone
  BY <1>1, <1>4, RowIs
<1>6. DOMAIN records # {}
  BY <1>3
<1>7. records = [u \in DOMAIN records |-> records[u]]
  BY <1>2
<1> QED
  BY <1>1, <1>4, <1>5, <1>6, <1>7

(* A delta turns its parent into the selection.                            *)
LEMMA ChangesApply ==
  ASSUME NEW parent, parent = [u \in DOMAIN parent |-> parent[u]],
         NEW target, target = [u \in DOMAIN target |-> target[u]],
         \A u \in DOMAIN target : target[u] # Gone,
         NEW operations, operations = Changes(parent, target)
  PROVE  /\ Applied(parent, operations) = target
         /\ \A u \in DOMAIN operations : operations[u] = Gone => u \in DOMAIN parent
<1>1. PICK P, T : P = DOMAIN parent /\ T = DOMAIN target
  OBVIOUS
<1>2. PICK C : C = {v \in P \cup T : v \notin P \cap T \/ parent[v] # target[v]}
  OBVIOUS
<1>3. operations = [u \in C |-> IF u \in T THEN target[u] ELSE Gone]
  BY <1>1, <1>2 DEF Changes
<1>4. DOMAIN operations = C /\ \A u \in C : operations[u] = IF u \in T THEN target[u] ELSE Gone
  BY <1>3
<1>5. PICK D : D = {v \in P \cup C : v \notin C \/ operations[v] # Gone}
  OBVIOUS
<1>6. Applied(parent, operations) = [u \in D |-> IF u \in C THEN operations[u] ELSE parent[u]]
  BY <1>1, <1>4, <1>5 DEF Applied
<1>7. D = T
  <2>1. ASSUME NEW u \in D PROVE u \in T
    BY <2>1, <1>2, <1>4, <1>5
  <2>2. ASSUME NEW u \in T PROVE u \in D
    BY <2>2, <1>1, <1>2, <1>4, <1>5
  <2> QED
    BY <2>1, <2>2
<1>8. \A u \in T : (IF u \in C THEN operations[u] ELSE parent[u]) = target[u]
  BY <1>2, <1>4
<1>9. Applied(parent, operations) = [u \in T |-> target[u]]
  BY <1>6, <1>7, <1>8
<1>10. \A u \in DOMAIN operations : operations[u] = Gone => u \in P
  BY <1>1, <1>2, <1>4
<1> QED
  BY <1>1, <1>9, <1>10

-----------------------------------------------------------------------------
(* Steps of a build.                                                       *)
LEMMA BuildIs ==
  ASSUME BInv, NEW b \in Bundles
  PROVE  /\ build[b] # NoBuild => b \in bundleWork /\ Building(build[b], quarter)
         /\ bundle[b] # Unbuilt => BundleKept(bundle[b])
         /\ DOMAIN build = Bundles /\ DOMAIN bundle = Bundles
         /\ quarter \in Nat /\ quarter <= LastQuarter /\ LastQuarter \in Nat
         /\ bundleWork \subseteq bundleLock
BY BuildConstants DEF BInv

LEMMA BuildMoves ==
  ASSUME BInv, NEW b \in Bundles, NEW q, build' = [build EXCEPT ![b] = q],
         q # NoBuild => b \in bundleWork' /\ Building(q, quarter),
         \A c \in Bundles : c # b /\ c \in bundleWork => c \in bundleWork',
         bundleWork' \subseteq bundleLock', bundleLock' \subseteq Bundles,
         UNCHANGED <<quarter, bundle>>
  PROVE  BInv'
<1>1. /\ build' = [c \in Bundles |-> build'[c]]
      /\ build'[b] = q /\ \A c \in Bundles : c # b => build'[c] = build[c]
  BY DEF BInv
<1>2. \A c \in Bundles : build'[c] # NoBuild => c \in bundleWork' /\ Building(build'[c], quarter')
  <2> TAKE c \in Bundles
  <2>1. CASE c = b
    BY <2>1, <1>1
  <2>2. CASE c # b
    BY <2>2, <1>1 DEF BInv
  <2> QED
    BY <2>1, <2>2
<1>3. /\ quarter' \in 0..LastQuarter /\ bundle' = [c \in Bundles |-> bundle'[c]]
      /\ \A c \in Bundles : bundle'[c] # Unbuilt => BundleKept(bundle'[c])
  BY DEF BInv
<1> QED
  BY <1>1, <1>2, <1>3 DEF BInv

LEMMA StartKeeps ==
  ASSUME BInv, NEW b \in Bundles, NEW stream \in DOMAIN Streams, NEW evidence,
         NEW exclusions, NEW created \in Datings, NEW expires,
         NEW parent, NEW revision,
         IF parent = NoParent THEN revision = 1 ELSE revision = 2 /\ ~evidence,
         parent = [u \in DOMAIN parent |-> parent[u]],
         StartBuild(b, stream, evidence, exclusions, created, expires, parent, revision)
  PROVE  BInv'
<1>1. PICK q : q = [at |-> "selecting", stream |-> stream, evidence |-> evidence,
        exclusions |-> exclusions, created |-> created, expires |-> expires,
        parent |-> parent, revision |-> revision,
        selected |-> <<>>, rejected |-> 0, until |-> 0, operations |-> <<>>]
  OBVIOUS
<1>2. /\ build' = [build EXCEPT ![b] = q] /\ bundleLock' = bundleLock \cup {b}
      /\ bundleWork' = bundleWork \cup {b} /\ UNCHANGED <<quarter, bundle>>
  BY <1>1 DEF StartBuild
<1>3. /\ BuildShaped(q) /\ q.at = "selecting" /\ q.created = created /\ q.stream = stream
      /\ q.parent = parent /\ q.revision = revision /\ q.evidence = evidence
  BY <1>1 DEF BuildShaped
<1>4. created \in Nat
  BY BuildConstants DEF Datings
<1>5. Origin(q)
  BY <1>3, <1>4 DEF Origin
<1>6. Building(q, quarter)
  BY <1>3, <1>5 DEF Building
<1>7. /\ bundleWork' \subseteq bundleLock' /\ bundleLock' \subseteq Bundles
      /\ b \in bundleWork' /\ \A c \in Bundles : c \in bundleWork => c \in bundleWork'
  BY <1>2 DEF BInv
<1> QED
  BY <1>2, <1>6, <1>7, BuildMoves

LEMMA SnapshotStarts ==
  ASSUME BInv, NEW b \in Bundles, BuildSnapshot(b)
  PROVE  BInv'
<1>1. PICK k \in DOMAIN Streams, exclusions \in ExclusionLists, created \in Datings :
        StartBuild(b, k, Streams[k].evidence, exclusions, created, created + Lifetime, NoParent, 1)
  BY DEF BuildSnapshot
<1>2. NoParent = [u \in DOMAIN NoParent |-> NoParent[u]]
  BY DEF NoParent
<1>3. PICK parent, evidence, expires :
        parent = NoParent /\ evidence = Streams[k].evidence /\ expires = created + Lifetime
  OBVIOUS
<1>4. /\ StartBuild(b, k, evidence, exclusions, created, expires, parent, 1)
      /\ parent = [u \in DOMAIN parent |-> parent[u]]
  BY <1>1, <1>2, <1>3
<1> QED
  BY <1>1, <1>3, <1>4, StartKeeps

LEMMA DeltaStarts ==
  ASSUME BInv, NEW b \in Bundles, BuildDelta(b)
  PROVE  BInv'
<1>1. PICK k \in DOMAIN Streams, exclusions \in ExclusionLists, p \in Bundles,
           created \in Datings :
        /\ bundle[p] # Unbuilt
        /\ ParentFits(p, created, Min({created + Lifetime, bundle[p].expires}))
        /\ StartBuild(b, k, FALSE, exclusions, created,
                      Min({created + Lifetime, bundle[p].expires}),
                      bundle[p].operations, bundle[p].revision + 1)
  BY DEF BuildDelta
<1>2. PICK parent, revision, expires :
        /\ parent = bundle[p].operations /\ revision = bundle[p].revision + 1
        /\ expires = Min({created + Lifetime, bundle[p].expires})
  OBVIOUS
<1>3. bundle[p].parent = NoParent /\ BundleKept(bundle[p])
  BY <1>1, BuildIs DEF ParentFits
<1>4. /\ revision = 2 /\ DOMAIN parent # {}
      /\ parent = [u \in DOMAIN parent |-> parent[u]]
  BY <1>2, <1>3 DEF BundleKept, Snapshot
<1>5. parent # NoParent
  <2>1. DOMAIN NoParent = {}
    BY DEF NoParent
  <2> QED
    BY <1>4, <2>1
<1>6. StartBuild(b, k, FALSE, exclusions, created, expires, parent, revision)
  BY <1>1, <1>2
<1> QED
  BY <1>1, <1>4, <1>5, <1>6, StartKeeps

LEMMA SelectKeeps ==
  ASSUME BInv, NEW b \in Bundles, SelectRecords(b)
  PROVE  BInv'
<1>1. PICK q, rows : q = build[b] /\ rows = RowsOf(q.stream)
  OBVIOUS
<1>2. /\ q # NoBuild /\ q.at = "selecting" /\ rows = Rows(q)
      /\ UNCHANGED <<quarter, bundle, bundleLock, bundleWork>>
  BY <1>1 DEF SelectRecords, Rows, RowsOf
<1>3. PICK K \in (SUBSET DOMAIN rows) \ {{}} :
       /\ Chosen(rows, K, q.exclusions, q.created, quarter)
       /\ build' = [build EXCEPT ![b].at = "selected", ![b].selected = RecordsOf(rows, K),
                                 ![b].rejected = Len(rows) - Cardinality(K),
                                 ![b].until = Earliest(rows, K)]
  BY <1>1, <1>2 DEF SelectRecords
<1>4. PICK selected, rejected, until :
        /\ selected = RecordsOf(rows, K) /\ until = Earliest(rows, K)
        /\ rejected = Len(rows) - Cardinality(K)
  OBVIOUS
<1>5. PICK r : r = [q EXCEPT !.at = "selected", !.selected = selected, !.rejected = rejected,
                             !.until = until]
  OBVIOUS
<1>6. BuildShaped(q) /\ Origin(q) /\ b \in bundleWork /\ DOMAIN build = Bundles
  BY <1>1, <1>2, BuildIs DEF Building
<1>7. build' = [build EXCEPT ![b] = r]
  BY <1>1, <1>3, <1>4, <1>5, <1>6
<1>8. r = [at |-> "selected", stream |-> q.stream, evidence |-> q.evidence,
           exclusions |-> q.exclusions, created |-> q.created, expires |-> q.expires,
           parent |-> q.parent, revision |-> q.revision, selected |-> selected,
           rejected |-> rejected, until |-> until, operations |-> q.operations]
  BY <1>5, <1>6 DEF BuildShaped
<1>9. /\ BuildShaped(r) /\ r.at = "selected" /\ r.stream = q.stream /\ r.exclusions = q.exclusions
      /\ r.selected = selected /\ r.until = until /\ r.created = q.created
      /\ r.parent = q.parent /\ r.revision = q.revision /\ r.evidence = q.evidence
  BY <1>8 DEF BuildShaped
<1>10. Origin(r)
  BY <1>6, <1>9 DEF Origin
<1>11. Granted(q.stream, K, q.exclusions, quarter)
  <2> SUFFICES ASSUME NEW k \in K
               PROVE  /\ ~Excluded(rows[k], q.exclusions)
                      /\ \A d \in Decisions : /\ rows[k].admission[d].granted
                                              /\ rows[k].admission[d].from <= quarter
    BY <1>1 DEF Granted
  <2>1. k \in DOMAIN rows
    BY <1>3
  <2>2. Taken(rows, {i \in K : i < k}, k, q.exclusions, q.created, quarter)
    BY <1>3, <2>1 DEF Chosen
  <2>3. ~Excluded(rows[k], q.exclusions) /\ Permitted(rows[k], q.created, quarter)
    BY <2>2 DEF Taken
  <2> QED
    BY <2>3 DEF Permitted, InWindow
<1>12. Selection(r, quarter)
  <2>1. K \in SUBSET DOMAIN RowsOf(r.stream) /\ K # {}
    BY <1>1, <1>3, <1>9
  <2>2. Granted(r.stream, K, r.exclusions, quarter)
    BY <1>9, <1>11
  <2>3. /\ r.selected = RecordsOf(RowsOf(r.stream), K)
        /\ r.until = Earliest(RowsOf(r.stream), K)
    BY <1>1, <1>4, <1>9
  <2> QED
    BY <2>1, <2>2, <2>3 DEF Selection
<1>13. Building(r, quarter)
  BY <1>9, <1>10, <1>12 DEF Building
<1> QED
  BY <1>2, <1>6, <1>7, <1>13, BuildMoves DEF BInv

LEMMA SignKeeps ==
  ASSUME BInv, NEW b \in Bundles, SignSnapshot(b) \/ SignDelta(b)
  PROVE  BInv'
<1>1. PICK q : q = build[b]
  OBVIOUS
<1>2. q # NoBuild /\ q.at = "selected"
  BY <1>1 DEF SignSnapshot, SignDelta
<1>3. PICK operations :
        /\ operations = IF q.parent = NoParent THEN q.selected ELSE Changes(q.parent, q.selected)
        /\ Signed(b, operations)
  BY <1>1 DEF SignSnapshot, SignDelta
<1>4. PICK r : r = [q EXCEPT !.at = "signed", !.operations = operations]
  OBVIOUS
<1>5. /\ BuildShaped(q) /\ Origin(q) /\ Selection(q, quarter) /\ b \in bundleWork
      /\ DOMAIN build = Bundles
  BY <1>1, <1>2, BuildIs DEF Building
<1>6. /\ build' = [build EXCEPT ![b] = r] /\ UNCHANGED <<quarter, bundle, bundleLock, bundleWork>>
  BY <1>1, <1>3, <1>4, <1>5 DEF Signed
<1>7. r = [at |-> "signed", stream |-> q.stream, evidence |-> q.evidence,
           exclusions |-> q.exclusions, created |-> q.created, expires |-> q.expires,
           parent |-> q.parent, revision |-> q.revision, selected |-> q.selected,
           rejected |-> q.rejected, until |-> q.until, operations |-> operations]
  BY <1>4, <1>5 DEF BuildShaped
<1>8. /\ BuildShaped(r) /\ r.at = "signed" /\ r.stream = q.stream /\ r.exclusions = q.exclusions
      /\ r.selected = q.selected /\ r.until = q.until /\ r.created = q.created
      /\ r.parent = q.parent /\ r.revision = q.revision /\ r.evidence = q.evidence
      /\ r.operations = operations
  BY <1>7 DEF BuildShaped
<1>9. Origin(r)
  BY <1>5, <1>8 DEF Origin
<1>10. Selection(r, quarter)
  BY <1>5, <1>8 DEF Selection
<1>11. Emitted(r)
  BY <1>3, <1>8 DEF Emitted
<1>12. Building(r, quarter)
  BY <1>8, <1>9, <1>10, <1>11 DEF Building
<1> QED
  BY <1>5, <1>6, <1>12, BuildMoves DEF BInv

-----------------------------------------------------------------------------
(* Publishing.                                                             *)
BundleOf(q, t) ==
 [operations |-> q.operations, parent |-> q.parent, revision |-> q.revision,
  created |-> q.created, expires |-> q.expires, selected |-> q.selected,
  rejected |-> q.rejected, stream |-> q.stream, evidence |-> q.evidence,
  exclusions |-> q.exclusions, until |-> q.until, published |-> t]

LEMMA BundleOfIs ==
  ASSUME NEW q, NEW t, NEW x, x = BundleOf(q, t)
  PROVE  /\ x.operations = q.operations /\ x.parent = q.parent /\ x.revision = q.revision
         /\ x.created = q.created /\ x.selected = q.selected /\ x.rejected = q.rejected
         /\ x.stream = q.stream /\ x.evidence = q.evidence /\ x.exclusions = q.exclusions
         /\ x.until = q.until /\ x.published = t
BY DEF BundleOf

(* What distributes a selection that lasts, has its sources.               *)
LEMMA SourcesLast ==
  ASSUME NEW x, x.stream \in DOMAIN Streams, Selection(x, x.published),
         x.published \in Nat, x.until > x.published + MinValidity,
         Distributed(x) = x.selected
  PROVE  \A u \in DOMAIN Distributed(x) : SourceOf(x, u) # {}
<1>1. PICK s, rows : s = x.stream /\ rows = RowsOf(s)
  OBVIOUS
<1>2. PICK K \in SUBSET DOMAIN rows :
        /\ K # {} /\ Granted(s, K, x.exclusions, x.published)
        /\ x.selected = RecordsOf(rows, K) /\ x.until = Earliest(rows, K)
  BY <1>1 DEF Selection
<1>3. s \in DOMAIN Streams /\ Rows(x) = rows
  BY <1>1 DEF Rows, RowsOf
<1> SUFFICES ASSUME NEW u \in DOMAIN Distributed(x)
             PROVE  SourceOf(x, u) # {}
  OBVIOUS
<1>4. PICK k \in K : rows[k].url = u /\ rows[k].text = Distributed(x)[u]
  BY <1>1, <1>2, <1>3, RecordsAre
<1>5. ~Excluded(rows[k], x.exclusions)
  BY <1>1, <1>2 DEF Granted
<1>6. ASSUME NEW d \in Decisions
      PROVE  Lasting(rows[k].admission[d], x)
  <2>1. /\ rows[k].admission[d].granted /\ rows[k].admission[d].from <= x.published
    BY <1>1, <1>2 DEF Granted
  <2>2. PICK e, w, t : e = Earliest(rows, K) /\ w = rows[k].admission[d].until /\ t = x.published
    OBVIOUS
  <2>3. e \in Nat /\ e <= w
    BY <1>1, <1>2, <1>3, <2>2, EarliestIs
  <2>4. w \in Nat
    BY <1>1, <1>2, <1>3, <2>2, RowIs
  <2>5. e > t + MinValidity /\ t \in Nat /\ MinValidity \in Nat
    BY <1>2, <2>2, BuildConstants
  <2>6. w > t + MinValidity
    BY <2>3, <2>4, <2>5
  <2> QED
    BY <2>1, <2>2, <2>6 DEF Lasting
<1>7. k \in SourceOf(x, u)
  BY <1>2, <1>3, <1>4, <1>5, <1>6 DEF SourceOf
<1> QED
  BY <1>7

LEMMA SnapshotStands ==
  ASSUME BInv, NEW b \in Bundles, PublishSnapshot(b), NEW x, x = BundleOf(build[b], quarter)
  PROVE  BundleKept(x)
<1>1. PICK q : q = build[b]
  OBVIOUS
<1>2. /\ q # NoBuild /\ q.at = "signed" /\ q.parent = NoParent /\ SnapshotReportValid(q)
      /\ StillPermitted(b, quarter) /\ EvidenceBinds(b, quarter)
  BY <1>1 DEF PublishSnapshot
<1>3. /\ Origin(q) /\ Selection(q, quarter) /\ Emitted(q) /\ quarter \in Nat
  BY <1>1, <1>2, BuildIs DEF Building
<1>4. /\ x.operations = q.operations /\ x.parent = NoParent /\ x.revision = 1
      /\ x.created = q.created /\ x.selected = q.selected /\ x.rejected = q.rejected
      /\ x.stream = q.stream /\ x.evidence = q.evidence /\ x.exclusions = q.exclusions
      /\ x.until = q.until /\ x.published = quarter /\ q.revision = 1
      /\ x.operations = x.selected
  BY <1>1, <1>2, <1>3, BundleOfIs DEF Origin, Emitted
<1>5. Distributed(x) = x.selected
  BY <1>4 DEF Distributed
<1>6. q.until > quarter + MinValidity
  BY <1>1, <1>2 DEF StillPermitted
<1>7. Selection(x, x.published)
  BY <1>3, <1>4 DEF Selection
<1>8. \A u \in DOMAIN Distributed(x) : SourceOf(x, u) # {}
  BY <1>3, <1>4, <1>5, <1>6, <1>7, SourcesLast DEF Origin
<1>9. PICK s, rows : s = q.stream /\ rows = RowsOf(s)
  OBVIOUS
<1>10. s \in DOMAIN Streams /\ Rows(q) = rows /\ Rows(x) = rows
  BY <1>3, <1>4, <1>9 DEF Rows, RowsOf, Origin
<1>11. x.evidence =>
         /\ RightsAgree(rows) /\ Earliest(rows, DOMAIN rows) <= q.until
         /\ Earliest(rows, DOMAIN rows) > quarter + MinValidity
  BY <1>1, <1>2, <1>4, <1>10 DEF EvidenceBinds
<1>12. PICK K \in SUBSET DOMAIN rows : K # {} /\ x.selected = RecordsOf(rows, K)
  BY <1>3, <1>4, <1>9 DEF Selection
<1>13. /\ x.operations = [u \in DOMAIN x.operations |-> x.operations[u]]
       /\ DOMAIN x.operations # {}
  BY <1>4, <1>9, <1>10, <1>12, RecordsAre
<1>14. SnapshotReportValid(x)
  BY <1>2, <1>4 DEF SnapshotReportValid, SelectionAccounts, Rows
<1>15. ASSUME DatedInTime(x)
       PROVE  CarriedEvidenceFits(x)
  <2> SUFFICES ASSUME x.evidence
               PROVE  /\ Earliest(rows, DOMAIN rows) <= x.until
                      /\ Earliest(rows, DOMAIN rows) > x.created
                      /\ Streams[x.stream].completed <= x.created + Skew
    BY <1>10 DEF CarriedEvidenceFits
  <2>1. PICK e, t, c, m, z : /\ e = Earliest(rows, DOMAIN rows) /\ t = quarter /\ c = x.created
                             /\ m = MinValidity /\ z = Streams[x.stream].completed
    OBVIOUS
  <2>2. e \in Nat
    <3>1. DOMAIN rows \in SUBSET DOMAIN RowsOf(s) /\ DOMAIN rows # {}
      BY <1>9, <1>12
    <3> QED
      BY <2>1, <3>1, <1>9, <1>10, EarliestIs
  <2>3. t \in Nat /\ c \in Nat /\ m \in Nat /\ c <= t /\ z <= c + Skew
    BY <1>3, <1>4, <1>15, <2>1, BuildConstants DEF Origin, DatedInTime
  <2>4. e <= q.until /\ e > t + m
    BY <1>11, <2>1
  <2>5. e > c
    BY <2>2, <2>3, <2>4
  <2> QED
    BY <1>4, <2>1, <2>3, <2>4, <2>5
<1>16. Stands(x)
  BY <1>4, <1>5, <1>8, <1>10, <1>11, <1>14, <1>15 DEF Stands, VerifySnapshot
<1>17. Snapshot(x) /\ x.created \in Nat /\ x.revision \in 1..2
  BY <1>3, <1>4, <1>13 DEF Snapshot, Origin
<1> QED
  BY <1>16, <1>17 DEF BundleKept
      
LEMMA DeltaStands ==
  ASSUME BInv, NEW b \in Bundles, PublishDelta(b), NEW x, x = BundleOf(build[b], quarter)
  PROVE  BundleKept(x)
<1>1. PICK q : q = build[b]
  OBVIOUS
<1>2. /\ q # NoBuild /\ q.at = "signed" /\ q.parent # NoParent /\ TrialInstalls(q)
      /\ DeltaReportValid(q) /\ StillPermitted(b, quarter)
  BY <1>1 DEF PublishDelta
<1>3. /\ Origin(q) /\ Selection(q, quarter) /\ Emitted(q) /\ quarter \in Nat
  BY <1>1, <1>2, BuildIs DEF Building
<1>4. /\ x.operations = q.operations /\ x.parent = q.parent /\ x.revision = 2
      /\ x.created = q.created /\ x.selected = q.selected /\ x.rejected = q.rejected
      /\ x.stream = q.stream /\ ~x.evidence /\ x.exclusions = q.exclusions
      /\ x.until = q.until /\ x.published = quarter /\ q.revision = 2
      /\ x.operations = Changes(x.parent, x.selected)
  BY <1>1, <1>2, <1>3, BundleOfIs DEF Origin, Emitted
<1>5. PICK K \in SUBSET DOMAIN RowsOf(x.stream) :
        K # {} /\ x.selected = RecordsOf(RowsOf(x.stream), K)
  BY <1>3, <1>4 DEF Selection
<1>6. /\ x.selected = [u \in DOMAIN x.selected |-> x.selected[u]]
      /\ \A u \in DOMAIN x.selected : x.selected[u] # Gone
  <2>1. x.stream \in DOMAIN Streams
    BY <1>3, <1>4 DEF Origin
  <2> QED
    BY <1>5, <2>1, RecordsAre
<1>7. x.parent = [u \in DOMAIN x.parent |-> x.parent[u]]
  BY <1>3, <1>4 DEF Origin
<1>8. /\ Applied(x.parent, x.operations) = x.selected
      /\ \A u \in DOMAIN x.operations : x.operations[u] = Gone => u \in DOMAIN x.parent
  BY <1>4, <1>6, <1>7, ChangesApply
<1>9. Distributed(x) = x.selected
  BY <1>2, <1>4, <1>8 DEF Distributed
<1>10. q.until > quarter + MinValidity
  BY <1>1, <1>2 DEF StillPermitted
<1>11. Selection(x, x.published)
  BY <1>3, <1>4 DEF Selection
<1>12. \A u \in DOMAIN Distributed(x) : SourceOf(x, u) # {}
  BY <1>3, <1>4, <1>9, <1>10, <1>11, SourcesLast DEF Origin
<1>13. DeltaReportValid(x) /\ TrialInstalls(x)
  BY <1>2, <1>4 DEF DeltaReportValid, SelectionAccounts, Rows, TrialInstalls
<1>14. Stands(x)
  BY <1>2, <1>4, <1>8, <1>9, <1>12, <1>13 DEF Stands, VerifyDelta
<1>15. Snapshot(x) /\ x.created \in Nat /\ x.revision \in 1..2
  BY <1>2, <1>3, <1>4 DEF Snapshot, Origin
<1> QED
  BY <1>14, <1>15 DEF BundleKept
      
LEMMA PublishKeeps ==
  ASSUME BInv, NEW b \in Bundles, PublishSnapshot(b) \/ PublishDelta(b)
  PROVE  BInv'
<1>1. PICK x : x = BundleOf(build[b], quarter)
  OBVIOUS
<1>2. BundleKept(x)
  BY <1>1, SnapshotStands, DeltaStands
<1>3. RenameBundle(b)
  BY DEF PublishSnapshot, PublishDelta
<1>4. /\ bundle' = [bundle EXCEPT ![b] = x] /\ bundleWork' = bundleWork \ {b}
      /\ bundleLock' = bundleLock \ {b} /\ build' = [build EXCEPT ![b] = NoBuild]
      /\ UNCHANGED quarter
  BY <1>1, <1>3 DEF RenameBundle, BundleOf
<1>5. DOMAIN build = Bundles /\ DOMAIN bundle = Bundles
  BY DEF BInv
<1>6. /\ build' = [c \in Bundles |-> build'[c]] /\ bundle' = [c \in Bundles |-> bundle'[c]]
      /\ \A c \in Bundles : /\ build'[c] = IF c = b THEN NoBuild ELSE build[c]
                            /\ bundle'[c] = IF c = b THEN x ELSE bundle[c]
  BY <1>4, <1>5
<1>7. \A c \in Bundles : build'[c] # NoBuild => c \in bundleWork' /\ Building(build'[c], quarter')
  BY <1>4, <1>6 DEF BInv
<1>8. \A c \in Bundles : bundle'[c] # Unbuilt => BundleKept(bundle'[c])
  BY <1>2, <1>6 DEF BInv
<1>9. bundleWork' \subseteq bundleLock' /\ bundleLock' \subseteq Bundles /\ quarter' \in 0..LastQuarter
  BY <1>4 DEF BInv
<1> QED
  BY <1>6, <1>7, <1>8, <1>9 DEF BInv

LEMMA EndingKeeps ==
  ASSUME BInv, NEW b \in Bundles,
         BuildFails(b) \/ BuilderKilled(b) \/ RemoveLeftovers(b) \/ WithdrawBundle(b)
  PROVE  BInv'
<1>1. CASE BuildFails(b) \/ BuilderKilled(b)
  <2>1. /\ build' = [build EXCEPT ![b] = NoBuild] /\ UNCHANGED <<quarter, bundle>>
        /\ \A c \in Bundles : c # b /\ c \in bundleWork => c \in bundleWork'
        /\ bundleWork' \subseteq bundleLock' /\ bundleLock' \subseteq Bundles
    BY <1>1 DEF BuildFails, BuilderKilled, BInv
  <2> QED
    BY <2>1, BuildMoves
<1>2. CASE RemoveLeftovers(b)
  BY <1>2 DEF RemoveLeftovers, BInv
<1>3. CASE WithdrawBundle(b)
  BY <1>3 DEF WithdrawBundle, BInv
<1> QED
  BY <1>1, <1>2, <1>3

LEMMA TimeKeeps == BInv /\ QuarterPasses => BInv'
<1> SUFFICES ASSUME BInv, QuarterPasses PROVE BInv'
  OBVIOUS
<1>1. /\ quarter \in Nat /\ quarter' = quarter + 1 /\ quarter' \in 0..LastQuarter
      /\ UNCHANGED <<bundle, bundleLock, bundleWork, build>>
  BY BuildConstants DEF QuarterPasses, BInv
<1>2. ASSUME NEW b \in Bundles, build[b] # NoBuild
      PROVE  Building(build[b], quarter + 1)
  <2>1. PICK q : q = build[b]
    OBVIOUS
  <2>2. Building(q, quarter)
    BY <1>2, <2>1 DEF BInv
  <2>3. ASSUME Selection(q, quarter) PROVE Selection(q, quarter + 1)
    <3>1. PICK s, rows : s = q.stream /\ rows = RowsOf(s)
      OBVIOUS
    <3>2. PICK K \in SUBSET DOMAIN rows :
            /\ K # {} /\ Granted(s, K, q.exclusions, quarter)
            /\ q.selected = RecordsOf(rows, K) /\ q.until = Earliest(rows, K)
      BY <2>3, <3>1 DEF Selection
    <3>3. s \in DOMAIN Streams
      BY <2>2, <3>1 DEF Building, Origin
    <3>4. Granted(s, K, q.exclusions, quarter + 1)
      <4> SUFFICES ASSUME NEW k \in K, NEW d \in Decisions
                   PROVE  rows[k].admission[d].from <= quarter + 1
        BY <3>1, <3>2 DEF Granted
      <4>1. PICK f, t : f = rows[k].admission[d].from /\ t = quarter
        OBVIOUS
      <4>2. f \in Nat /\ t \in Nat /\ f <= t
        BY <1>1, <3>1, <3>2, <3>3, <4>1, RowIs DEF Granted
      <4> QED
        BY <4>1, <4>2
    <3> QED
      BY <3>1, <3>2, <3>4 DEF Selection
  <2> QED
    BY <2>1, <2>2, <2>3 DEF Building
<1> QED
  BY <1>1, <1>2 DEF BInv

LEMMA BuildStepKeeps ==
  ASSUME BInv, [PackBuildNext]_buildVars
  PROVE  BInv'
<1>1. CASE UNCHANGED buildVars
  BY <1>1 DEF buildVars, BInv
<1>2. ASSUME NEW b \in Bundles,
             \/ BuildSnapshot(b) \/ BuildDelta(b) \/ SelectRecords(b) \/ SignSnapshot(b)
             \/ SignDelta(b) \/ PublishSnapshot(b) \/ PublishDelta(b) \/ BuildFails(b)
             \/ BuilderKilled(b) \/ RemoveLeftovers(b) \/ WithdrawBundle(b)
      PROVE  BInv'
  BY <1>2, SnapshotStarts, DeltaStarts, SelectKeeps, SignKeeps, PublishKeeps, EndingKeeps
<1> QED
  BY <1>1, <1>2, TimeKeeps DEF PackBuildNext

LEMMA BuildInvariant == PackBuildSpec => []BInv
<1>1. BInv /\ [PackBuildNext]_buildVars => BInv'
  BY BuildStepKeeps
<1> QED
  BY <1>1, BuildInitHolds, PTL DEF PackBuildSpec

LEMMA SoundNow == BInv => BundlesSound
<1> SUFFICES ASSUME BInv PROVE BundlesSound
  OBVIOUS
<1>1. BuildTypeOK
  BY DEF BInv, BuildTypeOK, Building, BundleKept
<1>2. \A b \in Bundles : bundle[b] # Unbuilt => Stands(bundle[b])
  BY DEF BInv, BundleKept
<1> QED
  BY <1>1, <1>2 DEF BundlesSound, Stands, Distributed, SourceOf, Lasting

(* Published bundles stand by what they were built from, for any streams,  *)
(* exclusions and limits.                                                  *)
THEOREM BundlesAreSound == PackBuildSpec => []BundlesSound
BY BuildInvariant, SoundNow, PTL
=============================================================================
