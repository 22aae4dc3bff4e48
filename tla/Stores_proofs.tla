---------------------------- MODULE Stores_proofs ----------------------------
(***************************************************************************)
(* What holds of the stores for every value of their constants: the        *)
(* activation of pack registries, the mirror of a TUF repository, the      *)
(* local corpus, installed packs and the root ceremony.                    *)
(***************************************************************************)
EXTENDS RegistryActivation, TufRepository, PackInstall, LocalCorpus, RootCeremony,
        FiniteSetTheorems, TLAPS

-----------------------------------------------------------------------------
(* The live registry.                                                      *)

(* A file that is on disk is the one a reader sees: names are never reused *)
FilesAreFinal == \A f \in Files : filesDisk[f] \in {NoFile, files[f]}

(* Beyond "prepared" the document to be replaced is kept, and durably.     *)
PastPreparation(c) == c.moved \/ c.at \in {"prepared", "checked", "replaced"}
KeptBy(c, shelf, shelfDisk) ==
  PastPreparation(c) =>
    /\ shelf[c.keep] = c.from /\ shelfDisk[c.keep] = c.from
    /\ ValidTransition(c.from, c.to, c.source, c.mode)
LooksAt(c, document) == c.at = "checked" => document = c.from

RegistryInv ==
  /\ RegTypeOK /\ FilesAreFinal
  /\ \A o \in Operators : KeptBy(call[o], files, filesDisk) /\ LooksAt(call[o], live)

LEMMA NoFileIsNoDocument == NoFile \notin Document
BY DEF NoFile, Document

LEMMA PromotionIsDocument ==
  ASSUME NEW d \in Document, NEW s \in Sources, NEW r \in Revisions
  PROVE  Promote(d, s, r) \in Document
BY DEF Promote, Document

(* Every step but a power failure leaves written files as they are and     *)
(* syncs all of the directory or nothing.                                  *)
Shelves(before, after, diskBefore, diskAfter) ==
  /\ after \in [Files -> Document \cup {NoFile}]
  /\ \A f \in Files : before[f] = NoFile \/ after[f] = before[f]
  /\ diskAfter \in {diskBefore, after}

LEMMA ShelvesKeep ==
  ASSUME RegTypeOK, FilesAreFinal, Shelves(files, files', filesDisk, filesDisk')
  PROVE  /\ files' \in [Files -> Document \cup {NoFile}]
         /\ filesDisk' \in [Files -> Document \cup {NoFile}]
         /\ FilesAreFinal'
         /\ \A c \in Call : KeptBy(c, files, filesDisk) => KeptBy(c, files', filesDisk')
<1>1. /\ files' \in [Files -> Document \cup {NoFile}]
      /\ filesDisk' \in [Files -> Document \cup {NoFile}]
  BY DEF RegTypeOK, Shelves
<1>2. FilesAreFinal'
  BY <1>1 DEF RegTypeOK, Shelves, FilesAreFinal
<1>3. ASSUME NEW c \in Call, KeptBy(c, files, filesDisk)
      PROVE  KeptBy(c, files', filesDisk')
  <2>1. c.keep \in Files /\ c.from \in Document
    BY DEF Call
  <2>2. SUFFICES ASSUME PastPreparation(c)
                 PROVE  files'[c.keep] = c.from /\ filesDisk'[c.keep] = c.from
    BY <1>3 DEF KeptBy
  <2>3. files[c.keep] = c.from /\ filesDisk[c.keep] = c.from
    BY <1>3, <2>2 DEF KeptBy
  <2>4. files[c.keep] # NoFile
    BY <2>1, <2>3, NoFileIsNoDocument
  <2>. QED
    BY <2>1, <2>3, <2>4 DEF Shelves
<1>. QED
  BY <1>1, <1>2, <1>3

LEMMA RegistryStarts == RegInit => RegistryInv
<1>. SUFFICES ASSUME RegInit PROVE RegistryInv
  OBVIOUS
<1>. USE DEF RegInit
<1>1. live \in Document /\ liveDisk \in Document
  OBVIOUS
<1>2. /\ files \in [Files -> Document \cup {NoFile}]
      /\ filesDisk \in [Files -> Document \cup {NoFile}]
  OBVIOUS
<1>3. (CHOOSE s \in Sources : TRUE) \in Sources /\ (CHOOSE f \in Files : TRUE) \in Files
  BY RegistryAssumption
<1>4. call \in [Operators -> Call]
  BY <1>1, <1>3 DEF Call, Modes, InLock
<1>5. \A o \in Operators : call[o].at = "idle" /\ ~call[o].moved
  OBVIOUS
<1>6. RegTypeOK
  BY <1>1, <1>2, <1>4, <1>5, RegistryAssumption DEF RegTypeOK, InLock, NoOne
<1>. QED
  BY <1>5, <1>6 DEF RegistryInv, FilesAreFinal, KeptBy, PastPreparation, LooksAt

(* A step of one command o that keeps the files: the lock stays with the   *)
(* calls past waiting for it, and what the others know stays true.         *)
LEMMA CallMoves ==
  ASSUME RegistryInv, NEW o \in Operators, NEW c \in Call,
         call' = [call EXCEPT ![o] = c],
         lock' = IF c.at \in InLock THEN o ELSE IF lock = o THEN NoOne ELSE lock,
         c.at \in InLock => lock \in {o, NoOne},
         Shelves(files, files', filesDisk, filesDisk'),
         live' \in Document, liveDisk' \in {liveDisk, live'},
         live' = live \/ call[o].at = "checked",
         KeptBy(c, files', filesDisk'), LooksAt(c, live')
  PROVE  RegistryInv'
<1>1. /\ files' \in [Files -> Document \cup {NoFile}]
      /\ filesDisk' \in [Files -> Document \cup {NoFile}]
      /\ FilesAreFinal'
      /\ \A d \in Call : KeptBy(d, files, filesDisk) => KeptBy(d, files', filesDisk')
  BY ShelvesKeep DEF RegistryInv
<1>2. /\ call \in [Operators -> Call] /\ live \in Document /\ liveDisk \in Document
      /\ \A p \in Operators : lock = p <=> call[p].at \in InLock
  BY DEF RegistryInv, RegTypeOK
<1>3. call' \in [Operators -> Call]
  BY <1>2
<1>4. \A p \in Operators : lock' = p <=> call'[p].at \in InLock
  BY <1>2, RegistryAssumption DEF NoOne
<1>5. RegTypeOK'
  BY <1>1, <1>2, <1>3, <1>4 DEF RegTypeOK
<1>6. ASSUME NEW p \in Operators
      PROVE  KeptBy(call'[p], files', filesDisk') /\ LooksAt(call'[p], live')
  <2>1. CASE p = o
    BY <1>2, <2>1
  <2>2. CASE p # o
    <3>1. call'[p] = call[p] /\ call[p] \in Call
      BY <1>2, <2>2
    <3>2. KeptBy(call[p], files, filesDisk) /\ LooksAt(call[p], live)
      BY DEF RegistryInv
    <3>3. call[o].at = "checked" => call[p].at # "checked"
      BY <1>2, <2>2 DEF InLock
    <3>. QED
      BY <1>1, <3>1, <3>2, <3>3 DEF LooksAt
  <2>. QED
    BY <2>1, <2>2
<1>7. \A p \in Operators : KeptBy(call[p], files, filesDisk)' /\ LooksAt(call[p], live)'
  BY <1>6
<1>. QED
  BY <1>1, <1>5, <1>7 DEF RegistryInv

LEMMA RegistryInductive == RegistryInv /\ [RegNext]_regVars => RegistryInv'
<1>. SUFFICES ASSUME RegistryInv, [RegNext]_regVars
              PROVE  RegistryInv'
  OBVIOUS
<1>1. /\ call \in [Operators -> Call] /\ live \in Document /\ liveDisk \in Document
      /\ files \in [Files -> Document \cup {NoFile}]
      /\ filesDisk \in [Files -> Document \cup {NoFile}]
      /\ FilesAreFinal
      /\ \A o \in Operators : lock = o <=> call[o].at \in InLock
  BY DEF RegistryInv, RegTypeOK
<1>2. \A o \in Operators : KeptBy(call[o], files, filesDisk) /\ LooksAt(call[o], live)
  BY DEF RegistryInv
<1>3. files' = files /\ NoSync => Shelves(files, files', filesDisk, filesDisk')
  BY <1>1 DEF Shelves, NoSync
<1>4. files' = files /\ SyncDirectory => Shelves(files, files', filesDisk, filesDisk')
  BY <1>1 DEF Shelves, SyncDirectory
<1>5. ASSUME NEW o \in Operators
      PROVE  /\ call[o] \in Call
             /\ call[o].at \in InLock => lock = o
             /\ lock = NoOne => call[o].at \notin InLock
  BY <1>1, RegistryAssumption DEF NoOne
<1>6. ASSUME NEW f \in Files, WriteCandidate(f)
      PROVE  RegistryInv'
  <2>1. Shelves(files, files', filesDisk, filesDisk')
    BY <1>1, <1>6, PromotionIsDocument DEF WriteCandidate, Shelves, SyncDirectory, NoSync
  <2>2. /\ files' \in [Files -> Document \cup {NoFile}]
        /\ filesDisk' \in [Files -> Document \cup {NoFile}]
        /\ FilesAreFinal'
        /\ \A c \in Call : KeptBy(c, files, filesDisk) => KeptBy(c, files', filesDisk')
    BY <2>1, ShelvesKeep DEF RegistryInv
  <2>3. live' = live /\ lock' = lock /\ call' = call /\ liveDisk' \in {live, liveDisk}
    BY <1>6 DEF WriteCandidate, SyncDirectory, NoSync
  <2>4. RegTypeOK'
    BY <1>1, <2>2, <2>3 DEF RegTypeOK
  <2>5. \A p \in Operators : KeptBy(call'[p], files', filesDisk') /\ LooksAt(call'[p], live')
    BY <1>2, <1>5, <2>2, <2>3
  <2>. QED
    BY <2>2, <2>4, <2>5 DEF RegistryInv
<1>7. CASE Edit
  <2>1. Shelves(files, files', filesDisk, filesDisk')
    BY <1>4, <1>7 DEF Edit
  <2>2. /\ files' \in [Files -> Document \cup {NoFile}]
        /\ filesDisk' \in [Files -> Document \cup {NoFile}]
        /\ FilesAreFinal'
        /\ \A c \in Call : KeptBy(c, files, filesDisk) => KeptBy(c, files', filesDisk')
    BY <2>1, ShelvesKeep DEF RegistryInv
  <2>3. live' \in Document /\ lock' = lock /\ call' = call /\ liveDisk' = live'
    BY <1>7 DEF Edit, SyncDirectory
  <2>4. RegTypeOK'
    BY <1>1, <2>2, <2>3 DEF RegTypeOK
  <2>5. \A p \in Operators : KeptBy(call'[p], files', filesDisk') /\ LooksAt(call'[p], live')
    BY <1>2, <1>5, <1>7, <2>2, <2>3 DEF Edit, LooksAt
  <2>. QED
    BY <2>2, <2>4, <2>5 DEF RegistryInv
<1>8. CASE PowerFails
  <2>1. PICK K \in SUBSET Files :
          files' = [f \in Files |-> IF f \in K THEN files[f] ELSE filesDisk[f]]
    BY <1>8 DEF PowerFails
  <2>2. /\ files' \in [Files -> Document \cup {NoFile}] /\ filesDisk' = files'
        /\ live' \in Document /\ liveDisk' = live' /\ lock' = NoOne
    BY <1>1, <1>8, <2>1 DEF PowerFails, SyncDirectory
  <2>3. FilesAreFinal'
    BY <2>2 DEF FilesAreFinal
  <2>4. ASSUME NEW o \in Operators
        PROVE  /\ call'[o] \in Call /\ call'[o].at = "idle"
               /\ PastPreparation(call'[o]) => call[o].moved
               /\ call'[o].keep = call[o].keep /\ call'[o].from = call[o].from
               /\ call'[o].to = call[o].to /\ call'[o].source = call[o].source
               /\ call'[o].mode = call[o].mode
    BY <1>5, <1>8 DEF PowerFails, Call, PastPreparation
  <2>5. call' \in [Operators -> Call]
    BY <1>8, <2>4 DEF PowerFails
  <2>6. RegTypeOK'
    BY <2>2, <2>4, <2>5, RegistryAssumption DEF RegTypeOK, InLock, NoOne
  <2>7. ASSUME NEW o \in Operators
        PROVE  KeptBy(call'[o], files', filesDisk') /\ LooksAt(call'[o], live')
    <3>1. SUFFICES ASSUME PastPreparation(call'[o]) PROVE KeptBy(call'[o], files', filesDisk')
      BY <2>4 DEF KeptBy, LooksAt
    <3>2. /\ files[call[o].keep] = call[o].from /\ filesDisk[call[o].keep] = call[o].from
          /\ ValidTransition(call[o].from, call[o].to, call[o].source, call[o].mode)
      BY <1>2, <2>4, <3>1 DEF KeptBy, PastPreparation
    <3>3. call[o].keep \in Files
      BY <1>5 DEF Call
    <3>4. files'[call[o].keep] = call[o].from /\ filesDisk'[call[o].keep] = call[o].from
      BY <2>1, <2>2, <3>2, <3>3
    <3>. QED
      BY <2>4, <3>2, <3>4 DEF KeptBy
  <2>. QED
    BY <2>3, <2>6, <2>7 DEF RegistryInv
<1>9. ASSUME NEW o \in Operators, Start(o)
      PROVE  RegistryInv'
  <2>1. PICK f \in Files, k \in Files, s \in Sources, m \in Modes :
          /\ files[f] \notin {NoFile, live}
          /\ call' = [call EXCEPT ![o] =
               [at |-> "waiting", mode |-> m, source |-> s, from |-> live,
                to |-> files[f], keep |-> k, end |-> "none", moved |-> FALSE]]
    BY <1>9 DEF Start
  <2>. DEFINE c == [at |-> "waiting", mode |-> m, source |-> s, from |-> live,
                    to |-> files[f], keep |-> k, end |-> "none", moved |-> FALSE]
  <2>2. files[f] \in Document
    BY <1>1, <2>1
  <2>3. c \in Call /\ c.at = "waiting" /\ ~c.moved
    BY <1>1, <2>2 DEF Call, InLock
  <2>4. lock # o
    BY <1>1, <1>9 DEF Start, InLock
  <2>5. /\ files' = files /\ NoSync /\ lock' = lock /\ live' = live /\ liveDisk' = liveDisk
    BY <1>9 DEF Start, NoSync
  <2>6. call' = [call EXCEPT ![o] = c]
    BY <2>1
  <2>. HIDE DEF c
  <2>7. KeptBy(c, files', filesDisk') /\ LooksAt(c, live') /\ c.at \notin InLock
    BY <2>3 DEF KeptBy, PastPreparation, LooksAt, InLock
  <2>. QED
    BY <1>1, <1>3, <2>3, <2>4, <2>5, <2>6, <2>7, CallMoves
<1>10. ASSUME NEW o \in Operators, StartAgain(o)
       PROVE  RegistryInv'
  <2>. DEFINE c == [call[o] EXCEPT !.at = "waiting", !.end = "none"]
  <2>1. /\ files' = files /\ NoSync /\ lock' = lock /\ live' = live /\ liveDisk' = liveDisk
        /\ call' = [call EXCEPT ![o] = c] /\ call[o].at = "idle"
    BY <1>1, <1>10 DEF StartAgain, NoSync
  <2>2. c \in Call /\ c.at = "waiting" /\ lock # o
    BY <1>1, <1>5, <2>1 DEF Call, InLock
  <2>3. KeptBy(c, files', filesDisk') /\ LooksAt(c, live')
    BY <1>2, <1>5, <2>1, <2>2 DEF KeptBy, PastPreparation, LooksAt, NoSync, Call
  <2>. HIDE DEF c
  <2>4. c.at \notin InLock
    BY <2>2 DEF InLock
  <2>. QED
    BY <1>1, <1>3, <2>1, <2>2, <2>3, <2>4, CallMoves
<1>11. ASSUME NEW o \in Operators, NEW how \in {"failed", "prepared", "committed", "done", "died"},
              Ends(o, how), files' = files, live' = live, NoSync \/ SyncDirectory
       PROVE  RegistryInv'
  <2>. DEFINE c == [call[o] EXCEPT !.at = "idle", !.end = how]
  <2>1. /\ lock' = IF lock = o THEN NoOne ELSE lock
        /\ call' = [call EXCEPT ![o] = c]
    BY <1>1, <1>11 DEF Ends
  <2>2. c \in Call /\ c.at = "idle"
    BY <1>5 DEF Call, InLock
  <2>3. Shelves(files, files', filesDisk, filesDisk')
    BY <1>3, <1>4, <1>11
  <2>4. KeptBy(call[o], files', filesDisk')
    BY <1>2, <1>5, <2>3, ShelvesKeep DEF RegistryInv
  <2>5. KeptBy(c, files', filesDisk') /\ LooksAt(c, live')
    BY <1>5, <2>2, <2>4 DEF KeptBy, PastPreparation, LooksAt, Call
  <2>6. liveDisk' \in {liveDisk, live'} /\ live' \in Document
    BY <1>1, <1>11 DEF NoSync, SyncDirectory
  <2>. HIDE DEF c
  <2>7. c.at \notin InLock
    BY <2>2 DEF InLock
  <2>. QED
    BY <1>11, <2>1, <2>2, <2>3, <2>5, <2>6, <2>7, CallMoves
<1>12. ASSUME NEW o \in Operators, TakeLock(o)
       PROVE  RegistryInv'
  <2>. DEFINE c == [call[o] EXCEPT !.at = "locked"]
  <2>1. /\ files' = files /\ NoSync /\ lock' = o /\ live' = live /\ liveDisk' = liveDisk
        /\ lock = NoOne /\ call' = [call EXCEPT ![o] = c] /\ call[o].at = "waiting"
    BY <1>1, <1>12 DEF TakeLock, NoSync
  <2>2. c \in Call /\ c.at = "locked"
    BY <1>5 DEF Call, InLock
  <2>3. KeptBy(c, files', filesDisk') /\ LooksAt(c, live')
    BY <1>2, <1>5, <2>1, <2>2 DEF KeptBy, PastPreparation, LooksAt, NoSync, Call
  <2>. HIDE DEF c
  <2>4. c.at \in InLock
    BY <2>2 DEF InLock
  <2>. QED
    BY <1>1, <1>3, <2>1, <2>2, <2>3, <2>4, CallMoves
<1>13. ASSUME NEW o \in Operators, Prepare(o), SyncDirectory,
              call' = [call EXCEPT ![o].at = "prepared"], lock' = lock
       PROVE  RegistryInv'
  <2>. DEFINE c == [call[o] EXCEPT !.at = "prepared"]
  <2>1. /\ call[o].at = "locked" /\ live = call[o].from /\ live' = live
        /\ ValidTransition(live, call[o].to, call[o].source, call[o].mode)
        /\ files[call[o].keep] \in {NoFile, live}
        /\ files' = [files EXCEPT ![call[o].keep] = live]
        /\ liveDisk' = live' /\ filesDisk' = files'
        /\ call' = [call EXCEPT ![o] = c] /\ lock' = o
    BY <1>1, <1>13 DEF Prepare, SyncDirectory, InLock
  <2>2. c \in Call /\ c.at = "prepared" /\ call[o].keep \in Files
    BY <1>5 DEF Call, InLock
  <2>3. Shelves(files, files', filesDisk, filesDisk')
    BY <1>1, <2>1, <2>2 DEF Shelves
  <2>4. files'[call[o].keep] = live /\ filesDisk'[call[o].keep] = live
    BY <1>1, <2>1, <2>2
  <2>5. KeptBy(c, files', filesDisk') /\ LooksAt(c, live')
    BY <1>5, <2>1, <2>2, <2>4 DEF KeptBy, PastPreparation, LooksAt, Call
  <2>. HIDE DEF c
  <2>6. c.at \in InLock /\ lock = o
    BY <1>5, <2>1, <2>2 DEF InLock
  <2>. QED
    BY <1>1, <2>1, <2>2, <2>3, <2>5, <2>6, CallMoves
<1>14. ASSUME NEW o \in Operators, Prepare(o), Ends(o, "prepared"), NoSync
       PROVE  RegistryInv'
  <2>. DEFINE c == [call[o] EXCEPT !.at = "idle", !.end = "prepared"]
  <2>1. /\ live' = live /\ liveDisk' = liveDisk
        /\ files[call[o].keep] \in {NoFile, live}
        /\ files' = [files EXCEPT ![call[o].keep] = live] /\ filesDisk' = filesDisk
        /\ lock' = (IF lock = o THEN NoOne ELSE lock)
        /\ call' = [call EXCEPT ![o] = c]
    BY <1>1, <1>14 DEF Prepare, NoSync, Ends
  <2>2. c \in Call /\ c.at = "idle" /\ call[o].keep \in Files
    BY <1>5 DEF Call, InLock
  <2>3. Shelves(files, files', filesDisk, filesDisk')
    BY <1>1, <2>1, <2>2 DEF Shelves
  <2>4. KeptBy(call[o], files', filesDisk')
    BY <1>2, <1>5, <2>3, ShelvesKeep DEF RegistryInv
  <2>5. KeptBy(c, files', filesDisk') /\ LooksAt(c, live')
    BY <1>5, <2>2, <2>4 DEF KeptBy, PastPreparation, LooksAt, Call
  <2>. HIDE DEF c
  <2>6. c.at \notin InLock
    BY <2>2 DEF InLock
  <2>. QED
    BY <1>1, <2>1, <2>2, <2>3, <2>5, <2>6, CallMoves
<1>15. ASSUME NEW o \in Operators, CheckAgain(o)
       PROVE  RegistryInv'
  <2>. DEFINE c == [call[o] EXCEPT !.at = "checked"]
  <2>1. /\ files' = files /\ NoSync /\ lock' = lock /\ live' = live /\ liveDisk' = liveDisk
        /\ call' = [call EXCEPT ![o] = c] /\ call[o].at = "prepared" /\ live = call[o].from
    BY <1>1, <1>15 DEF CheckAgain, NoSync
  <2>2. c \in Call /\ c.at = "checked" /\ c.from = live
    BY <1>5, <2>1 DEF Call, InLock
  <2>3. KeptBy(c, files', filesDisk') /\ LooksAt(c, live')
    BY <1>2, <1>5, <2>1, <2>2 DEF KeptBy, PastPreparation, LooksAt, NoSync, Call
  <2>. HIDE DEF c
  <2>4. c.at \in InLock /\ lock = o
    BY <1>5, <2>1, <2>2 DEF InLock
  <2>. QED
    BY <1>1, <1>3, <2>1, <2>2, <2>3, <2>4, CallMoves
<1>16. ASSUME NEW o \in Operators, Replace(o)
       PROVE  RegistryInv'
  <2>. DEFINE c == [call[o] EXCEPT !.at = "replaced", !.moved = TRUE]
  <2>1. /\ files' = files /\ NoSync /\ lock' = lock /\ live' = call[o].to
        /\ liveDisk' = liveDisk /\ call' = [call EXCEPT ![o] = c] /\ call[o].at = "checked"
    BY <1>1, <1>16 DEF Replace, NoSync
  <2>2. c \in Call /\ c.at = "replaced" /\ call[o].to \in Document
    BY <1>5, <2>1 DEF Call, InLock
  <2>3. KeptBy(c, files', filesDisk') /\ LooksAt(c, live')
    BY <1>2, <1>5, <2>1, <2>2 DEF KeptBy, PastPreparation, LooksAt, NoSync, Call
  <2>. HIDE DEF c
  <2>4. c.at \in InLock /\ lock = o
    BY <1>5, <2>1, <2>2 DEF InLock
  <2>. QED
    BY <1>1, <1>3, <2>1, <2>2, <2>3, <2>4, CallMoves
<1>17. ASSUME NEW o \in Operators,
              \/ StopsWaiting(o) \/ AlreadyApplied(o) \/ Refuse(o)
              \/ StopPrepared(o) \/ Settle(o) \/ ActivationDies(o)
       PROVE  RegistryInv'
  <2>1. PICK how \in {"failed", "prepared", "committed", "done", "died"} : Ends(o, how)
    BY <1>17 DEF StopsWaiting, AlreadyApplied, Refuse, StopPrepared, Settle, ActivationDies
  <2>2. files' = files /\ live' = live /\ (NoSync \/ SyncDirectory)
    BY <1>17 DEF StopsWaiting, AlreadyApplied, Refuse, StopPrepared, Settle, ActivationDies
  <2>. QED
    BY <1>11, <2>1, <2>2
<1>18. CASE UNCHANGED regVars
  <2>. USE <1>18 DEF regVars
  <2>1. RegTypeOK'
    BY <1>1 DEF RegTypeOK
  <2>2. FilesAreFinal'
    BY <1>1 DEF FilesAreFinal
  <2>. QED
    BY <1>2, <2>1, <2>2 DEF RegistryInv
<1>19. ASSUME NEW o \in Operators, Prepare(o)
       PROVE  RegistryInv'
  BY <1>13, <1>14, <1>19 DEF Prepare
<1>. QED
  BY <1>6, <1>7, <1>8, <1>9, <1>10, <1>12, <1>15, <1>16, <1>17, <1>18, <1>19 DEF RegNext

(* Only Replace moves a checked call on, and what it moves to is valid.    *)
LEMMA MovesAreTransitions ==
  ASSUME RegistryInv, [RegNext]_regVars, NEW o \in Operators,
         call[o].at = "checked", call'[o].at = "replaced"
  PROVE  ValidTransition(live, live', call[o].source, call[o].mode)
<1>1. call \in [Operators -> Call] /\ (\A p \in Operators : KeptBy(call[p], files, filesDisk))
      /\ LooksAt(call[o], live)
  BY DEF RegistryInv, RegTypeOK
<1>2. Replace(o)
  <2>1. call' # call
    OBVIOUS
  <2>2. ~PowerFails
    <3>1. call[o] \in Call
      BY <1>1
    <3>2. PowerFails => call'[o] = [call[o] EXCEPT !.at = "idle", !.end = "died"]
      BY DEF PowerFails
    <3>. QED
      BY <3>1, <3>2 DEF Call
  <2>3. ASSUME NEW p \in Operators, p # o, call'[o] = call[o]
        PROVE  FALSE
    BY <2>3
  <2>4. PICK p \in Operators :
          \/ Start(p) \/ StartAgain(p) \/ StopsWaiting(p) \/ TakeLock(p)
          \/ AlreadyApplied(p) \/ Refuse(p) \/ Prepare(p) \/ CheckAgain(p)
          \/ StopPrepared(p) \/ Replace(p) \/ Settle(p) \/ ActivationDies(p)
    BY <2>1, <2>2 DEF RegNext, regVars, WriteCandidate, Edit
  <2>5. PICK c : call' = [call EXCEPT ![p] = c]
    BY <1>1, <2>4 DEF Start, StartAgain, StopsWaiting, TakeLock, AlreadyApplied, Refuse,
       Prepare, CheckAgain, StopPrepared, Replace, Settle, ActivationDies, Ends
  <2>6. p = o
    BY <1>1, <2>3, <2>5
  <2>. QED
    BY <1>1, <2>4, <2>6 DEF Start, StartAgain, StopsWaiting, TakeLock, AlreadyApplied, Refuse,
       Prepare, CheckAgain, StopPrepared, Replace, Settle, ActivationDies, Ends, Call
<1>. QED
  BY <1>1, <1>2 DEF Replace, KeptBy, PastPreparation, LooksAt

(* The registry is only ever replaced by a valid transition of what is     *)
(* live at the very rename, and a command that replaced it finds, run      *)
(* again, the document it replaced - for any sources, revisions, operators *)
(* and files, with edits, deaths and power failures in between (Activate,  *)
(* prepareRollbackFile, recoverAlreadyApplied).                            *)
THEOREM RegistryMovesSoundly == RegSpec => RegistrySound
<1>1. RegistryInv /\ [RegNext]_regVars =>
        [\A o \in Operators : call[o].at = "checked" /\ call'[o].at = "replaced" =>
           ValidTransition(live, live', call[o].source, call[o].mode)]_regVars
  BY MovesAreTransitions
<1>2. RegistryInv => RetryRecognised
  BY DEF RegistryInv, RetryRecognised, KeptBy, PastPreparation
<1>. QED
  BY <1>1, <1>2, RegistryStarts, RegistryInductive, PTL
     DEF RegSpec, RegistrySound, EveryMoveIsATransition

(* Type correctness of the registry, and the lock's bookkeeping.           *)
THEOREM RegistryTyped == RegSpec => []RegTypeOK
<1>1. RegistryInv => RegTypeOK
  BY DEF RegistryInv
<1>. QED
  BY <1>1, RegistryStarts, RegistryInductive, PTL DEF RegSpec

-----------------------------------------------------------------------------
(* The mirror's head.                                                      *)

(* What a power failure leaves of the immutable files is among them.       *)
SlotsOf(disk, m) ==
  \A v \in 1..MaxVersion :
    /\ disk.targets[v] \in {NoGeneration, m.targets[v]}
    /\ disk.snapshot[v] \in {NoGeneration, m.snapshot[v]}
FilesOf(disk, m) == disk.roots <= m.roots /\ disk.packs \subseteq m.packs /\ SlotsOf(disk, m)

(* All roots name the same online key.                                     *)
RootsAgree ==
  /\ \A n \in 1..Len(rootKeys) : rootKeys[n] = rootKeys[1]
  /\ \A g \in staged : g.roots <= Len(rootKeys) /\ g.key = rootKeys[1]
  /\ mirror.roots <= Len(rootKeys)
  /\ \A c \in Consumers : trusted[c].roots <= Len(rootKeys)

(* A head was complete on disk before it became one, and is newer than     *)
(* what a power failure leaves of it and than what consumers accepted.     *)
HeadsDurable ==
  /\ \A h \in {head, headDisk} \ {NoGeneration} : Complete(h, mirrorDisk)
  /\ headDisk.version <= head.version
  /\ \A c \in Consumers : trusted[c].version <= headDisk.version

(* An activation goes on to the next version, durably before it commits.   *)
JobAdvances ==
  job # NoJob =>
    /\ job.gen # NoGeneration
    /\ job.at \in {"copying", "prepared"} => job.gen.version = job.from.version + 1
    /\ job.at \in {"prepared", "committed"} => Complete(job.gen, mirrorDisk)

MirrorInv ==
  TufTypeOK /\ FilesOf(mirrorDisk, mirror) /\ RootsAgree /\ HeadsDurable /\ JobAdvances

(* A generation differs from none.                                         *)
LEMMA StagedIsGeneration ==
  ASSUME TufTypeOK, NEW g \in staged
  PROVE  /\ g \in Generation /\ g # NoGeneration
         /\ g.version \in 1..MaxVersion /\ g.roots \in 1..MaxRoots
         /\ g.pack \in Packs \cup {0} /\ g.key \in OnlineKeys
<1>1. g \in Generation
  BY DEF TufTypeOK
<1>2. g.version \in 1..MaxVersion /\ NoGeneration.version = 0
  BY <1>1 DEF Generation, NoGeneration
<1>. QED
  BY <1>1, <1>2 DEF Generation

(* A generation complete in some files is complete in more of them, as     *)
(* long as the roots agree.                                                *)
LEMMA MoreIsComplete ==
  ASSUME TufTypeOK, RootsAgree, NEW g \in staged, NEW m \in Mirror, NEW disk \in Mirror,
         Complete(g, disk), FilesOf(disk, m), m.roots <= Len(rootKeys)
  PROVE  Complete(g, m)
<1>1. g # NoGeneration /\ g.version \in 1..MaxVersion /\ g.roots \in 1..MaxRoots
  BY StagedIsGeneration
<1>2. g.roots \in Nat /\ disk.roots \in Nat /\ m.roots \in Nat /\ g.roots >= 1
  BY <1>1 DEF Mirror
<1>3. m.roots >= g.roots /\ m.roots \in 1..Len(rootKeys)
  BY <1>2 DEF Complete, FilesOf
<1>4. rootKeys[m.roots] = g.key
  BY <1>3 DEF RootsAgree
<1>5. m.targets[g.version] = g /\ m.snapshot[g.version] = g
  BY <1>1 DEF Complete, FilesOf, SlotsOf
<1>6. g.pack # 0 => g.pack \in m.packs
  BY DEF Complete, FilesOf
<1>. QED
  BY <1>3, <1>4, <1>5, <1>6 DEF Complete

LEMMA MirrorStarts == TufInit => MirrorInv
<1>. SUFFICES ASSUME TufInit PROVE MirrorInv
  OBVIOUS
<1>. USE DEF TufInit
<1>1. rootKeys \in Seq(OnlineKeys) /\ Len(rootKeys) = 1 /\ rootKeys[1] \in OnlineKeys
  BY RepositoryAssumption
<1>2. mirror \in Mirror /\ mirrorDisk = mirror
  BY RepositoryAssumption DEF Mirror, Slots, EmptySlots
<1>3. trusted \in [Consumers -> [roots : 1..MaxRoots, version : 0..MaxVersion]]
  BY RepositoryAssumption
<1>4. TufTypeOK
  BY <1>1, <1>2, <1>3, RepositoryAssumption DEF TufTypeOK, NoJob
<1>5. FilesOf(mirrorDisk, mirror)
  BY <1>2 DEF FilesOf, SlotsOf, Mirror, Slots
<1>6. RootsAgree
  BY <1>1 DEF RootsAgree
<1>7. HeadsDurable
  BY DEF HeadsDurable, NoGeneration
<1>. QED
  BY <1>4, <1>5, <1>6, <1>7 DEF MirrorInv, JobAdvances

(* What a step must show that leaves the roots, the generations and the    *)
(* files on disk alone.                                                    *)
LEMMA MirrorTypes ==
  ASSUME TufTypeOK
  PROVE  /\ mirror.roots \in 0..MaxRoots /\ mirrorDisk.roots \in 0..MaxRoots
         /\ mirror.packs \subseteq Packs /\ mirrorDisk.packs \subseteq Packs
         /\ mirror.targets \in Slots /\ mirror.snapshot \in Slots
         /\ mirrorDisk.targets \in Slots /\ mirrorDisk.snapshot \in Slots
         /\ head \in staged \cup {NoGeneration} /\ headDisk \in staged \cup {NoGeneration}
         /\ \A g \in staged \cup {NoGeneration} : g.version \in Nat
         /\ Len(rootKeys) \in Nat /\ MaxVersion \in Nat /\ MaxRoots \in Nat
<1>1. \A g \in staged : g.version \in 1..MaxVersion
  BY StagedIsGeneration
<1>2. NoGeneration.version = 0
  BY DEF NoGeneration
<1>. QED
  BY <1>1, <1>2, RepositoryAssumption DEF TufTypeOK, Mirror

LEMMA MirrorInductive == MirrorInv /\ [TufNext]_tufVars => MirrorInv'
<1>. SUFFICES ASSUME MirrorInv, [TufNext]_tufVars PROVE MirrorInv'
  OBVIOUS
<1>0. /\ TufTypeOK /\ FilesOf(mirrorDisk, mirror) /\ RootsAgree /\ HeadsDurable /\ JobAdvances
  BY DEF MirrorInv
<1>1. /\ mirror.roots \in 0..MaxRoots /\ mirrorDisk.roots \in 0..MaxRoots
      /\ mirror.packs \subseteq Packs /\ mirrorDisk.packs \subseteq Packs
      /\ mirror.targets \in Slots /\ mirror.snapshot \in Slots
      /\ mirrorDisk.targets \in Slots /\ mirrorDisk.snapshot \in Slots
      /\ head \in staged \cup {NoGeneration} /\ headDisk \in staged \cup {NoGeneration}
      /\ \A g \in staged \cup {NoGeneration} : g.version \in Nat
      /\ Len(rootKeys) \in Nat /\ MaxVersion \in Nat /\ MaxRoots \in Nat
  BY <1>0, MirrorTypes
<1>2. CASE RotateRoot
  <2>1. PICK k \in OnlineKeys : k = rootKeys[Len(rootKeys)] /\ rootKeys' = Append(rootKeys, k)
    BY <1>2 DEF RotateRoot, KeepsOnlineRoles
  <2>2. /\ rootKeys' \in Seq(OnlineKeys) /\ Len(rootKeys') = Len(rootKeys) + 1
        /\ Len(rootKeys') \in 1..MaxRoots
        /\ \A n \in 1..Len(rootKeys) : rootKeys'[n] = rootKeys[n]
        /\ rootKeys'[Len(rootKeys) + 1] = k
    BY <1>0, <1>1, <1>2, <2>1 DEF RotateRoot, TufTypeOK
  <2>3. Len(rootKeys) >= 1 /\ k = rootKeys[1]
    BY <1>0, <2>1 DEF RootsAgree, TufTypeOK
  <2>4. \A n \in 1..Len(rootKeys') : rootKeys'[n] = rootKeys'[1]
    BY <1>0, <1>1, <2>2, <2>3 DEF RootsAgree
  <2>5. /\ UNCHANGED <<staged, mirror, mirrorDisk, head, headDisk, job, trusted>>
        /\ rootKeys'[1] = rootKeys[1]
    BY <1>1, <1>2, <2>2, <2>3 DEF RotateRoot
  <2>6. TufTypeOK'
    BY <1>0, <2>2, <2>5 DEF TufTypeOK
  <2>7. RootsAgree'
    <3>1. /\ \A g \in staged : g.roots <= Len(rootKeys')
          /\ mirror.roots <= Len(rootKeys')
          /\ \A c \in Consumers : trusted[c].roots <= Len(rootKeys')
      <4>1. \A g \in staged : g.roots \in Nat
        BY <1>0, <1>1, StagedIsGeneration
      <4>2. \A c \in Consumers : trusted[c].roots \in Nat
        BY <1>0, <1>1 DEF TufTypeOK
      <4>. QED
        BY <1>0, <1>1, <2>2, <4>1, <4>2 DEF RootsAgree
    <3>. QED
      BY <1>0, <2>4, <2>5, <3>1 DEF RootsAgree
  <2>8. ASSUME NEW g \in staged, Complete(g, mirrorDisk)
        PROVE  Complete(g, mirrorDisk)'
    <3>1. g.roots >= 1 /\ g.roots \in Nat /\ mirrorDisk.roots <= Len(rootKeys)
      BY <1>0, <1>1, StagedIsGeneration DEF FilesOf, RootsAgree
    <3>2. mirrorDisk.roots \in 1..Len(rootKeys)
      BY <1>1, <2>8, <3>1 DEF Complete
    <3>. QED
      BY <2>2, <2>5, <2>8, <3>2 DEF Complete
  <2>9. HeadsDurable'
    BY <1>0, <1>1, <2>5, <2>8 DEF HeadsDurable
  <2>10. JobAdvances'
    <3>1. job # NoJob => job.gen \in staged
      BY <1>0 DEF JobAdvances, TufTypeOK
    <3>. QED
      BY <1>0, <2>5, <2>8, <3>1 DEF JobAdvances
  <2>11. FilesOf(mirrorDisk, mirror)'
    BY <1>0, <2>5
  <2>. QED
    BY <2>6, <2>7, <2>9, <2>10, <2>11 DEF MirrorInv
<1>3. CASE Stage
  <2>1. PICK prev \in staged \cup {NoGeneration}, n \in 1..Len(rootKeys),
             p \in Packs \cup {0}, c \in Copies :
          /\ prev.version < MaxVersion
          /\ staged' = staged \cup
               {[version |-> prev.version + 1, roots |-> n, key |-> rootKeys[n],
                 pack |-> p, copy |-> c]}
    BY <1>3 DEF Stage
  <2>. DEFINE new == [version |-> prev.version + 1, roots |-> n, key |-> rootKeys[n],
                      pack |-> p, copy |-> c]
  <2>2. prev.version + 1 \in 1..MaxVersion /\ n \in 1..MaxRoots /\ rootKeys[n] \in OnlineKeys
    BY <1>0, <1>1, <2>1 DEF TufTypeOK
  <2>3. new \in Generation
    BY <2>2 DEF Generation
  <2>4. UNCHANGED <<rootKeys, mirror, mirrorDisk, head, headDisk, job, trusted>>
    BY <1>3 DEF Stage
  <2>5. new.roots <= Len(rootKeys) /\ new.key = rootKeys[1]
    BY <1>0, <2>1 DEF RootsAgree
  <2>. HIDE DEF new
  <2>6. staged' = staged \cup {new}
    BY <2>1 DEF new
  <2>7. TufTypeOK'
    BY <1>0, <2>3, <2>4, <2>6 DEF TufTypeOK
  <2>8. RootsAgree'
    BY <1>0, <2>4, <2>5, <2>6 DEF RootsAgree
  <2>9. HeadsDurable' /\ JobAdvances' /\ FilesOf(mirrorDisk, mirror)'
    BY <1>0, <2>4 DEF HeadsDurable, JobAdvances, Complete
  <2>. QED
    BY <2>7, <2>8, <2>9 DEF MirrorInv
<1>4. CASE BeginActivation
  <2>1. PICK g \in staged : ValidNext(g) /\ job' = [gen |-> g, from |-> head, at |-> "copying"]
    BY <1>4 DEF BeginActivation
  <2>2. UNCHANGED <<rootKeys, staged, mirror, mirrorDisk, head, headDisk, trusted>>
    BY <1>4 DEF BeginActivation
  <2>3. g # NoGeneration
    BY <1>0, StagedIsGeneration
  <2>4. g.version = head.version + 1
    BY <2>1 DEF ValidNext, NoGeneration
  <2>5. TufTypeOK'
    BY <1>0, <1>1, <2>1, <2>2 DEF TufTypeOK
  <2>6. RootsAgree' /\ HeadsDurable' /\ FilesOf(mirrorDisk, mirror)'
    BY <1>0, <2>2 DEF RootsAgree, HeadsDurable, Complete
  <2>7. JobAdvances'
    BY <2>1, <2>3, <2>4 DEF JobAdvances
  <2>. QED
    BY <2>5, <2>6, <2>7 DEF MirrorInv
<1>5. CASE CopyFile
  <2>. DEFINE g == job.gen
              v == g.version
  <2>1. job # NoJob /\ UNCHANGED <<rootKeys, staged, mirrorDisk, head, headDisk, job, trusted>>
    BY <1>5 DEF CopyFile, NoJob
  <2>2. g \in staged /\ g \in Generation /\ v \in 1..MaxVersion /\ g.roots \in 1..MaxRoots
        /\ g.pack \in Packs \cup {0}
    BY <1>0, <2>1, StagedIsGeneration DEF JobAdvances, TufTypeOK
  <2>3. \/ mirror' = [mirror EXCEPT !.roots = @ + 1] /\ mirror.roots < g.roots
        \/ mirror' = [mirror EXCEPT !.snapshot[v] = g] /\ mirror.snapshot[v] = NoGeneration
        \/ mirror' = [mirror EXCEPT !.targets[v] = g] /\ mirror.targets[v] = NoGeneration
        \/ mirror' = [mirror EXCEPT !.packs = @ \cup {g.pack}] /\ g.pack \in Packs
    BY <1>5, <2>2 DEF CopyFile
  <2>4. mirror \in Mirror
    BY <1>0 DEF TufTypeOK
  <2>. HIDE DEF g, v
  <2>5. mirror' \in Mirror /\ mirror'.roots \in {mirror.roots, mirror.roots + 1}
        /\ mirror'.roots <= Len(rootKeys)
    <3>1. g.roots <= Len(rootKeys) /\ mirror.roots <= Len(rootKeys)
      BY <1>0, <2>2 DEF RootsAgree
    <3>2. CASE mirror' = [mirror EXCEPT !.roots = @ + 1] /\ mirror.roots < g.roots
      BY <1>1, <2>2, <2>4, <3>1, <3>2 DEF Mirror
    <3>3. CASE mirror' = [mirror EXCEPT !.snapshot[v] = g]
      BY <1>1, <2>2, <2>4, <3>1, <3>3 DEF Mirror, Slots
    <3>4. CASE mirror' = [mirror EXCEPT !.targets[v] = g]
      BY <1>1, <2>2, <2>4, <3>1, <3>4 DEF Mirror, Slots
    <3>5. CASE mirror' = [mirror EXCEPT !.packs = @ \cup {g.pack}] /\ g.pack \in Packs
      BY <1>1, <2>2, <2>4, <3>1, <3>5 DEF Mirror
    <3>. QED
      BY <2>3, <3>2, <3>3, <3>4, <3>5
  <2>6. FilesOf(mirrorDisk, mirror')
    <3>1. mirrorDisk.roots <= mirror'.roots
      BY <1>0, <1>1, <2>5 DEF FilesOf
    <3>2. mirrorDisk.packs \subseteq mirror'.packs
      BY <1>0, <2>3, <2>4 DEF FilesOf, Mirror
    <3>3. SlotsOf(mirrorDisk, mirror')
      BY <1>0, <1>1, <2>3, <2>4 DEF FilesOf, SlotsOf, Mirror, Slots
    <3>. QED
      BY <3>1, <3>2, <3>3 DEF FilesOf
  <2>7. TufTypeOK'
    BY <1>0, <2>1, <2>5 DEF TufTypeOK
  <2>8. RootsAgree'
    BY <1>0, <2>1, <2>5 DEF RootsAgree
  <2>9. HeadsDurable' /\ JobAdvances' /\ FilesOf(mirrorDisk, mirror)'
    BY <1>0, <2>1, <2>6 DEF HeadsDurable, JobAdvances, Complete
  <2>. QED
    BY <2>7, <2>8, <2>9 DEF MirrorInv
<1>6. CASE Prepared
  <2>1. /\ UNCHANGED <<rootKeys, staged, mirror, head, headDisk, trusted>>
        /\ job.at = "copying" /\ Complete(job.gen, mirror) /\ mirrorDisk' = mirror
        /\ job' = [job EXCEPT !.at = "prepared"] /\ job # NoJob
    BY <1>6 DEF Prepared, NoJob
  <2>2. /\ job'.gen = job.gen /\ job'.from = job.from /\ job'.at = "prepared"
        /\ job' \in [gen : staged \cup {NoGeneration}, from : staged \cup {NoGeneration},
                     at : {"none", "copying", "prepared", "committed"}]
    BY <1>0, <2>1 DEF TufTypeOK
  <2>3. TufTypeOK' /\ RootsAgree'
    BY <1>0, <2>1, <2>2 DEF TufTypeOK, RootsAgree
  <2>4. FilesOf(mirrorDisk, mirror)'
    BY <1>1, <2>1 DEF FilesOf, SlotsOf
  <2>5. ASSUME NEW h \in staged, Complete(h, mirrorDisk)
        PROVE  Complete(h, mirrorDisk)'
    <3>1. Complete(h, mirror)
      BY <1>0, <2>5, MoreIsComplete DEF TufTypeOK, RootsAgree
    <3>. QED
      BY <2>1, <3>1 DEF Complete
  <2>6. HeadsDurable'
    BY <1>0, <1>1, <2>1, <2>5 DEF HeadsDurable
  <2>7. JobAdvances'
    BY <1>0, <2>1, <2>2 DEF JobAdvances, Complete
  <2>. QED
    BY <2>3, <2>4, <2>6, <2>7 DEF MirrorInv
<1>7. CASE Commit
  <2>1. /\ UNCHANGED <<rootKeys, staged, mirror, mirrorDisk, trusted>>
        /\ job.at = "prepared" /\ head = job.from /\ head' = job.gen
        /\ headDisk' \in {headDisk, job.gen}
        /\ job' = [job EXCEPT !.at = "committed"] /\ job # NoJob
    BY <1>7 DEF Commit, NoJob
  <2>2. /\ job'.gen = job.gen /\ job'.at = "committed"
        /\ job' \in [gen : staged \cup {NoGeneration}, from : staged \cup {NoGeneration},
                     at : {"none", "copying", "prepared", "committed"}]
    BY <1>0, <2>1 DEF TufTypeOK
  <2>3. job.gen \in staged /\ Complete(job.gen, mirrorDisk)
        /\ job.gen.version = head.version + 1
    BY <1>0, <2>1 DEF JobAdvances, TufTypeOK
  <2>4. TufTypeOK' /\ RootsAgree' /\ FilesOf(mirrorDisk, mirror)'
    BY <1>0, <2>1, <2>2, <2>3 DEF TufTypeOK, RootsAgree
  <2>5. /\ headDisk'.version <= head'.version
        /\ \A c \in Consumers : trusted[c].version <= headDisk'.version
    <3>1. \A c \in Consumers : trusted[c].version \in Nat
      BY <1>0, <1>1 DEF TufTypeOK
    <3>. QED
      BY <1>0, <1>1, <2>1, <2>3, <3>1 DEF HeadsDurable
  <2>6. HeadsDurable'
    BY <1>0, <2>1, <2>3, <2>5 DEF HeadsDurable, Complete
  <2>7. JobAdvances'
    BY <1>0, <2>1, <2>2, <2>3 DEF JobAdvances, Complete
  <2>. QED
    BY <2>4, <2>6, <2>7 DEF MirrorInv
<1>8. CASE FinishActivation
  <2>1. /\ UNCHANGED <<rootKeys, staged, mirror, mirrorDisk, head, trusted>>
        /\ headDisk' = head /\ job' = NoJob
    BY <1>8 DEF FinishActivation
  <2>2. TufTypeOK' /\ RootsAgree' /\ FilesOf(mirrorDisk, mirror)'
    BY <1>0, <2>1 DEF TufTypeOK, RootsAgree, NoJob
  <2>3. HeadsDurable'
    <3>1. \A c \in Consumers : trusted[c].version \in Nat
      BY <1>0, <1>1 DEF TufTypeOK
    <3>. QED
      BY <1>0, <1>1, <2>1, <3>1 DEF HeadsDurable, Complete
  <2>. QED
    BY <2>1, <2>2, <2>3 DEF MirrorInv, JobAdvances
<1>9. CASE StopActivation
  <2>1. /\ UNCHANGED <<rootKeys, staged, mirror, mirrorDisk, head, headDisk, trusted>>
        /\ job' = NoJob
    BY <1>9 DEF StopActivation
  <2>2. TufTypeOK' /\ RootsAgree' /\ FilesOf(mirrorDisk, mirror)' /\ HeadsDurable'
    BY <1>0, <2>1 DEF TufTypeOK, RootsAgree, HeadsDurable, Complete, NoJob
  <2>. QED
    BY <2>1, <2>2 DEF MirrorInv, JobAdvances
<1>10. CASE MirrorPowerFails
  <2>1. PICK n \in mirrorDisk.roots..mirror.roots, P \in SUBSET mirror.packs,
             lost \in SUBSET (1..MaxVersion) :
          mirror' = [roots |-> n, packs |-> P \cup mirrorDisk.packs,
                     targets |-> [v \in 1..MaxVersion |->
                        IF v \in lost THEN mirrorDisk.targets[v] ELSE mirror.targets[v]],
                     snapshot |-> [v \in 1..MaxVersion |->
                        IF v \in lost THEN mirrorDisk.snapshot[v] ELSE mirror.snapshot[v]]]
    BY <1>10 DEF MirrorPowerFails
  <2>2. /\ UNCHANGED <<rootKeys, staged, headDisk, trusted>>
        /\ head' = headDisk /\ mirrorDisk' = mirror' /\ job' = NoJob
    BY <1>10 DEF MirrorPowerFails
  <2>3. n \in 0..MaxRoots /\ n <= Len(rootKeys)
    BY <1>0, <1>1, <2>1 DEF RootsAgree
  <2>4. mirror' \in Mirror
    BY <1>1, <2>1, <2>3 DEF Mirror, Slots
  <2>5. mirror'.roots = n /\ FilesOf(mirrorDisk, mirror')
    <3>1. mirror'.roots = n /\ mirrorDisk.roots <= mirror'.roots
      BY <1>1, <2>1
    <3>2. mirrorDisk.packs \subseteq mirror'.packs
      BY <2>1
    <3>3. SlotsOf(mirrorDisk, mirror')
      BY <1>0, <2>1 DEF FilesOf, SlotsOf
    <3>. QED
      BY <3>1, <3>2, <3>3 DEF FilesOf
  <2>6. TufTypeOK' /\ RootsAgree'
    BY <1>0, <1>1, <2>2, <2>3, <2>4, <2>5 DEF TufTypeOK, RootsAgree, NoJob
  <2>7. FilesOf(mirrorDisk, mirror)'
    BY <1>1, <2>2, <2>3, <2>5 DEF FilesOf, SlotsOf
  <2>8. ASSUME NEW h \in staged, Complete(h, mirrorDisk)
        PROVE  Complete(h, mirrorDisk)'
    <3>1. Complete(h, mirror')
      BY <1>0, <2>3, <2>4, <2>5, <2>8, MoreIsComplete DEF TufTypeOK
    <3>. QED
      BY <2>2, <3>1 DEF Complete
  <2>9. HeadsDurable'
    BY <1>0, <1>1, <2>2, <2>8 DEF HeadsDurable
  <2>. QED
    BY <2>2, <2>6, <2>7, <2>9 DEF MirrorInv, JobAdvances
<1>11. ASSUME NEW c \in Consumers, AcceptRoots(c) \/ AcceptHead(c)
       PROVE  MirrorInv'
  <2>1. /\ UNCHANGED <<rootKeys, staged, mirror, mirrorDisk, head, headDisk, job>>
        /\ \/ mirror.roots > trusted[c].roots
              /\ trusted' = [trusted EXCEPT ![c].roots = mirror.roots]
           \/ head = headDisk /\ head # NoGeneration
              /\ trusted' = [trusted EXCEPT ![c].version = head.version]
    BY <1>11 DEF AcceptRoots, AcceptHead
  <2>2. trusted \in [Consumers -> [roots : 1..MaxRoots, version : 0..MaxVersion]]
    BY <1>0 DEF TufTypeOK
  <2>3. head # NoGeneration => head.version \in 0..MaxVersion
    BY <1>0, <1>1, StagedIsGeneration
  <2>4. /\ trusted' \in [Consumers -> [roots : 1..MaxRoots, version : 0..MaxVersion]]
        /\ \A d \in Consumers : trusted'[d].roots <= Len(rootKeys)
        /\ \A d \in Consumers : trusted'[d].version <= headDisk.version
    <3>1. CASE mirror.roots > trusted[c].roots
               /\ trusted' = [trusted EXCEPT ![c].roots = mirror.roots]
      BY <1>0, <1>1, <2>2, <3>1 DEF RootsAgree, HeadsDurable
    <3>2. CASE head = headDisk /\ head # NoGeneration
               /\ trusted' = [trusted EXCEPT ![c].version = head.version]
      BY <1>0, <1>1, <2>2, <2>3, <3>2 DEF RootsAgree, HeadsDurable
    <3>. QED
      BY <2>1, <3>1, <3>2
  <2>5. TufTypeOK' /\ RootsAgree' /\ FilesOf(mirrorDisk, mirror)'
    BY <1>0, <2>1, <2>4 DEF TufTypeOK, RootsAgree
  <2>6. HeadsDurable' /\ JobAdvances'
    BY <1>0, <2>1, <2>4 DEF HeadsDurable, JobAdvances, Complete
  <2>. QED
    BY <2>5, <2>6 DEF MirrorInv
<1>12. CASE UNCHANGED tufVars
  <2>. USE <1>12 DEF tufVars
  <2>1. TufTypeOK' /\ RootsAgree' /\ FilesOf(mirrorDisk, mirror)'
    BY <1>0 DEF TufTypeOK, RootsAgree
  <2>2. HeadsDurable' /\ JobAdvances'
    BY <1>0 DEF HeadsDurable, JobAdvances, Complete
  <2>. QED
    BY <2>1, <2>2 DEF MirrorInv
<1>. QED
  BY <1>2, <1>3, <1>4, <1>5, <1>6, <1>7, <1>8, <1>9, <1>10, <1>11, <1>12 DEF TufNext

(* At every moment, also while a rotated root is only prepared and after   *)
(* any power failure, the head on the mirror is complete there and         *)
(* acceptable to every consumer, whatever each has accepted before - for   *)
(* any packs, online keys, copies, numbers of versions, roots and          *)
(* generations, and any consumers (ActivateMirror, commitMirrorHead).      *)
THEOREM HeadsServe == TufSpec => []HeadServesEveryone
<1>1. MirrorInv => HeadServesEveryone
  <2>. SUFFICES ASSUME MirrorInv, NEW h \in {head, headDisk} \ {NoGeneration}
                PROVE  /\ Complete(h, mirror) /\ (h = headDisk => Complete(h, mirrorDisk))
                       /\ \A c \in Consumers :
                            /\ rootKeys[trusted[c].roots] = h.key
                            /\ h = headDisk => h.version >= trusted[c].version
    BY DEF HeadServesEveryone
  <2>0. TufTypeOK /\ FilesOf(mirrorDisk, mirror) /\ RootsAgree /\ HeadsDurable
    BY DEF MirrorInv
  <2>1. h \in staged /\ Complete(h, mirrorDisk)
    BY <2>0 DEF TufTypeOK, HeadsDurable
  <2>2. Complete(h, mirror)
    BY <2>0, <2>1, MoreIsComplete DEF TufTypeOK, RootsAgree
  <2>3. ASSUME NEW c \in Consumers PROVE rootKeys[trusted[c].roots] = h.key
    <3>1. trusted[c].roots \in 1..MaxRoots /\ Len(rootKeys) \in Nat /\ MaxRoots \in Nat
      BY <2>0, MirrorTypes DEF TufTypeOK
    <3>2. trusted[c].roots \in 1..Len(rootKeys)
      BY <2>0, <3>1 DEF RootsAgree
    <3>. QED
      BY <2>0, <2>1, <3>2 DEF RootsAgree
  <2>4. ASSUME NEW c \in Consumers, h = headDisk PROVE h.version >= trusted[c].version
    <3>1. trusted[c].version \in Nat /\ h.version \in Nat
      BY <2>0, <2>1, MirrorTypes DEF TufTypeOK
    <3>. QED
      BY <2>0, <2>4, <3>1 DEF HeadsDurable
  <2>. QED
    BY <2>1, <2>2, <2>3, <2>4
<1>. QED
  BY <1>1, MirrorStarts, MirrorInductive, PTL DEF TufSpec

-----------------------------------------------------------------------------
(* Installed packs.                                                        *)

(* What a pack builds on, and what it says of a URL.                       *)
ParentURLs(m) == IF DeltaParent[m] = NoPack THEN {} ELSE DOMAIN Rows[DeltaParent[m]]
RowOf(m, u) == IF u \in DOMAIN Rows[m] THEN Rows[m][u] ELSE Rows[DeltaParent[m]][u]

(* The URLs an installation has rows for by now, and the parent's URLs it  *)
(* has found shadowed.                                                     *)
ReadSoFar(x) ==
  IF x.at = "parent" THEN (ParentURLs(x.pack) \ x.todo) \ DOMAIN Rows[x.pack]
  ELSE (ParentURLs(x.pack) \ DOMAIN Rows[x.pack]) \cup (Upserts(x.pack) \ x.todo)
ShadowedSoFar(x) ==
  IF x.at = "parent" THEN (ParentURLs(x.pack) \ x.todo) \cap DOMAIN Rows[x.pack]
  ELSE ParentURLs(x.pack) \cap DOMAIN Rows[x.pack]

(* Rows and matches are exactly those of the URLs read, and every          *)
(* tombstone passed had something to remove.                               *)
InstallExact(x) ==
  /\ x \in Install
  /\ x.rows = [u \in ReadSoFar(x) |-> RowOf(x.pack, u)]
  /\ x.matched = ShadowedSoFar(x)
  /\ DeltaParent[x.pack] # NoPack => DeltaParent[DeltaParent[x.pack]] = NoPack
  /\ x.at = "parent" => DeltaParent[x.pack] # NoPack /\ x.todo \subseteq ParentURLs(x.pack)
  /\ x.at # "parent" =>
       /\ x.todo \subseteq DOMAIN Rows[x.pack]
       /\ (DOMAIN Rows[x.pack] \ x.todo) \ Upserts(x.pack) \subseteq ParentURLs(x.pack)
  /\ x.at = "sealed" => x.todo = {}

ObjectExact(m) ==
  objects[m] # NoPack =>
    /\ objects[m].rows = Materialized(m)
    /\ DeltaParent[m] # NoPack =>
         DOMAIN Rows[m] \ Upserts(m) \subseteq DOMAIN Rows[DeltaParent[m]]
ServedExists ==
  served # NotServing =>
    /\ served.pack \in Manifests /\ objects[served.pack] # NoPack
    /\ Cardinality(DOMAIN objects[served.pack].rows) = served.count

PackInv ==
  /\ DOMAIN objects = Manifests /\ DOMAIN installs = Installers
  /\ installs = [i \in Installers |-> installs[i]]
  /\ \A i \in Installers : installs[i] # Away => InstallExact(installs[i])
  /\ \A m \in Manifests : ObjectExact(m)
  /\ objects = [m \in Manifests |-> objects[m]]
  /\ ServedExists

LEMMA RowsTyped ==
  ASSUME NEW m \in Manifests
  PROVE  /\ DOMAIN Rows[m] \subseteq PackURLs
         /\ ParentURLs(m) \subseteq PackURLs
         /\ \A u \in Upserts(m) : Rows[m][u] \in Texts
         /\ Upserts(m) \subseteq DOMAIN Rows[m]
         /\ \A u \in DOMAIN Rows[m] : u \notin Upserts(m) <=> Rows[m][u] = TombstoneRow
         /\ DeltaParent[m] # NoPack /\ DeltaParent[DeltaParent[m]] = NoPack =>
              \A u \in ParentURLs(m) : Rows[DeltaParent[m]][u] \in Texts
<1>1. \A d \in Manifests :
        /\ DOMAIN Rows[d] \subseteq PackURLs
        /\ \A u \in DOMAIN Rows[d] : Rows[d][u] \in Texts \cup {TombstoneRow}
        /\ DeltaParent[d] = NoPack => \A u \in DOMAIN Rows[d] : Rows[d][u] \in Texts
  BY PackAssumption DEF Range
<1>2. DeltaParent[m] \in Manifests \cup {NoPack}
  BY PackAssumption
<1>3. DOMAIN Rows[m] \subseteq PackURLs /\ ParentURLs(m) \subseteq PackURLs
  BY <1>1, <1>2 DEF ParentURLs
<1>4. /\ \A u \in Upserts(m) : Rows[m][u] \in Texts
      /\ Upserts(m) \subseteq DOMAIN Rows[m]
      /\ \A u \in DOMAIN Rows[m] : u \notin Upserts(m) <=> Rows[m][u] = TombstoneRow
  <2>1. \A u \in DOMAIN Rows[m] : Rows[m][u] \in Texts \cup {TombstoneRow}
    BY <1>1
  <2>. QED
    BY <2>1 DEF Upserts
<1>5. DeltaParent[m] # NoPack /\ DeltaParent[DeltaParent[m]] = NoPack =>
        \A u \in ParentURLs(m) : Rows[DeltaParent[m]][u] \in Texts
  <2>. SUFFICES ASSUME DeltaParent[m] # NoPack, DeltaParent[DeltaParent[m]] = NoPack
                PROVE  \A u \in DOMAIN Rows[DeltaParent[m]] : Rows[DeltaParent[m]][u] \in Texts
    BY DEF ParentURLs
  <2>1. DeltaParent[m] \in Manifests
    BY <1>2
  <2>. QED
    BY <1>1, <2>1
<1>. QED
  BY <1>3, <1>4, <1>5

(* Reading one more row of a URL adds its row to the others.               *)
LEMMA IndexedRow ==
  ASSUME NEW x \in Install, NEW u \in PackURLs, NEW S \in SUBSET PackURLs, NEW text \in Texts,
         x.rows = [w \in S |-> RowOf(x.pack, w)], text = RowOf(x.pack, u)
  PROVE  LET y == Indexed(x, u, text) IN
         /\ y \in Install /\ y.pack = x.pack /\ y.at = x.at /\ y.matched = x.matched
         /\ y.count = x.count /\ y.todo = x.todo \ {u}
         /\ y.rows = [w \in S \cup {u} |-> RowOf(x.pack, w)]
<1>. DEFINE rows == [w \in DOMAIN x.rows \cup {u} |-> IF w = u THEN text ELSE x.rows[w]]
            y == Indexed(x, u, text)
<1>1. y = [x EXCEPT !.records = x.records + 1, !.todo = x.todo \ {u}, !.rows = rows]
  BY DEF Indexed
<1>2. rows = [w \in S \cup {u} |-> RowOf(x.pack, w)]
  OBVIOUS
<1>3. rows \in Projection
  <2>1. PICK urls \in SUBSET PackURLs : x.rows \in [urls -> Texts]
    BY DEF Install, Projection
  <2>2. rows \in [urls \cup {u} -> Texts] /\ urls \cup {u} \in SUBSET PackURLs
    BY <2>1
  <2>. QED
    BY <2>2 DEF Projection
<1>. HIDE DEF rows
<1>4. y \in Install
  <2>1. x.records + 1 \in Nat /\ x.todo \ {u} \in SUBSET PackURLs
    BY DEF Install
  <2>. HIDE DEF y
  <2>. QED
    BY <1>1, <1>3, <2>1 DEF Install
<1>5. /\ y.pack = x.pack /\ y.at = x.at /\ y.matched = x.matched
      /\ y.count = x.count /\ y.todo = x.todo \ {u} /\ y.rows = rows
  BY <1>1 DEF Install
<1>. QED
  BY <1>2, <1>4, <1>5

LEMMA InstallSteps ==
  ASSUME PackInv, NEW i \in Installers, NEW x, x = Away \/ InstallExact(x),
         installs' = [installs EXCEPT ![i] = x], objects' = objects, served' = served
  PROVE  PackInv'
<1>1. /\ DOMAIN objects' = Manifests /\ objects' = [m \in Manifests |-> objects'[m]]
      /\ \A m \in Manifests : ObjectExact(m)'
      /\ ServedExists'
  BY DEF PackInv, ObjectExact, ServedExists
<1>2. /\ DOMAIN installs' = Installers /\ installs' = [j \in Installers |-> installs'[j]]
      /\ \A j \in Installers : installs'[j] # Away => InstallExact(installs'[j])
  BY DEF PackInv
<1>. QED
  BY <1>1, <1>2 DEF PackInv

LEMMA NoRowsYet ==
  ASSUME NEW m
  PROVE  << >> = [u \in {} |-> RowOf(m, u)] /\ << >> \in Projection
<1>1. << >> = [u \in {} |-> RowOf(m, u)]
  OBVIOUS
<1>2. << >> \in [{} -> Texts] /\ {} \in SUBSET PackURLs
  OBVIOUS
<1>. QED
  BY <1>1, <1>2 DEF Projection

LEMMA BegunIsExact ==
  ASSUME NEW m \in Manifests, NEW n \in 1..MaxRecords
  PROVE  /\ DeltaParent[m] = NoPack =>
              InstallExact([pack |-> m, count |-> n, rows |-> <<>>, records |-> 0,
                            todo |-> DOMAIN Rows[m], matched |-> {}, at |-> "rows"])
         /\ \A p \in Manifests : DeltaTransition(p, m) =>
              InstallExact([pack |-> m, count |-> n, rows |-> <<>>, records |-> 0,
                            todo |-> DOMAIN Rows[p], matched |-> {}, at |-> "parent"])
<1>1. << >> = [u \in {} |-> RowOf(m, u)] /\ << >> \in Projection
  BY NoRowsYet
<1>2. ASSUME DeltaParent[m] = NoPack
      PROVE  InstallExact([pack |-> m, count |-> n, rows |-> <<>>, records |-> 0,
                           todo |-> DOMAIN Rows[m], matched |-> {}, at |-> "rows"])
  <2>. DEFINE x == [pack |-> m, count |-> n, rows |-> <<>>, records |-> 0,
                    todo |-> DOMAIN Rows[m], matched |-> {}, at |-> "rows"]
  <2>1. x \in Install
    BY <1>1, RowsTyped DEF Install
  <2>2. ReadSoFar(x) = {} /\ ShadowedSoFar(x) = {}
    BY <1>2, RowsTyped DEF ReadSoFar, ShadowedSoFar, ParentURLs
  <2>3. x.pack = m /\ x.at = "rows" /\ x.todo = DOMAIN Rows[m] /\ x.matched = {} /\ x.rows = << >>
    OBVIOUS
  <2>. HIDE DEF x
  <2>4. InstallExact(x)
    BY <1>1, <1>2, <2>1, <2>2, <2>3 DEF InstallExact
  <2>. QED
    BY <2>4 DEF x
<1>3. ASSUME NEW p \in Manifests, DeltaTransition(p, m)
      PROVE  InstallExact([pack |-> m, count |-> n, rows |-> <<>>, records |-> 0,
                           todo |-> DOMAIN Rows[p], matched |-> {}, at |-> "parent"])
  <2>. DEFINE x == [pack |-> m, count |-> n, rows |-> <<>>, records |-> 0,
                    todo |-> DOMAIN Rows[p], matched |-> {}, at |-> "parent"]
  <2>1. x \in Install
    BY <1>1, RowsTyped DEF Install
  <2>2. DeltaParent[m] = p /\ p # NoPack /\ DeltaParent[p] = NoPack
    BY <1>3, PackAssumption DEF DeltaTransition
  <2>3. ReadSoFar(x) = {} /\ ShadowedSoFar(x) = {} /\ ParentURLs(m) = DOMAIN Rows[p]
    BY <2>2 DEF ReadSoFar, ShadowedSoFar, ParentURLs
  <2>4. x.pack = m /\ x.at = "parent" /\ x.todo = DOMAIN Rows[p] /\ x.matched = {} /\ x.rows = << >>
    OBVIOUS
  <2>. HIDE DEF x
  <2>5. InstallExact(x)
    BY <1>1, <2>1, <2>2, <2>3, <2>4 DEF InstallExact
  <2>. QED
    BY <2>5 DEF x
<1>. QED
  BY <1>2, <1>3

(* A row of the parent, or the change over to the bundle's own rows.       *)
LEMMA ParentRowExact ==
  ASSUME NEW x, InstallExact(x), x.at = "parent"
  PROVE  /\ x.todo = {} =>
              InstallExact([x EXCEPT !.at = "rows", !.todo = DOMAIN Rows[x.pack]])
         /\ \A u \in x.todo :
              /\ Shadows(x.pack, u) =>
                   InstallExact([x EXCEPT !.matched = x.matched \cup {u}, !.todo = x.todo \ {u}])
              /\ ~Shadows(x.pack, u) =>
                   InstallExact(Indexed(x, u, Rows[DeltaParent[x.pack]][u]))
<1>. DEFINE m == x.pack
<1>1. /\ x \in Install /\ m \in Manifests
      /\ x.rows = [u \in ReadSoFar(x) |-> RowOf(m, u)] /\ x.matched = ShadowedSoFar(x)
      /\ DeltaParent[m] # NoPack /\ DeltaParent[DeltaParent[m]] = NoPack
      /\ x.todo \subseteq ParentURLs(m)
      /\ ReadSoFar(x) = (ParentURLs(m) \ x.todo) \ DOMAIN Rows[m]
      /\ ShadowedSoFar(x) = (ParentURLs(m) \ x.todo) \cap DOMAIN Rows[m]
  BY DEF InstallExact, Install, ReadSoFar, ShadowedSoFar
<1>2. /\ DOMAIN Rows[m] \subseteq PackURLs /\ ParentURLs(m) \subseteq PackURLs
      /\ Upserts(m) \subseteq DOMAIN Rows[m]
      /\ ParentURLs(m) = DOMAIN Rows[DeltaParent[m]]
      /\ \A u \in ParentURLs(m) : Rows[DeltaParent[m]][u] \in Texts
  BY <1>1, RowsTyped DEF ParentURLs
<1>3. ASSUME x.todo = {}
      PROVE  InstallExact([x EXCEPT !.at = "rows", !.todo = DOMAIN Rows[m]])
  <2>. DEFINE y == [x EXCEPT !.at = "rows", !.todo = DOMAIN Rows[m]]
  <2>1. y \in Install /\ y.pack = m /\ y.at = "rows" /\ y.todo = DOMAIN Rows[m]
        /\ y.rows = x.rows /\ y.matched = x.matched
    BY <1>1, <1>2 DEF Install
  <2>. HIDE DEF y
  <2>2. ReadSoFar(y) = ReadSoFar(x) /\ ShadowedSoFar(y) = ShadowedSoFar(x)
    BY <1>1, <1>2, <1>3, <2>1 DEF ReadSoFar, ShadowedSoFar
  <2>3. InstallExact(y)
    BY <1>1, <2>1, <2>2 DEF InstallExact
  <2>. QED
    BY <2>3 DEF y
<1>4. ASSUME NEW u \in x.todo, Shadows(m, u)
      PROVE  InstallExact([x EXCEPT !.matched = x.matched \cup {u}, !.todo = x.todo \ {u}])
  <2>. DEFINE y == [x EXCEPT !.matched = x.matched \cup {u}, !.todo = x.todo \ {u}]
  <2>0. u \in PackURLs /\ u \in DOMAIN Rows[m] /\ u \in ParentURLs(m)
    BY <1>1, <1>2, <1>4 DEF Shadows
  <2>1. y \in Install /\ y.pack = m /\ y.at = "parent" /\ y.todo = x.todo \ {u}
        /\ y.rows = x.rows /\ y.matched = x.matched \cup {u}
    BY <1>1, <2>0 DEF Install
  <2>. HIDE DEF y
  <2>2. ReadSoFar(y) = ReadSoFar(x) /\ ShadowedSoFar(y) = ShadowedSoFar(x) \cup {u}
    BY <1>1, <2>0, <2>1 DEF ReadSoFar, ShadowedSoFar
  <2>3. InstallExact(y)
    BY <1>1, <2>1, <2>2 DEF InstallExact
  <2>. QED
    BY <2>3 DEF y
<1>5. ASSUME NEW u \in x.todo, ~Shadows(m, u)
      PROVE  InstallExact(Indexed(x, u, Rows[DeltaParent[m]][u]))
  <2>. DEFINE y == Indexed(x, u, Rows[DeltaParent[m]][u])
  <2>0. u \in PackURLs /\ u \notin DOMAIN Rows[m] /\ u \in ParentURLs(m)
        /\ Rows[DeltaParent[m]][u] \in Texts /\ Rows[DeltaParent[m]][u] = RowOf(m, u)
        /\ ReadSoFar(x) \in SUBSET PackURLs
    BY <1>1, <1>2, <1>5 DEF Shadows, RowOf
  <2>1. y \in Install /\ y.pack = m /\ y.at = "parent" /\ y.todo = x.todo \ {u}
        /\ y.matched = x.matched
        /\ y.rows = [w \in ReadSoFar(x) \cup {u} |-> RowOf(m, w)]
    BY <1>1, <2>0, IndexedRow
  <2>. HIDE DEF y
  <2>2. ReadSoFar(y) = ReadSoFar(x) \cup {u} /\ ShadowedSoFar(y) = ShadowedSoFar(x)
    BY <1>1, <2>0, <2>1 DEF ReadSoFar, ShadowedSoFar
  <2>3. InstallExact(y)
    BY <1>1, <2>1, <2>2 DEF InstallExact
  <2>. QED
    BY <2>3 DEF y
<1>. QED
  BY <1>3, <1>4, <1>5

(* A row of the bundle itself: a tombstone of a row of the parent, or text *)
LEMMA OwnRowExact ==
  ASSUME NEW x, InstallExact(x), x.at = "rows", NEW u \in x.todo
  PROVE  /\ Rows[x.pack][u] = TombstoneRow /\ u \in x.matched =>
              InstallExact([x EXCEPT !.todo = x.todo \ {u}])
         /\ Rows[x.pack][u] # TombstoneRow => InstallExact(Indexed(x, u, Rows[x.pack][u]))
<1>. DEFINE m == x.pack
<1>1. /\ x \in Install /\ m \in Manifests
      /\ x.rows = [w \in ReadSoFar(x) |-> RowOf(m, w)] /\ x.matched = ShadowedSoFar(x)
      /\ DeltaParent[m] # NoPack => DeltaParent[DeltaParent[m]] = NoPack
      /\ x.todo \subseteq DOMAIN Rows[m]
      /\ (DOMAIN Rows[m] \ x.todo) \ Upserts(m) \subseteq ParentURLs(m)
      /\ ReadSoFar(x) = (ParentURLs(m) \ DOMAIN Rows[m]) \cup (Upserts(m) \ x.todo)
      /\ ShadowedSoFar(x) = ParentURLs(m) \cap DOMAIN Rows[m]
  BY DEF InstallExact, Install, ReadSoFar, ShadowedSoFar
<1>2. /\ DOMAIN Rows[m] \subseteq PackURLs /\ ParentURLs(m) \subseteq PackURLs
      /\ \A w \in Upserts(m) : Rows[m][w] \in Texts
      /\ Upserts(m) \subseteq DOMAIN Rows[m]
      /\ \A w \in DOMAIN Rows[m] : w \notin Upserts(m) <=> Rows[m][w] = TombstoneRow
  BY <1>1, RowsTyped
<1>3. ASSUME Rows[m][u] = TombstoneRow, u \in x.matched
      PROVE  InstallExact([x EXCEPT !.todo = x.todo \ {u}])
  <2>. DEFINE y == [x EXCEPT !.todo = x.todo \ {u}]
  <2>0. u \notin Upserts(m) /\ u \in ParentURLs(m) /\ u \in DOMAIN Rows[m]
    BY <1>1, <1>2, <1>3
  <2>1. y \in Install /\ y.pack = m /\ y.at = "rows" /\ y.todo = x.todo \ {u}
        /\ y.rows = x.rows /\ y.matched = x.matched
    BY <1>1 DEF Install
  <2>. HIDE DEF y
  <2>2. ReadSoFar(y) = ReadSoFar(x) /\ ShadowedSoFar(y) = ShadowedSoFar(x)
    BY <1>1, <2>0, <2>1 DEF ReadSoFar, ShadowedSoFar
  <2>3. InstallExact(y)
    BY <1>1, <2>0, <2>1, <2>2 DEF InstallExact
  <2>. QED
    BY <2>3 DEF y
<1>4. ASSUME Rows[m][u] # TombstoneRow
      PROVE  InstallExact(Indexed(x, u, Rows[m][u]))
  <2>. DEFINE y == Indexed(x, u, Rows[m][u])
  <2>0. u \in PackURLs /\ u \in Upserts(m) /\ Rows[m][u] \in Texts /\ Rows[m][u] = RowOf(m, u)
        /\ ReadSoFar(x) \in SUBSET PackURLs
    BY <1>1, <1>2, <1>4 DEF RowOf
  <2>1. y \in Install /\ y.pack = m /\ y.at = "rows" /\ y.todo = x.todo \ {u}
        /\ y.matched = x.matched
        /\ y.rows = [w \in ReadSoFar(x) \cup {u} |-> RowOf(m, w)]
    BY <1>1, <2>0, IndexedRow
  <2>. HIDE DEF y
  <2>2. ReadSoFar(y) = ReadSoFar(x) \cup {u} /\ ShadowedSoFar(y) = ShadowedSoFar(x)
    BY <1>1, <2>0, <2>1 DEF ReadSoFar, ShadowedSoFar
  <2>3. InstallExact(y)
    BY <1>1, <2>0, <2>1, <2>2 DEF InstallExact
  <2>. QED
    BY <2>3 DEF y
<1>. QED
  BY <1>3, <1>4

LEMMA PackStarts == PackInit => PackInv
BY DEF PackInit, PackInv, ObjectExact, ServedExists

LEMMA PackInductive == PackInv /\ [PackNext]_packVars => PackInv'
<1>. SUFFICES ASSUME PackInv, [PackNext]_packVars PROVE PackInv'
  OBVIOUS
<1>0. /\ DOMAIN objects = Manifests /\ DOMAIN installs = Installers
      /\ \A i \in Installers : installs[i] # Away => InstallExact(installs[i])
      /\ ServedExists
  BY DEF PackInv
<1>1. ASSUME NEW i \in Installers, BeginInstall(i) PROVE PackInv'
  BY <1>1, BegunIsExact, InstallSteps DEF BeginInstall
<1>2. ASSUME NEW i \in Installers, ParentRow(i) PROVE PackInv'
  BY <1>0, <1>2, ParentRowExact, InstallSteps DEF ParentRow
<1>3. ASSUME NEW i \in Installers, OwnRow(i) PROVE PackInv'
  BY <1>0, <1>3, OwnRowExact, InstallSteps DEF OwnRow
<1>4. ASSUME NEW i \in Installers, SealProjection(i) PROVE PackInv'
  <2>. DEFINE x == installs[i]
              y == [x EXCEPT !.at = "sealed"]
  <2>1. /\ x.at = "rows" /\ x.todo = {} /\ InstallExact(x)
        /\ installs' = [installs EXCEPT ![i] = y] /\ objects' = objects /\ served' = served
    BY <1>0, <1>4 DEF SealProjection
  <2>. HIDE DEF x
  <2>2. y \in Install /\ y.at = "sealed" /\ y.pack = x.pack /\ y.todo = {}
        /\ y.rows = x.rows /\ y.matched = x.matched
    BY <2>1 DEF InstallExact, Install
  <2>. HIDE DEF y
  <2>3. ReadSoFar(y) = ReadSoFar(x) /\ ShadowedSoFar(y) = ShadowedSoFar(x)
    BY <2>1, <2>2 DEF ReadSoFar, ShadowedSoFar
  <2>4. InstallExact(y)
    BY <2>1, <2>2, <2>3 DEF InstallExact
  <2>. QED
    BY <2>1, <2>4, InstallSteps
<1>5. ASSUME NEW i \in Installers, ActivateProjection(i) PROVE PackInv'
  <2>. DEFINE x == installs[i]
  <2>0. PICK m \in Manifests : m = x.pack
    BY <1>0, <1>5 DEF ActivateProjection, InstallExact, Install
  <2>1. /\ m = x.pack /\ x.at = "sealed" /\ InstallExact(x) /\ objects[m] = NoPack
        /\ objects' = [objects EXCEPT ![m] = [rows |-> x.rows, made |-> i]]
        /\ installs' = [installs EXCEPT ![i] = Away] /\ served' = served
    BY <1>0, <1>5, <2>0 DEF ActivateProjection, CanMove
  <2>. HIDE DEF x
  <2>2. x.todo = {}
        /\ x.rows = [u \in ReadSoFar(x) |-> RowOf(m, u)]
        /\ DOMAIN Rows[m] \ Upserts(m) \subseteq ParentURLs(m)
        /\ ReadSoFar(x) = Upserts(m) \cup (ParentURLs(m) \ DOMAIN Rows[m])
    BY <2>1 DEF InstallExact, Install, ReadSoFar
  <2>3. x.rows = Materialized(m)
    BY <2>2 DEF Materialized, RowOf, ParentURLs
  <2>4. DeltaParent[m] # NoPack => DOMAIN Rows[m] \ Upserts(m) \subseteq DOMAIN Rows[DeltaParent[m]]
    BY <2>2 DEF ParentURLs
  <2>5. /\ DOMAIN objects' = Manifests /\ DOMAIN installs' = Installers
        /\ objects'[m].rows = x.rows
        /\ \A d \in Manifests \ {m} : objects'[d] = objects[d]
        /\ installs'[i] = Away /\ \A j \in Installers \ {i} : installs'[j] = installs[j]
        /\ objects' = [d \in Manifests |-> objects'[d]]
        /\ installs' = [j \in Installers |-> installs'[j]]
    BY <1>0, <2>1, <2>2 DEF PackInv
  <2>6. \A d \in Manifests : ObjectExact(d)'
    <3>1. ObjectExact(m)'
      BY <2>3, <2>4, <2>5 DEF ObjectExact
    <3>2. ASSUME NEW d \in Manifests, d # m PROVE ObjectExact(d)'
      BY <2>5, <3>2 DEF PackInv, ObjectExact
    <3>. QED
      BY <3>1, <3>2
  <2>7. ServedExists'
    <3>1. served # NotServing => served.pack # m
      BY <1>0, <2>1 DEF ServedExists
    <3>. QED
      BY <1>0, <2>1, <2>5, <3>1 DEF ServedExists
  <2>8. \A j \in Installers : installs'[j] # Away => InstallExact(installs'[j])
    BY <1>0, <2>5
  <2>. QED
    BY <2>5, <2>6, <2>7, <2>8 DEF PackInv
<1>6. ASSUME NEW i \in Installers, AbandonInstall(i) \/ InstallerKilled(i) PROVE PackInv'
  BY <1>6, InstallSteps DEF AbandonInstall, InstallerKilled
<1>7. CASE OpenPack
  BY <1>0, <1>7 DEF OpenPack, MarkerAgrees, PackInv, ObjectExact, ServedExists
<1>8. CASE ClosePack
  BY <1>0, <1>8 DEF ClosePack, PackInv, ObjectExact, ServedExists
<1>9. CASE PackDayPasses \/ UNCHANGED packVars
  BY <1>0, <1>9 DEF PackDayPasses, packVars, PackInv, ObjectExact, ServedExists
<1>. QED
  BY <1>1, <1>2, <1>3, <1>4, <1>5, <1>6, <1>7, <1>8, <1>9 DEF PackNext

(* What is installed under a digest is the snapshot, or the parent with    *)
(* the delta applied to it, and every tombstone in it removed something -  *)
(* for any manifests and rows, however many installers share the root and  *)
(* wherever each stops; and the server has as many rows before it as were  *)
(* pinned (installFromRoot, applyDeltaFromRoots, OpenInstalled).           *)
THEOREM InstalledObjectsAreExact == PackSpec => []ObjectsAreExact
<1>1. PackInv => ObjectsAreExact
  BY DEF PackInv, ObjectExact, ServedExists, ObjectsAreExact
<1>. QED
  BY <1>1, PackStarts, PackInductive, PTL DEF PackSpec

-----------------------------------------------------------------------------
(* The local corpus.                                                       *)

(* A record of a revocation, or a later one; in personal mode also none,   *)
(* once every observation of that time has expired (past).                 *)
Remembers(x, at, past) == at <= past \/ x.at > at \/ (x.at = at /\ x.disp # "permitted")
Forgotten == IF corpusMode = "personal" /\ tick >= MaxAge THEN tick - MaxAge ELSE 0

(* Only what is permitted in personal mode ever expires.                   *)
Stored(x) ==
  /\ x \in Record \cup {NoRecord}
  /\ x.expires =
       IF corpusMode = "personal" /\ x.disp = "permitted" THEN x.at + MaxAge ELSE 0

(* What a store does to its record, whoever asks.                          *)
Evolves(x, y) ==
  \/ y = x \/ y = Pruned(x)
  \/ Stored(y) /\ y # NoRecord /\ ~Outdated(x, y.at, y.disp)
  \/ Stored(y) /\ y # NoRecord /\ ~Outdated(Pruned(x), y.at, y.disp)

LEMMA ForgottenTime == tick \in Ticks => Forgotten \in Nat
<1>1. tick \in Ticks => tick \in Nat
  BY CorpusAssumption DEF Ticks
<1>. QED
  BY <1>1, CorpusAssumption DEF Forgotten

LEMMA StoresDoNotForget ==
  ASSUME NEW x, NEW y, Stored(x), Evolves(x, y), tick \in Ticks
  PROVE  /\ Stored(y)
         /\ \A at \in Ticks : Remembers(x, at, Forgotten) => Remembers(y, at, Forgotten)
         /\ x.disp = "takedown" => y.disp = "takedown"
<1>0. /\ MaxAge \in Nat /\ LastTick \in Nat /\ tick \in Nat /\ Forgotten \in Nat
      /\ \A at \in Ticks : at \in Nat
  BY CorpusAssumption, ForgottenTime DEF Ticks
<1>1. /\ \A z \in Record \cup {NoRecord} : z.at \in Nat /\ z.expires \in Nat
      /\ NoRecord.at = 0 /\ NoRecord.disp = "absent" /\ NoRecord.expires = 0
  <2>1. ASSUME NEW z \in Record PROVE z.at \in Nat /\ z.expires \in Nat
    <3>1. z.at \in Ticks /\ z.expires \in 0..(LastTick + MaxAge)
      BY DEF Record
    <3>2. z.at \in Nat
      BY <1>0, <3>1
    <3>3. z.expires \in Nat
      BY <3>1
    <3>. QED
      BY <3>2, <3>3
  <2>2. NoRecord.at = 0 /\ NoRecord.disp = "absent" /\ NoRecord.expires = 0
    BY DEF NoRecord
  <2>. QED
    BY <2>1, <2>2
<1>2. /\ Stored(Pruned(x))
      /\ \A at \in Ticks : Remembers(x, at, Forgotten) => Remembers(Pruned(x), at, Forgotten)
      /\ x.disp = "takedown" => Pruned(x).disp = "takedown"
  <2>1. CASE ~Lapsed(x)
    BY <2>1 DEF Pruned
  <2>2. CASE Lapsed(x)
    <3>1. Pruned(x) = NoRecord /\ x.expires # 0 /\ x.expires <= tick
      BY <2>2 DEF Pruned, Lapsed
    <3>2. Stored(NoRecord)
      BY <1>1 DEF Stored
    <3>3. corpusMode = "personal" /\ x.disp = "permitted" /\ x.at + MaxAge <= tick
      BY <3>1 DEF Stored
    <3>4. x.at \in Nat
      BY <1>1 DEF Stored
    <3>. QED
      BY <1>0, <1>1, <3>1, <3>2, <3>3, <3>4 DEF Remembers, Forgotten
  <2>. QED
    BY <2>1, <2>2
<1>3. ASSUME NEW z, Stored(z), Stored(y), y # NoRecord, ~Outdated(z, y.at, y.disp)
      PROVE  /\ \A at \in Ticks : Remembers(z, at, Forgotten) => Remembers(y, at, Forgotten)
             /\ z.disp = "takedown" => y.disp = "takedown"
  <2>1. z.at \in Nat /\ y.at \in Nat
    BY <1>1, <1>3 DEF Stored
  <2>2. CASE z = NoRecord
    BY <1>0, <1>1, <2>1, <2>2 DEF Remembers
  <2>3. CASE z # NoRecord
    BY <1>0, <1>3, <2>1, <2>3 DEF Remembers, Outdated
  <2>. QED
    BY <2>2, <2>3
<1>. QED
  BY <1>2, <1>3 DEF Evolves

LEMMA ReadableIsNewer ==
  ASSUME NEW x, Stored(x), tick \in Ticks, Readable(x), NEW at \in Ticks, at > 0,
         Remembers(x, at, Forgotten)
  PROVE  x.at > at
<1>1. x.at \in Nat /\ x.expires \in Nat /\ MaxAge \in Nat \ {0} /\ tick \in Nat /\ at \in Nat
  BY CorpusAssumption DEF Stored, Record, NoRecord, Ticks
<1>2. x.disp = "permitted" /\ ~Lapsed(x)
  BY DEF Readable
<1>3. ASSUME corpusMode = "personal", at + MaxAge <= tick
      PROVE  x.at > at
  <2>1. x.expires = x.at + MaxAge /\ x.expires # 0
    BY <1>1, <1>2, <1>3 DEF Stored
  <2>. QED
    BY <1>1, <1>2, <1>3, <2>1 DEF Lapsed
<1>. QED
  BY <1>1, <1>2, <1>3 DEF Remembers, Forgotten

Steps == {"idle", "fetch", "put", "revalidate", "index", "revoke index", "revoke artifact",
          "hide index", "hide artifact", "end"}
RequestRecord == [kind : {"none", "visit", "admit", "takedown"}, step : Steps, at : Ticks,
                  saw : Editions \cup {NoEdition}, ok : BOOLEAN]
QueryRecord == [edition : Editions \cup {NoEdition}, at : Ticks, revokedAt : Ticks,
                takenDown : BOOLEAN, failed : {"no", "now", "before"}]

(* What a request has come to by its step.                                 *)
RequestShape(q) ==
  /\ q \in RequestRecord
  /\ q.kind = "admit" => corpusMode = "curated"
  /\ q.step = "fetch" =>
       q.kind \in {"visit", "admit"} /\ (q.saw # NoEdition => corpusMode # "curated")
  /\ q.step \in {"put", "index"} => q.saw # NoEdition /\ (corpusMode = "curated" => q.kind = "admit")
  /\ q.step = "revalidate" => q.saw # NoEdition /\ corpusMode # "curated"
  /\ q.step \in {"hide index", "hide artifact"} => q.kind = "admit" /\ q.saw # NoEdition
  /\ q.ok => q.step \in {"revoke artifact", "hide artifact", "end"}

(* One of the stores remembers a revocation, and a takedown, x and y being *)
(* the records of index and artifact.                                      *)
RecalledBy(x, y, at, past, down) ==
  /\ Remembers(x, at, past) \/ Remembers(y, at, past)
  /\ down => x.disp = "takedown" \/ y.disp = "takedown"

(* A request that one store obeyed left its mark, and one that is half way *)
(* through hiding a page has the index hidden.                             *)
RequestRecalled(q, x, y, past) ==
  /\ q.ok /\ q.saw = NoEdition => RecalledBy(x, y, q.at, past, q.kind = "takedown")
  /\ q.ok /\ q.step = "hide artifact" => x.disp # "permitted"

(* A hit found before its check.                                           *)
HitGuarded(q, y, past) ==
  /\ q \in QueryRecord /\ q.failed # "now"
  /\ q.revokedAt > 0 => q.at > q.revokedAt \/ Remembers(y, q.revokedAt, past)
  /\ q.takenDown => y.disp = "takedown"

StoresRemember ==
  /\ Stored(index) /\ Stored(artifact)
  /\ revokedAt \in Ticks /\ takenDown \in BOOLEAN
  /\ RecalledBy(index, artifact, revokedAt, Forgotten, takenDown)
FailuresHide ==
  /\ failed \in {"no", "now", "before"} /\ quarantined \in BOOLEAN
  /\ failed # "no" => corpusMode = "curated"
  /\ failed = "now" => quarantined \/ index.disp # "permitted"
RequestsShaped ==
  /\ request \in [Requests -> RequestRecord]
  /\ \A r \in Requests :
       /\ RequestShape(request[r]) /\ RequestRecalled(request[r], index, artifact, Forgotten)
       /\ request[r] # Idle /\ Locks => urlLock = r
CorpusInv ==
  /\ corpusMode \in {"personal", "curated", "archive"} /\ tick \in Ticks
  /\ StoresRemember /\ FailuresHide /\ RequestsShaped
  /\ query # NoQuery => HitGuarded(query, artifact, Forgotten)
  /\ HiddenStaysHidden

LEMMA CorpusStarts == CorpusInit => CorpusInv
<1>. SUFFICES ASSUME CorpusInit PROVE CorpusInv
  OBVIOUS
<1>. USE DEF CorpusInit
<1>1. tick \in Ticks /\ 0 \in Ticks
  BY CorpusAssumption DEF Ticks
<1>2. Stored(NoRecord)
  BY DEF Stored, NoRecord
<1>3. StoresRemember
  <2>1. Remembers(index, revokedAt, Forgotten)
    BY <1>1, ForgottenTime DEF Remembers
  <2>2. RecalledBy(index, artifact, revokedAt, Forgotten, takenDown)
    BY <2>1 DEF RecalledBy
  <2>. QED
    BY <1>1, <1>2, <2>2 DEF StoresRemember
<1>4. FailuresHide
  BY DEF FailuresHide
<1>5. Idle \in RequestRecord /\ ~Idle.ok /\ Idle.kind = "none" /\ Idle.step = "idle"
  BY <1>1 DEF Idle, RequestRecord, Steps
<1>6. RequestsShaped
  BY <1>5 DEF RequestsShaped, RequestShape, RequestRecalled
<1>7. HiddenStaysHidden
  BY DEF HiddenStaysHidden, RevokedStaysHidden, FailedAdmissionHides
<1>. QED
  BY <1>1, <1>3, <1>4, <1>6, <1>7 DEF CorpusInv

(* What no step of the stores or of the clock undoes.                      *)
LEMMA MemoryLasts ==
  ASSUME CorpusInv, Evolves(index, index'), Evolves(artifact, artifact'),
         corpusMode' = corpusMode, tick' = tick
  PROVE  /\ Stored(index)' /\ Stored(artifact)'
         /\ \A at \in Ticks, down \in BOOLEAN :
              RecalledBy(index, artifact, at, Forgotten, down) =>
                RecalledBy(index', artifact', at, Forgotten, down)
         /\ \A at \in Ticks : Remembers(artifact, at, Forgotten) => Remembers(artifact', at, Forgotten)
         /\ artifact.disp = "takedown" => artifact'.disp = "takedown"
         /\ Forgotten' = Forgotten
<1>1. Stored(index) /\ Stored(artifact) /\ tick \in Ticks
  BY DEF CorpusInv, StoresRemember
<1>2. /\ Stored(index')
      /\ \A at \in Ticks : Remembers(index, at, Forgotten) => Remembers(index', at, Forgotten)
      /\ index.disp = "takedown" => index'.disp = "takedown"
  BY <1>1, StoresDoNotForget
<1>3. /\ Stored(artifact')
      /\ \A at \in Ticks : Remembers(artifact, at, Forgotten) => Remembers(artifact', at, Forgotten)
      /\ artifact.disp = "takedown" => artifact'.disp = "takedown"
  BY <1>1, StoresDoNotForget
<1>4. Stored(index)' /\ Stored(artifact)'
  BY <1>2, <1>3 DEF Stored
<1>. QED
  BY <1>2, <1>3, <1>4 DEF RecalledBy, Forgotten

(* What every step must show that moves one request.                       *)
LEMMA RequestMoves ==
  ASSUME CorpusInv, NEW r \in Requests, NEW q,
         Evolves(index, index'), Evolves(artifact, artifact'),
         UNCHANGED <<corpusMode, tick, query, answered, revokedAt, takenDown, urlLock>>,
         request' = [request EXCEPT ![r] = q],
         RequestShape(q), RequestRecalled(q, index', artifact', Forgotten),
         request[r] # Idle,
         FailuresHide'
  PROVE  CorpusInv'
<1>1. /\ Stored(index)' /\ Stored(artifact)'
      /\ \A at \in Ticks, down \in BOOLEAN :
           RecalledBy(index, artifact, at, Forgotten, down) =>
             RecalledBy(index', artifact', at, Forgotten, down)
      /\ \A at \in Ticks : Remembers(artifact, at, Forgotten) => Remembers(artifact', at, Forgotten)
      /\ artifact.disp = "takedown" => artifact'.disp = "takedown"
      /\ Forgotten' = Forgotten
  BY MemoryLasts
<1>2. StoresRemember /\ RequestsShaped /\ HiddenStaysHidden
      /\ (query # NoQuery => HitGuarded(query, artifact, Forgotten))
  BY DEF CorpusInv
<1>3. StoresRemember'
  BY <1>1, <1>2 DEF StoresRemember
<1>4. request' \in [Requests -> RequestRecord]
  BY <1>2 DEF RequestsShaped, RequestShape
<1>5. ASSUME NEW s \in Requests
      PROVE  /\ RequestShape(request'[s])
             /\ RequestRecalled(request'[s], index', artifact', Forgotten)
             /\ request'[s] # Idle /\ Locks => urlLock = s
  <2>1. CASE s = r
    BY <1>2, <2>1 DEF RequestsShaped
  <2>2. CASE s # r
    <3>1. request'[s] = request[s] /\ request[s] \in RequestRecord
      BY <1>2, <2>2 DEF RequestsShaped
    <3>2. /\ RequestShape(request[s]) /\ RequestRecalled(request[s], index, artifact, Forgotten)
          /\ request[s] # Idle /\ Locks => urlLock = s
      BY <1>2 DEF RequestsShaped
    <3>3. request[s].ok /\ request[s].saw = NoEdition =>
            RecalledBy(index', artifact', request[s].at, Forgotten, request[s].kind = "takedown")
      <4>1. request[s].at \in Ticks /\ (request[s].kind = "takedown") \in BOOLEAN
        BY <3>1 DEF RequestRecord
      <4>. QED
        BY <1>1, <3>2, <4>1 DEF RequestRecalled
    <3>4. request[s].ok /\ request[s].step = "hide artifact" => index'.disp # "permitted"
      <4>1. request[s].step = "hide artifact" => request[s] # Idle /\ corpusMode = "curated"
        <5>1. Idle.step = "idle"
          BY DEF Idle
        <5>. QED
          BY <3>2, <5>1 DEF RequestShape
      <4>2. request[s].step = "hide artifact" => urlLock = s /\ urlLock = r
        BY <1>2, <3>2, <4>1 DEF Locks, RequestsShaped
      <4>. QED
        BY <2>2, <4>2
    <3>. QED
      BY <3>1, <3>2, <3>3, <3>4 DEF RequestRecalled
  <2>. QED
    BY <2>1, <2>2
<1>6. RequestsShaped'
  BY <1>1, <1>4, <1>5 DEF RequestsShaped, RequestShape, Locks
<1>7. query # NoQuery => HitGuarded(query, artifact', Forgotten)
  <2>1. query # NoQuery => query.revokedAt \in Ticks
    BY <1>2 DEF HitGuarded, QueryRecord
  <2>. QED
    BY <1>1, <1>2, <2>1 DEF HitGuarded
<1>8. HiddenStaysHidden'
  BY <1>2 DEF HiddenStaysHidden, RevokedStaysHidden, FailedAdmissionHides
<1>. QED
  BY <1>1, <1>3, <1>6, <1>7, <1>8 DEF CorpusInv

LEMMA FailuresStayHidden ==
  ASSUME CorpusInv, UNCHANGED <<corpusMode, quarantined>>,
         failed' \in {failed, "no"},
         index' = index \/ index' = Pruned(index) \/ index'.disp # "permitted" \/ failed' = "no"
  PROVE  FailuresHide'
<1>1. FailuresHide
  BY DEF CorpusInv
<1>2. NoRecord.disp # "permitted"
  BY DEF NoRecord
<1>. QED
  BY <1>1, <1>2 DEF FailuresHide, Pruned

LEMMA CorpusRecords ==
  ASSUME CorpusInv, NEW r \in Requests
  PROVE  /\ request[r] \in RequestRecord /\ RequestShape(request[r])
         /\ RequestRecalled(request[r], index, artifact, Forgotten)
         /\ request[r] # Idle /\ Locks => urlLock = r
         /\ tick \in Ticks /\ Forgotten \in Nat /\ request[r].at \in Ticks
         /\ Idle.step = "idle" /\ ~Idle.ok /\ Idle \in RequestRecord
         /\ \A at \in Ticks, e \in Editions \cup {NoEdition} :
              Stored(Permitted(e, at)) /\ Permitted(e, at) # NoRecord
              /\ Permitted(e, at).at = at /\ Permitted(e, at).disp = "permitted"
         /\ \A at \in Ticks, d \in {"unknown", "takedown"} :
              Stored(Revoked(d, at)) /\ Revoked(d, at) # NoRecord
              /\ Revoked(d, at).at = at /\ Revoked(d, at).disp = d
<1>1. CorpusInv /\ RequestsShaped /\ tick \in Ticks
  BY DEF CorpusInv
<1>2. request[r] \in RequestRecord /\ RequestShape(request[r])
      /\ RequestRecalled(request[r], index, artifact, Forgotten)
      /\ (request[r] # Idle /\ Locks => urlLock = r)
  BY <1>1 DEF RequestsShaped
<1>3. request[r].at \in Ticks
  BY <1>2 DEF RequestRecord
<1>4. Idle.step = "idle" /\ ~Idle.ok /\ Idle \in RequestRecord
  BY CorpusAssumption DEF Idle, RequestRecord, Steps, Ticks
<1>5. ASSUME NEW at \in Ticks, NEW e \in Editions \cup {NoEdition}
      PROVE  Stored(Permitted(e, at)) /\ Permitted(e, at) # NoRecord
             /\ Permitted(e, at).at = at /\ Permitted(e, at).disp = "permitted"
  <2>1. at \in 0..LastTick /\ at + MaxAge \in 0..(LastTick + MaxAge) /\ 0 \in 0..(LastTick + MaxAge)
    BY CorpusAssumption DEF Ticks
  <2>. DEFINE x == Permitted(e, at)
  <2>2. /\ x.disp = "permitted" /\ x.at = at /\ x.edition = e
        /\ x.expires = IF corpusMode = "personal" THEN at + MaxAge ELSE 0
    BY DEF Permitted
  <2>3. x \in Record
    BY <2>1, <2>2 DEF Permitted, Record, Dispositions, Ticks
  <2>. HIDE DEF x
  <2>4. NoRecord.disp = "absent"
    BY DEF NoRecord
  <2>5. Stored(x) /\ x # NoRecord
    BY <2>2, <2>3, <2>4 DEF Stored
  <2>. QED
    BY <2>2, <2>5 DEF x
<1>6. ASSUME NEW at \in Ticks, NEW d \in {"unknown", "takedown"}
      PROVE  Stored(Revoked(d, at)) /\ Revoked(d, at) # NoRecord
             /\ Revoked(d, at).at = at /\ Revoked(d, at).disp = d
  <2>1. 0 \in 0..(LastTick + MaxAge)
    BY CorpusAssumption
  <2>. DEFINE x == Revoked(d, at)
  <2>2. x.disp = d /\ x.at = at /\ x.expires = 0
    BY DEF Revoked
  <2>3. x \in Record
    BY <2>1 DEF Revoked, Record, Dispositions
  <2>. HIDE DEF x
  <2>4. NoRecord.disp = "absent"
    BY DEF NoRecord
  <2>5. Stored(x) /\ x # NoRecord
    BY <2>2, <2>3, <2>4 DEF Stored
  <2>. QED
    BY <2>2, <2>5 DEF x
<1>. QED
  BY <1>1, <1>2, <1>3, <1>4, <1>5, <1>6, ForgottenTime

LEMMA FetchKeeps ==
  ASSUME CorpusInv, NEW r \in Requests, FetchAnswers(r)
  PROVE  CorpusInv'
<1>1. request[r] \in RequestRecord /\ RequestShape(request[r]) /\ tick \in Ticks
      /\ Idle.step = "idle"
  BY CorpusRecords
<1>2. /\ UNCHANGED <<corpusMode, index, artifact, quarantined, urlLock, tick, query,
                     answered, revokedAt, takenDown, failed>>
      /\ request[r].step = "fetch" /\ ~request[r].ok /\ request[r] # Idle
      /\ request[r].kind \in {"visit", "admit"}
      /\ request[r].saw # NoEdition => corpusMode # "curated"
  BY <1>1 DEF FetchAnswers, RequestShape
<1>3. Evolves(index, index') /\ Evolves(artifact, artifact')
  BY <1>2 DEF Evolves
<1>4. FailuresHide'
  BY <1>2, FailuresStayHidden
<1>5. \A q : request' = [request EXCEPT ![r] = q] /\ RequestShape(q) /\ ~q.ok => CorpusInv'
  BY <1>2, <1>3, <1>4, RequestMoves DEF RequestRecalled
<1>6. request \in [Requests -> RequestRecord]
  BY DEF CorpusInv, RequestsShaped
<1>7. ASSUME NEW e \in Editions,
             request' = [request EXCEPT ![r].at = tick, ![r].saw = e,
                           ![r].step = IF request[r].kind = "visit" /\ corpusMode = "curated"
                                       THEN "end" ELSE "put"]
      PROVE  CorpusInv'
  <2>. DEFINE q == [request[r] EXCEPT !.at = tick, !.saw = e,
                      !.step = IF request[r].kind = "visit" /\ corpusMode = "curated"
                               THEN "end" ELSE "put"]
  <2>1. request' = [request EXCEPT ![r] = q]
    BY <1>6, <1>7
  <2>2. /\ q.step \in {"end", "put"} /\ q.saw = e /\ q.kind = request[r].kind /\ ~q.ok
        /\ q.step = "put" => ~(q.kind = "visit" /\ corpusMode = "curated")
    BY <1>1, <1>2 DEF RequestRecord
  <2>3. q \in RequestRecord /\ e # NoEdition
    BY <1>1, CorpusAssumption DEF RequestRecord, Steps, NoEdition
  <2>. HIDE DEF q
  <2>4. RequestShape(q)
    BY <1>1, <1>2, <2>2, <2>3 DEF RequestShape
  <2>. QED
    BY <1>5, <2>1, <2>2, <2>4
<1>8. ASSUME request' = [request EXCEPT ![r].at = tick, ![r].saw = NoEdition,
                                        ![r].step = "revoke index"]
      PROVE  CorpusInv'
  <2>. DEFINE q == [request[r] EXCEPT !.at = tick, !.saw = NoEdition, !.step = "revoke index"]
  <2>1. request' = [request EXCEPT ![r] = q]
    BY <1>6, <1>8
  <2>2. q.step = "revoke index" /\ q.kind = request[r].kind /\ ~q.ok /\ q \in RequestRecord
    BY <1>1, <1>2 DEF RequestRecord, Steps
  <2>. HIDE DEF q
  <2>3. RequestShape(q)
    BY <1>1, <1>2, <2>2 DEF RequestShape
  <2>. QED
    BY <1>5, <2>1, <2>2, <2>3
<1>9. ASSUME request[r].saw # NoEdition,
             request' = [request EXCEPT ![r].at = tick, ![r].step = "revalidate"]
      PROVE  CorpusInv'
  <2>. DEFINE q == [request[r] EXCEPT !.at = tick, !.step = "revalidate"]
  <2>1. request' = [request EXCEPT ![r] = q]
    BY <1>6, <1>9
  <2>2. q.step = "revalidate" /\ q.kind = request[r].kind /\ q.saw = request[r].saw /\ ~q.ok
        /\ q \in RequestRecord
    BY <1>1, <1>2 DEF RequestRecord, Steps
  <2>. HIDE DEF q
  <2>3. RequestShape(q)
    BY <1>1, <1>2, <1>9, <2>2 DEF RequestShape
  <2>. QED
    BY <1>5, <2>1, <2>2, <2>3
<1>10. ASSUME Goes(r, "end")
       PROVE  CorpusInv'
  <2>. DEFINE q == [request[r] EXCEPT !.step = "end"]
  <2>1. request' = [request EXCEPT ![r] = q]
    BY <1>6, <1>10 DEF Goes
  <2>2. q.step = "end" /\ q.kind = request[r].kind /\ ~q.ok /\ q \in RequestRecord
    BY <1>1, <1>2 DEF RequestRecord, Steps
  <2>. HIDE DEF q
  <2>3. RequestShape(q)
    BY <1>1, <1>2, <2>2 DEF RequestShape
  <2>. QED
    BY <1>5, <2>1, <2>2, <2>3
<1>. QED
  BY <1>7, <1>8, <1>9, <1>10 DEF FetchAnswers

(* A request goes on to its next step, with or without a store's consent.  *)
LEMMA RequestGoes ==
  ASSUME CorpusInv, NEW r \in Requests, NEW step \in Steps, NEW ok \in BOOLEAN,
         request[r].step # "idle",
         request' = [request EXCEPT ![r] = [request[r] EXCEPT !.step = step, !.ok = ok]],
         Evolves(index, index'), Evolves(artifact, artifact'),
         UNCHANGED <<corpusMode, tick, query, answered, revokedAt, takenDown, urlLock>>,
         FailuresHide',
         step \notin {"fetch", "put", "revalidate"},
         step = "index" => request[r].step \in {"put", "revalidate"},
         step \in {"hide index", "hide artifact"} =>
           request[r].kind = "admit" /\ request[r].step \in {"put", "index", "hide index"},
         ok => step \in {"revoke artifact", "hide artifact", "end"},
         ok /\ step = "hide artifact" => index'.disp # "permitted",
         ok => \/ request[r].ok /\ ~(step = "hide artifact")
               \/ request[r].saw # NoEdition
               \/ RecalledBy(index', artifact', request[r].at, Forgotten, request[r].kind = "takedown")
  PROVE  CorpusInv'
<1>. DEFINE q == [request[r] EXCEPT !.step = step, !.ok = ok]
<1>1. /\ request[r] \in RequestRecord /\ RequestShape(request[r]) /\ request[r] # Idle
      /\ RequestRecalled(request[r], index, artifact, Forgotten) /\ request[r].at \in Ticks
  BY CorpusRecords
<1>2. /\ q \in RequestRecord /\ q.step = step /\ q.ok = ok /\ q.kind = request[r].kind
      /\ q.saw = request[r].saw /\ q.at = request[r].at
  BY <1>1 DEF RequestRecord
<1>. HIDE DEF q
<1>3. RequestShape(q)
  BY <1>1, <1>2 DEF RequestShape
<1>4. ASSUME ok, request[r].saw = NoEdition
      PROVE  RecalledBy(index', artifact', request[r].at, Forgotten, request[r].kind = "takedown")
  <2>1. CASE request[r].ok
    <3>1. RecalledBy(index, artifact, request[r].at, Forgotten, request[r].kind = "takedown")
      BY <1>1, <1>4, <2>1 DEF RequestRecalled
    <3>2. (request[r].kind = "takedown") \in BOOLEAN
      OBVIOUS
    <3>. QED
      BY <1>1, <3>1, <3>2, MemoryLasts
  <2>2. CASE ~request[r].ok
    BY <1>4, <2>2
  <2>. QED
    BY <2>1, <2>2
<1>5. RequestRecalled(q, index', artifact', Forgotten)
  BY <1>2, <1>4 DEF RequestRecalled
<1>6. request' = [request EXCEPT ![r] = q]
  BY DEF q
<1>. QED
  BY <1>1, <1>3, <1>5, <1>6, RequestMoves

LEMMA PutKeeps ==
  ASSUME CorpusInv, NEW r \in Requests, PutArtifact(r) \/ RevalidateArtifact(r)
  PROVE  CorpusInv'
<1>1. request[r] \in RequestRecord /\ RequestShape(request[r])
      /\ request \in [Requests -> RequestRecord]
  BY CorpusRecords DEF CorpusInv, RequestsShaped
<1>2. /\ UNCHANGED <<corpusMode, index, quarantined, urlLock, tick, query, answered,
                     revokedAt, takenDown, failed>>
      /\ request[r].step \in {"put", "revalidate"} /\ ~request[r].ok
  BY <1>1 DEF PutArtifact, RevalidateArtifact, RequestShape
<1>3. \E step \in {"index", "end", OnFailure(r)} :
        /\ Goes(r, step)
        /\ step = "hide index" => request[r].kind = "admit" /\ request[r].step = "put"
  BY DEF PutArtifact, RevalidateArtifact, ArtifactWrite, OnFailure
<1>4. Evolves(artifact, artifact')
  <2>1. ASSUME PutArtifact(r) PROVE Evolves(artifact, artifact')
    <3>. DEFINE x == Permitted(request[r].saw, request[r].at)
    <3>1. Stored(x) /\ x # NoRecord
      BY <1>1, CorpusRecords DEF RequestRecord
    <3>2. artifact' = artifact \/ (~Outdated(artifact, x.at, x.disp) /\ artifact' = x)
      BY <2>1, CorpusRecords DEF PutArtifact, ArtifactWrite
    <3>. QED
      BY <3>1, <3>2 DEF Evolves
  <2>2. ASSUME RevalidateArtifact(r) PROVE Evolves(artifact, artifact')
    <3>. DEFINE x == Permitted(artifact.edition, request[r].at)
    <3>1. artifact.edition \in Editions \cup {NoEdition}
      BY DEF CorpusInv, StoresRemember, Stored, Record, NoRecord
    <3>2. Stored(x) /\ x # NoRecord
      BY <1>1, <3>1, CorpusRecords DEF RequestRecord
    <3>3. artifact' = artifact \/ (~Outdated(artifact, x.at, x.disp) /\ artifact' = x)
      BY <2>2, CorpusRecords DEF RevalidateArtifact, ArtifactWrite
    <3>. QED
      BY <3>2, <3>3 DEF Evolves
  <2>. QED
    BY <2>1, <2>2
<1>5. Evolves(index, index') /\ FailuresHide'
  BY <1>2, FailuresStayHidden DEF Evolves
<1>6. PICK step \in {"index", "end", OnFailure(r)} :
        /\ Goes(r, step)
        /\ step = "hide index" => request[r].kind = "admit" /\ request[r].step = "put"
  BY <1>3
<1>7. step \in {"index", "end", "hide index"}
  BY <1>6 DEF OnFailure
<1>8. request' = [request EXCEPT ![r] = [request[r] EXCEPT !.step = step, !.ok = FALSE]]
  BY <1>1, <1>2, <1>6 DEF Goes, RequestRecord
<1>. QED
  BY <1>2, <1>4, <1>5, <1>6, <1>7, <1>8, RequestGoes DEF Steps

LEMMA IndexKeeps ==
  ASSUME CorpusInv, NEW r \in Requests, IndexPermitted(r)
  PROVE  CorpusInv'
<1>1. request[r] \in RequestRecord /\ RequestShape(request[r])
      /\ request \in [Requests -> RequestRecord]
  BY CorpusRecords DEF CorpusInv, RequestsShaped
<1>2. /\ UNCHANGED <<corpusMode, artifact, quarantined, urlLock, tick, query, answered,
                     revokedAt, takenDown>>
      /\ request[r].step = "index" /\ ~request[r].ok
      /\ corpusMode = "curated" => request[r].kind = "admit"
  BY <1>1 DEF IndexPermitted, RequestShape
<1>. DEFINE x == Permitted(request[r].saw, request[r].at)
<1>3. Stored(x) /\ x # NoRecord /\ x.disp = "permitted"
  BY <1>1, CorpusRecords DEF RequestRecord
<1>4. PICK step \in {"end", "hide index"} :
        /\ Goes(r, step)
        /\ step = "hide index" => request[r].kind = "admit"
        /\ \/ /\ ~Outdated(Pruned(index), x.at, "permitted") /\ index' = x
              /\ failed' = IF request[r].kind = "admit" THEN "no" ELSE failed
           \/ index' = Pruned(index) /\ failed' = failed
  BY DEF IndexPermitted, OnFailure
<1>5. Evolves(index, index') /\ Evolves(artifact, artifact')
  BY <1>2, <1>3, <1>4 DEF Evolves
<1>6. FailuresHide'
  <2>1. failed # "no" => corpusMode = "curated"
    BY DEF CorpusInv, FailuresHide
  <2>. QED
    BY <1>2, <1>4, <2>1, FailuresStayHidden
<1>7. request' = [request EXCEPT ![r] = [request[r] EXCEPT !.step = step, !.ok = FALSE]]
  BY <1>1, <1>2, <1>4 DEF Goes, RequestRecord
<1>. QED
  BY <1>2, <1>4, <1>5, <1>6, <1>7, RequestGoes DEF Steps

LEMMA RevokeKeeps ==
  ASSUME CorpusInv, NEW r \in Requests, RevokeIndex(r) \/ RevokeArtifact(r)
  PROVE  CorpusInv'
<1>1. request[r] \in RequestRecord /\ RequestShape(request[r]) /\ request[r].at \in Ticks
      /\ request \in [Requests -> RequestRecord] /\ Forgotten \in Nat
  BY CorpusRecords DEF CorpusInv, RequestsShaped
<1>2. UNCHANGED <<corpusMode, quarantined, urlLock, tick, query, answered, revokedAt,
                  takenDown, failed>>
  BY DEF RevokeIndex, RevokeArtifact
<1>. DEFINE x == Revoked(Disposition(r), request[r].at)
<1>3. /\ Stored(x) /\ x # NoRecord /\ x.at = request[r].at /\ x.disp # "permitted"
      /\ request[r].kind = "takedown" => x.disp = "takedown"
      /\ x.disp = Disposition(r)
  BY <1>1, CorpusRecords DEF Disposition
<1>. HIDE DEF x
<1>4. Remembers(x, request[r].at, Forgotten)
  BY <1>3 DEF Remembers
<1>5. CASE RevokeIndex(r)
  <2>1. PICK ok \in BOOLEAN :
          /\ request' = [request EXCEPT ![r].step = "revoke artifact", ![r].ok = ok]
          /\ \/ /\ ~Outdated(Pruned(index), x.at, x.disp)
                /\ index' \in {x, Pruned(index)} /\ ok = (index' = x)
             \/ index' = Pruned(index) /\ ok = request[r].ok
    <3>1. CASE Goes(r, "revoke artifact") /\ index' = Pruned(index)
      <4>1. request' = [request EXCEPT ![r].step = "revoke artifact", ![r].ok = request[r].ok]
        BY <1>1, <3>1 DEF Goes, RequestRecord
      <4>2. request[r].ok \in BOOLEAN
        BY <1>1 DEF RequestRecord
      <4>. QED
        BY <3>1, <4>1, <4>2
    <3>2. CASE /\ ~Outdated(Pruned(index), x.at, x.disp)
               /\ index' = IF OnlyExisting(r) /\ Pruned(index) = NoRecord
                           THEN NoRecord ELSE x
               /\ request' = [request EXCEPT ![r].step = "revoke artifact",
                                             ![r].ok = (index' = x)]
      <4>1. (index' = x) \in BOOLEAN /\ index' \in {x, Pruned(index)}
        BY <3>2
      <4>. QED
        BY <3>2, <4>1
    <3>. QED
      BY <1>5, <3>1, <3>2 DEF RevokeIndex, x
  <2>2. request[r].step = "revoke index" /\ ~request[r].ok /\ artifact' = artifact
    BY <1>1, <1>5 DEF RevokeIndex, RequestShape
  <2>3. Evolves(index, index') /\ Evolves(artifact, artifact')
    BY <1>3, <2>1, <2>2 DEF Evolves
  <2>4. FailuresHide'
    BY <1>2, <1>3, <2>1, FailuresStayHidden
  <2>5. request' = [request EXCEPT ![r] = [request[r] EXCEPT !.step = "revoke artifact", !.ok = ok]]
    BY <1>1, <2>1
  <2>6. ok => RecalledBy(index', artifact', request[r].at, Forgotten, request[r].kind = "takedown")
    BY <1>3, <1>4, <2>1, <2>2 DEF RecalledBy
  <2>. QED
    BY <1>2, <2>2, <2>3, <2>4, <2>5, <2>6, RequestGoes DEF Steps
<1>6. CASE RevokeArtifact(r)
  <2>1. PICK ok \in BOOLEAN :
          /\ request' = [request EXCEPT ![r].step = "end", ![r].ok = ok]
          /\ \/ ~Outdated(artifact, x.at, x.disp) /\ artifact' = x /\ ok
             \/ artifact' = artifact /\ ok = request[r].ok
             \/ ~Outdated(artifact, x.at, x.disp) /\ artifact' = x /\ ok = request[r].ok
    <3>1. request[r].ok \in BOOLEAN /\ TRUE \in BOOLEAN
      BY <1>1 DEF RequestRecord
    <3>2. Goes(r, "end") =>
            request' = [request EXCEPT ![r].step = "end", ![r].ok = request[r].ok]
      BY <1>1 DEF Goes, RequestRecord
    <3>. QED
      BY <1>6, <3>1, <3>2 DEF RevokeArtifact, ArtifactWrite, x
  <2>2. request[r].step = "revoke artifact" /\ index' = index
    BY <1>6 DEF RevokeArtifact
  <2>3. Evolves(index, index') /\ Evolves(artifact, artifact')
    BY <1>3, <2>1, <2>2 DEF Evolves
  <2>4. FailuresHide'
    BY <1>2, <2>2, FailuresStayHidden
  <2>5. request' = [request EXCEPT ![r] = [request[r] EXCEPT !.step = "end", !.ok = ok]]
    BY <1>1, <2>1
  <2>6. ok => request[r].ok
              \/ RecalledBy(index', artifact', request[r].at, Forgotten, request[r].kind = "takedown")
    BY <1>3, <1>4, <2>1 DEF RecalledBy
  <2>. QED
    BY <1>2, <2>2, <2>3, <2>4, <2>5, <2>6, RequestGoes DEF Steps
<1>. QED
  BY <1>5, <1>6

LEMMA HideKeeps ==
  ASSUME CorpusInv, NEW r \in Requests, HideIndex(r) \/ HideArtifact(r)
  PROVE  CorpusInv'
<1>1. request[r] \in RequestRecord /\ RequestShape(request[r]) /\ request[r].at \in Ticks
      /\ request \in [Requests -> RequestRecord]
      /\ RequestRecalled(request[r], index, artifact, Forgotten)
  BY CorpusRecords DEF CorpusInv, RequestsShaped
<1>2. /\ UNCHANGED <<corpusMode, urlLock, tick, query, answered, revokedAt, takenDown>>
      /\ request[r].step \in {"hide index", "hide artifact"}
      /\ request[r].kind = "admit" /\ corpusMode = "curated" /\ request[r].saw # NoEdition
  BY <1>1 DEF HideIndex, HideArtifact, RequestShape
<1>. DEFINE x == Revoked("unknown", request[r].at)
<1>3. Stored(x) /\ x # NoRecord /\ x.disp = "unknown"
  BY <1>1, CorpusRecords
<1>. HIDE DEF x
<1>4. CASE HideIndex(r)
  <2>1. request[r].step = "hide index" /\ ~request[r].ok /\ artifact' = artifact
        /\ quarantined' = quarantined /\ failed' = failed
    BY <1>1, <1>4 DEF HideIndex, RequestShape
  <2>2. PICK ok \in BOOLEAN :
          /\ request' = [request EXCEPT ![r].step = "hide artifact", ![r].ok = ok]
          /\ \/ ~Outdated(Pruned(index), x.at, x.disp) /\ index' = x
             \/ index' = Pruned(index) /\ ~ok
    <3>1. Goes(r, "hide artifact") =>
            request' = [request EXCEPT ![r].step = "hide artifact", ![r].ok = FALSE]
      BY <1>1, <2>1 DEF Goes, RequestRecord
    <3>2. x.at = request[r].at
      BY <1>1, CorpusRecords DEF x
    <3>. QED
      BY <1>3, <1>4, <3>1, <3>2 DEF HideIndex, x
  <2>3. Evolves(index, index') /\ Evolves(artifact, artifact')
    BY <1>3, <2>1, <2>2 DEF Evolves
  <2>4. FailuresHide'
    BY <1>2, <1>3, <2>1, <2>2, FailuresStayHidden
  <2>5. request' = [request EXCEPT ![r] = [request[r] EXCEPT !.step = "hide artifact", !.ok = ok]]
    BY <1>1, <2>2
  <2>. QED
    BY <1>2, <1>3, <2>1, <2>2, <2>3, <2>4, <2>5, RequestGoes DEF Steps
<1>5. CASE HideArtifact(r)
  <2>1. /\ request[r].step = "hide artifact" /\ index' = index /\ failed' = "now"
        /\ \/ ~Outdated(artifact, x.at, x.disp) /\ artifact' = x
           \/ artifact' = artifact
        /\ Goes(r, "end")
        /\ quarantined' \in {quarantined \/ ~request[r].ok, TRUE}
    <3>1. x.at = request[r].at
      BY <1>1, CorpusRecords DEF x
    <3>. QED
      BY <1>3, <1>5, <3>1 DEF HideArtifact, ArtifactWrite, x
  <2>2. Evolves(index, index') /\ Evolves(artifact, artifact')
    BY <1>3, <2>1 DEF Evolves
  <2>3. FailuresHide'
    <3>1. quarantined' \in BOOLEAN /\ (request[r].ok \/ quarantined')
      BY <2>1
    <3>2. request[r].ok => index'.disp # "permitted"
      BY <1>1, <2>1 DEF RequestRecalled
    <3>. QED
      BY <1>2, <2>1, <3>1, <3>2 DEF FailuresHide
  <2>4. request' = [request EXCEPT ![r] = [request[r] EXCEPT !.step = "end", !.ok = request[r].ok]]
        /\ request[r].ok \in BOOLEAN
    BY <1>1, <2>1 DEF Goes, RequestRecord
  <2>. QED
    BY <1>2, <2>1, <2>2, <2>3, <2>4, RequestGoes DEF Steps
<1>. QED
  BY <1>4, <1>5

(* What moves no request, and lets a store at most drop what has expired.  *)
LEMMA CorpusIdles ==
  ASSUME CorpusInv, index' \in {index, Pruned(index)}, artifact' \in {artifact, Pruned(artifact)},
         UNCHANGED <<corpusMode, quarantined, urlLock, request, tick, revokedAt, takenDown, failed>>,
         query' # NoQuery => query' = query \/ HitGuarded(query', artifact', Forgotten),
         RevokedStaysHidden', FailedAdmissionHides'
  PROVE  CorpusInv'
<1>0. Evolves(index, index') /\ Evolves(artifact, artifact')
  BY DEF Evolves
<1>1. /\ Stored(index)' /\ Stored(artifact)'
      /\ \A at \in Ticks, down \in BOOLEAN :
           RecalledBy(index, artifact, at, Forgotten, down) =>
             RecalledBy(index', artifact', at, Forgotten, down)
      /\ \A at \in Ticks : Remembers(artifact, at, Forgotten) => Remembers(artifact', at, Forgotten)
      /\ artifact.disp = "takedown" => artifact'.disp = "takedown"
      /\ Forgotten' = Forgotten
  BY <1>0, MemoryLasts
<1>2. StoresRemember /\ RequestsShaped
      /\ (query # NoQuery => HitGuarded(query, artifact, Forgotten))
  BY DEF CorpusInv
<1>3. StoresRemember' /\ FailuresHide'
  BY <1>1, <1>2, FailuresStayHidden DEF StoresRemember
<1>4. index.disp # "permitted" => index'.disp # "permitted"
  BY DEF Pruned, NoRecord
<1>5. ASSUME NEW s \in Requests
      PROVE  /\ RequestShape(request[s])' /\ RequestRecalled(request[s], index', artifact', Forgotten)
             /\ request[s] # Idle /\ Locks => urlLock = s
  <2>1. /\ request[s] \in RequestRecord
        /\ RequestShape(request[s]) /\ RequestRecalled(request[s], index, artifact, Forgotten)
        /\ request[s] # Idle /\ Locks => urlLock = s
    BY <1>2 DEF RequestsShaped
  <2>2. request[s].at \in Ticks /\ (request[s].kind = "takedown") \in BOOLEAN
    BY <2>1 DEF RequestRecord
  <2>3. RequestRecalled(request[s], index', artifact', Forgotten)
    BY <1>1, <1>4, <2>1, <2>2 DEF RequestRecalled
  <2>. QED
    BY <2>1, <2>3 DEF RequestShape
<1>6. RequestsShaped'
  BY <1>1, <1>2, <1>5 DEF RequestsShaped, Locks
<1>7. query' # NoQuery => HitGuarded(query', artifact', Forgotten)
  <2>1. query # NoQuery => query.revokedAt \in Ticks
    BY <1>2 DEF HitGuarded, QueryRecord
  <2>. QED
    BY <1>1, <1>2, <2>1 DEF HitGuarded
<1>. QED
  BY <1>1, <1>3, <1>6, <1>7 DEF CorpusInv, HiddenStaysHidden

LEMMA SearchKeeps ==
  ASSUME CorpusInv, BeginQuery \/ CheckHit
  PROVE  CorpusInv'
<1>0. UNCHANGED <<corpusMode, index, artifact, quarantined, urlLock, request, tick,
                  revokedAt, takenDown, failed>>
  BY DEF BeginQuery, CheckHit
<1>1. /\ Stored(index) /\ Stored(artifact) /\ tick \in Ticks /\ RevokedStaysHidden
      /\ FailedAdmissionHides /\ StoresRemember /\ FailuresHide
      /\ (query # NoQuery => HitGuarded(query, artifact, Forgotten))
  BY DEF CorpusInv, StoresRemember, HiddenStaysHidden
<1>2. \A at \in Ticks : at \in Nat
  BY CorpusAssumption DEF Ticks
<1>3. \A z : Stored(z) => z.at \in Ticks /\ z.edition \in Editions \cup {NoEdition}
  <2>1. 0 \in Ticks
    BY CorpusAssumption DEF Ticks
  <2>. QED
    BY <2>1 DEF Stored, Record, NoRecord
<1>4. CASE BeginQuery
  <2>. DEFINE q == [edition |-> index.edition, at |-> index.at, revokedAt |-> revokedAt,
                    takenDown |-> takenDown, failed |-> failed]
  <2>1. /\ query' = q /\ answered' = answered /\ Readable(index) /\ ~quarantined
    BY <1>4 DEF BeginQuery
  <2>2. q \in QueryRecord
    BY <1>1, <1>3 DEF QueryRecord, StoresRemember, FailuresHide
  <2>3. index.disp = "permitted"
    BY <2>1 DEF Readable
  <2>4. failed # "now"
    BY <1>1, <2>1, <2>3 DEF FailuresHide
  <2>5. takenDown => artifact.disp = "takedown"
    BY <1>1, <2>3 DEF StoresRemember, RecalledBy
  <2>6. revokedAt > 0 => index.at > revokedAt \/ Remembers(artifact, revokedAt, Forgotten)
    BY <1>1, <2>1, ReadableIsNewer DEF StoresRemember, RecalledBy
  <2>7. /\ q.failed = failed /\ q.revokedAt = revokedAt /\ q.at = index.at
        /\ q.takenDown = takenDown
    OBVIOUS
  <2>. HIDE DEF q
  <2>8. HitGuarded(q, artifact, Forgotten)
    BY <2>2, <2>4, <2>5, <2>6, <2>7 DEF HitGuarded
  <2>9. RevokedStaysHidden' /\ FailedAdmissionHides'
    BY <1>1, <2>1 DEF RevokedStaysHidden, FailedAdmissionHides
  <2>. QED
    BY <1>0, <2>1, <2>8, <2>9, CorpusIdles
<1>5. CASE CheckHit
  <2>1. query # NoQuery /\ query' = NoQuery /\ HitGuarded(query, artifact, Forgotten)
    BY <1>1, <1>5 DEF CheckHit
  <2>2. query \in QueryRecord /\ query.revokedAt \in Ticks /\ query.at \in Nat
        /\ query.revokedAt \in Nat
    BY <1>2, <2>1 DEF HitGuarded, QueryRecord
  <2>3. RevokedStaysHidden' /\ FailedAdmissionHides'
    <3>1. CASE ~MatchesArtifact(query.edition)
      BY <1>5, <3>1 DEF CheckHit, RevokedStaysHidden, FailedAdmissionHides
    <3>2. CASE MatchesArtifact(query.edition)
      <4>. DEFINE a == [query EXCEPT !.at = Later(query.at, artifact.at)]
      <4>1. answered' = a /\ Readable(artifact)
        BY <1>5, <3>2 DEF CheckHit, MatchesArtifact
      <4>2. /\ a.at = Later(query.at, artifact.at) /\ a.revokedAt = query.revokedAt
            /\ a.takenDown = query.takenDown /\ a.failed = query.failed
        BY <2>2 DEF QueryRecord
      <4>. HIDE DEF a
      <4>3. artifact.at \in Nat
        BY <1>1, <1>2, <1>3
      <4>4. query.revokedAt > 0 => query.at > query.revokedAt \/ artifact.at > query.revokedAt
        BY <1>1, <2>1, <2>2, <4>1, ReadableIsNewer DEF HitGuarded
      <4>5. a.revokedAt > 0 => a.at > a.revokedAt
        BY <2>2, <4>2, <4>3, <4>4 DEF Later
      <4>6. artifact.disp = "permitted"
        BY <4>1 DEF Readable
      <4>7. ~a.takenDown /\ a.failed # "now"
        BY <2>1, <4>2, <4>6 DEF HitGuarded
      <4>. QED
        BY <4>1, <4>5, <4>7 DEF RevokedStaysHidden, FailedAdmissionHides
    <3>. QED
      BY <3>1, <3>2
  <2>. QED
    BY <1>0, <2>1, <2>3, CorpusIdles
<1>. QED
  BY <1>4, <1>5

LEMMA BeginEndKeeps ==
  ASSUME CorpusInv, NEW r \in Requests, BeginRequest(r) \/ EndRequest(r)
  PROVE  CorpusInv'
<1>1. /\ request[r] \in RequestRecord /\ RequestShape(request[r])
      /\ RequestRecalled(request[r], index, artifact, Forgotten)
      /\ tick \in Ticks /\ Forgotten \in Nat /\ request[r].at \in Ticks
      /\ Idle.step = "idle" /\ ~Idle.ok /\ Idle \in RequestRecord
  BY CorpusRecords
<1>2. /\ StoresRemember /\ FailuresHide /\ RequestsShaped /\ HiddenStaysHidden
      /\ request \in [Requests -> RequestRecord]
      /\ (query # NoQuery => HitGuarded(query, artifact, Forgotten))
      /\ corpusMode \in {"personal", "curated", "archive"}
  BY DEF CorpusInv, RequestsShaped
<1>3. /\ UNCHANGED <<corpusMode, index, artifact, quarantined, tick, query, answered, failed>>
      /\ Forgotten' = Forgotten
  BY DEF BeginRequest, EndRequest, Forgotten
<1>4. ASSUME NEW q, RequestShape(q), RequestRecalled(q, index, artifact, Forgotten),
             request' = [request EXCEPT ![r] = q],
             \A s \in Requests \ {r} : request[s] # Idle /\ Locks => urlLock' = s,
             q # Idle /\ Locks => urlLock' = r
      PROVE  RequestsShaped'
  <2>1. request' \in [Requests -> RequestRecord]
    BY <1>2, <1>4 DEF RequestShape
  <2>2. ASSUME NEW s \in Requests
        PROVE  /\ RequestShape(request'[s])
               /\ RequestRecalled(request'[s], index, artifact, Forgotten)
               /\ request'[s] # Idle /\ Locks => urlLock' = s
    <3>1. CASE s = r
      BY <1>2, <1>4, <3>1
    <3>2. CASE s # r
      BY <1>2, <1>4, <3>2 DEF RequestsShaped
    <3>. QED
      BY <3>1, <3>2
  <2>3. \A s \in Requests : RequestShape(request[s])'
    BY <1>3, <2>2 DEF RequestShape
  <2>. QED
    BY <1>3, <2>1, <2>2, <2>3 DEF RequestsShaped, Locks
<1>5. FailuresHide' /\ HiddenStaysHidden' /\ (query' # NoQuery => HitGuarded(query, artifact, Forgotten)')
  BY <1>2, <1>3 DEF FailuresHide, HiddenStaysHidden, RevokedStaysHidden, FailedAdmissionHides,
     HitGuarded
<1>6. CASE BeginRequest(r)
  <2>1. PICK kind \in {"visit", "admit", "takedown"}, saw \in Editions \cup {NoEdition} :
          /\ request' = [request EXCEPT ![r] =
               [kind |-> kind, step |-> IF kind = "takedown" THEN "revoke index" ELSE "fetch",
                at |-> tick, ok |-> FALSE, saw |-> saw]]
          /\ kind = "admit" => corpusMode = "curated"
          /\ saw # NoEdition => corpusMode # "curated"
    <3>1. artifact.edition \in Editions \cup {NoEdition}
      BY <1>2 DEF StoresRemember, Stored, Record, NoRecord
    <3>2. PICK kind \in {"visit"} \cup (IF corpusMode = "curated" THEN {"admit"} ELSE {})
                        \cup (IF corpusMode # "personal" THEN {"takedown"} ELSE {}) :
            request' = [request EXCEPT ![r] =
              [kind |-> kind, step |-> IF kind = "takedown" THEN "revoke index" ELSE "fetch",
               at |-> tick, ok |-> FALSE,
               saw |-> IF kind = "visit" /\ corpusMode # "curated" /\ Readable(artifact)
                       THEN artifact.edition ELSE NoEdition]]
      BY <1>6 DEF BeginRequest
    <3>3. kind \in {"visit", "admit", "takedown"} /\ (kind = "admit" => corpusMode = "curated")
      BY <3>2
    <3>. QED
      BY <3>1, <3>2, <3>3
  <2>. DEFINE q == [kind |-> kind, step |-> IF kind = "takedown" THEN "revoke index" ELSE "fetch",
                    at |-> tick, ok |-> FALSE, saw |-> saw]
  <2>2. /\ q \in RequestRecord /\ q.kind = kind /\ ~q.ok /\ q.saw = saw
        /\ q.step \in {"revoke index", "fetch"} /\ (q.step = "fetch" => kind # "takedown")
    BY <1>1 DEF RequestRecord, Steps
  <2>3. request' = [request EXCEPT ![r] = q]
    BY <2>1
  <2>. HIDE DEF q
  <2>4. RequestShape(q) /\ RequestRecalled(q, index, artifact, Forgotten)
    BY <2>1, <2>2 DEF RequestShape, RequestRecalled
  <2>5. /\ \A s \in Requests \ {r} : request[s] # Idle /\ Locks => urlLock' = s
        /\ q # Idle /\ Locks => urlLock' = r
    BY <1>2, <1>6, CorpusAssumption DEF BeginRequest, MayStart, RequestsShaped, Nobody
  <2>6. RequestsShaped'
    BY <1>4, <2>3, <2>4, <2>5
  <2>7. StoresRemember'
    BY <1>2, <1>3, <1>6 DEF StoresRemember, BeginRequest, Stored
  <2>. QED
    BY <1>1, <1>2, <1>3, <1>5, <2>6, <2>7 DEF CorpusInv
<1>7. CASE EndRequest(r)
  <2>1. request' = [request EXCEPT ![r] = Idle] /\ urlLock' = (IF urlLock = r THEN Nobody ELSE urlLock)
    BY <1>7 DEF EndRequest, Finishes
  <2>2. RequestShape(Idle) /\ RequestRecalled(Idle, index, artifact, Forgotten)
    BY <1>1 DEF RequestShape, RequestRecalled, Idle
  <2>3. \A s \in Requests \ {r} : request[s] # Idle /\ Locks => urlLock' = s
    BY <1>2, <2>1 DEF RequestsShaped
  <2>4. RequestsShaped'
    BY <1>4, <2>1, <2>2, <2>3
  <2>. DEFINE accepted == request[r].ok /\ request[r].saw = NoEdition
  <2>5. /\ revokedAt' = IF accepted THEN Later(revokedAt, request[r].at) ELSE revokedAt
        /\ takenDown' = (takenDown \/ (accepted /\ request[r].kind = "takedown"))
    BY <1>7 DEF EndRequest
  <2>6. StoresRemember'
    <3>1. revokedAt \in Ticks /\ takenDown \in BOOLEAN
          /\ RecalledBy(index, artifact, revokedAt, Forgotten, takenDown)
      BY <1>2 DEF StoresRemember
    <3>2. revokedAt' \in {revokedAt, request[r].at} /\ revokedAt' \in Ticks /\ takenDown' \in BOOLEAN
      BY <1>1, <2>5, <3>1 DEF Later
    <3>3. accepted => RecalledBy(index, artifact, request[r].at, Forgotten, request[r].kind = "takedown")
      BY <1>1 DEF RequestRecalled
    <3>4. RecalledBy(index, artifact, revokedAt', Forgotten, takenDown')
      <4>1. CASE accepted
        BY <2>5, <3>1, <3>2, <3>3, <4>1 DEF RecalledBy
      <4>2. CASE ~accepted
        BY <2>5, <3>1, <4>2 DEF RecalledBy
      <4>. QED
        BY <4>1, <4>2
    <3>. QED
      BY <1>2, <1>3, <3>2, <3>4 DEF StoresRemember, Stored
  <2>. QED
    BY <1>1, <1>2, <1>3, <1>5, <2>4, <2>6 DEF CorpusInv
<1>. QED
  BY <1>6, <1>7

LEMMA CorpusInductive == CorpusInv /\ [CorpusNext]_corpusVars => CorpusInv'
<1>. SUFFICES ASSUME CorpusInv, [CorpusNext]_corpusVars PROVE CorpusInv'
  OBVIOUS
<1>0. /\ StoresRemember /\ FailuresHide /\ RequestsShaped /\ RevokedStaysHidden
      /\ FailedAdmissionHides
      /\ (query # NoQuery => HitGuarded(query, artifact, Forgotten))
      /\ corpusMode \in {"personal", "curated", "archive"} /\ tick \in Ticks
  BY DEF CorpusInv, HiddenStaysHidden
<1>1. CASE SweepIndex \/ SweepArtifact \/ UNCHANGED corpusVars
  <2>1. /\ index' \in {index, Pruned(index)} /\ artifact' \in {artifact, Pruned(artifact)}
        /\ UNCHANGED <<corpusMode, quarantined, urlLock, request, tick, query, answered,
                       revokedAt, takenDown, failed>>
    BY <1>1 DEF SweepIndex, SweepArtifact, corpusVars, Pruned
  <2>2. RevokedStaysHidden' /\ FailedAdmissionHides'
    BY <1>0, <2>1 DEF RevokedStaysHidden, FailedAdmissionHides
  <2>. QED
    BY <2>1, <2>2, CorpusIdles
<1>2. CASE ServerRestarts
  <2>1. /\ index' = Pruned(index) /\ artifact' = artifact
        /\ UNCHANGED <<corpusMode, artifact, tick, revokedAt, takenDown>>
        /\ request' = [r \in Requests |-> Idle] /\ quarantined' = FALSE
        /\ query' = NoQuery /\ answered' = NoQuery
        /\ failed' = IF failed = "no" THEN "no" ELSE "before"
    BY <1>2 DEF ServerRestarts
  <2>2. Evolves(index, index') /\ Evolves(artifact, artifact')
    BY <2>1 DEF Evolves
  <2>3. StoresRemember'
    BY <1>0, <2>1, <2>2, MemoryLasts DEF StoresRemember
  <2>4. FailuresHide'
    BY <1>0, <2>1 DEF FailuresHide
  <2>5. RequestsShaped'
    <3>1. Idle.step = "idle" /\ ~Idle.ok /\ Idle.kind = "none" /\ Idle \in RequestRecord
      BY CorpusAssumption DEF Idle, RequestRecord, Steps, Ticks
    <3>2. RequestShape(Idle)' /\ RequestRecalled(Idle, index', artifact', Forgotten')
      BY <3>1 DEF RequestShape, RequestRecalled
    <3>. QED
      BY <2>1, <3>1, <3>2 DEF RequestsShaped
  <2>6. HiddenStaysHidden'
    BY <2>1 DEF HiddenStaysHidden, RevokedStaysHidden, FailedAdmissionHides
  <2>. QED
    BY <1>0, <2>1, <2>3, <2>4, <2>5, <2>6 DEF CorpusInv
<1>3. CASE TimePasses
  <2>1. /\ UNCHANGED <<corpusMode, index, artifact, quarantined, urlLock, request, query,
                       answered, revokedAt, takenDown, failed>>
        /\ tick < LastTick /\ tick' = tick + 1
    BY <1>3 DEF TimePasses
  <2>2. tick' \in Ticks
    BY <1>0, <2>1, CorpusAssumption DEF Ticks
  <2>3. \A z : \A at \in Ticks : Remembers(z, at, Forgotten) => Remembers(z, at, Forgotten')
    <3>1. tick \in Nat /\ \A at \in Ticks : at \in Nat
      BY <1>0, CorpusAssumption DEF Ticks
    <3>2. Forgotten \in Nat /\ Forgotten' \in Nat /\ Forgotten <= Forgotten'
      BY <2>1, <3>1, CorpusAssumption DEF Forgotten
    <3>. QED
      BY <3>1, <3>2 DEF Remembers
  <2>4. StoresRemember'
    BY <1>0, <2>1, <2>3 DEF StoresRemember, RecalledBy, Stored
  <2>5. FailuresHide' /\ HiddenStaysHidden'
    BY <1>0, <2>1 DEF FailuresHide, HiddenStaysHidden, RevokedStaysHidden, FailedAdmissionHides
  <2>6. ASSUME NEW s \in Requests
        PROVE  /\ RequestShape(request[s])'
               /\ RequestRecalled(request[s], index, artifact, Forgotten')
               /\ request[s] # Idle /\ Locks => urlLock = s
    <3>1. /\ request[s] \in RequestRecord
          /\ RequestShape(request[s]) /\ RequestRecalled(request[s], index, artifact, Forgotten)
          /\ request[s] # Idle /\ Locks => urlLock = s
      BY <1>0 DEF RequestsShaped
    <3>2. request[s].at \in Ticks
      BY <3>1 DEF RequestRecord
    <3>. QED
      BY <2>1, <2>3, <3>1, <3>2 DEF RequestShape, RequestRecalled, RecalledBy
  <2>7. RequestsShaped'
    BY <1>0, <2>1, <2>6 DEF RequestsShaped, Locks
  <2>8. query # NoQuery => HitGuarded(query, artifact, Forgotten')
    <3>1. query # NoQuery => query.revokedAt \in Ticks
      BY <1>0 DEF HitGuarded, QueryRecord
    <3>. QED
      BY <1>0, <2>3, <3>1 DEF HitGuarded
  <2>. QED
    BY <1>0, <2>1, <2>2, <2>4, <2>5, <2>7, <2>8 DEF CorpusInv
<1>. QED
  BY <1>1, <1>2, <1>3, FetchKeeps, PutKeeps, IndexKeeps, RevokeKeeps, HideKeeps, SearchKeeps,
     BeginEndKeeps DEF CorpusNext

(* A search never returns what was revoked, taken down or could not be     *)
(* replaced before it began, whatever older requests were in flight,       *)
(* however often one store failed and the other did not, in every mode and *)
(* with expiry - for any requests, editions, age and clock (Reconcile,     *)
(* Revoke, failClosedCuratedRetention, the guard of the local searcher).   *)
THEOREM HiddenIsHidden == CorpusSpec => []HiddenStaysHidden
<1>1. CorpusInv => HiddenStaysHidden
  BY DEF CorpusInv
<1>. QED
  BY <1>1, CorpusStarts, CorpusInductive, PTL DEF CorpusSpec

-----------------------------------------------------------------------------
(* The root ceremony.                                                      *)

RootRecord == [version : Nat, keys : SUBSET (LegacyKeys \cup SignerKeys),
               expires : Expiries \cup {LastDate},
               signatures : SUBSET (LegacyKeys \cup SignerKeys)]

TwoCustodians(root) == Cardinality({SignerOf[k] : k \in root.keys}) = 2

(* s was signed by the keys of a root before it and by its own.            *)
SignedByBoth(s, root) ==
  /\ root.version + 1 = s.version /\ root.keys \cap s.keys = {}
  /\ s.signatures = root.keys \cup s.keys
  /\ \A k \in s.signatures :
       \/ [of |-> Unsigned(s), key |-> k] \in contributions
       \/ k \in LegacyKeys /\ Unsigned(s) \in bundles

IdentitySound(identity) ==
  identity # NoIdentity =>
    identity.chain \in Seq(RootRecord) /\ ValidIdentity(identity)

CeremonyInv ==
  /\ publics \subseteq SignerKeys /\ signers \subseteq SignerKeys
  /\ \A c \in contributions : c = [of |-> c.of, key |-> c.key]
  /\ \A c \in candidates : c \in RootRecord /\ c.signatures = {} /\ TwoCustodians(c)
  /\ \A s \in signed :
       /\ s \in RootRecord /\ TwoCustodians(s) /\ FixedRootProfile(s)
       /\ Cardinality(s.signatures) = 4
       /\ \E root \in Roots : SignedByBoth(s, root)
  /\ DOMAIN identities = IdentityPaths \cup {Original}
  /\ identities = [p \in IdentityPaths \cup {Original} |-> identities[p]]
  /\ \A p \in IdentityPaths \cup {Original} : IdentitySound(identities[p])
  /\ DOMAIN applying = Hands /\ applying = [o \in Hands |-> applying[o]]
  /\ \A o \in Hands : applying[o].identity # NoIdentity =>
       /\ applying[o].path \in IdentityPaths /\ IdentitySound(applying[o].identity)
       /\ Operational(applying[o].identity)
  /\ \A a \in reported : a.path \in IdentityPaths /\ a.identity # NoIdentity
  /\ IdentitiesKept

(* Two disjoint pairs make four, and a pair within a pair is all of it.    *)
LEMMA KeysAreFinite ==
  ASSUME NEW A, A \subseteq LegacyKeys \cup SignerKeys
  PROVE  IsFiniteSet(A) /\ Cardinality(A) \in Nat
<1>1. IsFiniteSet(A)
  BY CeremonyAssumption, FS_Subset
<1>. QED
  BY <1>1, FS_CardinalityType

(* Two pairs that make four have nothing in common.                        *)
LEMMA PairsMakeFour ==
  ASSUME NEW A, NEW B, A \subseteq LegacyKeys \cup SignerKeys, B \subseteq LegacyKeys \cup SignerKeys,
         Cardinality(A) = 2, Cardinality(B) = 2, Cardinality(A \cup B) = 4
  PROVE  A \cap B = {}
<1>1. IsFiniteSet(A) /\ IsFiniteSet(B) /\ IsFiniteSet(A \cap B) /\ Cardinality(A \cap B) \in Nat
  <2>1. A \cap B \subseteq LegacyKeys \cup SignerKeys
    OBVIOUS
  <2>. QED
    BY <2>1, KeysAreFinite
<1>2. Cardinality(A \cup B) = Cardinality(A) + Cardinality(B) - Cardinality(A \cap B)
  BY <1>1, FS_Union
<1>3. Cardinality(A \cap B) = 0
  BY <1>1, <1>2
<1>. QED
  BY <1>1, <1>3, FS_EmptySet

LEMMA FirstRootProfile ==
  BootstrapRoot \in RootRecord /\ FixedRootProfile(BootstrapRoot)
<1>1. /\ BootstrapRoot.version = 1 /\ BootstrapRoot.keys = LegacyKeys
      /\ BootstrapRoot \in RootRecord
  BY DEF BootstrapRoot, Root, RootRecord
<1>2. IsFiniteSet({"targets"}) /\ Cardinality({"targets"}) = 1
  BY FS_Singleton
<1>3. IsFiniteSet({"targets", "snapshot"}) /\ Cardinality({"targets", "snapshot"}) = 2
  <2>1. {"targets", "snapshot"} = {"targets"} \cup {"snapshot"} /\ "snapshot" \notin {"targets"}
    OBVIOUS
  <2>. QED
    BY <1>2, <2>1, FS_AddElement
<1>4. IsFiniteSet(OnlineRoles) /\ Cardinality(OnlineRoles) = 3
  <2>1. OnlineRoles = {"targets", "snapshot"} \cup {"timestamp"}
        /\ "timestamp" \notin {"targets", "snapshot"}
    BY DEF OnlineRoles
  <2>. QED
    BY <1>3, <2>1, FS_AddElement
<1>5. IsFiniteSet(LegacyKeys) /\ Cardinality(LegacyKeys) = 2 /\ LegacyKeys \cap OnlineRoles = {}
  BY CeremonyAssumption, KeysAreFinite DEF OnlineRoles
<1>6. Cardinality(LegacyKeys \cap OnlineRoles) = 0
  BY <1>5, FS_EmptySet
<1>7. Cardinality(LegacyKeys \cup OnlineRoles) = 5
  BY <1>4, <1>5, <1>6, FS_Union
<1>. QED
  BY <1>1, <1>5, <1>7 DEF FixedRootProfile, RoleKeys

LEMMA ActiveRootProfile ==
  ASSUME NEW identity, identity # NoIdentity, IdentitySound(identity)
  PROVE  /\ identity.chain \in Seq(RootRecord) /\ Len(identity.chain) \in Nat \ {0}
         /\ ActiveRoot(identity) = identity.chain[Len(identity.chain)]
         /\ ActiveRoot(identity) \in RootRecord /\ FixedRootProfile(ActiveRoot(identity))
<1>. DEFINE chain == identity.chain
            n == Len(chain)
<1>1. /\ chain \in Seq(RootRecord) /\ chain # << >> /\ chain[1] = BootstrapRoot
      /\ \A k \in 2..n : SignedTransition(chain[k - 1], chain[k])
  BY DEF IdentitySound, ValidIdentity, RootChain
<1>2. n \in Nat \ {0} /\ chain[n] \in RootRecord
  BY <1>1
<1>3. FixedRootProfile(chain[n])
  <2>1. CASE n = 1
    BY <1>1, <2>1, FirstRootProfile
  <2>2. CASE n # 1
    <3>1. n \in 2..n
      <4>. HIDE DEF n
      <4>. QED
        BY <1>2, <2>2
    <3>. QED
      BY <1>1, <3>1 DEF SignedTransition, RootOnlyTransition
  <2>. QED
    BY <2>1, <2>2
<1>. QED
  BY <1>1, <1>2, <1>3 DEF ActiveRoot, Last

(* What was assembled for the active root of an identity can be applied.   *)
LEMMA AssembledCanApply ==
  ASSUME CeremonyInv, NEW s \in signed, NEW p \in DOMAIN identities,
         identities[p] # NoIdentity, Len(identities[p].chain) <= MaxRootRotations,
         s.version = ActiveRoot(identities[p]).version + 1,
         s.signatures = ActiveRoot(identities[p]).keys \cup s.keys, Fresh(s)
  PROVE  ApplyRootRotation(identities[p], s)
<1>. DEFINE identity == identities[p]
            active == ActiveRoot(identity)
            chain == identity.chain
            n == Len(chain)
<1>1. IdentitySound(identity)
  BY DEF CeremonyInv
<1>2. /\ chain \in Seq(RootRecord) /\ n \in Nat \ {0} /\ active = chain[n]
      /\ active \in RootRecord /\ FixedRootProfile(active)
  BY <1>1, ActiveRootProfile
<1>3. s \in RootRecord /\ FixedRootProfile(s) /\ Cardinality(s.signatures) = 4
  BY DEF CeremonyInv
<1>4. active.keys \cap s.keys = {}
  BY <1>2, <1>3, PairsMakeFour DEF FixedRootProfile, RootRecord
<1>5. s.signatures # {}
  <2>1. IsFiniteSet(s.signatures)
    <3>1. s.signatures \subseteq LegacyKeys \cup SignerKeys
      BY <1>3 DEF RootRecord
    <3>. QED
      BY <3>1, KeysAreFinite
  <2>. QED
    BY <1>3, <2>1, FS_EmptySet
<1>6. SignedTransition(active, s)
  BY <1>2, <1>3, <1>4, <1>5
     DEF SignedTransition, RootOnlyTransition, RootKeysReplaced, Verifies
<1>. DEFINE longer == Append(chain, s)
<1>7. /\ longer # << >> /\ Len(longer) = n + 1 /\ longer[n + 1] = s
      /\ \A k \in 1..n : longer[k] = chain[k]
  BY <1>2, <1>3
<1>8. /\ chain[1] = BootstrapRoot
      /\ \A k \in 2..n : SignedTransition(chain[k - 1], chain[k])
  BY <1>1 DEF IdentitySound, ValidIdentity, RootChain
<1>9. \A k \in 2..(n + 1) : SignedTransition(longer[k - 1], longer[k])
  <2>1. ASSUME NEW k \in 2..n PROVE SignedTransition(longer[k - 1], longer[k])
    <3>1. k - 1 \in 1..n /\ k \in 1..n
      BY <1>2
    <3>. QED
      BY <1>7, <1>8, <3>1
  <2>2. SignedTransition(longer[(n + 1) - 1], longer[n + 1])
    <3>1. (n + 1) - 1 = n /\ n \in 1..n
      BY <1>2
    <3>. QED
      BY <1>2, <1>6, <1>7, <3>1
  <2>3. \A k \in 2..(n + 1) : k \in 2..n \/ k = n + 1
    BY <1>2
  <2>. QED
    BY <2>1, <2>2, <2>3
<1>10. RootChain(longer)
  BY <1>2, <1>7, <1>8, <1>9, CeremonyAssumption DEF RootChain
<1>11. ValidIdentity(Applied(identity, s))
  BY <1>2, <1>7, <1>10 DEF ValidIdentity, Applied
<1>. QED
  BY <1>6, <1>11 DEF ApplyRootRotation

LEMMA CeremonyStarts == CeremonyInit => CeremonyInv
<1>. SUFFICES ASSUME CeremonyInit PROVE CeremonyInv
  OBVIOUS
<1>. USE DEF CeremonyInit
<1>1. identities[Original] = [rootKeys |-> LegacyKeys, chain |-> <<BootstrapRoot>>]
      /\ \A p \in IdentityPaths : identities[p] = NoIdentity
  BY CeremonyAssumption DEF Original
<1>2. IdentitySound([rootKeys |-> LegacyKeys, chain |-> <<BootstrapRoot>>])
  <2>. DEFINE chain == <<BootstrapRoot>>
  <2>1. chain \in Seq(RootRecord) /\ Len(chain) = 1 /\ chain[1] = BootstrapRoot /\ chain # << >>
    BY FirstRootProfile
  <2>2. RootChain(chain)
    BY <2>1, CeremonyAssumption DEF RootChain
  <2>. QED
    BY <2>1, <2>2 DEF IdentitySound, ValidIdentity
<1>3. \A p \in IdentityPaths \cup {Original} : IdentitySound(identities[p])
  BY <1>1, <1>2 DEF IdentitySound
<1>4. \A o \in Hands : applying[o].identity = NoIdentity
  OBVIOUS
<1>5. IdentitiesKept
  BY <1>1 DEF IdentitiesKept
<1>. QED
  BY <1>3, <1>4, <1>5 DEF CeremonyInv

(* What was assembled stays so: contributions and bundles are never taken  *)
(* back, and what is signed is not signed anew.                            *)
LEMMA AssembledStands ==
  ASSUME CeremonyInv, signed \subseteq signed', contributions \subseteq contributions',
         bundles \subseteq bundles', NEW s \in signed
  PROVE  /\ s \in RootRecord /\ TwoCustodians(s) /\ FixedRootProfile(s)
         /\ Cardinality(s.signatures) = 4 /\ (\E root \in Roots : SignedByBoth(s, root))'
<1>1. PICK root \in Roots : SignedByBoth(s, root)
  BY DEF CeremonyInv
<1>2. root \in Roots'
  BY <1>1 DEF Roots
<1>3. SignedByBoth(s, root)'
  BY <1>1 DEF SignedByBoth
<1>. QED
  BY <1>2, <1>3 DEF CeremonyInv

(* Most steps only add to what the ceremony has written down.              *)
LEMMA WritingKeeps ==
  ASSUME CeremonyInv, signed' = signed, contributions \subseteq contributions',
         bundles \subseteq bundles', UNCHANGED <<identities, applying, reported>>,
         publics' \subseteq SignerKeys, signers' \subseteq SignerKeys,
         \A c \in contributions' : c = [of |-> c.of, key |-> c.key],
         \A c \in candidates' : c \in RootRecord /\ c.signatures = {} /\ TwoCustodians(c)
  PROVE  CeremonyInv'
<1>1. \A s \in signed' :
        /\ s \in RootRecord /\ TwoCustodians(s) /\ FixedRootProfile(s)
        /\ Cardinality(s.signatures) = 4 /\ (\E root \in Roots : SignedByBoth(s, root))'
  BY AssembledStands
<1>2. IdentitiesKept'
  BY DEF CeremonyInv, IdentitiesKept
<1>. QED
  BY <1>1, <1>2 DEF CeremonyInv

LEMMA ProposeKeeps == CeremonyInv /\ Propose => CeremonyInv'
<1>. SUFFICES ASSUME CeremonyInv, Propose PROVE CeremonyInv'
  OBVIOUS
<1>1. PICK root \in Roots, keys \in kSubset(2, publics), expires \in Expiries :
        LET candidate == Root(root.version + 1, keys, expires, {}) IN
        PrepareRootRotation(root, keys, candidate) /\ candidates' = Write(candidates, candidate)
  BY DEF Propose
<1>. DEFINE candidate == Root(root.version + 1, keys, expires, {})
<1>2. keys \subseteq SignerKeys
  BY <1>1 DEF kSubset, CeremonyInv
<1>3. root \in RootRecord
  BY <1>1, FirstRootProfile DEF Roots, CeremonyInv
<1>4. candidate \in RootRecord /\ candidate.signatures = {} /\ candidate.keys = keys
  BY <1>2, <1>3 DEF Root, RootRecord
<1>5. TwoCustodians(candidate)
  BY <1>1, <1>4 DEF PrepareRootRotation, NewSigners, TwoCustodians
<1>6. candidates' = candidates \cup {candidate}
  BY <1>1 DEF Write
<1>7. \A c \in candidates' : c \in RootRecord /\ c.signatures = {} /\ TwoCustodians(c)
  BY <1>4, <1>5, <1>6 DEF CeremonyInv
<1>. QED
  BY <1>7, WritingKeeps DEF Propose, CeremonyInv

(* Four signatures of two roots' keys that satisfy both roots are exactly  *)
(* those keys, and each was contributed to this very candidate.            *)
LEMMA AssembleKeeps == CeremonyInv /\ Assemble => CeremonyInv'
<1>. SUFFICES ASSUME CeremonyInv, Assemble PROVE CeremonyInv'
  OBVIOUS
<1>1. PICK root \in Roots, candidate \in candidates :
        \E bundle \in {{}} \cup DecodeRootContributionBundle(candidate) :
          \E given \in kSubset(Contributions(bundle), Contributed(candidate)) :
            /\ AssembleRootRotation(root, candidate, given \cup bundle)
            /\ signed' = Write(signed, [candidate EXCEPT !.signatures = given \cup bundle])
  BY DEF Assemble
<1>2. PICK bundle \in {{}} \cup DecodeRootContributionBundle(candidate) :
        \E given \in kSubset(Contributions(bundle), Contributed(candidate)) :
          /\ AssembleRootRotation(root, candidate, given \cup bundle)
          /\ signed' = Write(signed, [candidate EXCEPT !.signatures = given \cup bundle])
  BY <1>1
<1>3. PICK given \in kSubset(Contributions(bundle), Contributed(candidate)) :
        /\ AssembleRootRotation(root, candidate, given \cup bundle)
        /\ signed' = Write(signed, [candidate EXCEPT !.signatures = given \cup bundle])
  BY <1>2
<1>. DEFINE signatures == given \cup bundle
            whole == [candidate EXCEPT !.signatures = signatures]
<1>4. candidate \in RootRecord /\ candidate.signatures = {} /\ TwoCustodians(candidate)
  BY <1>1 DEF CeremonyInv
<1>5. root \in RootRecord
  BY <1>1, FirstRootProfile DEF Roots, CeremonyInv
<1>6. /\ UnsignedRotation(root, candidate) /\ Cardinality(signatures) = 4
      /\ signatures \subseteq root.keys \cup candidate.keys
      /\ Verifies(root, whole) /\ Verifies(whole, whole)
  BY <1>3 DEF AssembleRootRotation
<1>7. /\ whole.version = candidate.version /\ whole.keys = candidate.keys
      /\ whole.signatures = signatures /\ Unsigned(whole) = candidate
      /\ whole \in RootRecord
  <2>1. root.keys \cup candidate.keys \subseteq LegacyKeys \cup SignerKeys
    BY <1>4, <1>5 DEF RootRecord
  <2>2. signatures \in SUBSET (LegacyKeys \cup SignerKeys)
    BY <1>6, <2>1
  <2>. HIDE DEF signatures
  <2>. QED
    BY <1>4, <2>2 DEF RootRecord, Unsigned
<1>8. signatures = root.keys \cup candidate.keys
  BY <1>6, <1>7 DEF Verifies
<1>9. /\ FixedRootProfile(candidate) /\ candidate.version = root.version + 1
      /\ root.keys \cap candidate.keys = {}
  BY <1>6 DEF UnsignedRotation, RootOnlyTransition, RootKeysReplaced
<1>10. TwoCustodians(whole) /\ FixedRootProfile(whole)
  BY <1>4, <1>7, <1>9 DEF TwoCustodians, FixedRootProfile, RoleKeys
<1>11. \A k \in signatures :
         \/ [of |-> candidate, key |-> k] \in contributions
         \/ k \in LegacyKeys /\ candidate \in bundles
  <2>1. ASSUME NEW k \in given PROVE [of |-> candidate, key |-> k] \in contributions
    <3>1. k \in Contributed(candidate)
      BY <1>3, <2>1 DEF kSubset
    <3>2. PICK c \in contributions : c.of = candidate /\ c.key = k
      BY <3>1 DEF Contributed
    <3>3. c = [of |-> candidate, key |-> k]
      BY <3>2 DEF CeremonyInv
    <3>. QED
      BY <3>2, <3>3
  <2>2. ASSUME NEW k \in bundle PROVE k \in LegacyKeys /\ candidate \in bundles
    BY <1>2, <2>2 DEF DecodeRootContributionBundle
  <2>. QED
    BY <2>1, <2>2
<1>12. UNCHANGED <<date, signers, publics, candidates, contributions, bundles, identities,
                   applying, reported>>
  BY DEF Assemble
<1>13. signed' = signed \cup {whole}
  BY <1>3 DEF Write
<1>. HIDE DEF whole, signatures
<1>14. SignedByBoth(whole, root)'
  BY <1>7, <1>8, <1>9, <1>11, <1>12 DEF SignedByBoth
<1>15. root \in Roots'
  BY <1>1, <1>13 DEF Roots
<1>16. \A s \in signed' :
         /\ s \in RootRecord /\ TwoCustodians(s) /\ FixedRootProfile(s)
         /\ Cardinality(s.signatures) = 4 /\ (\E r \in Roots : SignedByBoth(s, r))'
  <2>1. ASSUME NEW s \in signed
        PROVE  /\ s \in RootRecord /\ TwoCustodians(s) /\ FixedRootProfile(s)
               /\ Cardinality(s.signatures) = 4 /\ (\E r \in Roots : SignedByBoth(s, r))'
    BY <1>12, <1>13, AssembledStands
  <2>2. /\ whole \in RootRecord /\ TwoCustodians(whole) /\ FixedRootProfile(whole)
        /\ Cardinality(whole.signatures) = 4 /\ (\E r \in Roots : SignedByBoth(whole, r))'
    BY <1>6, <1>7, <1>10, <1>14, <1>15
  <2>. QED
    BY <1>13, <2>1, <2>2
<1>17. IdentitiesKept'
  BY <1>12 DEF CeremonyInv, IdentitiesKept
<1>. QED
  BY <1>12, <1>16, <1>17 DEF CeremonyInv

LEMMA ApplyKeeps ==
  ASSUME CeremonyInv, NEW o \in Hands, Apply(o)
  PROVE  CeremonyInv'
<1>1. PICK from \in DOMAIN identities, path \in IdentityPaths, root \in signed :
        /\ identities[from] # NoIdentity /\ ApplyRootRotation(identities[from], root)
        /\ applying' = [applying EXCEPT ![o] =
             [path |-> path, identity |-> Applied(identities[from], root)]]
  BY DEF Apply
<1>2. UNCHANGED <<signers, publics, candidates, contributions, bundles, signed,
                  identities, reported>>
  BY DEF Apply
<1>3. PICK applied : applied = Applied(identities[from], root)
  OBVIOUS
<1>4. from \in IdentityPaths \cup {Original} /\ IdentitySound(identities[from])
  BY <1>1 DEF CeremonyInv
<1>5. identities[from].chain \in Seq(RootRecord) /\ root \in RootRecord
  BY <1>1, <1>4, ActiveRootProfile DEF CeremonyInv
<1>6. applied.chain \in Seq(RootRecord) /\ applied.chain # << >> /\ applied.rootKeys = {}
  BY <1>3, <1>5 DEF Applied
<1>7. IdentitySound(applied) /\ Operational(applied)
  BY <1>1, <1>3, <1>6 DEF IdentitySound, ApplyRootRotation, Operational
<1>8. applying' = [applying EXCEPT ![o] = [path |-> path, identity |-> applied]]
  BY <1>1, <1>3
<1>9. /\ DOMAIN applying' = Hands /\ applying' = [q \in Hands |-> applying'[q]]
      /\ \A q \in Hands : applying'[q].identity # NoIdentity =>
           /\ applying'[q].path \in IdentityPaths /\ IdentitySound(applying'[q].identity)
           /\ Operational(applying'[q].identity)
  BY <1>1, <1>7, <1>8 DEF CeremonyInv
<1>10. \A s \in signed' :
         /\ s \in RootRecord /\ TwoCustodians(s) /\ FixedRootProfile(s)
         /\ Cardinality(s.signatures) = 4 /\ (\E r \in Roots : SignedByBoth(s, r))'
  BY <1>2, AssembledStands
<1>11. IdentitiesKept'
  BY <1>2 DEF CeremonyInv, IdentitiesKept
<1>. QED
  BY <1>2, <1>9, <1>10, <1>11 DEF CeremonyInv

(* A rename that finds its path taken changes nothing: what was reported   *)
(* under that path stays.                                                  *)
LEMMA WriteIdentityKeeps ==
  ASSUME CeremonyInv, NEW o \in Hands, WriteIdentity(o) \/ GiveUpWriting(o)
  PROVE  CeremonyInv'
<1>1. PICK written : written = applying[o]
  OBVIOUS
<1>2. /\ written.path \in IdentityPaths /\ IdentitySound(written.identity)
      /\ Operational(written.identity) /\ written.identity # NoIdentity
  BY <1>1 DEF CeremonyInv, WriteIdentity, GiveUpWriting
<1>3. UNCHANGED <<signers, publics, candidates, contributions, bundles, signed>>
  BY DEF WriteIdentity, GiveUpWriting
<1>4. applying' = [applying EXCEPT ![o] = [path |-> Original, identity |-> NoIdentity]]
  BY DEF WriteIdentity, GiveUpWriting
<1>5. /\ DOMAIN applying' = Hands /\ applying' = [q \in Hands |-> applying'[q]]
      /\ \A q \in Hands : applying'[q].identity # NoIdentity =>
           /\ applying'[q].path \in IdentityPaths /\ IdentitySound(applying'[q].identity)
           /\ Operational(applying'[q].identity)
  BY <1>4 DEF CeremonyInv
<1>6. \A s \in signed' :
        /\ s \in RootRecord /\ TwoCustodians(s) /\ FixedRootProfile(s)
        /\ Cardinality(s.signatures) = 4 /\ (\E r \in Roots : SignedByBoth(s, r))'
  BY <1>3, AssembledStands
<1>7. \/ UNCHANGED <<identities, reported>>
      \/ /\ identities[written.path] = NoIdentity
         /\ identities' = [identities EXCEPT ![written.path] = written.identity]
         /\ reported' = reported \cup {written}
  BY <1>1 DEF WriteIdentity, GiveUpWriting, PathExists
<1>8. CASE UNCHANGED <<identities, reported>>
  <2>1. IdentitiesKept'
    BY <1>8 DEF CeremonyInv, IdentitiesKept
  <2>. QED
    BY <1>3, <1>5, <1>6, <1>8, <2>1 DEF CeremonyInv
<1>9. CASE /\ identities[written.path] = NoIdentity
           /\ identities' = [identities EXCEPT ![written.path] = written.identity]
           /\ reported' = reported \cup {written}
  <2>1. /\ DOMAIN identities' = IdentityPaths \cup {Original}
        /\ identities' = [p \in IdentityPaths \cup {Original} |-> identities'[p]]
        /\ \A p \in IdentityPaths \cup {Original} : IdentitySound(identities'[p])
    BY <1>2, <1>9 DEF CeremonyInv
  <2>2. \A a \in reported' : a.path \in IdentityPaths /\ a.identity # NoIdentity
    BY <1>2, <1>9 DEF CeremonyInv
  <2>3. \A a \in reported' : identities'[a.path] = a.identity /\ Operational(a.identity)
    <3>1. ASSUME NEW a \in reported
          PROVE  identities'[a.path] = a.identity /\ Operational(a.identity)
      <4>1. /\ identities[a.path] = a.identity /\ Operational(a.identity)
            /\ a.path \in IdentityPaths /\ a.identity # NoIdentity
        BY DEF CeremonyInv, IdentitiesKept
      <4>. QED
        BY <1>9, <4>1 DEF CeremonyInv
    <3>2. identities'[written.path] = written.identity
      BY <1>2, <1>9 DEF CeremonyInv
    <3>. QED
      BY <1>2, <1>9, <3>1, <3>2
  <2>4. identities'[Original] = identities[Original]
    BY <1>2, <1>9, CeremonyAssumption DEF CeremonyInv, Original
  <2>5. IdentitiesKept'
    BY <2>3, <2>4 DEF CeremonyInv, IdentitiesKept
  <2>. QED
    BY <1>3, <1>5, <1>6, <2>1, <2>2, <2>5 DEF CeremonyInv
<1>. QED
  BY <1>7, <1>8, <1>9

LEMMA CeremonyInductive == CeremonyInv /\ [CeremonyNext]_ceremonyVars => CeremonyInv'
<1>. SUFFICES ASSUME CeremonyInv, [CeremonyNext]_ceremonyVars PROVE CeremonyInv'
  OBVIOUS
<1>0. /\ publics \subseteq SignerKeys /\ signers \subseteq SignerKeys
      /\ \A c \in contributions : c = [of |-> c.of, key |-> c.key]
      /\ \A c \in candidates : c \in RootRecord /\ c.signatures = {} /\ TwoCustodians(c)
  BY DEF CeremonyInv
<1>1. CASE Keygen
  BY <1>0, <1>1, WritingKeeps DEF Keygen, GenerateRootSigner, Write
<1>2. CASE ExportPublic
  BY <1>0, <1>2, WritingKeeps DEF ExportPublic, DecodeRootSigner, Write
<1>3. CASE Propose
  BY <1>3, ProposeKeeps
<1>4. CASE Sign
  <2>1. PICK candidate \in candidates, k \in signers :
          contributions' = contributions \cup {[of |-> candidate, key |-> k]}
    BY <1>4 DEF Sign, DecodeRootSigner, Write
  <2>2. \A c \in contributions' : c = [of |-> c.of, key |-> c.key]
    BY <1>0, <2>1
  <2>. QED
    BY <1>0, <1>4, <2>1, <2>2, WritingKeeps DEF Sign
<1>5. CASE SignLegacy
  BY <1>0, <1>5, WritingKeeps DEF SignLegacy, Write
<1>6. CASE Assemble
  BY <1>6, AssembleKeeps
<1>7. CASE DatePasses
  BY <1>0, <1>7, WritingKeeps DEF DatePasses
<1>8. ASSUME NEW o \in Hands, Apply(o) \/ WriteIdentity(o) \/ GiveUpWriting(o)
      PROVE  CeremonyInv'
  BY <1>8, ApplyKeeps, WriteIdentityKeeps
<1>9. CASE UNCHANGED ceremonyVars
  BY <1>0, <1>9, WritingKeeps DEF ceremonyVars
<1>. QED
  BY <1>1, <1>2, <1>3, <1>4, <1>5, <1>6, <1>7, <1>8, <1>9 DEF CeremonyNext

(* Whatever roots, candidates and contributions the commands are given,    *)
(* what they assemble was signed by both custodians of a root before it    *)
(* and by two new ones, it can be applied to an identity it was assembled  *)
(* for, and an identity once reported is where it was                      *)
(* (cmd/fetchmark-pack-build, the channel-root commands).                  *)
THEOREM CeremonyIsSound == CeremonySpec => []CeremonySound
<1>1. CeremonyInv => CeremonySound
  <2>. SUFFICES ASSUME CeremonyInv PROVE CeremonySound
    OBVIOUS
  <2>1. FourHands
    BY DEF CeremonyInv, FourHands, TwoCustodians, SignedByBoth
  <2>2. AssembledApplies
    BY AssembledCanApply DEF AssembledApplies
  <2>. QED
    BY <2>1, <2>2 DEF CeremonySound, CeremonyInv
<1>. QED
  BY <1>1, CeremonyStarts, CeremonyInductive, PTL DEF CeremonySpec
=============================================================================
