------------------------- MODULE RegistryActivation -------------------------
(***************************************************************************)
(* Moving the live pack registry from one document to another              *)
(* (internal/adapters/openpackregistryfile over core/openpackregistry):    *)
(* candidates are written to new files, and Activate replaces the live     *)
(* file under a file lock, once the exact document it replaces is kept     *)
(* durably under a rollback name.  Operators run it concurrently; a        *)
(* process may die at any step and the power may fail, which loses what    *)
(* was renamed and not yet synced.                                         *)
(*                                                                         *)
(* A binding is given by its revision: Parent tells a snapshot from the    *)
(* delta on another revision.  A document's digest is the document.        *)
(***************************************************************************)
EXTENDS Naturals

CONSTANTS Sources, Revisions, Parent, Operators, Files

ASSUME RegistryAssumption ==
  /\ Revisions \subseteq Nat \ {0}
  /\ Parent \in [Revisions -> Revisions \cup {0}]      \* 0: a snapshot
  /\ \A r \in Revisions : Parent[r] < r
  /\ Sources # {} /\ Files # {} /\ "nobody" \notin Operators

VARIABLES
  live, liveDisk,      \* the registry path; what a power failure leaves of it
  files, filesDisk,    \* the other files of the directory, likewise
  lock,                \* holder of the activation lock
  call                 \* each operator's Activate

regVars == <<live, liveDisk, files, filesDisk, lock, call>>

(* Version 1 documents know no deltas (validateVersionedBindingFields).    *)
Document == {d \in [version : {1, 2}, rev : [Sources -> Revisions]] :
               d.version = 1 => \A s \in Sources : Parent[d.rev[s]] = 0}
NoFile == [version |-> 0]
NoOne == "nobody"
Modes == {"activate", "rollback"}
InLock == {"locked", "prepared", "checked", "replaced"}
Call == [at : {"idle", "waiting"} \cup InLock, mode : Modes, source : Sources,
         from : Document, to : Document, keep : Files,
         end : {"none", "failed", "prepared", "committed", "done", "died"},
         moved : BOOLEAN]       \* history: this command has replaced the file

Promotable(d, s, r) ==
  /\ r > d.rev[s]
  /\ Parent[r] # 0 => Parent[d.rev[s]] = 0 /\ Parent[r] = d.rev[s]
Promote(d, s, r) == [version |-> 2, rev |-> [d.rev EXCEPT ![s] = r]]

ValidTransition(from, to, s, mode) ==
  LET Forward(x, y) == Promotable(x, s, y.rev[s]) /\ y = Promote(x, s, y.rev[s])
  IN IF mode = "activate" THEN Forward(from, to) ELSE Forward(to, from)

RegInit ==
  /\ live \in Document /\ liveDisk = live
  /\ files = [f \in Files |-> NoFile] /\ filesDisk = files
  /\ lock = NoOne
  /\ call = [o \in Operators |->
               [at |-> "idle", mode |-> "activate", source |-> CHOOSE s \in Sources : TRUE,
                from |-> live, to |-> live, keep |-> CHOOSE f \in Files : TRUE,
                end |-> "none", moved |-> FALSE]]

SyncDirectory == liveDisk' = live' /\ filesDisk' = files'
NoSync == UNCHANGED <<liveDisk, filesDisk>>

-----------------------------------------------------------------------------
(* WriteNew of a promotion of the live registry; it may fail after the     *)
(* rename, before the directory is synced.                                 *)
WriteCandidate(f) ==
  /\ files[f] = NoFile
  /\ \E s \in Sources, r \in Revisions :
       /\ Promotable(live, s, r)
       /\ files' = [files EXCEPT ![f] = Promote(live, s, r)]
  /\ UNCHANGED <<live, lock, call>>
  /\ SyncDirectory \/ NoSync

(* An operator replaces the file by hand, without the lock: not between    *)
(* the last read of an activation and its rename, where the edit is lost.  *)
Edit ==
  /\ \A o \in Operators : call[o].at # "checked"
  /\ live' \in Document \ {live} /\ UNCHANGED files
  /\ SyncDirectory
  /\ UNCHANGED <<lock, call>>

(* validateActivationOptions: a new command, or the last one again.        *)
Start(o) ==
  /\ call[o].at = "idle"
  /\ \E f, k \in Files, s \in Sources, m \in Modes :
       /\ f # k /\ files[f] \notin {NoFile, live}
       /\ call' = [call EXCEPT ![o] =
                     [at |-> "waiting", mode |-> m, source |-> s, from |-> live,
                      to |-> files[f], keep |-> k, end |-> "none", moved |-> FALSE]]
  /\ UNCHANGED <<live, liveDisk, files, filesDisk, lock>>

StartAgain(o) ==
  /\ call[o].at = "idle" /\ call[o].end # "none"
  /\ \E f \in Files \ {call[o].keep} : files[f] = call[o].to
  /\ call' = [call EXCEPT ![o].at = "waiting", ![o].end = "none"]
  /\ UNCHANGED <<live, liveDisk, files, filesDisk, lock>>

Ends(o, how) ==
  /\ call' = [call EXCEPT ![o].at = "idle", ![o].end = how]
  /\ lock' = IF lock = o THEN NoOne ELSE lock

StopsWaiting(o) ==
  /\ call[o].at = "waiting" /\ Ends(o, "failed")
  /\ UNCHANGED <<live, files>> /\ NoSync

(* waitForRegistryLock                                                     *)
TakeLock(o) ==
  /\ call[o].at = "waiting" /\ lock = NoOne
  /\ lock' = o
  /\ call' = [call EXCEPT ![o].at = "locked"]
  /\ UNCHANGED <<live, files>> /\ NoSync

(* recoverAlreadyApplied                                                   *)
AlreadyApplied(o) ==
  LET c == call[o] IN
  /\ c.at = "locked" /\ live = c.to
  /\ files[c.keep] = c.from /\ ValidTransition(c.from, live, c.source, c.mode)
  /\ Ends(o, "done")
  /\ UNCHANGED <<live, files>> /\ NoSync

(* The live file is neither document, or the kept file is another one, or  *)
(* the transition or the installed pack is not valid, or a step failed.    *)
Refuse(o) ==
  /\ call[o].at = "locked" /\ Ends(o, "failed")
  /\ UNCHANGED <<live, files>> /\ NoSync

(* prepareRollbackFile and the sync that follows; one of them may fail     *)
(* with the file in place.                                                 *)
Prepare(o) ==
  LET c == call[o] IN
  /\ c.at = "locked" /\ live = c.from
  /\ ValidTransition(live, c.to, c.source, c.mode)
  /\ files[c.keep] \in {NoFile, live}
  /\ files' = [files EXCEPT ![c.keep] = live]
  /\ UNCHANGED live
  /\ \/ /\ call' = [call EXCEPT ![o].at = "prepared"]
        /\ SyncDirectory /\ UNCHANGED lock
     \/ Ends(o, "prepared") /\ NoSync

(* the candidate is staged; the last look at the live file                 *)
CheckNothing(o) ==
  /\ call[o].at = "prepared"
  /\ call' = [call EXCEPT ![o].at = "checked"]
  /\ UNCHANGED <<live, files, lock>> /\ NoSync
CheckAgain(o) ==
  /\ call[o].at = "prepared" /\ live = call[o].from
  /\ call' = [call EXCEPT ![o].at = "checked"]
  /\ UNCHANGED <<live, files, lock>> /\ NoSync

StopPrepared(o) ==
  /\ call[o].at \in {"prepared", "checked"} /\ Ends(o, "prepared")
  /\ UNCHANGED <<live, files>> /\ NoSync

Replace(o) ==
  /\ call[o].at = "checked"
  /\ live' = call[o].to
  /\ call' = [call EXCEPT ![o].at = "replaced", ![o].moved = TRUE]
  /\ UNCHANGED <<files, lock>> /\ NoSync

(* sync and readback                                                       *)
Settle(o) ==
  /\ call[o].at = "replaced"
  /\ UNCHANGED <<live, files>>
  /\ \/ SyncDirectory /\ Ends(o, IF live = call[o].to THEN "done" ELSE "committed")
     \/ NoSync /\ Ends(o, "committed")

ActivationDies(o) ==
  /\ call[o].at # "idle" /\ Ends(o, "died")
  /\ UNCHANGED <<live, files>> /\ NoSync

PowerFails ==
  /\ live' \in {live, liveDisk}
  /\ \E K \in SUBSET Files :
       files' = [f \in Files |-> IF f \in K THEN files[f] ELSE filesDisk[f]]
  /\ SyncDirectory
  /\ lock' = NoOne
  /\ call' = [o \in Operators |-> IF call[o].at = "idle" THEN call[o]
                ELSE [call[o] EXCEPT !.at = "idle", !.end = "died"]]

RegNext ==
  \/ \E f \in Files : WriteCandidate(f)
  \/ Edit \/ PowerFails
  \/ \E o \in Operators :
       \/ Start(o) \/ StartAgain(o) \/ StopsWaiting(o) \/ TakeLock(o)
       \/ AlreadyApplied(o) \/ Refuse(o) \/ Prepare(o) \/ CheckAgain(o)
       \/ StopPrepared(o) \/ Replace(o) \/ Settle(o) \/ ActivationDies(o)

RegSpec == RegInit /\ [][RegNext]_regVars

-----------------------------------------------------------------------------
(* Documents are documents, and the lock is held by exactly the call that  *)
(* is past waiting for it.                                                 *)
RegTypeOK ==
  /\ live \in Document /\ liveDisk \in Document
  /\ files \in [Files -> Document \cup {NoFile}]
  /\ filesDisk \in [Files -> Document \cup {NoFile}]
  /\ call \in [Operators -> Call]
  /\ \A o \in Operators : lock = o <=> call[o].at \in InLock

(* However a command that replaced the registry ended - an error after the *)
(* rename, its death, a power failure - the same command run again finds   *)
(* what recoverAlreadyApplied asks for: the exact document it replaced,    *)
(* under the rollback name.                                                *)
RetryRecognised ==
  \A o \in Operators : LET c == call[o] IN
    c.moved /\ live = c.to =>
      files[c.keep] = c.from /\ ValidTransition(c.from, c.to, c.source, c.mode)

(* The registry is only ever replaced by a valid transition of what is     *)
(* live at the very rename, however many operators activate and edit: one  *)
(* source moves forward, or back to its exact predecessor (Activate).      *)
EveryMoveIsATransition ==
  [][\A o \in Operators : call[o].at = "checked" /\ call'[o].at = "replaced" =>
       ValidTransition(live, live', call[o].source, call[o].mode)]_regVars

(* The registry moves soundly, and a command that moved it knows it did.   *)
RegistrySound == EveryMoveIsATransition /\ []RetryRecognised
=============================================================================
