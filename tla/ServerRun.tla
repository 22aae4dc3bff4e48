------------------------------ MODULE ServerRun ------------------------------
(* One run of the server (cmd/fetchmark/main.go): it opens the local       *)
(* stores and the installed packs one after the other, each of which may   *)
(* fail, starts the expiry sweeper and its listeners, waits for a signal   *)
(* or for a listener to fail, and closes what it has opened while sweeper  *)
(* and handlers come to their end.                                         *)
EXTENDS Naturals, Sequences, FiniteSets, SequencesExt

CONSTANTS
  Modes,       (* local corpus mode -> the local stores it opens, in order *)
  OpenPacks,   (* the installed packs that are enabled, in order           *)
  Callers      (* requests at a time                                       *)

Listeners == {"federation", "proxy", "public"}
ASSUME ServerAssumption ==
  /\ \A m \in DOMAIN Modes : Modes[m] \in {<< >>, <<"index">>, <<"index", "artifacts">>}
  /\ OpenPacks # << >> /\ ToSet(OpenPacks) \cap {"index", "artifacts", "redis"} = {}
  /\ OpenPacks \in Seq(ToSet(OpenPacks)) /\ IsInjective(OpenPacks)

VARIABLES
  mode,        (* FM_LOCAL_CORPUS_MODE                                     *)
  at,          (* where run() is                                           *)
  opened,      (* what it has opened so far, in order                      *)
  closers,     (* the deferred closers                                     *)
  closed,      (* what has been closed, in order                           *)
  stopping,    (* the context of the signal is done                        *)
  late,        (* shutdownCtx is done                                      *)
  failed,      (* errCh holds the error of a listener                      *)
  listening,   (* listeners that accept requests                           *)
  serving,     (* the listener each request came to, until it is answered  *)
  sweeper      (* the sweeper: not started, waiting, in a store, ended     *)

serverVars == <<mode, at, opened, closers, closed, stopping, late, failed, listening,
                serving, sweeper>>

Enabled == {"public", "proxy"} \cup
  IF Modes[mode] # << >> THEN {"federation"} ELSE {}
Personal == mode = "personal"
Closers == {<<s>> : s \in {"index", "artifacts", "redis"}} \cup {OpenPacks}

ServerInit ==
  /\ mode \in DOMAIN Modes
  /\ at = "stores" /\ opened = << >> /\ closers = << >> /\ closed = << >>
  /\ stopping = FALSE /\ late = FALSE /\ failed = FALSE /\ listening = {}
  /\ serving = [c \in Callers |-> "none"] /\ sweeper = "off"

-----------------------------------------------------------------------------
(* Opening.  A closer is deferred for each store; the packs, opened while  *)
(* the discovery planner is built, are closed together, or at once if      *)
(* building it fails.                                                      *)
Unbuilt == UNCHANGED <<mode, stopping, late, failed, listening, serving, sweeper>>
Local == Modes[mode]   \* opened first, then the packs
OpenStore ==
  /\ at = "stores" /\ Len(opened) < Len(Local)
  /\ LET s == Local[Len(opened) + 1] IN
     \/ opened' = Append(opened, s) /\ closers' = <<<<s>>>> \o closers /\ UNCHANGED at
     \/ at' = "returning" /\ UNCHANGED <<opened, closers>>
  /\ UNCHANGED closed /\ Unbuilt
(* the store itself, then each of what the planner has opened, last first  *)
CloseDiscoverySources(packs) == closed \o Reverse(packs)
Packs == SubSeq(opened, Len(Local) + 1, Len(opened))
KeepOpen(packs) == closed    \* slip: what was opened before the failure stays open
FailDiscovery(packs) == CloseDiscoverySources(packs)
BuildDiscoveryPlanner ==
  /\ at = "stores" /\ Len(opened) >= Len(Local)
  /\ \/ /\ Len(Packs) < Len(OpenPacks)
        /\ opened' = Append(opened, OpenPacks[Len(Packs) + 1])
        /\ UNCHANGED <<at, closers, closed>>
     \/ /\ Len(Packs) = Len(OpenPacks)
        /\ closers' = <<OpenPacks>> \o closers /\ at' = "config"
        /\ UNCHANGED <<opened, closed>>
     \/ /\ closed' = FailDiscovery(Packs) /\ at' = "returning"
        /\ UNCHANGED <<opened, closers>>
  /\ Unbuilt
(* The rest of the configuration; Redis is used if it answers and closed   *)
(* at once otherwise.                                                      *)
Configure ==
  /\ at = "config"
  /\ \/ at' = "returning" /\ UNCHANGED <<opened, closers, closed>>
     \/ /\ at' = "ready" /\ opened' = Append(opened, "redis")
        /\ closers' = <<<<"redis">>>> \o closers /\ UNCHANGED closed
     \/ /\ at' = "ready" /\ opened' = Append(opened, "redis")
        /\ closed' = Append(closed, "redis") /\ UNCHANGED closers
  /\ Unbuilt
ConfigFails ==      \* the renderer, the federation listener
  /\ at = "ready" /\ at' = "returning"
  /\ UNCHANGED <<opened, closers, closed>> /\ Unbuilt
Start ==
  /\ at = "ready" /\ at' = "waiting"
  /\ listening' = Enabled /\ sweeper' = IF Personal THEN "waiting" ELSE "off"
  /\ UNCHANGED <<mode, opened, closers, closed, stopping, late, failed, serving>>

-----------------------------------------------------------------------------
(* Sweeper, listeners and handlers run beside run(), until it has returned. *)
Alive == at \notin {"stores", "config", "ready", "exited"}
Sweep ==
  /\ Alive /\ sweeper = "waiting" /\ sweeper' \in {"index"} \cup {s \in {"ended"} : stopping}
  /\ UNCHANGED <<mode, at, opened, closers, closed, stopping, late, failed, listening, serving>>
SweepOn ==      \* an error is logged, unless the context is done
  /\ Alive /\ sweeper \in {"index", "artifacts"}
  /\ sweeper' \in {IF sweeper = "index" THEN "artifacts" ELSE "waiting"}
                    \cup {s \in {"ended"} : stopping}
  /\ UNCHANGED <<mode, at, opened, closers, closed, stopping, late, failed, listening, serving>>
Request(c) ==
  /\ Alive /\ serving[c] = "none"
  /\ \E l \in listening : serving' = [serving EXCEPT ![c] = l]
  /\ UNCHANGED <<mode, at, opened, closers, closed, stopping, late, failed, listening, sweeper>>
Answer(c) ==
  /\ Alive /\ serving[c] # "none" /\ serving' = [serving EXCEPT ![c] = "none"]
  /\ UNCHANGED <<mode, at, opened, closers, closed, stopping, late, failed, listening, sweeper>>
ListenerFails ==
  /\ Alive /\ \E l \in listening : listening' = listening \ {l}
  /\ failed' = (failed \/ at = "waiting")     \* read by none afterwards
  /\ UNCHANGED <<mode, at, opened, closers, closed, stopping, late, serving, sweeper>>
Signal ==
  /\ Alive /\ ~stopping /\ stopping' = TRUE
  /\ UNCHANGED <<mode, at, opened, closers, closed, late, failed, listening, serving, sweeper>>

-----------------------------------------------------------------------------
(* Whichever comes first; a listener's error skips the shutdown.           *)
Leave ==
  /\ at = "waiting"
  /\ \/ stopping /\ at' = "federation"
     \/ failed /\ at' = "returning"
  /\ UNCHANGED <<mode, opened, closers, closed, stopping, late, failed, listening, serving,
                 sweeper>>
(* Shutdown of one listener after the other: each stops listening and      *)
(* waits for its requests; ten seconds for all of them.                    *)
After(l) == CASE l = "federation" -> "proxy" [] l = "proxy" -> "public" [] l = "public" -> "returning"
StopListening ==
  /\ at \in listening /\ listening' = listening \ {at}
  /\ UNCHANGED <<mode, at, opened, closers, closed, stopping, late, failed, serving, sweeper>>
Shutdown ==
  /\ at \in Listeners \ listening
  /\ late \/ at \notin {serving[c] : c \in Callers}
  /\ at' = After(at)
  /\ UNCHANGED <<mode, opened, closers, closed, stopping, late, failed, listening, serving,
                 sweeper>>
TimeIsUp ==
  /\ at \in Listeners /\ ~late /\ late' = TRUE
  /\ UNCHANGED <<mode, at, opened, closers, closed, stopping, failed, listening, serving,
                 sweeper>>
(* The deferred functions: the sweeper is told and waited for, then the    *)
(* closers run, the last first.                                            *)
Joined == sweeper \in {"off", "ended"}
StopSweeper ==
  /\ at = "returning" /\ sweeper # "off" /\ ~stopping /\ stopping' = TRUE
  /\ UNCHANGED <<mode, at, opened, closers, closed, late, failed, listening, serving, sweeper>>
RunCloser ==
  /\ at = "returning" /\ Joined /\ closers # << >>
  /\ closed' = CloseDiscoverySources(Head(closers)) /\ closers' = Tail(closers)
  /\ UNCHANGED <<mode, at, opened, stopping, late, failed, listening, serving, sweeper>>
Exit ==
  /\ at = "returning" /\ Joined /\ closers = << >>
  /\ at' = "exited" /\ listening' = {} /\ serving' = [c \in Callers |-> "none"]
  /\ UNCHANGED <<mode, opened, closers, closed, stopping, late, failed, sweeper>>

ServerNext ==
  \/ OpenStore \/ BuildDiscoveryPlanner \/ Configure \/ ConfigFails \/ Start
  \/ Sweep \/ SweepOn \/ \E c \in Callers : Request(c) \/ Answer(c)
  \/ ListenerFails \/ Signal \/ Leave \/ StopListening \/ Shutdown \/ TimeIsUp
  \/ StopSweeper \/ RunCloser \/ Exit

ServerSpec == ServerInit /\ [][ServerNext]_serverVars

-----------------------------------------------------------------------------
ServerTypeOK ==
  /\ mode \in DOMAIN Modes /\ {stopping, late, failed} \subseteq BOOLEAN
  /\ at \in {"stores", "config", "ready", "waiting", "returning", "exited"} \cup Listeners
  /\ opened \in Seq({"index", "artifacts", "redis"} \cup ToSet(OpenPacks))
  /\ closers \in Seq(Closers) /\ listening \subseteq Enabled
  /\ serving \in [Callers -> Enabled \cup {"none"}]
  /\ sweeper \in {"off", "waiting", "index", "artifacts", "ended"}

(* The comment on the deferred join: the sweeper never works on a store    *)
(* that has been closed, whatever ends the run.                            *)
SweeperJoined ==
  sweeper \in {"index", "artifacts"} => ToSet(closed) \cap {"index", "artifacts"} = {}

(* Whatever fails and whenever, everything that was opened has been closed *)
(* when the run ends, and nothing twice.                                   *)
ClosedOnce ==
  /\ IsInjective(closed) /\ ToSet(closed) \subseteq ToSet(opened)
  /\ at = "exited" => ToSet(closed) = ToSet(opened)

(* Closing waits for requests: unless a listener has failed or ten seconds *)
(* were not enough, none is served while what it may use is being closed.  *)
Drained ==
  \A c \in Callers : serving[c] # "none" /\ at = "returning" => failed \/ late

RunSound == SweeperJoined /\ ClosedOnce /\ Drained
=============================================================================
