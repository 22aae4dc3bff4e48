---------------------------- MODULE LeaseLedger ----------------------------
(***************************************************************************)
(* What the crawl frontier promises its workers about leases, and nothing  *)
(* else: work is handed out under numbered leases, a number is never used  *)
(* twice (not across items, not across a deletion and re-creation of an    *)
(* item, not across a restart), and the result recorded for an item is the *)
(* one of the lease that was still in force.  CrawlFrontier implements it; *)
(* its items are the page entries and the discovery sources together,      *)
(* because both draw from one persisted sequence.                          *)
(***************************************************************************)
EXTENDS Naturals

CONSTANTS Items,
          MaxIssued   \* the last number there is

VARIABLES
  owner,    \* owner[i]: number of the lease in force on i, 0 if none
  issued,   \* the highest number handed out so far
  result    \* result[i]: number of the lease whose outcome was recorded last

ledgerVars == <<owner, issued, result>>

LedgerTypeOK ==
  /\ owner \in [Items -> Nat]
  /\ issued \in Nat
  /\ result \in [Items -> Nat]

LedgerInit ==
  /\ owner = [i \in Items |-> 0]
  /\ issued = 0
  /\ result = [i \in Items |-> 0]

(* Leases may end without a result: they expire, or the item loses its    *)
(* owner, or a policy change makes the work in flight worthless.           *)
Without(S) == [i \in Items |-> IF i \in S THEN 0 ELSE owner[i]]

Revoke ==
  /\ UNCHANGED <<issued, result>>
  /\ \E S \in SUBSET Items : owner' = Without(S)

Grant ==
  /\ issued < MaxIssued /\ issued' = issued + 1 /\ UNCHANGED result
  /\ \E S \in SUBSET Items, i \in Items :
       /\ Without(S)[i] = 0
       /\ owner' = [Without(S) EXCEPT ![i] = issued']

Finish ==
  /\ UNCHANGED issued
  /\ \E i \in Items :
       /\ owner[i] # 0
       /\ result' = [result EXCEPT ![i] = owner[i]]
       /\ \E S \in SUBSET Items : owner' = Without(S \cup {i})

LedgerNext == Revoke \/ Grant \/ Finish

LedgerSpec == LedgerInit /\ [][LedgerNext]_ledgerVars

-----------------------------------------------------------------------------
(* No two leases in force carry the same number, none is newer than the    *)
(* sequence, and a lease in force is newer than every result already       *)
(* recorded for its item.                                                  *)
LeasesDistinct ==
  /\ \A i \in Items : owner[i] <= issued /\ result[i] <= issued
  /\ \A i \in Items : owner[i] # 0 => result[i] < owner[i]
  /\ \A i, j \in Items : owner[i] = owner[j] /\ owner[i] # 0 => i = j

(* A recorded result is never replaced by the result of an older lease.    *)
ResultsMoveForward ==
  [][\A i \in Items : result'[i] >= result[i]]_ledgerVars
=============================================================================
