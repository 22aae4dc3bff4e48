------------------------- MODULE LeaseLedger_proofs -------------------------
(* The ledger keeps its promises for any set of items and any number bound. *)
EXTENDS LeaseLedger, TLAPS

LedgerInv == LedgerTypeOK /\ LeasesDistinct

LEMMA WithoutType ==
  ASSUME LedgerTypeOK, NEW S
  PROVE  /\ Without(S) \in [Items -> Nat]
         /\ \A i \in Items : Without(S)[i] \in {0, owner[i]}
  BY DEF Without, LedgerTypeOK

LEMMA LedgerInvInit == LedgerInit => LedgerInv
  BY DEF LedgerInit, LedgerInv, LedgerTypeOK, LeasesDistinct

LEMMA LedgerInvNext ==
  ASSUME LedgerInv, [LedgerNext]_ledgerVars
  PROVE  LedgerInv'
<1> USE DEF LedgerInv
<1>1. CASE Revoke
  <2>1. PICK S \in SUBSET Items : owner' = Without(S)
    BY <1>1 DEF Revoke
  <2>2. issued' = issued /\ result' = result
    BY <1>1 DEF Revoke
  <2> QED
    BY <2>1, <2>2, WithoutType DEF LedgerTypeOK, LeasesDistinct
<1>2. CASE Grant
  <2>1. PICK S \in SUBSET Items, i \in Items :
          /\ Without(S)[i] = 0
          /\ owner' = [Without(S) EXCEPT ![i] = issued + 1]
          /\ issued' = issued + 1 /\ result' = result
    BY <1>2 DEF Grant
  <2>2. /\ owner' \in [Items -> Nat]
        /\ owner'[i] = issued + 1
        /\ \A k \in Items \ {i} : owner'[k] \in {0, owner[k]}
    BY <2>1, WithoutType DEF LedgerTypeOK
  <2> QED
    BY <2>1, <2>2 DEF LedgerTypeOK, LeasesDistinct
<1>3. CASE Finish
  <2>1. PICK S \in SUBSET Items, i \in Items :
          /\ owner[i] # 0
          /\ result' = [result EXCEPT ![i] = owner[i]]
          /\ owner' = Without(S \cup {i})
          /\ issued' = issued
    BY <1>3 DEF Finish
  <2>2. owner'[i] = 0
    BY <2>1 DEF Without
  <2> QED
    BY <2>1, <2>2, WithoutType DEF LedgerTypeOK, LeasesDistinct
<1>4. CASE UNCHANGED ledgerVars
  BY <1>4 DEF ledgerVars, LedgerTypeOK, LeasesDistinct
<1> QED
  BY <1>1, <1>2, <1>3, <1>4 DEF LedgerNext

(* Leases in force are pairwise distinct, covered by the sequence and newer *)
(* than every recorded result.                                             *)
THEOREM LedgerSafe == LedgerSpec => [](LedgerTypeOK /\ LeasesDistinct)
<1>1. LedgerInit => LedgerInv
  BY LedgerInvInit
<1>2. LedgerInv /\ [LedgerNext]_ledgerVars => LedgerInv'
  BY LedgerInvNext
<1> QED
  BY <1>1, <1>2, PTL DEF LedgerSpec, LedgerInv

(* A result is never overwritten by that of an older lease.                *)
THEOREM LedgerForward == LedgerSpec => ResultsMoveForward
<1>1. LedgerInv /\ [LedgerNext]_ledgerVars
        => [\A i \in Items : result'[i] >= result[i]]_ledgerVars
  <2> SUFFICES ASSUME LedgerInv, LedgerNext
               PROVE  \A i \in Items : result'[i] >= result[i]
    OBVIOUS
  <2>1. CASE result' = result
    BY <2>1 DEF LedgerInv, LedgerTypeOK
  <2>2. CASE Finish
    <3>1. PICK i \in Items : /\ owner[i] # 0
                            /\ result' = [result EXCEPT ![i] = owner[i]]
      BY <2>2 DEF Finish
    <3> QED
      BY <3>1 DEF LedgerInv, LedgerTypeOK, LeasesDistinct
  <2> QED
    BY <2>1, <2>2 DEF LedgerNext, Revoke, Grant
<1> QED
  BY <1>1, LedgerSafe, PTL DEF LedgerSpec, LedgerInv, ResultsMoveForward
=============================================================================
