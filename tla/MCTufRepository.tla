-------------------------- MODULE MCTufRepository --------------------------
(* TufRepository with two packs, the second a delta on the first.          *)
EXTENDS TufRepository, TLC

SecondOnFirst == (1 :> 0) @@ (2 :> 1)
=============================================================================
