--------------------------- MODULE MCHolderWallet ---------------------------
(* HolderWallet for TLC: calls and nonces are interchangeable.             *)
EXTENDS HolderWallet, TLC

Symmetry == Permutations(Calls) \cup Permutations(Nonces)
=============================================================================
