----------------------------- MODULE MCBitcask -----------------------------
(* Instances of Bitcask for TLC.                                           *)
EXTENDS BitcaskInductive, TLC

Symmetry ==
    Permutations(Key) \cup Permutations(Value) \cup Permutations(Caller) \cup Permutations(Merger)
=============================================================================
