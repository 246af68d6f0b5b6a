----------------------------- MODULE MCKVServer -----------------------------
(* Instances of KVServer for TLC.                                          *)
EXTENDS KVServerInductive, TLC

CONSTANTS r1, r2, r3

PutAndGets == r1 :> "put" @@ r2 :> "get" @@ r3 :> "get"
Writes == r1 :> "delete" @@ r2 :> "reserved"

(* Of PutAndGets; the two reads are alike.                                 *)
Symmetry == Permutations(Server) \cup Permutations({r2, r3})
=============================================================================
