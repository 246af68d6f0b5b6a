---------------------------- MODULE CommittedLog ----------------------------
(***************************************************************************)
(* What the Raft cluster promises the servers that use it: one log of      *)
(* committed commands that only ever grows, handed to the state machine of *)
(* each server entry by entry, in order, without gaps or repetitions.      *)
(***************************************************************************)
EXTENDS Integers, Sequences

CONSTANT Server

VARIABLES
    committed,  \* the commands the cluster has agreed on
    applied     \* what each server's applyCh has delivered

vars == <<committed, applied>>

Extends(s, t) == Len(s) >= Len(t) /\ \A k \in 1..Len(t) : s[k] = t[k]

Init ==
    /\ committed = <<>>
    /\ applied = [i \in Server |-> <<>>]

(* A leader commits one or more entries.                                   *)
Commit ==
    /\ Extends(committed', committed)
    /\ UNCHANGED applied

(* One more committed entry reaches server i.                              *)
Apply(i) ==
    /\ Len(applied[i]) < Len(committed)
    /\ applied' = [applied EXCEPT ![i] = Append(@, committed[Len(@) + 1])]
    /\ UNCHANGED committed

Next == Commit \/ \E i \in Server : Apply(i)

Spec == Init /\ [][Next]_vars
=============================================================================
