----------------------------- MODULE DurableMap -----------------------------
(***************************************************************************)
(* What the storage engine promises its user: a map whose writes survive a *)
(* restart in the order they were made, all but some of the last ones that *)
(* were not made durable, and in which a restart changes nothing else.     *)
(***************************************************************************)
EXTENDS Integers, Sequences

CONSTANTS
    Key, Value,
    Tombstone,      \* the value of a key that is not in the map
    SyncOnPut       \* every write is durable when it returns

VARIABLES
    up,             \* the store is open
    writes,         \* the writes it has not lost, in order
    durable,        \* how many of them a crash cannot take back
    content         \* what its user reads; nothing while it is down

vars == <<up, writes, durable, content>>

Empty == [k \in Key |-> Tombstone]

(* The map a sequence of writes leaves.                                    *)
Written(w) ==
    [k \in Key |->
        LET at == {n \in 1..Len(w) : w[n].key = k}
        IN IF at = {} THEN Tombstone ELSE w[CHOOSE n \in at : \A m \in at : m <= n].value]

Init == up = TRUE /\ writes = <<>> /\ durable = 0 /\ content = Empty

Write(k, v) ==
    /\ up
    /\ writes' = Append(writes, [key |-> k, value |-> v])
    /\ durable' \in durable..Len(writes')
    /\ SyncOnPut => durable' = Len(writes')
    /\ content' = Written(writes')
    /\ UNCHANGED up

Persist ==
    /\ durable' \in durable..Len(writes)
    /\ UNCHANGED <<up, writes, content>>

Close ==
    /\ up
    /\ up' = FALSE /\ content' = Empty
    /\ durable' = Len(writes)
    /\ UNCHANGED writes

Crash ==
    /\ up
    /\ up' = FALSE /\ content' = Empty
    /\ \E n \in durable..Len(writes) : writes' = SubSeq(writes, 1, n)
    /\ durable' \in durable..Len(writes')

Recover ==
    /\ ~up
    /\ up' = TRUE /\ content' = Written(writes)
    /\ durable' \in durable..Len(writes)
    /\ UNCHANGED writes

Next ==
    \/ \E k \in Key : \E v \in Value \cup {Tombstone} : Write(k, v)
    \/ Persist \/ Close \/ Crash \/ Recover

Spec == Init /\ [][Next]_vars
=============================================================================
