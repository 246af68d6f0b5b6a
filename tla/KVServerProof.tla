--------------------------- MODULE KVServerProof ---------------------------
(***************************************************************************)
(* The safety properties of KVServer, for any number of servers, calls,    *)
(* leaders and notes: what Raft does, every step of a call, the apply loop *)
(* and Close preserve ServerInv, which is thereby inductive, and it        *)
(* implies them.                                                           *)
(***************************************************************************)
EXTENDS KVServerInductive, FiniteSetTheorems, WellFoundedInduction, TLAPS

USE ZenonT(30)

(* Slices of the types.                                                    *)
LEMMA LogTypes ==
  ASSUME StateTypes, NEW s \in Server
  PROVE  /\ log[s] \in Seq(Entry) /\ Len(log[s]) \in Nat
         /\ \A k \in 1..Len(log[s]) :
               log[s][k] \in Entry /\ log[s][k].req \in Request /\ log[s][k].term \in Nat
<1>1. log[s] \in Seq(Entry)
  BY DEF StateTypes
<1>2. \A k \in 1..Len(log[s]) : log[s][k] \in Entry
  BY <1>1, SMTT(30)
<1> QED
  BY <1>1, <1>2, SMTT(30) DEF Entry

(* Terms and indexes are natural numbers.                                  *)
LEMMA NumberTypes ==
  ASSUME StateTypes
  PROVE  /\ term \in Nat /\ committed \in Nat
         /\ \A s \in Server : leads[s] \in Nat /\ commitIndex[s] \in Nat /\ applied[s] \in Nat
  BY DEF StateTypes

(* The record of a call, and its key once it has one.                      *)
LEMMA CallTypes ==
  ASSUME StateTypes, NEW r \in Request
  PROVE  /\ req[r] \in Call
         /\ HasKey(r) => /\ req[r].key \in PendingKey
                         /\ req[r].key.index \in Nat \ {0} /\ req[r].key.term \in Nat
<1>1. req[r] \in Call
  BY DEF StateTypes
<1>2. req[r].key \in {Nil} \cup PendingKey
  BY <1>1 DEF Call
<1> QED
  BY <1>1, <1>2 DEF HasKey, PendingKey

(* A pendingKey of the map is not the mark of a call without one.          *)
LEMMA KeyIsNotNil ==
  ASSUME NEW key \in PendingKey
  PROVE  key # Nil
  BY RequestAssumption DEF PendingKey

(* Slices of the invariant: what it says of one server, one waiter and one *)
(* call.                                                                   *)
LEMMA AppliedFacts ==
  ASSUME StateTypes, CommitInv, NEW s \in Server
  PROVE  applied[s] \in Nat /\ committed \in Nat /\ applied[s] <= committed /\ applied[s] \in 0..committed
<1>1. applied[s] \in Nat /\ commitIndex[s] \in Nat /\ committed \in Nat
  BY NumberTypes
<1>2. applied[s] <= commitIndex[s] /\ commitIndex[s] <= committed
  BY DEF CommitInv
<1> QED
  BY <1>1, <1>2, SMTT(30)

(* A channel of the pending map belongs to a call of that server that      *)
(* waits on it, or is leaving, and has not been answered.                  *)
LEMMA PendingFacts ==
  ASSUME StateTypes, AnswerInv, NEW s \in Server, NEW p \in pending[s]
  PROVE  /\ p.req \in Request /\ p.key \in PendingKey /\ p = [key |-> p.key, req |-> p.req]
         /\ req[p.req].pc \in {"waiting", "leaving"} /\ req[p.req].ch = Nil
         /\ req[p.req].server = s /\ req[p.req].key = p.key
<1>1. pending \in [Server -> SUBSET [key : PendingKey, req : Request]]
  BY DEF StateTypes
<1>2. p \in [key : PendingKey, req : Request]
  BY <1>1
<1>3. /\ req[p.req].pc \in {"waiting", "leaving"} /\ req[p.req].ch = Nil
      /\ req[p.req].server = s /\ req[p.req].key = p.key
  BY DEF AnswerInv
<1> QED
  BY <1>2, <1>3

AnswerIsFair(q) ==
    /\ req[q].ch # Nil => req[q].pc \in {"waiting", "leaving"}
    /\ req[q].pc = "leaving" => req[q].result \in {"timeout", "closed"}
    /\ \/ req[q].ch \in {"ok", "error"}
       \/ req[q].pc = "reading"
       \/ req[q].pc = "done" /\ req[q].result \in {"ok", "error"}
       => OwnApplied(q)

(* AnswerInv for one call.                                                 *)
LEMMA AnswerFacts ==
  ASSUME AnswerInv, NEW q \in Request
  PROVE  AnswerIsFair(q)
  BY DEF AnswerInv, AnswerIsFair

(* KeyInv for one call: no two calls share a pendingKey.                   *)
LEMMA KeyFacts ==
  ASSUME KeyInv, NEW q \in Request
  PROVE  /\ req[q].pc = "idle" => ~HasKey(q)
         /\ InProgress(q) => HasKey(q) /\ req[q].server \in Server
         /\ HasKey(q) => \A r \in Request : req[r].key = req[q].key => r = q
  BY DEF KeyInv

(* OrderInv for one call: what was committed when it began does not        *)
(* include its own entry.                                                  *)
LEMMA OrderFacts ==
  ASSUME StateTypes, OrderInv, NEW q \in Request, HasKey(q)
  PROVE  /\ req[q].before \in Nat /\ req[q].before <= committed /\ req[q].key.index \in Nat \ {0}
         /\ req[q].key.index <= req[q].before => log[leader][req[q].key.index].req # q
<1>1. req[q].before \in Nat
  BY CallTypes DEF Call
<1>2. req[q].key.index \in Nat \ {0}
  BY CallTypes
<1>3. /\ req[q].before <= committed
      /\ req[q].key.index <= req[q].before => log[leader][req[q].key.index].req # q
  BY DEF OrderInv
<1> QED
  BY <1>1, <1>2, <1>3

(* A piece of a log, from its beginning.                                   *)
LEMMA PrefixFacts ==
  ASSUME NEW lg \in Seq(Entry), NEW n \in 0..Len(lg)
  PROVE  /\ SubSeq(lg, 1, n) \in Seq(Entry) /\ Len(SubSeq(lg, 1, n)) = n
         /\ \A k \in 1..n : SubSeq(lg, 1, n)[k] = lg[k]
<1>1. SubSeq(lg, 1, n) \in Seq(Entry)
  BY SMTT(30)
<1>2. Len(SubSeq(lg, 1, n)) = n
  BY SMTT(30)
<1>3. ASSUME NEW k \in 1..n PROVE SubSeq(lg, 1, n)[k] = lg[k]
  BY SMTT(30)
<1> QED
  BY <1>1, <1>2, <1>3

(* What is committed is the beginning of the leader's log.                 *)
LEMMA CommittedFacts ==
  ASSUME StateTypes, CommitInv
  PROVE  /\ Len(CommittedEntries) = committed /\ committed \in Nat
         /\ \A k \in 1..committed :
               /\ leader \in Server /\ k \in 1..Len(log[leader])
               /\ CommittedEntries[k] = log[leader][k] /\ log[leader][k] \in Entry
<1>0. committed \in Nat /\ leader \in {Nil} \cup Server /\ log \in [Server -> Seq(Entry)]
  BY DEF StateTypes
<1>1. CASE leader = Nil
  BY <1>0, <1>1, SMTT(30) DEF CommitInv, CommittedEntries
<1>2. CASE leader # Nil
  <2>1. leader \in Server /\ log[leader] \in Seq(Entry) /\ committed <= Len(log[leader])
    BY <1>0, <1>2 DEF CommitInv
  <2>2. \A k \in 1..committed : k \in 1..Len(log[leader]) /\ log[leader][k] \in Entry
    BY <1>0, <2>1, SMTT(30)
  <2>3. committed \in 0..Len(log[leader])
    BY <1>0, <2>1, SMTT(30)
  <2>4. Len(CommittedEntries) = committed
    BY <1>2, <2>1, <2>3, PrefixFacts DEF CommittedEntries
  <2>5. ASSUME NEW k \in 1..committed PROVE CommittedEntries[k] = log[leader][k]
    BY <1>2, <2>1, <2>3, PrefixFacts DEF CommittedEntries
  <2> QED
    BY <1>0, <2>1, <2>2, <2>4, <2>5
<1> QED
  BY <1>1, <1>2

-----------------------------------------------------------------------------
(* The steps of Raft, of one call, and of the apply loop and Close.        *)
RaftStep ==
    \/ \E s \in Server : NewLeader(s) \/ StepDown(s)
    \/ \E n \in 1..MaxLog : Commit(n) \/ \E s \in Server : Follow(s, n)

(* A step of Raft changes no call and nothing that servers keep; what is   *)
(* committed stays, and a new leader and a follower take over beginnings   *)
(* of existing logs.                                                       *)
RaftEffect ==
    /\ UNCHANGED <<loopVars, noteVars, closing, req>>
    /\ term' \in Nat /\ committed' \in Nat /\ leader' \in {Nil} \cup Server
    /\ log' \in [Server -> Seq(Entry)]
    /\ leads' \in [Server -> Nat] /\ commitIndex' \in [Server -> Nat]
    /\ term <= term' /\ committed <= committed'
    /\ \A s \in Server : commitIndex[s] <= commitIndex'[s] /\ commitIndex'[s] <= committed'
    /\ leader' = Nil => committed' = 0
    /\ leader' # Nil => committed' <= Len(log'[leader'])
    /\ \A k \in 1..committed : leader' \in Server /\ log'[leader'][k] = log[leader][k]
    /\ \A s \in Server : \A k \in 1..Len(log'[s]) :
          \E t \in Server : k \in 1..Len(log[t]) /\ log'[s][k] = log[t][k]
    /\ \A s \in Server : \/ leads'[s] = 0
                         \/ leads'[s] = leads[s] /\ log'[s] = log[s]
                         \/ leads'[s] = term + 1 /\ term' = term + 1 /\ leader' = s

(* Every step of Raft has the effect the proofs rely on.                   *)
LEMMA RaftSteps ==
  ASSUME StateTypes, CommitInv, RaftStep
  PROVE  RaftEffect
<1>t. /\ term \in Nat /\ committed \in Nat /\ leader \in {Nil} \cup Server
      /\ log \in [Server -> Seq(Entry)] /\ \A s \in Server : Len(log[s]) \in Nat
      /\ leads \in [Server -> Nat] /\ commitIndex \in [Server -> Nat]
      /\ \A s \in Server : commitIndex[s] <= committed
      /\ leader = Nil => committed = 0
      /\ leader # Nil => committed <= Len(log[leader])
  BY SMTT(30) DEF StateTypes, CommitInv
<1>1. ASSUME NEW s \in Server, StepDown(s)
      PROVE  /\ leads' = [leads EXCEPT ![s] = 0]
             /\ UNCHANGED <<term, leader, committed, log, commitIndex, loopVars, noteVars, closing, req>>
  BY <1>1 DEF StepDown
<1>2. ASSUME NEW n \in 1..MaxLog, Commit(n)
      PROVE  /\ leader \in Server /\ n > committed /\ n <= Len(log[leader])
             /\ committed' = n /\ commitIndex' = [commitIndex EXCEPT ![leader] = n]
             /\ UNCHANGED <<term, leader, log, leads, loopVars, noteVars, closing, req>>
  BY <1>2, <1>t DEF Commit
<1>3. ASSUME NEW n \in 1..MaxLog, NEW s \in Server, Follow(s, n)
      PROVE  \E lg \in Seq(Entry) :
             /\ leader \in Server /\ s # leader /\ commitIndex[s] < n /\ n <= committed
             /\ Len(lg) = n /\ \A k \in 1..n : k \in 1..Len(log[leader]) /\ lg[k] = log[leader][k]
             /\ log' = [log EXCEPT ![s] = lg]
             /\ commitIndex' = [commitIndex EXCEPT ![s] = n]
             /\ leads' = [leads EXCEPT ![s] = 0]
             /\ UNCHANGED <<term, leader, committed, loopVars, noteVars, closing, req>>
  <2>1. /\ leader \in Server /\ s # leader /\ commitIndex[s] < n /\ n <= committed
        /\ n \in 0..Len(log[leader]) /\ log[leader] \in Seq(Entry)
    BY <1>3, <1>t, SMTT(30) DEF Follow
  <2> DEFINE lg == SubSeq(log[leader], 1, n)
  <2>2. /\ lg \in Seq(Entry) /\ Len(lg) = n
        /\ \A k \in 1..n : k \in 1..Len(log[leader]) /\ lg[k] = log[leader][k]
    BY <2>1, PrefixFacts, SMTT(30)
  <2>3. /\ log' = [log EXCEPT ![s] = lg]
        /\ commitIndex' = [commitIndex EXCEPT ![s] = n]
        /\ leads' = [leads EXCEPT ![s] = 0]
        /\ UNCHANGED <<term, leader, committed, loopVars, noteVars, closing, req>>
    BY <1>3 DEF Follow
  <2> HIDE DEF lg
  <2> QED
    BY <2>1, <2>2, <2>3
<1>4. ASSUME NEW s \in Server, NewLeader(s)
      PROVE  \E lg \in Seq(Entry) :
             /\ Len(lg) >= committed /\ \A k \in 1..committed : lg[k] = log[leader][k]
             /\ \A k \in 1..Len(lg) :
                   \E t \in Server : k \in 1..Len(log[t]) /\ lg[k] = log[t][k]
             /\ log' = [log EXCEPT ![s] = lg]
             /\ term' = term + 1 /\ leader' = s /\ leads' = [leads EXCEPT ![s] = term + 1]
             /\ UNCHANGED <<committed, commitIndex, loopVars, noteVars, closing, req>>
  <2>1. PICK lg \in {log[s]} \cup
                 (IF leader = Nil THEN {} ELSE {SubSeq(log[leader], 1, n) : n \in 0..Len(log[leader])}) :
          /\ Len(lg) >= committed /\ SubSeq(lg, 1, committed) = CommittedEntries
          /\ log' = [log EXCEPT ![s] = lg]
    BY <1>4 DEF NewLeader
  <2>2. /\ lg \in Seq(Entry) /\ Len(lg) \in Nat
        /\ \A k \in 1..Len(lg) : \E t \in Server : k \in 1..Len(log[t]) /\ lg[k] = log[t][k]
    <3>1. CASE lg = log[s]
      BY <3>1, <1>t
    <3>2. CASE leader # Nil /\ lg \in {SubSeq(log[leader], 1, n) : n \in 0..Len(log[leader])}
      <4>1. PICK n \in 0..Len(log[leader]) : lg = SubSeq(log[leader], 1, n)
        BY <3>2
      <4>2. leader \in Server /\ log[leader] \in Seq(Entry)
        BY <3>2, <1>t
      <4>3. lg \in Seq(Entry) /\ Len(lg) = n /\ \A k \in 1..n : lg[k] = log[leader][k]
        BY <4>1, <4>2, PrefixFacts
      <4>4. \A k \in 1..n : k \in 1..Len(log[leader])
        BY <4>2, SMTT(30)
      <4> QED
        BY <4>2, <4>3, <4>4, SMTT(30)
    <3> QED
      BY <2>1, <3>1, <3>2
  <2>3. \A k \in 1..committed : lg[k] = log[leader][k]
    <3>1. committed \in 0..Len(lg)
      BY <1>t, <2>1, <2>2, SMTT(30)
    <3>2. \A k \in 1..committed : SubSeq(lg, 1, committed)[k] = lg[k]
      BY <2>2, <3>1, PrefixFacts
    <3> QED
      BY <2>1, <3>2, CommittedFacts
  <2>4. /\ term' = term + 1 /\ leader' = s /\ leads' = [leads EXCEPT ![s] = term + 1]
        /\ UNCHANGED <<committed, commitIndex, loopVars, noteVars, closing, req>>
    BY <1>4 DEF NewLeader
  <2> QED
    BY <2>1, <2>2, <2>3, <2>4
<1>0. \A s \in Server : \A k \in 1..Len(log[s]) :
         \E t \in Server : k \in 1..Len(log[t]) /\ log[s][k] = log[t][k]
  OBVIOUS
<1>5. ASSUME NEW s \in Server, StepDown(s) PROVE RaftEffect
  <2>1. /\ leads' = [leads EXCEPT ![s] = 0]
        /\ UNCHANGED <<term, leader, committed, log, commitIndex, loopVars, noteVars, closing, req>>
    BY <1>1, <1>5
  <2>2. \A k \in 1..committed : leader \in Server
    BY <1>t, SMTT(30)
  <2> QED
    BY <1>t, <1>0, <2>1, <2>2, SMTT(30) DEF RaftEffect
<1>6. ASSUME NEW n \in 1..MaxLog, Commit(n) PROVE RaftEffect
  <2>1. /\ leader \in Server /\ n > committed /\ n <= Len(log[leader])
        /\ committed' = n /\ commitIndex' = [commitIndex EXCEPT ![leader] = n]
        /\ UNCHANGED <<term, leader, log, leads, loopVars, noteVars, closing, req>>
    BY <1>2, <1>6
  <2>2. leader # Nil /\ n \in Nat
    BY <2>1, RequestAssumption, SMTT(30)
  <2>3. /\ commitIndex' \in [Server -> Nat]
        /\ \A s \in Server : commitIndex[s] <= commitIndex'[s] /\ commitIndex'[s] <= n
    BY <1>t, <2>1, <2>2, SMTT(30)
  <2> QED
    BY <1>t, <1>0, <2>1, <2>2, <2>3, SMTT(30) DEF RaftEffect
<1>7. ASSUME NEW n \in 1..MaxLog, NEW s \in Server, Follow(s, n) PROVE RaftEffect
  <2>1. PICK lg \in Seq(Entry) :
             /\ leader \in Server /\ s # leader /\ commitIndex[s] < n /\ n <= committed
             /\ Len(lg) = n /\ \A k \in 1..n : k \in 1..Len(log[leader]) /\ lg[k] = log[leader][k]
             /\ log' = [log EXCEPT ![s] = lg]
             /\ commitIndex' = [commitIndex EXCEPT ![s] = n]
             /\ leads' = [leads EXCEPT ![s] = 0]
             /\ UNCHANGED <<term, leader, committed, loopVars, noteVars, closing, req>>
    BY <1>3, <1>7
  <2> QED
    BY <1>t, <2>1, SMTT(30) DEF RaftEffect
<1>8. ASSUME NEW s \in Server, NewLeader(s) PROVE RaftEffect
  <2>1. PICK lg \in Seq(Entry) :
             /\ Len(lg) >= committed /\ \A k \in 1..committed : lg[k] = log[leader][k]
             /\ \A k \in 1..Len(lg) :
                   \E t \in Server : k \in 1..Len(log[t]) /\ lg[k] = log[t][k]
             /\ log' = [log EXCEPT ![s] = lg]
             /\ term' = term + 1 /\ leader' = s /\ leads' = [leads EXCEPT ![s] = term + 1]
             /\ UNCHANGED <<committed, commitIndex, loopVars, noteVars, closing, req>>
    BY <1>4, <1>8
  <2>2. s # Nil
    BY RequestAssumption
  <2> QED
    BY <1>t, <2>1, <2>2, SMTT(30) DEF RaftEffect
<1> QED
  BY <1>5, <1>6, <1>7, <1>8 DEF RaftStep

-----------------------------------------------------------------------------
(* What the committed writes leave behind.                                 *)
IsWrite(m) == Kind[log[leader][m].req] \in {"put", "delete"}
Written(m) == IF Kind[log[leader][m].req] = "delete" THEN Nil ELSE log[leader][m].req

Writes(m, D) == m \notin D /\ IsWrite(m)

LastPut(m, n, D) ==
    /\ Writes(m, D) /\ Kind[log[leader][m].req] = "put"
    /\ \A k \in (m + 1)..n : ~Writes(k, D)

ValuesAreWritten ==
    \A n \in 0..committed : \A D :
        /\ (\A m \in 1..n : ~LastPut(m, n, D)) => ValueAfter(n, D) = Nil
        /\ \A m \in 1..n : LastPut(m, n, D) => ValueAfter(n, D) = log[leader][m].req

(* ValueAfter(n, D) is what the last of the first n writes has written     *)
(* that is not in D.                                                       *)
LEMMA ValueIsLastWrite ==
  ASSUME StateTypes, CommitInv
  PROVE  ValuesAreWritten
<1> SUFFICES ASSUME NEW n \in 0..committed, NEW D
             PROVE  /\ (\A m \in 1..n : ~LastPut(m, n, D)) => ValueAfter(n, D) = Nil
                    /\ \A m \in 1..n : LastPut(m, n, D) => ValueAfter(n, D) = log[leader][m].req
  BY DEF ValuesAreWritten
<1> DEFINE writes(k) == k \notin D /\ Kind[CommittedEntries[k].req] \in {"put", "delete"}
           puts == {m \in 1..n : /\ writes(m) /\ Kind[CommittedEntries[m].req] = "put"
                                 /\ \A k \in (m + 1)..n : ~writes(k)}
<1>0. committed \in Nat /\ n \in Nat
  BY NumberTypes, SMTT(30)
<1>1. \A m \in 1..n : CommittedEntries[m] = log[leader][m]
  BY <1>0, CommittedFacts, SMTT(30)
<1>w. \A m \in 1..n : writes(m) <=> Writes(m, D)
  BY <1>1 DEF Writes, IsWrite
<1>3. ValueAfter(n, D) = IF puts = {} THEN Nil ELSE CommittedEntries[CHOOSE m \in puts : TRUE].req
  BY DEF ValueAfter
<1> HIDE DEF writes
<1>2. \A m \in 1..n : m \in puts <=> LastPut(m, n, D)
  <2>1. \A m \in 1..n : \A k \in (m + 1)..n : k \in 1..n
    BY <1>0, SMTT(30)
  <2> QED
    BY <1>1, <1>w, <2>1 DEF LastPut
<1>4. puts \subseteq 1..n
  OBVIOUS
<1> HIDE DEF puts
<1>5. ASSUME \A m \in 1..n : ~LastPut(m, n, D) PROVE ValueAfter(n, D) = Nil
  BY <1>2, <1>3, <1>4, <1>5
<1>6. ASSUME NEW m \in 1..n, LastPut(m, n, D) PROVE ValueAfter(n, D) = log[leader][m].req
  <2>1. PICK l \in puts : l = CHOOSE x \in puts : TRUE
    BY <1>2, <1>6
  <2>2. l \in 1..n /\ LastPut(l, n, D)
    BY <1>2, <1>4
  <2>3. Writes(l, D) /\ Writes(m, D)
    BY <1>6, <2>2 DEF LastPut
  <2>4. l \notin (m + 1)..n /\ m \notin (l + 1)..n
    BY <1>6, <2>2, <2>3 DEF LastPut
  <2>5. l = m
    BY <1>0, <2>2, <2>4, SMTT(30)
  <2> QED
    BY <1>1, <1>3, <2>1, <2>5
<1> QED
  BY <1>5, <1>6

(* The value after n writes is what it was as long as they are committed   *)
(* and no other ones of them are dropped.                                  *)
LEMMA ValueStays ==
  ASSUME StateTypes, CommitInv, StateTypes', CommitInv', NEW n \in 0..committed, n <= committed',
         \A k \in 1..committed : log'[leader'][k] = log[leader][k],
         NEW D, NEW E, \A k \in 1..n : k \in E <=> k \in D
  PROVE  ValueAfter(n, E)' = ValueAfter(n, D)
<1>0. committed \in Nat /\ n \in Nat /\ committed' \in Nat
  BY SMTT(30) DEF StateTypes
<1>1. /\ (\A m \in 1..n : ~LastPut(m, n, D)) => ValueAfter(n, D) = Nil
      /\ \A m \in 1..n : LastPut(m, n, D) => ValueAfter(n, D) = log[leader][m].req
  BY ValueIsLastWrite DEF ValuesAreWritten
<1>2. ValuesAreWritten'
  BY ValueIsLastWrite, PTL
<1>3. /\ (\A m \in 1..n : ~LastPut(m, n, E)') => ValueAfter(n, E)' = Nil
      /\ \A m \in 1..n : LastPut(m, n, E)' => ValueAfter(n, E)' = log'[leader'][m].req
  <2>1. n \in 0..committed'
    BY <1>0, SMTT(30)
  <2> QED
    BY <1>2, <2>1 DEF ValuesAreWritten
<1>4. \A k \in 1..n : log'[leader'][k] = log[leader][k]
  BY <1>0, SMTT(30)
<1>5. \A m \in 1..n : \A k \in (m + 1)..n : k \in 1..n
  BY <1>0, SMTT(30)
<1>w. \A m \in 1..n : Writes(m, E)' <=> Writes(m, D)
  BY <1>4 DEF Writes, IsWrite
<1>6. \A m \in 1..n : LastPut(m, n, E)' <=> LastPut(m, n, D)
  BY <1>4, <1>5, <1>w DEF LastPut
<1> QED
  BY <1>1, <1>3, <1>4, <1>6, SMTT(30)

(* What is dropped after the first n writes does not matter to them.       *)
LEMMA ValueOfFirst ==
  ASSUME StateTypes, CommitInv, NEW n \in 0..committed, NEW D,
         NEW E, \A k \in 1..n : k \in E <=> k \in D
  PROVE  ValueAfter(n, E) = ValueAfter(n, D)
<1>0. committed \in Nat /\ n \in Nat
  BY NumberTypes, SMTT(30)
<1>1. \A X : /\ (\A m \in 1..n : ~LastPut(m, n, X)) => ValueAfter(n, X) = Nil
             /\ \A m \in 1..n : LastPut(m, n, X) => ValueAfter(n, X) = log[leader][m].req
  BY ValueIsLastWrite DEF ValuesAreWritten
<1>2. \A m \in 1..n : \A k \in (m + 1)..n : k \in 1..n
  BY <1>0, SMTT(30)
<1>3. \A m \in 1..n : Writes(m, E) <=> Writes(m, D)
  BY DEF Writes
<1>4. \A m \in 1..n : LastPut(m, n, E) <=> LastPut(m, n, D)
  BY <1>2, <1>3 DEF LastPut
<1>5. CASE \A m \in 1..n : ~LastPut(m, n, D)
  BY <1>1, <1>4, <1>5
<1>6. ASSUME NEW m \in 1..n, LastPut(m, n, D) PROVE ValueAfter(n, E) = ValueAfter(n, D)
  BY <1>1, <1>4, <1>6
<1> QED
  BY <1>5, <1>6

-----------------------------------------------------------------------------
(* Most steps give no key and change nothing in Raft.                      *)
SameCall(q) ==
    /\ req'[q].key = req[q].key /\ req'[q].server = req[q].server
    /\ req'[q].before = req[q].before

Quiet ==
    /\ UNCHANGED raftVars
    /\ \A q \in Request :
          /\ SameCall(q)
          /\ req'[q].pc = "idle" => req[q].pc = "idle"
          /\ InProgress(q)' => InProgress(q)

(* A step in which no call gets a key keeps the keys.                      *)
LEMMA QuietKeys ==
  ASSUME KeyInv, Quiet, StateTypes
  PROVE  KeyInv'
<1>1. UNCHANGED <<log, leads, term>>
  BY DEF Quiet, raftVars
<1>2. \A q \in Request : req'[q].key = req[q].key /\ req'[q].server = req[q].server
                          /\ (HasKey(q)' <=> HasKey(q))
  BY DEF Quiet, SameCall, HasKey
<1>3. \A s \in Server : \A k \in 1..Len(log[s]) : log[s][k].req \in Request
  BY LogTypes
<1>4. (\A s \in Server : \A k \in 1..Len(log[s]) :
          req[log[s][k].req].key = pendingKey(k, log[s][k].term))'
  BY <1>1, <1>2, <1>3, SMTT(30) DEF KeyInv
<1>5. \A q, r \in Request : HasKey(r)' /\ req'[q].key = req'[r].key => q = r
  BY <1>2, SMTT(30) DEF KeyInv
<1>6. \A s \in Server : leads'[s] # 0 =>
          /\ leads'[s] <= term'
          /\ \A t \in Server : leads'[t] = leads'[s] => t = s
          /\ \A r \in Request :
                HasKey(r)' /\ req'[r].key.term = leads'[s] => req'[r].key.index <= Len(log'[s])
  BY <1>1, <1>2 DEF KeyInv
<1>7. \A r \in Request :
          /\ HasKey(r)' => req'[r].key.term <= term'
          /\ req'[r].pc = "idle" => ~HasKey(r)'
          /\ InProgress(r)' => HasKey(r)' /\ req'[r].server \in Server
  BY <1>1, <1>2 DEF KeyInv, Quiet
<1> QED
  BY <1>4, <1>5, <1>6, <1>7 DEF KeyInv

(* What is committed stays where it is, and nothing applied is unapplied   *)
(* or refused afterwards.                                                  *)
Onward ==
    /\ committed <= committed'
    /\ \A k \in 1..committed : log'[leader'][k] = log[leader][k]
    /\ \A s \in Server : applied[s] <= applied'[s]
    /\ \A s \in Server : \A k \in 1..applied[s] : k \in refused'[s] <=> k \in refused[s]

(* Once the entry of a call is applied at its server, it stays so.         *)
LEMMA OwnAppliedStays ==
  ASSUME StateTypes, StateTypes', CommitInv, Onward, NEW q \in Request, SameCall(q), OwnApplied(q)
  PROVE  OwnApplied(q)'
<1> DEFINE s == req[q].server
           k == req[q].key.index
<1>1. HasKey(q) /\ s \in Server /\ k <= applied[s] /\ log[leader][k].req = q
  BY DEF OwnApplied
<1>2. k \in Nat \ {0}
  BY <1>1, CallTypes
<1>3. applied[s] \in Nat /\ applied'[s] \in Nat /\ applied[s] <= committed /\ committed \in Nat
  <2>1. applied[s] \in Nat /\ commitIndex[s] \in Nat /\ committed \in Nat
    BY <1>1, NumberTypes
  <2>2. applied[s] <= commitIndex[s] /\ commitIndex[s] <= committed
    BY <1>1 DEF CommitInv
  <2>3. applied'[s] \in Nat
    BY <1>1 DEF StateTypes
  <2> QED
    BY <2>1, <2>2, <2>3, SMTT(30)
<1>4. k \in 1..committed /\ k <= applied'[s]
  BY <1>1, <1>2, <1>3, SMTT(30) DEF Onward
<1>5. log'[leader'][k] = log[leader][k]
  BY <1>4 DEF Onward
<1> QED
  BY <1>1, <1>4, <1>5 DEF OwnApplied, SameCall, HasKey

(* The call whose key an applied entry carries is the call of the entry.   *)
LEMMA KeyNamesCall ==
  ASSUME StateTypes, CommitInv, KeyInv, NEW r \in Request, HasKey(r),
         req[r].key.index <= committed, log[leader][req[r].key.index].term = req[r].key.term
  PROVE  log[leader][req[r].key.index].req = r
<1> DEFINE k == req[r].key.index
           q == log[leader][k].req
<1>1. k \in Nat \ {0} /\ committed \in Nat /\ req[r].key \in PendingKey
  BY CallTypes, NumberTypes
<1>2. k \in 1..committed
  BY <1>1, SMTT(30)
<1>3. leader \in Server /\ k \in 1..Len(log[leader]) /\ log[leader][k] \in Entry
  BY <1>2, CommittedFacts
<1>4. q \in Request /\ req[q].key = pendingKey(k, log[leader][k].term)
  BY <1>3 DEF KeyInv, Entry
<1>5. req[r].key = pendingKey(k, req[r].key.term)
  BY <1>1 DEF pendingKey, PendingKey
<1>6. req[q].key = req[r].key
  BY <1>4, <1>5
<1> QED
  BY <1>4, <1>6 DEF KeyInv

(* While nothing is applied, no other call finds its entry applied.        *)
LEMMA OwnAppliedSame ==
  ASSUME StateTypes, StateTypes', CommitInv, Onward, NEW q \in Request, SameCall(q), UNCHANGED applied
  PROVE  OwnApplied(q)' <=> OwnApplied(q)
<1>1. ASSUME OwnApplied(q)' PROVE OwnApplied(q)
  <2> DEFINE s == req[q].server
             k == req[q].key.index
  <2>1. HasKey(q) /\ s \in Server /\ k <= applied[s] /\ log'[leader'][k].req = q
    BY <1>1 DEF OwnApplied, SameCall, HasKey
  <2>2. /\ k \in Nat \ {0} /\ applied[s] \in Nat /\ commitIndex[s] \in Nat /\ committed \in Nat
        /\ applied[s] <= commitIndex[s] /\ commitIndex[s] <= committed
    BY <2>1, CallTypes, NumberTypes DEF CommitInv
  <2>3. k \in 1..committed
    BY <2>1, <2>2, SMTT(30)
  <2>4. log'[leader'][k] = log[leader][k]
    BY <2>3 DEF Onward
  <2> QED
    BY <2>1, <2>4 DEF OwnApplied
<1> QED
  BY <1>1, OwnAppliedStays

(* A finished call goes on having its place in the order.                  *)
InOrder(r) ==
    IF Kind[r] = "get"
    THEN req[r].at >= req[r].before /\ req[r].value = ValueAfter(req[r].at, refused[req[r].server])
    ELSE req[r].at > req[r].before

(* Its place is one that its server has applied.                           *)
Placed(r) == req[r].server \in Server /\ req[r].at <= applied[req[r].server]

(* A call that succeeded keeps its place in the order of the log.          *)
LEMMA InOrderStays ==
  ASSUME StateTypes, StateTypes', CommitInv, CommitInv', OrderInv, Onward,
         NEW q \in Succeeded, req'[q] = req[q]
  PROVE  Placed(q)' /\ InOrder(q)'
<1> DEFINE s == req[q].server
           n == req[q].at
<1>1. q \in Request /\ Placed(q) /\ InOrder(q)
  BY DEF OrderInv, ReadsAreInOrder, InLogOrder, InOrder, Placed, Succeeded
<1>2. n \in Nat /\ s \in Server /\ committed \in Nat /\ committed' \in Nat /\ applied'[s] \in Nat
  BY <1>1, CallTypes, NumberTypes DEF Call, StateTypes, Placed
<1>3. applied[s] \in Nat /\ applied[s] <= committed /\ n <= applied[s]
  BY <1>1, <1>2, AppliedFacts DEF Placed
<1>4. /\ committed <= committed' /\ applied[s] <= applied'[s]
      /\ \A k \in 1..committed : log'[leader'][k] = log[leader][k]
      /\ \A k \in 1..applied[s] : k \in refused'[s] <=> k \in refused[s]
  BY <1>2 DEF Onward
<1> HIDE DEF s, n
<1>5. n \in 0..committed /\ n <= committed' /\ n <= applied'[s] /\ \A k \in 1..n : k \in 1..applied[s]
  BY <1>2, <1>3, <1>4, SMTT(30)
<1>6. \A k \in 1..n : k \in refused'[s] <=> k \in refused[s]
  BY <1>4, <1>5
<1>7. ASSUME NEW D, NEW E, \A k \in 1..n : k \in E <=> k \in D
      PROVE  ValueAfter(n, E)' = ValueAfter(n, D)
  <2>1. ASSUME NEW m \in 0..committed, m <= committed', \A k \in 1..m : k \in E <=> k \in D
        PROVE  ValueAfter(m, E)' = ValueAfter(m, D)
    BY <1>4, <2>1, ValueStays
  <2> QED
    BY <1>5, <1>7, <2>1 DEF n
<1> QED
  BY <1>1, <1>2, <1>5, <1>6, <1>7 DEF InOrder, Placed, n, s

-----------------------------------------------------------------------------
(* Changes of leader, commits and replication preserve the invariant.      *)
LEMMA RaftKeeps ==
  ASSUME ServerInv, RaftStep
  PROVE  ServerInv'
<1>i. StateTypes /\ CommitInv /\ KeyInv /\ AnswerInv /\ NotesInv /\ WaiterInv /\ OrderInv
  BY DEF ServerInv
<1>e. RaftEffect
  BY <1>i, RaftSteps
<1>u. UNCHANGED <<loop, applied, store, refused, pending, completed, completionQ, closing, req>>
  BY <1>e DEF RaftEffect, loopVars, noteVars
<1>n. /\ term \in Nat /\ committed \in Nat /\ term' \in Nat /\ committed' \in Nat
      /\ \A s \in Server : /\ leads[s] \in Nat /\ commitIndex[s] \in Nat /\ applied[s] \in Nat
                           /\ commitIndex'[s] \in Nat /\ leads'[s] \in Nat
  BY <1>i, <1>e, NumberTypes DEF RaftEffect
<1>1. StateTypes'
  BY <1>i, <1>e, <1>u DEF StateTypes, RaftEffect
<1>2. CommitInv'
  <2>1. /\ leader' = Nil => committed' = 0
        /\ leader' # Nil => committed' <= Len(log'[leader'])
        /\ \A s \in Server : commitIndex[s] <= commitIndex'[s] /\ commitIndex'[s] <= committed'
    BY <1>e DEF RaftEffect
  <2>2. \A s \in Server : /\ applied[s] <= commitIndex[s]
                          /\ loop[s].pc = "notify" => applied[s] > 0 /\ loop[s].err # Nil
    BY <1>i DEF CommitInv
  <2>3. \A s \in Server : applied[s] <= commitIndex'[s]
    BY <1>n, <2>1, <2>2, SMTT(30)
  <2> QED
    BY <1>u, <2>1, <2>2, <2>3 DEF CommitInv
<1>o. Onward
  <2>1. committed <= committed' /\ \A t \in Server : applied[t] <= applied'[t]
    BY <1>e, <1>u, <1>n, SMTT(30) DEF RaftEffect
  <2> QED
    BY <1>e, <1>u, <2>1 DEF Onward, RaftEffect
<1>c. \A q \in Request : SameCall(q) /\ (HasKey(q)' <=> HasKey(q)) /\ (OwnApplied(q)' <=> OwnApplied(q))
  BY <1>i, <1>1, <1>o, <1>u, OwnAppliedSame DEF SameCall, HasKey
<1>3. KeyInv'
  <2>1. ASSUME NEW s \in Server, NEW k \in 1..Len(log'[s])
        PROVE  req'[log'[s][k].req].key = pendingKey(k, log'[s][k].term)
    <3>1. PICK t \in Server : k \in 1..Len(log[t]) /\ log'[s][k] = log[t][k]
      BY <1>e DEF RaftEffect
    <3> QED
      BY <1>i, <1>u, <3>1, SMTT(30) DEF KeyInv
  <2>2. \A q, r \in Request : HasKey(r)' /\ req'[q].key = req'[r].key => q = r
    BY <1>i, <1>u, <1>c DEF KeyInv
  <2>3. ASSUME NEW r \in Request, HasKey(r)'
        PROVE  req'[r].key.term <= term /\ req'[r].key.term <= term' /\ req'[r].key.term \in Nat
    <3>1. req[r].key.term <= term /\ req[r].key.term \in Nat
      BY <1>i, <1>c, <2>3, CallTypes DEF KeyInv
    <3> QED
      BY <1>n, <1>u, <1>e, <3>1, SMTT(30) DEF RaftEffect
  <2>4. ASSUME NEW s \in Server, leads'[s] # 0
        PROVE  /\ leads'[s] <= term'
               /\ \A t \in Server : leads'[t] = leads'[s] => t = s
               /\ \A r \in Request :
                     HasKey(r)' /\ req'[r].key.term = leads'[s] => req'[r].key.index <= Len(log'[s])
    <3>1. \A t \in Server : \/ leads'[t] = 0
                            \/ leads'[t] = leads[t] /\ log'[t] = log[t] /\ leads[t] <= term
                            \/ leads'[t] = term + 1 /\ term' = term + 1 /\ leader' = t
      BY <1>i, <1>e, <1>n DEF RaftEffect, KeyInv
    <3>2. CASE leads'[s] = leads[s] /\ log'[s] = log[s]
      <4>1. leads[s] <= term' /\ leads[s] <= term
        BY <1>i, <1>e, <1>n, <2>4, <3>2, SMTT(30) DEF KeyInv, RaftEffect
      <4>2. \A t \in Server : leads'[t] = leads'[s] => t = s
        <5>1. \A t \in Server : leads[t] = leads[s] => t = s
          BY <1>i, <2>4, <3>2 DEF KeyInv
        <5> QED
          BY <2>4, <3>1, <3>2, <4>1, <5>1, <1>n, SMTT(30)
      <4>3. \A r \in Request : HasKey(r) /\ req[r].key.term = leads[s] => req[r].key.index <= Len(log[s])
        BY <1>i, <2>4, <3>2 DEF KeyInv
      <4> QED
        BY <1>c, <1>u, <3>2, <4>1, <4>2, <4>3
    <3>3. CASE leads'[s] = term + 1 /\ term' = term + 1 /\ leader' = s
      <4>1. \A t \in Server : leads'[t] = leads'[s] => t = s
        BY <1>n, <3>1, <3>3, SMTT(30)
      <4>2. \A r \in Request : HasKey(r)' => req'[r].key.term # term + 1
        BY <1>n, <2>3, SMTT(30)
      <4> QED
        BY <1>n, <3>3, <4>1, <4>2, SMTT(30)
    <3> QED
      BY <2>4, <3>1, <3>2, <3>3
  <2>5. \A r \in Request :
          /\ req'[r].pc = "idle" => ~HasKey(r)'
          /\ InProgress(r)' => HasKey(r)' /\ req'[r].server \in Server
    BY <1>i, <1>u, <1>c DEF KeyInv, InProgress
  <2> QED
    BY <2>1, <2>2, <2>3, <2>4, <2>5 DEF KeyInv
<1>4. AnswerInv'
  <2>1. ASSUME NEW s \in Server, NEW c \in completed[s]
        PROVE  c.key.index <= applied[s] /\ log'[leader'][c.key.index].term = c.key.term
    <3>1. c.key.index <= applied[s] /\ log[leader][c.key.index].term = c.key.term
      BY <1>i DEF AnswerInv
    <3>2. c.key.index \in Nat \ {0}
      BY <1>i, SMTT(30) DEF StateTypes, PendingKey
    <3>3. applied[s] <= commitIndex[s] /\ commitIndex[s] <= committed
      BY <1>i DEF CommitInv
    <3>4. c.key.index \in 1..committed
      BY <1>n, <3>1, <3>2, <3>3, SMTT(30)
    <3> QED
      BY <1>o, <3>1, <3>4 DEF Onward
  <2> QED
    BY <1>i, <1>u, <1>c, <2>1 DEF AnswerInv
<1>5. NotesInv'
  BY <1>i, <1>u DEF NotesInv
<1>6. WaiterInv'
  <2>1. \A r \in Request : (Notified(r)' <=> Notified(r)) /\ (Evictable(r)' <=> Evictable(r))
    BY <1>c, <1>u DEF Notified, Evictable
  <2> QED
    BY <1>i, <1>u, <2>1 DEF WaiterInv
<1>7. OrderInv'
  <2>1. ASSUME NEW s \in Server, StoreIsOpen(s)' PROVE store'[s] = ValueAfter(applied[s], refused[s])'
    <3>1. StoreIsOpen(s) /\ store[s] = ValueAfter(applied[s], refused[s])
      BY <1>i, <1>u, <2>1 DEF OrderInv, StoreIsOpen
    <3>2. applied[s] \in 0..committed /\ applied[s] <= committed'
      BY <1>i, <1>n, <1>o, SMTT(30) DEF CommitInv, Onward
    <3>3. ASSUME NEW n \in 0..committed, n <= committed', NEW D PROVE ValueAfter(n, D)' = ValueAfter(n, D)
      BY <1>i, <1>1, <1>2, <1>o, <3>3, ValueStays DEF Onward
    <3> QED
      BY <1>u, <3>1, <3>2, <3>3
  <2>2. ASSUME NEW r \in Request, HasKey(r)'
        PROVE  /\ req'[r].before <= committed'
               /\ req'[r].key.index <= req'[r].before => log'[leader'][req'[r].key.index].req # r
    <3>1. /\ req[r].before <= committed /\ req[r].before \in Nat /\ req[r].key.index \in Nat \ {0}
          /\ req[r].key.index <= req[r].before => log[leader][req[r].key.index].req # r
      BY <1>i, <1>c, <2>2, CallTypes DEF OrderInv, Call
    <3>2. req[r].before <= committed'
      BY <1>n, <1>o, <3>1, SMTT(30) DEF Onward
    <3>3. req[r].key.index <= req[r].before => req[r].key.index \in 1..committed
      BY <1>n, <3>1, SMTT(30)
    <3> QED
      BY <1>u, <1>o, <3>1, <3>2, <3>3 DEF Onward
  <2>3. ASSUME NEW r \in Succeeded' PROVE Placed(r)' /\ InOrder(r)'
    <3>1. r \in Succeeded /\ req'[r] = req[r]
      BY <1>u DEF Succeeded
    <3> QED
      BY <1>i, <1>1, <1>2, <1>o, <3>1, InOrderStays
  <2>4. ReadsAreInOrder'
    BY <2>3 DEF ReadsAreInOrder, InLogOrder, InOrder
  <2>5. \A r \in Request : InProgress(r)' => StoreIsOpen(req[r].server)'
    BY <1>i, <1>u DEF OrderInv, InProgress, StoreIsOpen
  <2>6. \A t \in Server : \A m \in refused'[t] : m <= applied'[t]
    BY <1>i, <1>u DEF OrderInv
  <2> QED
    BY <2>1, <2>2, <2>3, <2>4, <2>5, <2>6 DEF OrderInv, Placed
<1> QED
  BY <1>1, <1>2, <1>3, <1>4, <1>5, <1>6, <1>7 DEF ServerInv

(* A call that has no key is in no log, and one that has not begun has no  *)
(* waiter and no answer.                                                   *)
LEMMA IdleIsNowhere ==
  ASSUME StateTypes, KeyInv, AnswerInv, NEW r \in Request, req[r].pc = "idle"
  PROVE  /\ req[r].key = Nil /\ req[r].ch = Nil
         /\ \A s \in Server : \A k \in 1..Len(log[s]) : log[s][k].req # r
         /\ \A s \in Server : \A p \in pending[s] : p.req # r
<1>1. req[r].key = Nil /\ req[r].ch = Nil
  BY DEF KeyInv, HasKey, AnswerInv
<1>2. ASSUME NEW s \in Server, NEW k \in 1..Len(log[s]) PROVE log[s][k].req # r
  <2>1. req[log[s][k].req].key = pendingKey(k, log[s][k].term)
    BY DEF KeyInv
  <2>2. k \in Nat \ {0} /\ log[s][k].term \in Nat
    BY LogTypes, SMTT(30)
  <2>3. pendingKey(k, log[s][k].term) # Nil
    BY <2>2, RequestAssumption, SMTT(30) DEF pendingKey
  <2> QED
    BY <1>1, <2>1, <2>3
<1>3. ASSUME NEW s \in Server, NEW p \in pending[s] PROVE p.req # r
  BY DEF AnswerInv
<1> QED
  BY <1>1, <1>2, <1>3

(* What a submission changes: its own call and, on a leader, its own log,  *)
(* by an entry that carries the key the call is given.                     *)
Submitted(r, s) ==
    LET n == Len(log[s]) + 1
    IN /\ n \in Nat \ {0} /\ leads[s] # 0
       /\ log' \in [Server -> Seq(Entry)]
       /\ Len(log'[s]) = n /\ log'[s][n] = [term |-> leads[s], req |-> r]
       /\ \A k \in 1..Len(log[s]) : log'[s][k] = log[s][k]
       /\ \A t \in Server \ {s} : log'[t] = log[t]
       /\ req' = [req EXCEPT ![r].pc = "submitted", ![r].server = s, ![r].before = Seen,
                             ![r].key = [index |-> n, term |-> leads[s]]]
SentAway(r, s) ==
    /\ req' = [req EXCEPT ![r].pc = "done", ![r].server = s, ![r].result = "notLeader"]
    /\ log' = log

(* Submit either appends the command and registers the call, or refuses    *)
(* it.                                                                     *)
LEMMA SubmitEffect ==
  ASSUME StateTypes, NEW r \in Request, NEW s \in Server, Submit(r, s)
  PROVE  Submitted(r, s) \/ SentAway(r, s)
<1>1. log \in [Server -> Seq(Entry)] /\ log[s] \in Seq(Entry) /\ leads[s] \in Nat /\ Len(log[s]) \in Nat
  BY LogTypes, NumberTypes DEF StateTypes
<1>2. CASE /\ leads[s] # 0
           /\ log' = [log EXCEPT ![s] = Append(@, [term |-> leads[s], req |-> r])]
           /\ req' = [req EXCEPT ![r].pc = "submitted", ![r].server = s, ![r].before = Seen,
                                 ![r].key = pendingKey(Len(log[s]) + 1, leads[s])]
  <2>1. [term |-> leads[s], req |-> r] \in Entry
    BY <1>1 DEF Entry
  <2>2. log'[s] = Append(log[s], [term |-> leads[s], req |-> r])
    BY <1>1, <1>2
  <2>3. log' \in [Server -> Seq(Entry)] /\ \A t \in Server \ {s} : log'[t] = log[t]
    BY <1>1, <1>2, <2>1, SMTT(30)
  <2>4. /\ Len(log'[s]) = Len(log[s]) + 1 /\ log'[s][Len(log[s]) + 1] = [term |-> leads[s], req |-> r]
        /\ \A k \in 1..Len(log[s]) : log'[s][k] = log[s][k]
    BY <1>1, <2>1, <2>2, SMTT(30)
  <2>5. Len(log[s]) + 1 \in Nat \ {0}
    BY <1>1, SMTT(30)
  <2> QED
    BY <1>2, <2>3, <2>4, <2>5 DEF Submitted, pendingKey
<1> QED
  BY <1>2 DEF Submit, SentAway

(* The key is fresh: the leader's log holds all of its term, and the new   *)
(* entry comes after it.                                                   *)
LEMMA SubmittedKeys ==
  ASSUME StateTypes, KeyInv, AnswerInv, NEW r \in Request, NEW s \in Server, req[r].pc = "idle",
         Submitted(r, s), UNCHANGED <<term, leads>>
  PROVE  KeyInv'
<1> DEFINE n == Len(log[s]) + 1
           key == [index |-> n, term |-> leads[s]]
<1>1. /\ n \in Nat \ {0} /\ leads[s] # 0 /\ leads[s] \in Nat /\ Len(log[s]) \in Nat
      /\ Len(log'[s]) = n /\ log'[s][n] = [term |-> leads[s], req |-> r]
      /\ \A k \in 1..Len(log[s]) : log'[s][k] = log[s][k]
      /\ \A t \in Server \ {s} : log'[t] = log[t]
  BY LogTypes, NumberTypes DEF Submitted
<1>2. /\ req'[r].key = key /\ req'[r].pc = "submitted" /\ req'[r].server = s
      /\ \A q \in Request \ {r} : req'[q] = req[q]
  BY SMTT(30) DEF Submitted, StateTypes, Call
<1>3. key \in PendingKey /\ key # Nil
  <2>1. key \in PendingKey
    BY <1>1 DEF PendingKey
  <2> QED
    BY <2>1, KeyIsNotNil
<1>4. /\ req[r].key = Nil
      /\ \A t \in Server : \A k \in 1..Len(log[t]) : log[t][k].req \in Request \ {r}
  BY IdleIsNowhere, LogTypes
<1>5. ASSUME NEW q \in Request, q # r, HasKey(q) PROVE req[q].key # key
  <2>1. req[q].key.term = leads[s] => req[q].key.index <= Len(log[s])
    BY <1>1, <1>5 DEF KeyInv
  <2> QED
    BY <1>1, <2>1, SMTT(30)
<1>6. ASSUME NEW t \in Server, NEW k \in 1..Len(log'[t])
      PROVE  req'[log'[t][k].req].key = pendingKey(k, log'[t][k].term)
  <2>1. CASE t = s /\ k = n
    BY <1>1, <1>2, <2>1, SMTT(30) DEF pendingKey
  <2>2. CASE ~(t = s /\ k = n)
    <3>1. k \in 1..Len(log[t]) /\ log'[t][k] = log[t][k]
      BY <1>1, <2>2, SMTT(30)
    <3>2. req[log[t][k].req].key = pendingKey(k, log[t][k].term)
      BY <3>1 DEF KeyInv
    <3> QED
      BY <1>2, <1>4, <3>1, <3>2
  <2> QED
    BY <2>1, <2>2
<1>7. ASSUME NEW p, NEW q, p \in Request, q \in Request, HasKey(q)', req'[p].key = req'[q].key PROVE p = q
  <2>1. CASE p # r /\ q # r
    BY <1>2, <1>7, <2>1, KeyFacts DEF HasKey
  <2>2. CASE p = r /\ q # r
    BY <1>2, <1>5, <1>7, <2>2 DEF HasKey
  <2>3. CASE p # r /\ q = r
    BY <1>2, <1>3, <1>5, <1>7, <2>3 DEF HasKey
  <2> QED
    BY <2>1, <2>2, <2>3
<1>8. ASSUME NEW q \in Request, HasKey(q)' PROVE req'[q].key.term <= term'
  <2>1. leads[s] <= term
    BY <1>1 DEF KeyInv
  <2> QED
    BY <1>2, <1>8, <2>1, SMTT(30) DEF KeyInv, HasKey
<1>9. ASSUME NEW t \in Server, leads'[t] # 0
      PROVE  /\ leads'[t] <= term'
             /\ \A u \in Server : leads'[u] = leads'[t] => u = t
             /\ \A q \in Request :
                   HasKey(q)' /\ req'[q].key.term = leads'[t] => req'[q].key.index <= Len(log'[t])
  <2>1. leads'[t] <= term' /\ \A u \in Server : leads'[u] = leads'[t] => u = t
    BY <1>9 DEF KeyInv
  <2>2. ASSUME NEW q \in Request, HasKey(q)', req'[q].key.term = leads'[t]
        PROVE  req'[q].key.index <= Len(log'[t])
    <3>1. CASE q = r
      <4>1. leads'[s] = leads'[t] /\ req'[q].key.index = n
        BY <1>2, <2>2, <3>1, SMTT(30)
      <4>2. s = t
        BY <2>1, <4>1
      <4> QED
        BY <1>1, <4>1, <4>2, SMTT(30)
    <3>2. CASE q # r
      <4>1. HasKey(q) /\ req'[q].key = req[q].key /\ req[q].key.term = leads[t]
        BY <1>2, <2>2, <3>2 DEF HasKey
      <4>2. req[q].key.index <= Len(log[t]) /\ req[q].key.index \in Nat
        BY <1>9, <4>1, CallTypes DEF KeyInv
      <4>3. Len(log[t]) \in Nat /\ (Len(log'[t]) = Len(log[t]) \/ Len(log'[t]) = Len(log[t]) + 1)
        BY <1>1, LogTypes
      <4> QED
        BY <4>1, <4>2, <4>3, SMTT(30)
    <3> QED
      BY <3>1, <3>2
  <2> QED
    BY <2>1, <2>2
<1>10. \A q \in Request :
          /\ req'[q].pc = "idle" => ~HasKey(q)'
          /\ InProgress(q)' => HasKey(q)' /\ req'[q].server \in Server
  <2>1. HasKey(r)' /\ req'[r].server \in Server /\ req'[r].pc # "idle"
    BY <1>2, <1>3 DEF HasKey
  <2>2. \A q \in Request \ {r} : (HasKey(q)' <=> HasKey(q)) /\ (InProgress(q)' <=> InProgress(q))
    BY <1>2 DEF HasKey, InProgress
  <2> QED
    BY <1>2, <2>1, <2>2, KeyFacts
<1> QED
  BY <1>6, <1>7, <1>8, <1>9, <1>10 DEF KeyInv

(* A new call with its key, or one that is sent away, preserves the        *)
(* invariant.                                                              *)
LEMMA SubmitKeeps ==
  ASSUME ServerInv, NEW r \in Request, NEW s \in Server, Submit(r, s),
         Seen \in Nat, Seen <= committed
  PROVE  ServerInv'
<1>i. StateTypes /\ CommitInv /\ KeyInv /\ AnswerInv /\ NotesInv /\ WaiterInv /\ OrderInv
  BY DEF ServerInv
<1>u. /\ UNCHANGED <<term, leader, committed, leads, commitIndex, loop, applied, store, refused>>
      /\ UNCHANGED <<pending, completed, completionQ, closing>>
      /\ req[r].pc = "idle" /\ closing[s] \in {"open", "closed", "drained"}
  BY DEF Submit, loopVars, noteVars
<1>s. Submitted(r, s) \/ SentAway(r, s)
  BY <1>i, SubmitEffect
<1>r. /\ req[r] \in Call /\ req[r].key = Nil /\ req[r].ch = Nil
      /\ \A t \in Server : \A k \in 1..Len(log[t]) : log[t][k].req # r
      /\ \A t \in Server : \A p \in pending[t] : p.req # r
  BY <1>i, <1>u, IdleIsNowhere, CallTypes
<1>c. committed \in Nat /\ \A k \in 1..committed : leader \in Server /\ k \in 1..Len(log[leader])
  BY <1>i, CommittedFacts
<1>l. /\ log' \in [Server -> Seq(Entry)]
      /\ \A t \in Server : Len(log[t]) \in Nat /\ Len(log'[t]) \in Nat /\ Len(log[t]) <= Len(log'[t])
      /\ \A t \in Server : \A k \in 1..Len(log[t]) : log'[t][k] = log[t][k]
  <2>1. \A t \in Server : Len(log[t]) \in Nat
    BY <1>i, LogTypes
  <2>2. log \in [Server -> Seq(Entry)]
    BY <1>i DEF StateTypes
  <2>3. CASE Submitted(r, s)
    <3>1. /\ log' \in [Server -> Seq(Entry)] /\ Len(log'[s]) = Len(log[s]) + 1
          /\ \A k \in 1..Len(log[s]) : log'[s][k] = log[s][k]
          /\ \A t \in Server \ {s} : log'[t] = log[t]
      BY <2>3 DEF Submitted
    <3>2. \A t \in Server : Len(log'[t]) \in Nat /\ Len(log[t]) <= Len(log'[t])
      BY <2>1, <3>1, SMTT(30)
    <3> QED
      BY <2>1, <3>1, <3>2
  <2>4. CASE SentAway(r, s)
    BY <2>1, <2>2, <2>4, SMTT(30) DEF SentAway
  <2> QED
    BY <1>s, <2>3, <2>4
<1>q. /\ \A q \in Request \ {r} : req'[q] = req[q]
      /\ req' \in [Request -> Call] /\ req'[r].ch = Nil /\ req'[r].server = s
      /\ \/ req'[r].pc = "submitted" /\ req'[r].before = Seen /\ HasKey(r)'
         \/ req'[r].pc = "done" /\ req'[r].result = "notLeader" /\ req'[r].key = Nil
  <2>1. req \in [Request -> Call]
    BY <1>i DEF StateTypes
  <2>2. CASE Submitted(r, s)
    <3>1. Seen \in Nat /\ leads[s] \in Nat
      BY <1>i, NumberTypes
    <3>2. Len(log[s]) + 1 \in Nat \ {0}
      BY <2>2 DEF Submitted
    <3> DEFINE key == [index |-> Len(log[s]) + 1, term |-> leads[s]]
    <3>3. key \in PendingKey /\ key # Nil
      BY <3>1, <3>2, RequestAssumption, SMTT(30) DEF PendingKey
    <3>4. req' = [req EXCEPT ![r].pc = "submitted", ![r].server = s, ![r].before = Seen, ![r].key = key]
      BY <2>2 DEF Submitted
    <3> HIDE DEF key
    <3>5. req'[r] = [req[r] EXCEPT !.pc = "submitted", !.server = s, !.before = Seen, !.key = key]
      BY <2>1, <3>4
    <3>6. req'[r] \in Call
      BY <1>r, <3>1, <3>3, <3>5 DEF Call
    <3> QED
      BY <1>r, <2>1, <3>3, <3>4, <3>5, <3>6, SMTT(30) DEF Call, HasKey
  <2>3. CASE SentAway(r, s)
    <3>1. req' = [req EXCEPT ![r].pc = "done", ![r].server = s, ![r].result = "notLeader"]
      BY <2>3 DEF SentAway
    <3>2. req'[r] = [req[r] EXCEPT !.pc = "done", !.server = s, !.result = "notLeader"]
      BY <2>1, <3>1
    <3>3. req'[r] \in Call
      BY <1>r, <3>2 DEF Call
    <3> QED
      BY <1>r, <2>1, <3>1, <3>2, <3>3, SMTT(30) DEF Call
  <2> QED
    BY <1>s, <2>2, <2>3
<1>1. StateTypes'
  BY <1>i, <1>u, <1>l, <1>q DEF StateTypes
<1>2. CommitInv'
  <2>1. leader # Nil => committed <= Len(log'[leader])
    <3>1. leader \in {Nil} \cup Server /\ (leader # Nil => committed <= Len(log[leader]))
      BY <1>i DEF StateTypes, CommitInv
    <3> QED
      BY <1>c, <1>l, <3>1, SMTT(30)
  <2> QED
    BY <1>i, <1>u, <2>1 DEF CommitInv
<1>3. KeyInv'
  <2>1. CASE Submitted(r, s)
    BY <1>i, <1>u, <2>1, SubmittedKeys
  <2>2. CASE SentAway(r, s)
    <3>1. UNCHANGED <<log, leads, term>>
      BY <1>u, <2>2 DEF SentAway
    <3>2. \A q \in Request : req'[q].key = req[q].key /\ (HasKey(q)' <=> HasKey(q))
      BY <1>q, <1>r, <2>2, SMTT(30) DEF SentAway, HasKey, StateTypes, Call
    <3>3. \A t \in Server : \A k \in 1..Len(log[t]) : log[t][k].req \in Request
      BY <1>i, LogTypes
    <3>4. (\A t \in Server : \A k \in 1..Len(log[t]) :
               req[log[t][k].req].key = pendingKey(k, log[t][k].term))'
      <4>1. \A t \in Server : \A k \in 1..Len(log[t]) :
                req[log[t][k].req].key = pendingKey(k, log[t][k].term)
        BY <1>i DEF KeyInv
      <4> QED
        BY <3>1, <3>2, <3>3, <4>1 DEF pendingKey
    <3>5. \A p, q \in Request : HasKey(q)' /\ req'[p].key = req'[q].key => p = q
      BY <1>i, <3>2 DEF KeyInv
    <3>6. \A t \in Server : leads'[t] # 0 =>
              /\ leads'[t] <= term'
              /\ \A u \in Server : leads'[u] = leads'[t] => u = t
              /\ \A q \in Request :
                    HasKey(q)' /\ req'[q].key.term = leads'[t] => req'[q].key.index <= Len(log'[t])
      BY <1>i, <3>1, <3>2 DEF KeyInv
    <3>7. req'[r].pc = "done"
      BY <2>2, <1>i DEF SentAway, StateTypes, Call
    <3>8. \A q \in Request :
              /\ HasKey(q)' => req'[q].key.term <= term'
              /\ req'[q].pc = "idle" => ~HasKey(q)'
              /\ InProgress(q)' => HasKey(q)' /\ req'[q].server \in Server
      BY <1>i, <1>q, <3>1, <3>2, <3>7 DEF KeyInv, InProgress
    <3> QED
      BY <3>4, <3>5, <3>6, <3>8 DEF KeyInv
  <2> QED
    BY <1>s, <2>1, <2>2
<1>o. Onward
  <2>1. committed <= committed' /\ \A t \in Server : applied[t] <= applied'[t]
    BY <1>i, <1>u, <1>c, NumberTypes, SMTT(30)
  <2>2. \A k \in 1..committed : log'[leader'][k] = log[leader][k]
    BY <1>u, <1>c, <1>l
  <2> QED
    BY <1>u, <2>1, <2>2 DEF Onward
<1>a. ASSUME NEW k \in 1..committed PROVE log'[leader'][k].req # r
  BY <1>u, <1>c, <1>l, <1>r, SMTT(30)
<1>b. \A t \in Server : applied[t] <= committed /\ applied[t] \in Nat
  BY <1>i, NumberTypes, SMTT(30) DEF CommitInv
<1>k. HasKey(r)' => req'[r].key.index \in Nat \ {0}
  BY <1>q DEF HasKey, Call, PendingKey
<1>x. ~OwnApplied(r)'
  <2>1. ASSUME HasKey(r)', req'[r].key.index <= applied'[s] PROVE log'[leader'][req'[r].key.index].req # r
    <3>1. req'[r].key.index \in 1..committed
      BY <1>b, <1>c, <1>k, <1>u, <2>1, SMTT(30)
    <3> QED
      BY <1>a, <3>1
  <2> QED
    BY <1>q, <2>1 DEF OwnApplied
<1>y. \A q \in Request \ {r} : SameCall(q) /\ (OwnApplied(q)' <=> OwnApplied(q))
  BY <1>i, <1>1, <1>o, <1>u, <1>q, OwnAppliedSame DEF SameCall
<1>4. AnswerInv'
  <2>1. ASSUME NEW t \in Server, NEW c \in completed[t]
        PROVE  c.key.index <= applied[t] /\ log'[leader'][c.key.index].term = c.key.term
    <3>1. c.key.index <= applied[t] /\ log[leader][c.key.index].term = c.key.term
      BY <1>i DEF AnswerInv
    <3>2. c.key.index \in Nat \ {0}
      BY <1>i, SMTT(30) DEF StateTypes, PendingKey
    <3>3. c.key.index \in 1..committed
      BY <1>b, <1>c, <3>1, <3>2, SMTT(30)
    <3> QED
      BY <1>o, <3>1, <3>3 DEF Onward
  <2>2. ASSUME NEW t \in Server, NEW p \in pending[t]
        PROVE  /\ req'[p.req].pc \in {"waiting", "leaving"} /\ req'[p.req].ch = Nil
               /\ req'[p.req].server = t /\ req'[p.req].key = p.key
    <3>1. p.req \in Request \ {r}
      BY <1>i, <1>r, PendingFacts
    <3> QED
      BY <1>i, <1>q, <3>1, PendingFacts, SMTT(30)
  <2>3. ASSUME NEW q \in Request
        PROVE  /\ req'[q].ch # Nil => req'[q].pc \in {"waiting", "leaving"}
               /\ req'[q].pc = "leaving" => req'[q].result \in {"timeout", "closed"}
               /\ \/ req'[q].ch \in {"ok", "error"}
                  \/ req'[q].pc = "reading"
                  \/ req'[q].pc = "done" /\ req'[q].result \in {"ok", "error"}
                  => OwnApplied(q)'
    <3>1. CASE q = r
      BY <1>q, <3>1, RequestAssumption
    <3>2. CASE q # r
      BY <1>i, <1>q, <1>y, <3>2, AnswerFacts DEF AnswerIsFair
    <3> QED
      BY <3>1, <3>2
  <2> QED
    BY <1>u, <2>1, <2>2, <2>3 DEF AnswerInv
<1>5. NotesInv'
  BY <1>i, <1>u DEF NotesInv
<1>6. WaiterInv'
  <2>1. \A q \in Request \ {r} : (Notified(q)' <=> Notified(q)) /\ (Evictable(q)' <=> Evictable(q))
    BY <1>y, <1>u, <1>q DEF Notified, Evictable
  <2>2. ~Notified(r)' /\ req'[r].pc # "waiting"
    BY <1>x, <1>q DEF Notified
  <2> QED
    BY <1>i, <1>u, <1>q, <2>1, <2>2 DEF WaiterInv
<1>7. OrderInv'
  <2>1. ASSUME NEW t \in Server, StoreIsOpen(t)' PROVE store'[t] = ValueAfter(applied[t], refused[t])'
    <3>1. store[t] = ValueAfter(applied[t], refused[t])
      BY <1>i, <1>u, <2>1 DEF OrderInv, StoreIsOpen
    <3>2. applied[t] \in 0..committed /\ applied[t] <= committed'
      BY <1>b, <1>c, <1>u, SMTT(30)
    <3>3. ASSUME NEW n \in 0..committed, n <= committed', NEW D PROVE ValueAfter(n, D)' = ValueAfter(n, D)
      BY <1>i, <1>1, <1>2, <1>o, <3>3, ValueStays DEF Onward
    <3> QED
      BY <1>u, <3>1, <3>2, <3>3
  <2>2. ASSUME NEW q \in Request, HasKey(q)'
        PROVE  /\ req'[q].before <= committed'
               /\ req'[q].key.index <= req'[q].before => log'[leader'][req'[q].key.index].req # q
    <3>1. CASE q = r
      <4>1. req'[r].before = Seen /\ Seen \in Nat /\ Seen <= committed
        BY <1>i, <1>q, <2>2, <3>1 DEF HasKey
      <4>0. req'[r].key.index \in Nat \ {0}
        BY <1>k, <2>2, <3>1
      <4>2. req'[r].key.index <= Seen => req'[r].key.index \in 1..committed
        BY <1>c, <4>0, <4>1, SMTT(30)
      <4> QED
        BY <1>a, <1>u, <3>1, <4>1, <4>2
    <3>2. CASE q # r
      <4>1. /\ HasKey(q) /\ req[q].before <= committed /\ req[q].before \in Nat
            /\ req[q].key.index \in Nat \ {0}
            /\ req[q].key.index <= req[q].before => log[leader][req[q].key.index].req # q
        <5>1. HasKey(q)
          BY <1>q, <2>2, <3>2 DEF HasKey
        <5> QED
          BY <1>i, <5>1, OrderFacts
      <4>2. req[q].key.index <= req[q].before => req[q].key.index \in 1..committed
        BY <1>c, <4>1, SMTT(30)
      <4> QED
        BY <1>q, <1>u, <1>o, <3>2, <4>1, <4>2 DEF Onward
    <3> QED
      BY <3>1, <3>2
  <2>3. ASSUME NEW q \in Succeeded' PROVE Placed(q)' /\ InOrder(q)'
    <3>1. q \in Succeeded /\ req'[q] = req[q]
      BY <1>q DEF Succeeded
    <3> QED
      BY <1>i, <1>1, <1>2, <1>o, <3>1, InOrderStays
  <2>4. ReadsAreInOrder'
    BY <2>3 DEF ReadsAreInOrder, InLogOrder, InOrder
  <2>5. \A q \in Request : InProgress(q)' => StoreIsOpen(req[q].server)'
    BY <1>i, <1>u, <1>q DEF OrderInv, InProgress, StoreIsOpen
  <2>6. \A t \in Server : \A m \in refused'[t] : m <= applied'[t]
    BY <1>i, <1>u DEF OrderInv
  <2> QED
    BY <2>1, <2>2, <2>3, <2>4, <2>5, <2>6 DEF OrderInv, Placed
<1> QED
  BY <1>1, <1>2, <1>3, <1>4, <1>5, <1>6, <1>7 DEF ServerInv

-----------------------------------------------------------------------------
(* A step of a call r that has its key: nothing changes but the call, its  *)
(* waiter and its note.                                                    *)
CallMoves(r) ==
    /\ UNCHANGED <<raftVars, loopVars, completionQ, closing>>
    /\ req' \in [Request -> Call] /\ \A q \in Request \ {r} : req'[q] = req[q]
    /\ SameCall(r) /\ InProgress(r) /\ req'[r].pc \in {"waiting", "leaving", "reading", "done"}
    /\ pending' \in [Server -> SUBSET [key : PendingKey, req : Request]]
    /\ completed' \in [Server -> SUBSET [key : PendingKey, err : {"ok", "error"}]]
    /\ \A s \in Server : /\ completed'[s] \subseteq completed[s]
                         /\ \A c \in completed[s] : c \in completed'[s] \/ c.key = req[r].key
    /\ \A s \in Server :
          /\ \A p \in pending[s] : p.req # r => p \in pending'[s]
          /\ \A p \in pending'[s] :
                \/ p \in pending[s] /\ p.req # r
                \/ /\ p.req = r /\ p.key = req[r].key /\ s = req[r].server
                   /\ req'[r].pc \in {"waiting", "leaving"} /\ req'[r].ch = Nil
    /\ req'[r].ch # Nil => req'[r].pc \in {"waiting", "leaving"}
    /\ req'[r].pc = "leaving" => req'[r].result \in {"timeout", "closed"}
    /\ \/ req'[r].ch \in {"ok", "error"}
       \/ req'[r].pc = "reading"
       \/ req'[r].pc = "done" /\ req'[r].result \in {"ok", "error"}
       => OwnApplied(r)
    /\ req'[r].pc = "waiting" /\ req'[r].ch = Nil =>
          /\ [key |-> req[r].key, req |-> r] \in pending'[req[r].server]
          /\ Notified(r) => Evictable(r)
    /\ req'[r].pc = "done" /\ req'[r].result = "ok" =>
          \E n \in 0..committed :
              /\ req'[r].at = n /\ n > req[r].before /\ n <= applied[req[r].server]
              /\ Kind[r] = "get" => req'[r].value = ValueAfter(n, refused[req[r].server])

(* A step of one call that answers nobody else keeps ServerInv.            *)
LEMMA CallMovesKeep ==
  ASSUME ServerInv, NEW r \in Request, CallMoves(r)
  PROVE  ServerInv'
<1>i. StateTypes /\ CommitInv /\ KeyInv /\ AnswerInv /\ NotesInv /\ WaiterInv /\ OrderInv
  BY DEF ServerInv
<1>u. /\ UNCHANGED <<term, leader, committed, log, leads, commitIndex>> /\ UNCHANGED raftVars
      /\ UNCHANGED <<loop, applied, store, refused, completionQ, closing>>
  BY DEF CallMoves, raftVars, loopVars
<1>q. /\ req' \in [Request -> Call] /\ \A q \in Request \ {r} : req'[q] = req[q]
      /\ SameCall(r) /\ InProgress(r) /\ req'[r].pc \in {"waiting", "leaving", "reading", "done"}
  BY DEF CallMoves
<1>p. /\ pending' \in [Server -> SUBSET [key : PendingKey, req : Request]]
      /\ completed' \in [Server -> SUBSET [key : PendingKey, err : {"ok", "error"}]]
      /\ \A s \in Server : /\ completed'[s] \subseteq completed[s]
                           /\ \A c \in completed[s] : c \in completed'[s] \/ c.key = req[r].key
      /\ \A s \in Server : \A p \in pending[s] : p.req # r => p \in pending'[s]
  BY DEF CallMoves
<1>1. StateTypes'
  BY <1>i, <1>u, <1>q, <1>p DEF StateTypes
<1>2. CommitInv'
  BY <1>i, <1>u DEF CommitInv
<1>s. \A q \in Request : SameCall(q)
  BY <1>q DEF SameCall
<1>3. KeyInv'
  <2>1. Quiet
    BY <1>u, <1>q, <1>s DEF Quiet, InProgress
  <2> QED
    BY <1>i, <2>1, QuietKeys
<1>n. committed \in Nat /\ \A s \in Server : applied[s] \in Nat
  BY <1>i, NumberTypes
<1>o. Onward
  <2>1. committed <= committed' /\ \A t \in Server : applied[t] <= applied'[t]
    BY <1>u, <1>n, SMTT(30)
  <2> QED
    BY <1>u, <2>1 DEF Onward
<1>c. \A q \in Request : (HasKey(q)' <=> HasKey(q)) /\ (OwnApplied(q)' <=> OwnApplied(q))
  BY <1>i, <1>1, <1>o, <1>u, <1>s, OwnAppliedSame DEF SameCall, HasKey
<1>4. AnswerInv'
  <2>1. \A s \in Server : \A c \in completed'[s] :
            c.key.index <= applied'[s] /\ log'[leader'][c.key.index].term = c.key.term
    <3>1. \A s \in Server : \A c \in completed[s] :
              c.key.index <= applied[s] /\ log[leader][c.key.index].term = c.key.term
      BY <1>i DEF AnswerInv
    <3> QED
      BY <1>u, <1>p, <3>1
  <2>2. ASSUME NEW s \in Server, NEW p \in pending'[s]
        PROVE  /\ req'[p.req].pc \in {"waiting", "leaving"} /\ req'[p.req].ch = Nil
               /\ req'[p.req].server = s /\ req'[p.req].key = p.key
    <3>1. CASE p \in pending[s] /\ p.req # r
      <4>1. p.req \in Request \ {r}
        BY <1>i, <3>1, PendingFacts
      <4> QED
        BY <1>i, <1>q, <3>1, <4>1, PendingFacts, SMTT(30)
    <3>2. CASE /\ p.req = r /\ p.key = req[r].key /\ s = req[r].server
               /\ req'[r].pc \in {"waiting", "leaving"} /\ req'[r].ch = Nil
      BY <1>q, <3>2 DEF SameCall
    <3> QED
      BY <3>1, <3>2 DEF CallMoves
  <2>3. ASSUME NEW q \in Request
        PROVE  /\ req'[q].ch # Nil => req'[q].pc \in {"waiting", "leaving"}
               /\ req'[q].pc = "leaving" => req'[q].result \in {"timeout", "closed"}
               /\ \/ req'[q].ch \in {"ok", "error"}
                  \/ req'[q].pc = "reading"
                  \/ req'[q].pc = "done" /\ req'[q].result \in {"ok", "error"}
                  => OwnApplied(q)'
    <3>1. CASE q = r
      BY <1>c, <3>1 DEF CallMoves
    <3>2. CASE q # r
      BY <1>i, <1>q, <1>c, <3>2, AnswerFacts DEF AnswerIsFair
    <3> QED
      BY <3>1, <3>2
  <2> QED
    BY <2>1, <2>2, <2>3 DEF AnswerInv
<1>5. NotesInv'
  BY <1>i, <1>u, <1>p DEF NotesInv
<1>6. WaiterInv'
  <2>1. \A q \in Request : (Notified(q)' <=> Notified(q)) /\ (Evictable(q)' <=> Evictable(q))
    BY <1>c, <1>u, <1>s DEF Notified, Evictable, SameCall
  <2>2. ASSUME NEW q \in Request, req'[q].pc = "submitted", Notified(q)', ~Evictable(q)'
        PROVE  \E c \in completed'[req'[q].server] : c.key = req'[q].key
    <3>1. q # r /\ req'[q] = req[q]
      BY <1>q, <2>2
    <3>2. PICK c \in completed[req[q].server] : c.key = req[q].key
      BY <1>i, <2>1, <2>2, <3>1 DEF WaiterInv
    <3>3. HasKey(q) /\ req[q].server \in Server
      BY <2>1, <2>2 DEF Notified, OwnApplied
    <3>4. HasKey(r) /\ req[q].key # req[r].key
      BY <1>i, <1>q, <3>1 DEF KeyInv
    <3> QED
      BY <1>p, <3>1, <3>2, <3>3, <3>4
  <2>3. ASSUME NEW q \in Request, req'[q].pc = "waiting", req'[q].ch = Nil
        PROVE  /\ [key |-> req'[q].key, req |-> q] \in pending'[req'[q].server]
               /\ Notified(q)' => Evictable(q)'
    <3>1. CASE q = r
      BY <1>q, <2>1, <2>3, <3>1 DEF CallMoves, SameCall
    <3>2. CASE q # r
      <4>1. /\ [key |-> req[q].key, req |-> q] \in pending[req[q].server]
            /\ Notified(q) => Evictable(q)
        BY <1>i, <1>q, <2>3, <3>2 DEF WaiterInv
      <4>2. req[q].server \in Server
        BY <1>i, <1>q, <2>3, <3>2 DEF KeyInv, InProgress
      <4> QED
        BY <1>p, <1>q, <2>1, <3>2, <4>1, <4>2
    <3> QED
      BY <3>1, <3>2
  <2> QED
    BY <2>2, <2>3 DEF WaiterInv
<1>7. OrderInv'
  <2>0. ASSUME NEW n \in 0..committed, NEW D PROVE ValueAfter(n, D)' = ValueAfter(n, D)
    <3>1. n <= committed' /\ \A k \in 1..committed : log'[leader'][k] = log[leader][k]
      BY <1>n, <1>u, SMTT(30)
    <3> QED
      BY <1>i, <1>1, <1>2, <3>1, ValueStays
  <2>1. ASSUME NEW t \in Server, StoreIsOpen(t)' PROVE store'[t] = ValueAfter(applied[t], refused[t])'
    <3>1. store[t] = ValueAfter(applied[t], refused[t])
      BY <1>i, <1>u, <2>1 DEF OrderInv, StoreIsOpen
    <3>2. applied[t] \in 0..committed
      BY <1>i, <1>n, NumberTypes, SMTT(30) DEF CommitInv
    <3> QED
      BY <1>u, <3>1, <3>2, <2>0
  <2>2. \A q \in Request : HasKey(q)' =>
            /\ req'[q].before <= committed'
            /\ req'[q].key.index <= req'[q].before => log'[leader'][req'[q].key.index].req # q
    BY <1>i, <1>u, <1>c, <1>s DEF OrderInv, SameCall
  <2>3. ASSUME NEW q \in Succeeded' PROVE Placed(q)' /\ InOrder(q)'
    <3>1. CASE q # r
      <4>1. q \in Succeeded /\ req'[q] = req[q]
        BY <1>q, <3>1 DEF Succeeded
      <4> QED
        BY <1>i, <1>1, <1>2, <1>o, <4>1, InOrderStays
    <3>2. CASE q = r
      <4>1. PICK n \in 0..committed :
                /\ req'[r].at = n /\ n > req[r].before /\ n <= applied[req[r].server]
                /\ Kind[r] = "get" => req'[r].value = ValueAfter(n, refused[req[r].server])
        BY <3>2 DEF CallMoves, Succeeded
      <4>s. req'[r].server = req[r].server /\ req[r].server \in Server
        BY <1>i, <1>q, <1>s DEF SameCall, KeyInv
      <4>p. Placed(r)'
        BY <1>u, <4>1, <4>s DEF Placed
      <4>2. req'[r].before = req[r].before /\ req[r].before \in Nat
        BY <1>i, <1>s, CallTypes DEF SameCall, Call
      <4>0. n \in Nat /\ n <= committed
        BY <1>n, SMTT(30)
      <4>3. n >= req[r].before /\ n <= committed
        BY <4>0, <4>1, <4>2, SMTT(30)
      <4> QED
        BY <1>u, <2>0, <3>2, <4>1, <4>2, <4>3, <4>s, <4>p DEF InOrder
    <3> QED
      BY <3>1, <3>2
  <2>4. ReadsAreInOrder'
    BY <2>3 DEF ReadsAreInOrder, InLogOrder, InOrder
  <2>5. \A q \in Request : InProgress(q)' => StoreIsOpen(req[q].server)'
    BY <1>i, <1>u, <1>q, <1>s DEF OrderInv, InProgress, StoreIsOpen, SameCall
  <2>6. \A t \in Server : \A m \in refused'[t] : m <= applied'[t]
    BY <1>i, <1>u DEF OrderInv
  <2> QED
    BY <2>1, <2>2, <2>3, <2>4, <2>5, <2>6 DEF OrderInv, Placed
<1> QED
  BY <1>1, <1>2, <1>3, <1>4, <1>5, <1>6, <1>7 DEF ServerInv

(* A call whose entry is applied has its place after all it must follow.   *)
LEMMA OwnPlace ==
  ASSUME ServerInv, NEW r \in Request, OwnApplied(r)
  PROVE  /\ req[r].server \in Server /\ req[r].before \in Nat
         /\ req[r].key.index \in 0..committed /\ applied[req[r].server] \in 0..committed
         /\ req[r].key.index > req[r].before /\ applied[req[r].server] > req[r].before
<1>i. StateTypes /\ CommitInv /\ OrderInv
  BY DEF ServerInv
<1> DEFINE s == req[r].server
           k == req[r].key.index
<1>1. HasKey(r) /\ s \in Server /\ k <= applied[s] /\ log[leader][k].req = r
  BY DEF OwnApplied
<1>2. k \in Nat \ {0} /\ req[r].before \in Nat
  BY <1>i, <1>1, CallTypes DEF Call
<1>3. applied[s] \in Nat /\ committed \in Nat /\ applied[s] <= committed
  BY <1>i, <1>1, AppliedFacts
<1>4. ~(k <= req[r].before)
  BY <1>i, <1>1, OrderFacts
<1> HIDE DEF s, k
<1>5. k \in 0..committed /\ applied[s] \in 0..committed /\ k > req[r].before /\ applied[s] > req[r].before
  BY <1>1, <1>2, <1>3, <1>4, SMTT(30)
<1> QED
  BY <1>1, <1>2, <1>5 DEF s, k

(* A call goes with the answer of its own entry, or as its server closes.  *)
LEMMA AnsweredMoves ==
  ASSUME ServerInv, NEW r \in Request, InProgress(r), NEW a \in {"ok", "error", "closed"},
         req' = Answered(r, a), a \in {"ok", "error"} => OwnApplied(r),
         \A s \in Server : \A p \in pending[s] : p.req # r,
         UNCHANGED <<raftVars, loopVars, completionQ, closing, pending>>,
         completed' \in [Server -> SUBSET [key : PendingKey, err : {"ok", "error"}]],
         \A s \in Server : /\ completed'[s] \subseteq completed[s]
                           /\ \A c \in completed[s] : c \in completed'[s] \/ c.key = req[r].key
  PROVE  CallMoves(r)
<1>1. StateTypes /\ KeyInv
  BY DEF ServerInv
<1>2. /\ req \in [Request -> Call] /\ req[r] \in Call /\ req[r].key.index \in Nat
      /\ pending \in [Server -> SUBSET [key : PendingKey, req : Request]]
  BY <1>1, CallTypes DEF StateTypes, KeyInv
<1>3. CASE a = "ok" /\ Kind[r] = "get"
  <2>1. req' = [req EXCEPT ![r].pc = "reading", ![r].ch = Nil]
    BY <1>3 DEF Answered
  <2>2. req'[r] = [req[r] EXCEPT !.pc = "reading", !.ch = Nil]
    BY <1>2, <2>1
  <2>3. req'[r] \in Call
    BY <1>2, <2>2 DEF Call
  <2>4. req' \in [Request -> Call] /\ \A q \in Request \ {r} : req'[q] = req[q]
    BY <1>2, <2>1, <2>3
  <2>5. SameCall(r) /\ req'[r].pc = "reading" /\ req'[r].ch = Nil
    BY <1>2, <2>2 DEF SameCall, Call
  <2> QED
    BY <1>2, <1>3, <2>4, <2>5, RequestAssumption DEF CallMoves
<1>4. CASE ~(a = "ok" /\ Kind[r] = "get")
  <2>1. req' = [req EXCEPT ![r].pc = "done", ![r].ch = Nil, ![r].result = a, ![r].at = req[r].key.index]
    BY <1>4 DEF Answered
  <2>2. req'[r] = [req[r] EXCEPT !.pc = "done", !.ch = Nil, !.result = a, !.at = req[r].key.index]
    BY <1>2, <2>1
  <2>3. req'[r] \in Call
    BY <1>2, <2>2 DEF Call
  <2>4. req' \in [Request -> Call] /\ \A q \in Request \ {r} : req'[q] = req[q]
    BY <1>2, <2>1, <2>3
  <2>5. /\ SameCall(r) /\ req'[r].pc = "done" /\ req'[r].ch = Nil
        /\ req'[r].result = a /\ req'[r].at = req[r].key.index
    BY <1>2, <2>2 DEF SameCall, Call
  <2>6. a = "ok" => /\ Kind[r] # "get"
                    /\ \E n \in 0..committed : /\ req'[r].at = n /\ n > req[r].before
                                               /\ n <= applied[req[r].server]
    BY <1>4, <2>5, OwnPlace DEF OwnApplied
  <2> QED
    BY <1>2, <2>4, <2>5, <2>6, RequestAssumption DEF CallMoves
<1> QED
  BY <1>3, <1>4

(* Registration: a note is of the call's own entry, and a call that finds  *)
(* none is registered before the loop looks for it.                        *)
LEMMA RegisterKeeps ==
  ASSUME ServerInv, NEW r \in Request, Register(r)
  PROVE  ServerInv'
<1>i. StateTypes /\ CommitInv /\ KeyInv /\ AnswerInv /\ NotesInv /\ WaiterInv /\ OrderInv
  BY DEF ServerInv
<1> DEFINE s == req[r].server
           notes == {c \in completed[s] : c.key = req[r].key}
           others == {p \in pending[s] : p.key # req[r].key}
<1>u. UNCHANGED <<raftVars, loopVars, completionQ, closing>> /\ req[r].pc = "submitted"
  BY DEF Register
<1>r. InProgress(r) /\ HasKey(r) /\ s \in Server
  BY <1>i, <1>u DEF KeyInv, InProgress
<1>t. /\ req \in [Request -> Call] /\ req[r] \in Call /\ req[r].key \in PendingKey
      /\ pending \in [Server -> SUBSET [key : PendingKey, req : Request]]
      /\ completed \in [Server -> SUBSET [key : PendingKey, err : {"ok", "error"}]]
  BY <1>i, <1>r, CallTypes DEF StateTypes
<1>p. \A t \in Server : \A p \in pending[t] : p.req # r
  BY <1>i, <1>u DEF AnswerInv
<1>1. CASE req' = Answered(r, "closed") /\ UNCHANGED <<pending, completed>>
  <2>1. CallMoves(r)
    BY <1>1, <1>u, <1>r, <1>t, <1>p, AnsweredMoves
  <2> QED
    BY <2>1, CallMovesKeep
<1>2. CASE /\ \E c \in notes : req' = Answered(r, c.err)
           /\ completed' = [completed EXCEPT ![s] = @ \ notes]
           /\ UNCHANGED pending
  <2>1. PICK c \in notes : req' = Answered(r, c.err)
    BY <1>2
  <2>2. c \in completed[s] /\ c.key = req[r].key /\ c.err \in {"ok", "error"}
    BY <1>t, <1>r, SMTT(30)
  <2>3. c.key.index <= applied[s] /\ log[leader][c.key.index].term = c.key.term
    BY <1>i, <1>r, <2>2 DEF AnswerInv
  <2>4. req[r].key.index <= committed
    <3>1. /\ applied[s] \in Nat /\ commitIndex[s] \in Nat /\ committed \in Nat
          /\ applied[s] <= commitIndex[s] /\ commitIndex[s] <= committed /\ req[r].key.index \in Nat
      BY <1>i, <1>r, NumberTypes, CallTypes DEF CommitInv
    <3> QED
      BY <2>2, <2>3, <3>1, SMTT(30)
  <2>5. OwnApplied(r)
    BY <1>i, <1>r, <2>2, <2>3, <2>4, KeyNamesCall DEF OwnApplied
  <2>6. completed' \in [Server -> SUBSET [key : PendingKey, err : {"ok", "error"}]]
    BY <1>2, <1>t, <1>r
  <2>7. \A t \in Server : /\ completed'[t] \subseteq completed[t]
                          /\ \A d \in completed[t] : d \in completed'[t] \/ d.key = req[r].key
    BY <1>2, <1>t, <1>r
  <2>8. CallMoves(r)
    BY <1>2, <1>u, <1>r, <1>p, <2>1, <2>2, <2>5, <2>6, <2>7, AnsweredMoves
  <2> QED
    BY <2>8, CallMovesKeep
<1>3. CASE /\ notes = {}
           /\ pending' = [pending EXCEPT ![s] = others \cup {[key |-> req[r].key, req |-> r]}]
           /\ req' = [req EXCEPT ![r].pc = "waiting"]
           /\ UNCHANGED completed
  <2>1. others = pending[s]
    <3>1. ASSUME NEW p \in pending[s] PROVE p.key # req[r].key
      <4>1. p.req \in Request /\ req[p.req].key = p.key /\ p.req # r
        BY <1>i, <1>t, <1>r, <1>p, SMTT(30) DEF AnswerInv
      <4> QED
        BY <1>i, <1>r, <4>1 DEF KeyInv
    <3> QED
      BY <3>1
  <2>2. req'[r] = [req[r] EXCEPT !.pc = "waiting"] /\ \A q \in Request \ {r} : req'[q] = req[q]
    BY <1>3, <1>t
  <2>3. req'[r] \in Call
    BY <1>t, <2>2 DEF Call
  <2>4. req' \in [Request -> Call]
    BY <1>3, <1>t, <2>3
  <2>5. SameCall(r) /\ req'[r].pc = "waiting" /\ req'[r].ch = req[r].ch
    BY <1>t, <2>2 DEF SameCall, Call
  <2>6. req[r].ch = Nil
    BY <1>i, <1>u DEF AnswerInv
  <2> DEFINE w == [key |-> req[r].key, req |-> r]
  <2>7. /\ w \in [key : PendingKey, req : Request] /\ w.req = r /\ w.key = req[r].key
        /\ pending'[s] = pending[s] \cup {w} /\ \A t \in Server \ {s} : pending'[t] = pending[t]
        /\ pending' = [pending EXCEPT ![s] = pending[s] \cup {w}]
    BY <1>3, <1>t, <1>r, <2>1
  <2> HIDE DEF w
  <2>8. pending' \in [Server -> SUBSET [key : PendingKey, req : Request]]
    BY <1>t, <1>r, <2>7
  <2>9. Notified(r) => Evictable(r)
    <3>1. ~\E c \in completed[s] : c.key = req[r].key
      BY <1>3
    <3> QED
      BY <1>i, <1>u, <3>1 DEF WaiterInv
  <2>10. \A t \in Server :
            /\ \A p \in pending[t] : p.req # r => p \in pending'[t]
            /\ \A p \in pending'[t] : \/ p \in pending[t] /\ p.req # r
                                      \/ p.req = r /\ p.key = req[r].key /\ t = s
    BY <1>p, <1>r, <2>7
  <2>11. w = [key |-> req[r].key, req |-> r] /\ w \in pending'[s]
    BY <2>7 DEF w
  <2>12. CallMoves(r)
    BY <1>3, <1>u, <1>r, <1>t, <2>2, <2>4, <2>5, <2>6, <2>8, <2>9, <2>10, <2>11, RequestAssumption
       DEF CallMoves
  <2> QED
    BY <2>12, CallMovesKeep
<1> QED
  BY <1>1, <1>2, <1>3 DEF Register

(* A call takes the answer on its channel, gives up, leaves, or reads.     *)
LEMMA TakeAnswerKeeps ==
  ASSUME ServerInv, NEW r \in Request, TakeAnswer(r)
  PROVE  ServerInv'
<1>i. StateTypes /\ AnswerInv
  BY DEF ServerInv
<1>1. /\ req[r].pc = "waiting" /\ req[r].ch # Nil /\ req' = Answered(r, req[r].ch)
      /\ UNCHANGED <<raftVars, loopVars, completionQ, closing, pending, completed>>
  BY DEF TakeAnswer, noteVars
<1>2. InProgress(r) /\ req[r].ch \in {"ok", "error", "closed"}
  BY <1>i, <1>1, CallTypes DEF InProgress, Call
<1>3. req[r].ch \in {"ok", "error"} => OwnApplied(r)
  BY <1>i DEF AnswerInv
<1>4. \A s \in Server : \A p \in pending[s] : p.req # r
  BY <1>i, <1>1, SMTT(30) DEF AnswerInv
<1>5. completed \in [Server -> SUBSET [key : PendingKey, err : {"ok", "error"}]]
  BY <1>i DEF StateTypes
<1>6. CallMoves(r)
  BY <1>1, <1>2, <1>3, <1>4, <1>5, AnsweredMoves
<1> QED
  BY <1>6, CallMovesKeep

(* A call that times out, or finds the server closed, keeps ServerInv.     *)
LEMMA GiveUpKeeps ==
  ASSUME ServerInv, NEW r \in Request, TimeOut(r) \/ SeeClosed(r)
  PROVE  ServerInv'
<1>i. StateTypes /\ AnswerInv /\ KeyInv
  BY DEF ServerInv
<1>1. PICK a \in {"timeout", "closed"} : req' = [req EXCEPT ![r].pc = "leaving", ![r].result = a]
  BY DEF TimeOut, SeeClosed
<1>2. /\ req[r].pc = "waiting"
      /\ UNCHANGED <<raftVars, loopVars, completionQ, closing, pending, completed>>
  BY DEF TimeOut, SeeClosed, noteVars
<1>3. /\ req \in [Request -> Call] /\ req[r] \in Call
      /\ pending \in [Server -> SUBSET [key : PendingKey, req : Request]]
      /\ completed \in [Server -> SUBSET [key : PendingKey, err : {"ok", "error"}]]
  BY <1>i, CallTypes DEF StateTypes
<1>4. req'[r] = [req[r] EXCEPT !.pc = "leaving", !.result = a]
  BY <1>1, <1>3
<1>5. req'[r] \in Call
  BY <1>3, <1>4 DEF Call
<1>6. req' \in [Request -> Call] /\ \A q \in Request \ {r} : req'[q] = req[q]
  BY <1>1, <1>3, <1>5
<1>7. /\ SameCall(r) /\ InProgress(r) /\ req'[r].pc = "leaving" /\ req'[r].result = a
      /\ req'[r].ch = req[r].ch
  BY <1>2, <1>3, <1>4 DEF SameCall, InProgress, Call
<1>8. \A s \in Server : \A p \in pending[s] :
         p.req = r => p.key = req[r].key /\ s = req[r].server /\ req[r].ch = Nil
  BY <1>i, SMTT(30) DEF AnswerInv
<1>9. req[r].ch \in {"ok", "error"} => OwnApplied(r)
  BY <1>i DEF AnswerInv
<1>10. CallMoves(r)
  BY <1>2, <1>3, <1>6, <1>7, <1>8, <1>9 DEF CallMoves
<1> QED
  BY <1>10, CallMovesKeep

(* Only the call's own waiter goes: keys are unique.                       *)
LEMMA LeaveKeeps ==
  ASSUME ServerInv, NEW r \in Request, Leave(r)
  PROVE  ServerInv'
<1>i. StateTypes /\ AnswerInv /\ KeyInv
  BY DEF ServerInv
<1> DEFINE s == req[r].server
<1>1. /\ req[r].pc = "leaving"
      /\ pending' = [pending EXCEPT ![s] = {p \in @ : p.key # req[r].key}]
      /\ req' = [req EXCEPT ![r].pc = "done", ![r].ch = Nil]
      /\ UNCHANGED <<raftVars, loopVars, completionQ, closing, completed>>
  BY DEF Leave
<1>2. /\ req \in [Request -> Call] /\ req[r] \in Call
      /\ pending \in [Server -> SUBSET [key : PendingKey, req : Request]]
      /\ completed \in [Server -> SUBSET [key : PendingKey, err : {"ok", "error"}]]
  BY <1>i, CallTypes DEF StateTypes
<1>3. InProgress(r) /\ HasKey(r) /\ s \in Server /\ req[r].result \in {"timeout", "closed"}
  BY <1>i, <1>1 DEF KeyInv, InProgress, AnswerInv
<1>4. req'[r] = [req[r] EXCEPT !.pc = "done", !.ch = Nil]
  BY <1>1, <1>2
<1>5. req'[r] \in Call
  BY <1>2, <1>4 DEF Call
<1>6. req' \in [Request -> Call] /\ \A q \in Request \ {r} : req'[q] = req[q]
  BY <1>1, <1>2, <1>5
<1>7. SameCall(r) /\ req'[r].pc = "done" /\ req'[r].result = req[r].result /\ req'[r].ch = Nil
  BY <1>2, <1>4 DEF SameCall, Call
<1>8. /\ pending' \in [Server -> SUBSET [key : PendingKey, req : Request]]
      /\ pending'[s] = {p \in pending[s] : p.key # req[r].key}
      /\ \A t \in Server \ {s} : pending'[t] = pending[t]
  BY <1>1, <1>2, <1>3
<1>9. ASSUME NEW t \in Server, NEW p \in pending[t]
      PROVE  p.req # r => p \in pending'[t]
  <2>1. p.req \in Request /\ req[p.req].key = p.key
    BY <1>i, <1>2, SMTT(30) DEF AnswerInv
  <2>2. p.req # r => p.key # req[r].key
    BY <1>i, <1>3, <2>1 DEF KeyInv
  <2> QED
    BY <1>8, <2>2
<1>10. ASSUME NEW t \in Server, NEW p \in pending'[t]
       PROVE  p \in pending[t] /\ p.req # r
  <2>1. p \in pending[t] /\ (t = s => p.key # req[r].key)
    BY <1>8
  <2>2. p.req = r => t = s /\ p.key = req[r].key
    BY <1>i, <2>1, SMTT(30) DEF AnswerInv
  <2> QED
    BY <2>1, <2>2
<1>11. CallMoves(r)
  BY <1>1, <1>2, <1>3, <1>6, <1>7, <1>8, <1>9, <1>10, RequestAssumption DEF CallMoves
<1> QED
  BY <1>11, CallMovesKeep

(* The read sees all that is applied, its own barrier included, or fails.  *)
LEMMA GetKeeps ==
  ASSUME ServerInv, NEW r \in Request, Get(r)
  PROVE  ServerInv'
<1>i. StateTypes /\ CommitInv /\ AnswerInv /\ KeyInv /\ OrderInv
  BY DEF ServerInv
<1> DEFINE s == req[r].server
<1>1. PICK out \in {"ok", "error"}, v \in {store[s], req[r].value}, n \in {applied[s], req[r].at} :
          /\ req' = [req EXCEPT ![r] = [req[r] EXCEPT !.pc = "done", !.result = out,
                                                      !.value = v, !.at = n]]
          /\ out = "ok" => v = store[s] /\ n = applied[s]
  <2>t. req \in [Request -> Call] /\ req[r] \in Call
    BY <1>i, CallTypes DEF StateTypes
  <2>1. CASE req' = [req EXCEPT ![r].pc = "done", ![r].result = "ok",
                                ![r].value = store[s], ![r].at = applied[s]]
    BY <2>1
  <2>2. CASE req' = [req EXCEPT ![r].pc = "done", ![r].result = "error"]
    <3>1. [req[r] EXCEPT !.pc = "done", !.result = "error"]
            = [req[r] EXCEPT !.pc = "done", !.result = "error", !.value = req[r].value, !.at = req[r].at]
      BY <2>t DEF Call
    <3>2. req' = [req EXCEPT ![r] = [req[r] EXCEPT !.pc = "done", !.result = "error"]]
      BY <2>2
    <3> QED
      BY <3>1, <3>2
  <2> QED
    BY <2>1, <2>2 DEF Get
<1>u. req[r].pc = "reading" /\ UNCHANGED <<raftVars, loopVars, completionQ, closing, pending, completed>>
  BY DEF Get, noteVars
<1>2. InProgress(r) /\ OwnApplied(r) /\ req[r].ch = Nil /\ StoreIsOpen(s)
  BY <1>i, <1>u DEF AnswerInv, InProgress, OrderInv
<1>3. s \in Server /\ applied[s] \in 0..committed /\ applied[s] > req[r].before
  BY <1>2, OwnPlace
<1>4. store[s] = ValueAfter(applied[s], refused[s])
  BY <1>i, <1>2, <1>3 DEF OrderInv
<1>5. /\ req \in [Request -> Call] /\ req[r] \in Call
      /\ pending \in [Server -> SUBSET [key : PendingKey, req : Request]]
      /\ completed \in [Server -> SUBSET [key : PendingKey, err : {"ok", "error"}]]
      /\ store[s] \in {Nil} \cup Request /\ applied[s] \in Nat
  BY <1>i, <1>3, CallTypes DEF StateTypes
<1>v. v \in {Nil} \cup Request /\ n \in Nat
  BY <1>5 DEF Call
<1>6. req'[r] = [req[r] EXCEPT !.pc = "done", !.result = out, !.value = v, !.at = n]
  BY <1>1, <1>5
<1>7. req'[r] \in Call
  BY <1>5, <1>6, <1>v DEF Call
<1>8. req' \in [Request -> Call] /\ \A q \in Request \ {r} : req'[q] = req[q]
  BY <1>1, <1>5, <1>7
<1>9. /\ SameCall(r) /\ req'[r].pc = "done" /\ req'[r].ch = Nil
      /\ req'[r].result = out /\ req'[r].value = v /\ req'[r].at = n
  BY <1>2, <1>5, <1>6 DEF SameCall, Call
<1>10. \A t \in Server : \A p \in pending[t] : p.req # r
  BY <1>i, <1>u DEF AnswerInv
<1>a. applied[s] <= applied[s]
  BY <1>5, SMTT(30)
<1>11. out = "ok" => \E m \in 0..committed : /\ req'[r].at = m /\ m > req[r].before /\ m <= applied[s]
                                             /\ req'[r].value = ValueAfter(m, refused[s])
  BY <1>1, <1>3, <1>4, <1>9, <1>a
<1>12. CallMoves(r)
  BY <1>u, <1>2, <1>5, <1>8, <1>9, <1>10, <1>11, RequestAssumption, SMTT(30) DEF CallMoves
<1> QED
  BY <1>12, CallMovesKeep
-----------------------------------------------------------------------------
(* One more committed entry: its write, or nothing.                        *)
LEMMA ValueStep ==
  ASSUME StateTypes, CommitInv, NEW n \in Nat, n + 1 <= committed, NEW D
  PROVE  /\ Writes(n + 1, D) => ValueAfter(n + 1, D) = Written(n + 1)
         /\ ~Writes(n + 1, D) => ValueAfter(n + 1, D) = ValueAfter(n, D)
<1>0. committed \in Nat /\ n \in 0..committed /\ n + 1 \in 0..committed /\ n + 1 \in 1..(n + 1)
  BY NumberTypes, SMTT(30)
<1>1. \A i \in {n, n + 1} :
        /\ (\A m \in 1..i : ~LastPut(m, i, D)) => ValueAfter(i, D) = Nil
        /\ \A m \in 1..i : LastPut(m, i, D) => ValueAfter(i, D) = log[leader][m].req
  BY <1>0, ValueIsLastWrite DEF ValuesAreWritten
<1>2. \A k : k \in 1..(n + 1) <=> k \in 1..n \/ k = n + 1
  BY SMTT(30)
<1>3. \A m \in 1..n : n + 1 \in (m + 1)..(n + 1)
  BY SMTT(30)
<1>4. \A m \in 1..n : \A k : k \in (m + 1)..(n + 1) <=> k \in (m + 1)..n \/ k = n + 1
  BY SMTT(30)
<1>5. \A k : k \notin ((n + 1) + 1)..(n + 1)
  BY SMTT(30)
<1>6. ASSUME Writes(n + 1, D) PROVE ValueAfter(n + 1, D) = Written(n + 1)
  <2>1. \A m \in 1..n : ~LastPut(m, n + 1, D)
    BY <1>3, <1>6 DEF LastPut
  <2>2. LastPut(n + 1, n + 1, D) <=> Kind[log[leader][n + 1].req] = "put"
    BY <1>5, <1>6 DEF LastPut
  <2>3. Kind[log[leader][n + 1].req] \in {"put", "delete"}
    BY <1>6 DEF Writes, IsWrite
  <2>4. CASE Kind[log[leader][n + 1].req] = "put"
    BY <1>0, <1>1, <2>2, <2>4 DEF Written
  <2>5. CASE Kind[log[leader][n + 1].req] = "delete"
    BY <1>1, <1>2, <2>1, <2>2, <2>5 DEF Written
  <2> QED
    BY <2>3, <2>4, <2>5
<1>7. ASSUME ~Writes(n + 1, D) PROVE ValueAfter(n + 1, D) = ValueAfter(n, D)
  <2>1. \A m \in 1..n : LastPut(m, n + 1, D) <=> LastPut(m, n, D)
    BY <1>4, <1>7 DEF LastPut
  <2>2. ~LastPut(n + 1, n + 1, D)
    BY <1>7 DEF LastPut
  <2> QED
    BY <1>1, <1>2, <2>1, <2>2, SMTT(30)
<1> QED
  BY <1>6, <1>7

(* The loop applies the next committed entry to the store, which may       *)
(* refuse it, and is not done with it before it has notified.              *)
LEMMA ApplyStoreKeeps ==
  ASSUME ServerInv, NEW s \in Server, ApplyStore(s)
  PROVE  ServerInv'
<1>i. StateTypes /\ CommitInv /\ KeyInv /\ AnswerInv /\ NotesInv /\ WaiterInv /\ OrderInv
  BY DEF ServerInv
<1> DEFINE n == applied[s]
           r == CommittedEntries[n + 1].req
<1>t. /\ n \in Nat /\ commitIndex[s] \in Nat /\ committed \in Nat /\ commitIndex[s] <= committed
      /\ \A t \in Server : applied[t] \in Nat
      /\ applied \in [Server -> Nat] /\ store \in [Server -> {Nil} \cup Request]
      /\ refused \in [Server -> SUBSET Nat]
      /\ loop \in [Server -> [pc : {"select", "notify", "exited"}, err : {Nil, "ok", "error"}]]
  BY <1>i DEF StateTypes, CommitInv
<1>a. /\ loop[s].pc = "select" /\ n < commitIndex[s]
      /\ applied' = [applied EXCEPT ![s] = n + 1]
  BY DEF ApplyStore
<1>u. /\ UNCHANGED <<term, leader, committed, log, leads, commitIndex>> /\ UNCHANGED raftVars
      /\ UNCHANGED <<pending, completed, completionQ, closing, req>>
  BY DEF ApplyStore, raftVars, noteVars
<1>n. n + 1 \in 1..committed /\ n + 1 <= committed /\ n + 1 <= commitIndex[s] /\ n + 1 \in Nat
  BY <1>a, <1>t, SMTT(30)
<1>r. r = log[leader][n + 1].req /\ r \in Request
  <2>1. CommittedEntries[n + 1] = log[leader][n + 1] /\ log[leader][n + 1] \in Entry
    BY <1>i, <1>n, CommittedFacts
  <2> QED
    BY <2>1 DEF Entry
<1>k. Kind[r] \in {"put", "reserved", "delete", "get"}
  BY <1>r, RequestAssumption
<1>b. PICK a \in {"ok", "error"}, w \in {Nil} \cup Request, S \in SUBSET Nat :
          /\ loop' = [loop EXCEPT ![s] = [pc |-> "notify", err |-> a]]
          /\ store' = [store EXCEPT ![s] = w] /\ refused' = [refused EXCEPT ![s] = S]
          /\ \/ /\ S = refused[s]
                /\ StoreIsOpen(s) => w = CASE Kind[r] = "put" -> r
                                           [] Kind[r] = "delete" -> Nil
                                           [] OTHER -> store[s]
             \/ S = refused[s] \cup {n + 1} /\ w = store[s]
  <2> DEFINE rejected == Kind[r] = "reserved" \/ (Kind[r] # "get" /\ ~StoreIsOpen(s))
             new == CASE Kind[r] = "put" -> r [] Kind[r] = "delete" -> Nil [] OTHER -> store[s]
  <2>t. /\ store[s] \in {Nil} \cup Request /\ refused[s] \in SUBSET Nat
        /\ refused[s] \cup {n + 1} \in SUBSET Nat /\ new \in {Nil} \cup Request
        /\ store = [store EXCEPT ![s] = store[s]] /\ refused = [refused EXCEPT ![s] = refused[s]]
    BY <1>t, <1>n, <1>r
  <2>1. CASE /\ loop' = [loop EXCEPT ![s] = [pc |-> "notify", err |-> "ok"]]
             /\ store' = [store EXCEPT ![s] = new] /\ UNCHANGED refused
    <3> HIDE DEF new
    <3> QED
      BY <2>1, <2>t DEF new
  <2>2. CASE /\ rejected /\ loop' = [loop EXCEPT ![s] = [pc |-> "notify", err |-> "error"]]
             /\ UNCHANGED <<store, refused>>
    <3>1. StoreIsOpen(s) => store[s] = new
      BY <2>2
    <3> HIDE DEF new
    <3> QED
      BY <2>2, <2>t, <3>1 DEF new
  <2>3. CASE /\ loop' = [loop EXCEPT ![s] = [pc |-> "notify", err |-> "error"]]
             /\ refused' = [refused EXCEPT ![s] = @ \cup {n + 1}] /\ UNCHANGED store
    BY <2>3, <2>t
  <2> QED
    BY <2>1, <2>2, <2>3 DEF ApplyStore
<1>v. w \in {Nil} \cup Request /\ a \in {"ok", "error"}
  OBVIOUS
<1>w. StoreIsOpen(s) => w = ValueAfter(n + 1, S)
  <2>1. \A D : /\ Writes(n + 1, D) => ValueAfter(n + 1, D) = Written(n + 1)
               /\ ~Writes(n + 1, D) => ValueAfter(n + 1, D) = ValueAfter(n, D)
    BY <1>i, <1>t, <1>n, ValueStep
  <2>2. /\ IsWrite(n + 1) <=> Kind[r] \in {"put", "delete"}
        /\ Written(n + 1) = IF Kind[r] = "delete" THEN Nil ELSE r
    BY <1>r DEF IsWrite, Written
  <2>3. n + 1 \notin refused[s]
    BY <1>i, <1>t, SMTT(30) DEF OrderInv
  <2>4. ASSUME StoreIsOpen(s) PROVE store[s] = ValueAfter(n, refused[s])
    BY <1>i, <2>4 DEF OrderInv
  <2>5. ValueAfter(n, refused[s] \cup {n + 1}) = ValueAfter(n, refused[s])
    BY <1>i, <1>t, <1>n, ValueOfFirst, SMTT(30)
  <2> HIDE DEF r, n
  <2>6. CASE S = refused[s] /\ (StoreIsOpen(s) => w = CASE Kind[r] = "put" -> r
                                                       [] Kind[r] = "delete" -> Nil
                                                       [] OTHER -> store[s])
    <3>1. Writes(n + 1, S) <=> IsWrite(n + 1)
      BY <2>3, <2>6 DEF Writes
    <3> QED
      BY <1>k, <2>1, <2>2, <2>4, <2>6, <3>1
  <2>7. CASE S = refused[s] \cup {n + 1} /\ w = store[s]
    <3>1. ~Writes(n + 1, S)
      BY <2>7 DEF Writes
    <3> QED
      BY <2>1, <2>4, <2>5, <2>7, <3>1
  <2> QED
    BY <1>b, <2>6, <2>7
<1>d. \A m \in 1..n : m \in S <=> m \in refused[s]
  BY <1>b, <1>t, SMTT(30)
<1>f. \A m \in S : m <= n + 1
  <2>1. \A m \in refused[s] : m \in Nat /\ m <= n
    BY <1>i, <1>t DEF OrderInv
  <2> QED
    BY <1>b, <1>t, <2>1, SMTT(30)
<1> HIDE DEF r
<1>1. StateTypes'
  <2>1. applied' \in [Server -> Nat] /\ store' \in [Server -> {Nil} \cup Request]
    BY <1>a, <1>b, <1>t, <1>v, <1>n
  <2>2. loop' \in [Server -> [pc : {"select", "notify", "exited"}, err : {Nil, "ok", "error"}]]
    BY <1>b, <1>t, <1>v
  <2>3. refused' \in [Server -> SUBSET Nat]
    BY <1>b, <1>t
  <2> QED
    BY <1>i, <1>u, <2>1, <2>2, <2>3 DEF StateTypes
<1>x. /\ applied'[s] = n + 1 /\ \A t \in Server \ {s} : applied'[t] = applied[t]
      /\ store'[s] = w /\ \A t \in Server \ {s} : store'[t] = store[t]
      /\ refused'[s] = S /\ \A t \in Server \ {s} : refused'[t] = refused[t]
      /\ loop'[s].pc = "notify" /\ loop'[s].err = a /\ \A t \in Server \ {s} : loop'[t] = loop[t]
  BY <1>a, <1>b, <1>t
<1>2. CommitInv'
  <2>1. a # Nil
    BY <1>v, RequestAssumption
  <2> QED
    BY <1>i, <1>u, <1>t, <1>n, <1>x, <2>1, SMTT(30) DEF CommitInv
<1>s. \A q \in Request : SameCall(q)
  BY <1>u DEF SameCall
<1>3. KeyInv'
  <2>1. Quiet
    BY <1>u, <1>s DEF Quiet, InProgress
  <2> QED
    BY <1>i, <2>1, QuietKeys
<1>o. Onward
  <2>1. committed <= committed' /\ \A t \in Server : applied[t] <= applied'[t]
    BY <1>u, <1>t, <1>x, SMTT(30)
  <2>2. ASSUME NEW t \in Server, NEW k \in 1..applied[t] PROVE k \in refused'[t] <=> k \in refused[t]
    BY <1>d, <1>x
  <2> QED
    BY <1>u, <2>1, <2>2 DEF Onward
<1>c. \A q \in Request : (HasKey(q)' <=> HasKey(q)) /\ (OwnApplied(q) => OwnApplied(q)')
  BY <1>i, <1>1, <1>o, <1>u, <1>s, OwnAppliedStays DEF HasKey
<1>4. AnswerInv'
  <2>1. ASSUME NEW t \in Server, NEW c \in completed[t] PROVE c.key.index <= applied'[t]
    <3>1. c.key.index <= applied[t] /\ c.key.index \in Nat
      BY <1>i, SMTT(30) DEF AnswerInv, StateTypes, PendingKey
    <3> QED
      BY <1>t, <1>x, <3>1, SMTT(30)
  <2> QED
    BY <1>i, <1>u, <1>c, <2>1, SMTT(30) DEF AnswerInv
<1>5. NotesInv'
  <2>1. \A t \in Server : (IF loop'[t].pc = "notify" THEN applied'[t] - 1 ELSE applied'[t])
                        = (IF loop[t].pc = "notify" THEN applied[t] - 1 ELSE applied[t])
    BY <1>a, <1>t, <1>x, SMTT(30)
  <2> QED
    BY <1>i, <1>u, <2>1, SMTT(30) DEF NotesInv
<1>6. WaiterInv'
  <2>1. ASSUME NEW q \in Request, Notified(q)' PROVE Notified(q)
    <3> DEFINE t == req[q].server
               k == req[q].key.index
    <3>1. /\ HasKey(q) /\ t \in Server /\ k <= applied'[t] /\ log[leader][k].req = q
          /\ k = applied'[t] => loop'[t].pc # "notify"
      BY <1>u, <2>1 DEF Notified, OwnApplied, HasKey
    <3>2. k \in Nat
      BY <1>i, <3>1, CallTypes
    <3>3. k <= applied[t] /\ (k = applied[t] => loop[t].pc # "notify")
      BY <1>a, <1>t, <1>x, <3>1, <3>2, SMTT(30)
    <3> QED
      BY <3>1, <3>3 DEF Notified, OwnApplied
  <2>2. ASSUME NEW q \in Request, req[q].pc \in {"submitted", "waiting"}, Evictable(q) PROVE Evictable(q)'
    <3>1. req[q].server \in Server /\ HasKey(q)
      BY <1>i, <2>2 DEF KeyInv, InProgress
    <3>2. req[q].key.index \in Nat /\ maxCompletedNotifications \in Nat
      BY <1>i, <3>1, CallTypes, RequestAssumption
    <3> QED
      BY <1>u, <1>t, <1>x, <2>2, <3>1, <3>2, SMTT(30) DEF Evictable
  <2> QED
    BY <1>i, <1>u, <2>1, <2>2 DEF WaiterInv
<1>7. OrderInv'
  <2>0. ASSUME NEW m \in 0..committed, NEW D PROVE ValueAfter(m, D)' = ValueAfter(m, D)
    <3>1. m <= committed' /\ \A k \in 1..committed : log'[leader'][k] = log[leader][k]
      BY <1>t, <1>u, SMTT(30)
    <3> QED
      BY <1>i, <1>1, <1>2, <3>1, ValueStays
  <2>1. ASSUME NEW t \in Server, StoreIsOpen(t)'
        PROVE  store'[t] = ValueAfter(applied[t], refused[t])'
    <3>1. StoreIsOpen(t) /\ applied[t] \in 0..committed
      BY <1>i, <1>u, <1>t, <2>1, AppliedFacts DEF StoreIsOpen
    <3>0. ASSUME NEW m \in 0..committed, NEW D, applied'[t] = m, refused'[t] = D
          PROVE  ValueAfter(applied[t], refused[t])' = ValueAfter(m, D)
      <4>1. ValueAfter(m, D)' = ValueAfter(m, D)
        BY <2>0
      <4> QED
        BY <3>0, <4>1
    <3>2. CASE t = s
      <4>1. n + 1 \in 0..committed
        BY <1>n, <1>t, SMTT(30)
      <4>2. store'[t] = ValueAfter(n + 1, S) /\ applied'[t] = n + 1 /\ refused'[t] = S
        BY <1>w, <1>x, <3>1, <3>2
      <4> QED
        BY <3>0, <4>1, <4>2
    <3>3. CASE t # s
      <4>1. /\ store'[t] = ValueAfter(applied[t], refused[t])
            /\ applied'[t] = applied[t] /\ refused'[t] = refused[t]
        BY <1>i, <1>x, <3>1, <3>3 DEF OrderInv
      <4> QED
        BY <3>0, <3>1, <4>1
    <3> QED
      BY <3>2, <3>3
  <2>2. \A t \in Server : \A m \in refused'[t] : m <= applied'[t]
    BY <1>i, <1>f, <1>x DEF OrderInv
  <2>3. ASSUME NEW q \in Succeeded' PROVE Placed(q)' /\ InOrder(q)'
    <3>1. q \in Succeeded /\ req'[q] = req[q]
      BY <1>u DEF Succeeded
    <3> QED
      BY <1>i, <1>1, <1>2, <1>o, <3>1, InOrderStays
  <2>4. ReadsAreInOrder'
    BY <2>3 DEF ReadsAreInOrder, InLogOrder, InOrder
  <2>5. \A q \in Request : InProgress(q)' => StoreIsOpen(req[q].server)'
    BY <1>i, <1>u DEF OrderInv, InProgress, StoreIsOpen
  <2>6. \A q \in Request : HasKey(q)' =>
            /\ req'[q].before <= committed'
            /\ req'[q].key.index <= req'[q].before => log'[leader'][req'[q].key.index].req # q
    BY <1>i, <1>u, <1>c DEF OrderInv
  <2> QED
    BY <2>1, <2>2, <2>3, <2>4, <2>5, <2>6 DEF OrderInv, Placed
<1> QED
  BY <1>1, <1>2, <1>3, <1>4, <1>5, <1>6, <1>7 DEF ServerInv

-----------------------------------------------------------------------------
(* The rest of the loop and Close apply nothing, and change nothing of a   *)
(* call but what is on its channel.                                        *)
Calm ==
    /\ UNCHANGED <<raftVars, applied, store, refused>>
    /\ req' \in [Request -> Call]
    /\ \A q \in Request :
          /\ SameCall(q) /\ req'[q].pc = req[q].pc /\ req'[q].result = req[q].result
          /\ req[q].pc = "done" => req'[q] = req[q]

(* Such a step says nothing new about keys and applied entries.            *)
LEMMA CalmKeys ==
  ASSUME StateTypes, StateTypes', CommitInv, KeyInv, Calm
  PROVE  /\ KeyInv' /\ Onward
         /\ UNCHANGED <<term, leader, committed, log, leads, commitIndex, applied>>
         /\ \A q \in Request : (HasKey(q)' <=> HasKey(q)) /\ (OwnApplied(q)' <=> OwnApplied(q))
<1>1. UNCHANGED <<term, leader, committed, log, leads, commitIndex, applied>>
  BY DEF Calm, raftVars
<1>2. Quiet
  BY DEF Calm, Quiet, InProgress
<1>3. Onward
  <2>1. committed <= committed' /\ \A t \in Server : applied[t] <= applied'[t]
    BY <1>1, NumberTypes, SMTT(30)
  <2> QED
    BY <1>1, <2>1 DEF Onward, Calm
<1>4. \A q \in Request : SameCall(q)
  BY DEF Calm
<1> QED
  BY <1>1, <1>2, <1>3, <1>4, QuietKeys, OwnAppliedSame DEF HasKey, SameCall

(* Such a step keeps the order of the calls.                               *)
LEMMA CalmOrder ==
  ASSUME StateTypes, StateTypes', CommitInv, CommitInv', KeyInv, OrderInv, Calm,
         \A t \in Server : StoreIsOpen(t)' => StoreIsOpen(t),
         \A q \in Request : InProgress(q) => StoreIsOpen(req[q].server)'
  PROVE  OrderInv'
<1>1. /\ Onward /\ UNCHANGED <<term, leader, committed, log, leads, commitIndex, applied>>
      /\ \A q \in Request : HasKey(q)' <=> HasKey(q)
  BY CalmKeys
<1>n. committed \in Nat /\ \A t \in Server : applied[t] \in 0..committed
  BY NumberTypes, SMTT(30) DEF CommitInv
<1>0. ASSUME NEW m \in 0..committed, NEW D PROVE ValueAfter(m, D)' = ValueAfter(m, D)
  <2>1. m <= committed' /\ \A k \in 1..committed : log'[leader'][k] = log[leader][k]
    BY <1>1, <1>n, SMTT(30)
  <2> QED
    BY <2>1, ValueStays
<1>2. ASSUME NEW t \in Server, StoreIsOpen(t)'
      PROVE  store'[t] = ValueAfter(applied[t], refused[t])'
  <2>1. /\ store'[t] = ValueAfter(applied[t], refused[t])
        /\ applied'[t] = applied[t] /\ refused'[t] = refused[t]
    BY <1>1, <1>2 DEF OrderInv, Calm
  <2> QED
    BY <1>n, <1>0, <2>1
<1>3. ASSUME NEW q \in Succeeded' PROVE Placed(q)' /\ InOrder(q)'
  <2>1. q \in Succeeded /\ req'[q] = req[q]
    BY DEF Succeeded, Calm
  <2> QED
    BY <1>1, <2>1, InOrderStays
<1>4. ReadsAreInOrder'
  BY <1>3 DEF ReadsAreInOrder, InLogOrder, InOrder
<1>5. \A q \in Request : HasKey(q)' =>
          /\ req'[q].before <= committed'
          /\ req'[q].key.index <= req'[q].before => log'[leader'][req'[q].key.index].req # q
  BY <1>1 DEF OrderInv, Calm, SameCall
<1>6. \A q \in Request : InProgress(q)' => StoreIsOpen(req[q].server)'
  BY DEF Calm, InProgress
<1>7. \A t \in Server : \A m \in refused'[t] : m <= applied'[t]
  BY DEF OrderInv, Calm
<1> QED
  BY <1>2, <1>3, <1>4, <1>5, <1>6, <1>7 DEF OrderInv, Placed

(* The loop ends, or Close goes on: the store is closed only when no call  *)
(* is in progress.                                                         *)
LEMMA LoopExitsKeeps ==
  ASSUME ServerInv, NEW s \in Server, LoopExits(s)
  PROVE  ServerInv'
<1>i. StateTypes /\ CommitInv /\ KeyInv /\ AnswerInv /\ NotesInv /\ WaiterInv /\ OrderInv
  BY DEF ServerInv
<1>u. /\ UNCHANGED <<term, leader, committed, log, leads, commitIndex>> /\ UNCHANGED raftVars
      /\ UNCHANGED <<applied, store, refused, pending, completed, completionQ, closing, req>>
      /\ loop[s].pc = "select" /\ loop' = [loop EXCEPT ![s].pc = "exited"]
  BY DEF LoopExits, raftVars, noteVars
<1>l. loop \in [Server -> [pc : {"select", "notify", "exited"}, err : {Nil, "ok", "error"}]]
  BY <1>i DEF StateTypes
<1>x. /\ loop' \in [Server -> [pc : {"select", "notify", "exited"}, err : {Nil, "ok", "error"}]]
      /\ loop'[s].pc = "exited" /\ \A t \in Server \ {s} : loop'[t] = loop[t]
  BY <1>u, <1>l
<1>1. StateTypes'
  BY <1>i, <1>u, <1>x DEF StateTypes
<1>2. CommitInv'
  BY <1>i, <1>u, <1>x DEF CommitInv
<1>m. Calm
  BY <1>i, <1>u DEF Calm, SameCall, StateTypes
<1>3. KeyInv' /\ \A q \in Request : OwnApplied(q)' <=> OwnApplied(q)
  BY <1>i, <1>1, <1>m, CalmKeys
<1>p. \A t \in Server : loop'[t].pc = "notify" <=> loop[t].pc = "notify"
  BY <1>u, <1>x
<1>4. AnswerInv'
  BY <1>i, <1>u, <1>3 DEF AnswerInv
<1>5. NotesInv'
  BY <1>i, <1>u, <1>p DEF NotesInv
<1>6. WaiterInv'
  <2>1. \A q \in Request : (Notified(q)' <=> Notified(q)) /\ (Evictable(q)' <=> Evictable(q))
    BY <1>3, <1>p, <1>u DEF Notified, Evictable, OwnApplied
  <2> QED
    BY <1>i, <1>u, <2>1 DEF WaiterInv
<1>7. OrderInv'
  <2>1. /\ \A t \in Server : StoreIsOpen(t)' => StoreIsOpen(t)
        /\ \A q \in Request : InProgress(q) => StoreIsOpen(req[q].server)'
    BY <1>i, <1>u DEF StoreIsOpen, OrderInv
  <2> QED
    BY <1>i, <1>1, <1>2, <1>m, <2>1, CalmOrder
<1> QED
  BY <1>1, <1>2, <1>3, <1>4, <1>5, <1>6, <1>7 DEF ServerInv

(* Close, and the end of serving, keep ServerInv.                          *)
LEMMA CloseKeeps ==
  ASSUME ServerInv, NEW s \in Server, Close(s) \/ StopServing(s)
  PROVE  ServerInv'
<1>i. StateTypes /\ CommitInv /\ KeyInv /\ AnswerInv /\ NotesInv /\ WaiterInv /\ OrderInv
  BY DEF ServerInv
<1>u. /\ UNCHANGED <<term, leader, committed, log, leads, commitIndex>> /\ UNCHANGED raftVars
      /\ UNCHANGED <<loop, applied, store, refused, pending, completed, completionQ, req>>
  BY DEF Close, StopServing, raftVars, loopVars, noteVars
<1>c. closing \in [Server -> {"open", "closed", "drained", "stopping", "stopped", "returned"}]
  BY <1>i DEF StateTypes
<1>x. /\ closing' \in [Server -> {"open", "closed", "drained", "stopping", "stopped", "returned"}]
      /\ \A t \in Server \ {s} : closing'[t] = closing[t]
      /\ \/ StoreIsOpen(s) /\ closing'[s] \in {"closed", "stopping"}
         \/ StoreIsOpen(s) /\ AtServer(s) = {}
         \/ ~StoreIsOpen(s) /\ closing'[s] = "returned"
  BY <1>c DEF Close, StopServing, CloseStep, StoreIsOpen
<1>1. StateTypes'
  BY <1>i, <1>u, <1>x DEF StateTypes
<1>2. CommitInv'
  BY <1>i, <1>u DEF CommitInv
<1>m. Calm
  BY <1>i, <1>u DEF Calm, SameCall, StateTypes
<1>3. KeyInv' /\ \A q \in Request : OwnApplied(q)' <=> OwnApplied(q)
  BY <1>i, <1>1, <1>m, CalmKeys
<1>4. AnswerInv'
  BY <1>i, <1>u, <1>3 DEF AnswerInv
<1>5. NotesInv'
  BY <1>i, <1>u DEF NotesInv
<1>6. WaiterInv'
  <2>1. \A q \in Request : (Notified(q)' <=> Notified(q)) /\ (Evictable(q)' <=> Evictable(q))
    BY <1>3, <1>u DEF Notified, Evictable
  <2> QED
    BY <1>i, <1>u, <2>1 DEF WaiterInv
<1>7. OrderInv'
  <2>1. \A t \in Server : StoreIsOpen(t)' => StoreIsOpen(t)
    BY <1>x DEF StoreIsOpen
  <2>2. ASSUME NEW q \in Request, InProgress(q) PROVE StoreIsOpen(req[q].server)'
    <3>1. req[q].server \in Server /\ StoreIsOpen(req[q].server)
      BY <1>i, <2>2 DEF KeyInv, OrderInv
    <3>2. req[q].server = s => closing'[s] \in {"closed", "stopping"}
      BY <1>x, <2>2, <3>1 DEF AtServer, InProgress
    <3> QED
      BY <1>u, <1>x, <3>1, <3>2 DEF StoreIsOpen
  <2> QED
    BY <1>i, <1>1, <1>2, <1>m, <2>1, <2>2, CalmOrder
<1> QED
  BY <1>1, <1>2, <1>3, <1>4, <1>5, <1>6, <1>7 DEF ServerInv

-----------------------------------------------------------------------------
(* An answer a is sent to the waiters W of server s, which are removed.    *)
Woken(W, q) == \E p \in W : p.req = q

Sends(s, W, a) ==
    /\ req' = [q \in Request |-> IF Woken(W, q) THEN [req[q] EXCEPT !.ch = a] ELSE req[q]]
    /\ pending' = [pending EXCEPT ![s] = @ \ W]

Sent(s, W, a) ==
    /\ req' \in [Request -> Call]
    /\ pending' \in [Server -> SUBSET [key : PendingKey, req : Request]]
    /\ pending'[s] = pending[s] \ W /\ \A t \in Server \ {s} : pending'[t] = pending[t]
    /\ \A q \in Request :
          /\ SameCall(q) /\ req'[q].pc = req[q].pc /\ req'[q].result = req[q].result
          /\ req[q].pc = "done" => req'[q] = req[q]
          /\ ~Woken(W, q) => req'[q] = req[q]
          /\ Woken(W, q) => /\ req[q].pc \in {"waiting", "leaving"} /\ req'[q].ch = a
                            /\ req[q].server = s /\ [key |-> req[q].key, req |-> q] \in W
    /\ \A t \in Server : \A p \in pending'[t] : p \in pending[t] /\ ~Woken(W, p.req)

(* What sending an answer to the channels of W does.                       *)
LEMMA SendEffect ==
  ASSUME ServerInv, NEW s \in Server, NEW W \in SUBSET pending[s], NEW a \in {"ok", "error", "closed"},
         Sends(s, W, a)
  PROVE  Sent(s, W, a)
<1>i. StateTypes /\ AnswerInv
  BY DEF ServerInv
<1>1. /\ req \in [Request -> Call]
      /\ pending \in [Server -> SUBSET [key : PendingKey, req : Request]]
  BY <1>i DEF StateTypes
<1>2. \A t \in Server : \A p \in pending[t] :
         /\ p \in [key : PendingKey, req : Request] /\ p.req \in Request
         /\ req[p.req].pc \in {"waiting", "leaving"} /\ req[p.req].server = t /\ req[p.req].key = p.key
         /\ p = [key |-> p.key, req |-> p.req]
  BY <1>i, PendingFacts, SMTT(30)
<1>3. ASSUME NEW q \in Request, Woken(W, q)
      PROVE  /\ req[q].pc \in {"waiting", "leaving"} /\ req[q].server = s
             /\ [key |-> req[q].key, req |-> q] \in W
  <2>1. PICK p \in W : p.req = q
    BY <1>3 DEF Woken
  <2>2. p \in pending[s]
    OBVIOUS
  <2>3. p = [key |-> req[q].key, req |-> q]
    BY <1>2, <2>1, <2>2
  <2> QED
    BY <1>2, <2>1, <2>2, <2>3
<1>4. ASSUME NEW q \in Request
      PROVE  /\ req'[q] \in Call
             /\ SameCall(q) /\ req'[q].pc = req[q].pc /\ req'[q].result = req[q].result
             /\ Woken(W, q) => req'[q].ch = a
             /\ ~Woken(W, q) => req'[q] = req[q]
  <2>1. req[q] \in Call /\ req'[q] = IF Woken(W, q) THEN [req[q] EXCEPT !.ch = a] ELSE req[q]
    BY <1>1 DEF Sends
  <2>2. CASE Woken(W, q)
    <3>1. req'[q] = [req[q] EXCEPT !.ch = a]
      BY <2>1, <2>2
    <3> QED
      BY <2>1, <2>2, <3>1 DEF Call, SameCall
  <2>3. CASE ~Woken(W, q)
    BY <2>1, <2>3 DEF SameCall
  <2> QED
    BY <2>2, <2>3
<1>5. req' \in [Request -> Call]
  <2>1. req' = [q \in Request |-> req'[q]]
    BY DEF Sends
  <2> QED
    BY <1>4, <2>1
<1>6. /\ pending' \in [Server -> SUBSET [key : PendingKey, req : Request]]
      /\ pending'[s] = pending[s] \ W /\ \A t \in Server \ {s} : pending'[t] = pending[t]
  BY <1>1 DEF Sends
<1>7. ASSUME NEW t \in Server, NEW p \in pending'[t] PROVE p \in pending[t] /\ ~Woken(W, p.req)
  <2>1. p \in pending[t] /\ (t = s => p \notin W)
    BY <1>6
  <2>2. ASSUME Woken(W, p.req) PROVE FALSE
    <3>1. p.req \in Request /\ req[p.req].server = t /\ p = [key |-> req[p.req].key, req |-> p.req]
      BY <1>2, <2>1
    <3>2. req[p.req].server = s /\ [key |-> req[p.req].key, req |-> p.req] \in W
      BY <1>3, <2>2, <3>1
    <3> QED
      BY <2>1, <3>1, <3>2
  <2> QED
    BY <2>1, <2>2
<1>8. \A q \in Request : req[q].pc = "done" => req'[q] = req[q]
  BY <1>3, <1>4
<1> QED
  BY <1>3, <1>4, <1>5, <1>6, <1>7, <1>8 DEF Sent

(* The answer is kept on the channel of calls that wait for it.            *)
LEMMA SendKeepsAnswers ==
  ASSUME ServerInv, NEW s \in Server, NEW W \in SUBSET pending[s], NEW a \in {"ok", "error", "closed"},
         Sends(s, W, a), UNCHANGED <<completed, applied, log, leader>>,
         \A q \in Request : OwnApplied(q)' <=> OwnApplied(q),
         \A q \in Request : Woken(W, q) /\ a # "closed" => OwnApplied(q)
  PROVE  AnswerInv'
<1>i. StateTypes /\ AnswerInv
  BY DEF ServerInv
<1>e. /\ \A q \in Request :
            /\ SameCall(q) /\ req'[q].pc = req[q].pc /\ req'[q].result = req[q].result
            /\ ~Woken(W, q) => req'[q] = req[q]
            /\ Woken(W, q) => req[q].pc \in {"waiting", "leaving"} /\ req'[q].ch = a
      /\ \A t \in Server : \A p \in pending'[t] : p \in pending[t] /\ ~Woken(W, p.req)
  <2>1. Sent(s, W, a)
    BY SendEffect
  <2> QED
    BY <2>1 DEF Sent
<1>1. \A t \in Server : \A c \in completed'[t] :
          c.key.index <= applied'[t] /\ log'[leader'][c.key.index].term = c.key.term
  BY <1>i DEF AnswerInv
<1>2. ASSUME NEW t \in Server, NEW p \in pending'[t]
      PROVE  /\ req'[p.req].pc \in {"waiting", "leaving"} /\ req'[p.req].ch = Nil
             /\ req'[p.req].server = t /\ req'[p.req].key = p.key
  <2>1. p \in pending[t] /\ p.req \in Request
    BY <1>i, <1>e, PendingFacts
  <2>2. req'[p.req] = req[p.req]
    BY <1>e, <2>1
  <2> QED
    BY <1>i, <2>1, <2>2, PendingFacts, SMTT(30)
<1>3. ASSUME NEW q \in Request
      PROVE  /\ req'[q].ch # Nil => req'[q].pc \in {"waiting", "leaving"}
             /\ req'[q].pc = "leaving" => req'[q].result \in {"timeout", "closed"}
             /\ \/ req'[q].ch \in {"ok", "error"}
                \/ req'[q].pc = "reading"
                \/ req'[q].pc = "done" /\ req'[q].result \in {"ok", "error"}
                => OwnApplied(q)'
  <2>1. CASE Woken(W, q)
    BY <1>i, <1>e, <2>1, AnswerFacts DEF AnswerIsFair
  <2>2. CASE ~Woken(W, q)
    BY <1>i, <1>e, <2>2, AnswerFacts DEF AnswerIsFair
  <2> QED
    BY <2>1, <2>2
<1> QED
  BY <1>1, <1>2, <1>3 DEF AnswerInv

(* Close answers all waiters.                                              *)
LEMMA AnswerWaitersKeeps ==
  ASSUME ServerInv, NEW s \in Server, AnswerWaiters(s)
  PROVE  ServerInv'
<1>i. StateTypes /\ CommitInv /\ KeyInv /\ AnswerInv /\ NotesInv /\ WaiterInv /\ OrderInv
  BY DEF ServerInv
<1>u. /\ UNCHANGED <<term, leader, committed, log, leads, commitIndex>> /\ UNCHANGED raftVars
      /\ UNCHANGED <<loop, applied, store, refused, completed, completionQ>>
      /\ closing[s] = "closed" /\ closing' = [closing EXCEPT ![s] = "drained"]
  BY DEF AnswerWaiters, CloseStep, raftVars, loopVars
<1>t. /\ closing \in [Server -> {"open", "closed", "drained", "stopping", "stopped", "returned"}]
      /\ pending \in [Server -> SUBSET [key : PendingKey, req : Request]]
  BY <1>i DEF StateTypes
<1> DEFINE W == pending[s]
<1>s. Sends(s, W, "closed")
  <2>1. pending' = [pending EXCEPT ![s] = W \ W]
    BY <1>t DEF AnswerWaiters
  <2> QED
    BY <1>t, <2>1 DEF AnswerWaiters, Sends, Woken
<1>w. W \in SUBSET pending[s] /\ "closed" \in {"ok", "error", "closed"}
  OBVIOUS
<1> HIDE DEF W
<1>e. /\ req' \in [Request -> Call]
      /\ pending' \in [Server -> SUBSET [key : PendingKey, req : Request]]
      /\ pending'[s] = pending[s] \ W /\ \A t \in Server \ {s} : pending'[t] = pending[t]
      /\ \A q \in Request :
            /\ SameCall(q) /\ req'[q].pc = req[q].pc /\ req'[q].result = req[q].result
            /\ req[q].pc = "done" => req'[q] = req[q]
            /\ ~Woken(W, q) => req'[q] = req[q]
            /\ Woken(W, q) => req'[q].ch = "closed"
  <2>1. Sent(s, W, "closed")
    BY <1>s, <1>w, SendEffect
  <2> QED
    BY <2>1 DEF Sent
<1>c. /\ closing' \in [Server -> {"open", "closed", "drained", "stopping", "stopped", "returned"}]
      /\ \A t \in Server : StoreIsOpen(t)' <=> StoreIsOpen(t)
  BY <1>u, <1>t DEF StoreIsOpen
<1>1. StateTypes'
  BY <1>i, <1>u, <1>e, <1>c DEF StateTypes
<1>2. CommitInv'
  BY <1>i, <1>u DEF CommitInv
<1>m. Calm
  BY <1>u, <1>e DEF Calm
<1>3. KeyInv' /\ \A q \in Request : OwnApplied(q)' <=> OwnApplied(q)
  BY <1>i, <1>1, <1>m, CalmKeys
<1>4. AnswerInv'
  BY <1>u, <1>s, <1>w, <1>3, SendKeepsAnswers
<1>5. NotesInv'
  BY <1>i, <1>u DEF NotesInv
<1>6. WaiterInv'
  <2>1. \A q \in Request : (Notified(q)' <=> Notified(q)) /\ (Evictable(q)' <=> Evictable(q))
    BY <1>3, <1>u, <1>e DEF Notified, Evictable, SameCall
  <2>2. ASSUME NEW q \in Request, req'[q].pc = "submitted", Notified(q)', ~Evictable(q)'
        PROVE  \E c \in completed'[req'[q].server] : c.key = req'[q].key
    <3>1. req[q].pc = "submitted" /\ req'[q].server = req[q].server /\ req'[q].key = req[q].key
      BY <1>e, <2>2 DEF SameCall
    <3>2. \E c \in completed[req[q].server] : c.key = req[q].key
      BY <1>i, <2>1, <2>2, <3>1 DEF WaiterInv
    <3> QED
      BY <1>u, <3>1, <3>2
  <2>3. ASSUME NEW q \in Request, req'[q].pc = "waiting", req'[q].ch = Nil
        PROVE  /\ [key |-> req'[q].key, req |-> q] \in pending'[req'[q].server]
               /\ Notified(q)' => Evictable(q)'
    <3>1. ~Woken(W, q)
      BY <1>e, <2>3, RequestAssumption
    <3>2. /\ [key |-> req[q].key, req |-> q] \in pending[req[q].server]
          /\ Notified(q) => Evictable(q)
      BY <1>i, <1>e, <2>3, <3>1 DEF WaiterInv
    <3>3. [key |-> req[q].key, req |-> q] \notin W
      BY <3>1 DEF Woken
    <3>4. req[q].server \in Server
      BY <1>i, <1>e, <2>3, KeyFacts DEF InProgress
    <3> QED
      BY <1>e, <2>1, <3>1, <3>2, <3>3, <3>4, SMTT(30)
  <2> QED
    BY <2>2, <2>3 DEF WaiterInv
<1>7. OrderInv'
  <2>1. ASSUME NEW q \in Request, InProgress(q) PROVE StoreIsOpen(req[q].server)'
    <3>1. req[q].server \in Server /\ StoreIsOpen(req[q].server) /\ req'[q].server = req[q].server
      BY <1>i, <1>e, <2>1 DEF KeyInv, OrderInv, SameCall
    <3> QED
      BY <1>u, <1>t, <3>1 DEF StoreIsOpen
  <2> QED
    BY <1>i, <1>1, <1>2, <1>m, <1>c, <2>1, CalmOrder
<1> QED
  BY <1>1, <1>2, <1>3, <1>4, <1>5, <1>6, <1>7 DEF ServerInv

-----------------------------------------------------------------------------
(* The key that the loop notifies is the key of the call whose entry it    *)
(* has just applied.                                                       *)
NotifiedKey(s) == [index |-> applied[s], term |-> log[leader][applied[s]].term]

(* What notify finds: the key of the entry just applied, which belongs to  *)
(* the calls whose own entry that is and to no other call.                 *)
LEMMA NotifyFacts ==
  ASSUME ServerInv, NEW s \in Server, loop[s].pc = "notify"
  PROVE  /\ applied[s] \in 1..committed /\ NotifiedKey(s) \in PendingKey
         /\ pendingKey(applied[s], CommittedEntries[applied[s]].term) = NotifiedKey(s)
         /\ loop[s].err \in {"ok", "error"}
         /\ \A q \in Request : req[q].server = s /\ OwnApplied(q) /\ req[q].key.index = applied[s]
                                  => req[q].key = NotifiedKey(s)
         /\ \A q \in Request : req[q].server = s /\ req[q].key = NotifiedKey(s) => OwnApplied(q)
<1>i. StateTypes /\ CommitInv /\ KeyInv
  BY DEF ServerInv
<1> DEFINE n == applied[s]
<1>1. n \in 1..committed /\ n <= committed
  BY <1>i, NumberTypes, SMTT(30) DEF CommitInv
<1>2. /\ leader \in Server /\ n \in 1..Len(log[leader])
      /\ CommittedEntries[n] = log[leader][n] /\ log[leader][n] \in Entry
  BY <1>i, <1>1, CommittedFacts
<1>3. loop[s].err \in {"ok", "error"}
  BY <1>i DEF StateTypes, CommitInv
<1>4. n \in Nat \ {0} /\ log[leader][n].term \in Nat
  BY <1>1, <1>2, SMTT(30) DEF Entry
<1>5. NotifiedKey(s) \in PendingKey /\ NotifiedKey(s).index = n /\ NotifiedKey(s).term = log[leader][n].term
  BY <1>4 DEF NotifiedKey, PendingKey
<1>6. pendingKey(n, CommittedEntries[n].term) = NotifiedKey(s)
  BY <1>2 DEF pendingKey, NotifiedKey
<1>7. ASSUME NEW q \in Request, OwnApplied(q), req[q].key.index = n
      PROVE  req[q].key = NotifiedKey(s)
  <2>1. log[leader][n].req = q
    BY <1>7 DEF OwnApplied
  <2>2. req[log[leader][n].req].key = pendingKey(n, log[leader][n].term)
    BY <1>i, <1>2 DEF KeyInv
  <2> QED
    BY <2>1, <2>2 DEF pendingKey, NotifiedKey
<1>8. ASSUME NEW q \in Request, req[q].server = s, req[q].key = NotifiedKey(s) PROVE OwnApplied(q)
  <2>1. HasKey(q)
    BY <1>5, <1>8, RequestAssumption DEF HasKey, PendingKey
  <2>2. req[q].key.index = n /\ log[leader][req[q].key.index].term = req[q].key.term
    BY <1>5, <1>8
  <2>3. log[leader][req[q].key.index].req = q
    BY <1>i, <1>1, <2>1, <2>2, KeyNamesCall
  <2>4. n <= n
    BY <1>4, SMTT(30)
  <2> QED
    BY <1>8, <2>1, <2>2, <2>3, <2>4 DEF OwnApplied
<1> QED
  BY <1>1, <1>3, <1>5, <1>6, <1>7, <1>8

(* When the loop is done with an entry, one call more may be notified.     *)
LEMMA NotifyMoves ==
  ASSUME ServerInv, NEW s \in Server, loop[s].pc = "notify", loop' = [loop EXCEPT ![s].pc = "select"],
         UNCHANGED applied, \A q \in Request : SameCall(q) /\ (OwnApplied(q)' <=> OwnApplied(q))
  PROVE  /\ loop' \in [Server -> [pc : {"select", "notify", "exited"}, err : {Nil, "ok", "error"}]]
         /\ loop'[s].pc = "select" /\ \A t \in Server \ {s} : loop'[t] = loop[t]
         /\ \A q \in Request :
               /\ Evictable(q)' <=> Evictable(q)
               /\ Notified(q)' => Notified(q) \/ (req[q].server = s /\ req[q].key = NotifiedKey(s))
<1>i. StateTypes /\ CommitInv /\ KeyInv
  BY DEF ServerInv
<1>1. loop \in [Server -> [pc : {"select", "notify", "exited"}, err : {Nil, "ok", "error"}]]
  BY <1>i DEF StateTypes
<1>2. /\ loop' \in [Server -> [pc : {"select", "notify", "exited"}, err : {Nil, "ok", "error"}]]
      /\ loop'[s].pc = "select" /\ \A t \in Server \ {s} : loop'[t] = loop[t]
  BY <1>1
<1>3. ASSUME NEW q \in Request, Notified(q)', ~Notified(q)
      PROVE  req[q].server = s /\ req[q].key = NotifiedKey(s)
  <2>1. OwnApplied(q) /\ req[q].server \in Server
    BY <1>3 DEF Notified, OwnApplied
  <2>2. req[q].key.index = applied[req[q].server] /\ loop[req[q].server].pc = "notify"
    BY <1>3, <2>1 DEF Notified
  <2>3. loop'[req[q].server].pc # "notify"
    BY <1>3, <2>2 DEF Notified, SameCall
  <2>4. req[q].server = s
    BY <1>2, <2>1, <2>2, <2>3
  <2> QED
    BY <2>1, <2>2, <2>4, NotifyFacts
<1>4. \A q \in Request : Evictable(q)' <=> Evictable(q)
  BY DEF Evictable, SameCall
<1> QED
  BY <1>2, <1>3, <1>4

(* The places in the queue move up by what is evicted.                     *)
MovedUp(q, key, Q, d) ==
    /\ d = Len(Evicted(q)) /\ d <= Len(q)
    /\ d = 1 => Len(q) = maxCompletedNotifications /\ Evicted(q)[1] = q[1]
    /\ Q \in Seq(PendingKey) /\ Len(Q) = Len(q) + 1 - d /\ Len(Q) <= maxCompletedNotifications
    /\ Len(Q) >= 1 /\ Q[Len(Q)] = key
    /\ \A n \in 1..(Len(Q) - 1) : Q[n] = q[n + d] /\ n + d \in 1..Len(q)

(* Recording a completion drops at most the oldest note.                   *)
LEMMA NoteQueue ==
  ASSUME NEW q \in Seq(PendingKey), NEW key \in PendingKey, Len(q) <= maxCompletedNotifications,
         NEW Q, Q = SubSeq(Append(q, key), 1 + Len(Evicted(q)), Len(q) + 1)
  PROVE  \E d \in 0..1 : MovedUp(q, key, Q, d)
<1> DEFINE a == Append(q, key)
           m == Len(q)
<1>0. m \in Nat /\ maxCompletedNotifications \in Nat \ {0} /\ m <= maxCompletedNotifications
  BY RequestAssumption, SMTT(30)
<1>1. a \in Seq(PendingKey) /\ Len(a) = m + 1 /\ a[m + 1] = key /\ \A n \in 1..m : a[n] = q[n]
  BY SMTT(30)
<1>2. \E d \in 0..1 :
         /\ d = Len(Evicted(q)) /\ d <= m
         /\ d = 1 => m = maxCompletedNotifications /\ Evicted(q)[1] = q[1]
         /\ m + 1 - d <= maxCompletedNotifications
  <2>1. CASE m >= maxCompletedNotifications
    <3>1. Evicted(q) = <<q[1]>>
      BY <2>1 DEF Evicted
    <3>2. Len(Evicted(q)) = 1 /\ Evicted(q)[1] = q[1]
      BY <3>1, SMTT(30)
    <3>3. m = maxCompletedNotifications /\ 1 <= m /\ m + 1 - 1 <= maxCompletedNotifications /\ 1 \in 0..1
      BY <1>0, <2>1, SMTT(30)
    <3> QED
      BY <3>2, <3>3
  <2>2. CASE ~(m >= maxCompletedNotifications)
    <3>1. Evicted(q) = <<>>
      BY <2>2 DEF Evicted
    <3>2. Len(Evicted(q)) = 0
      BY <3>1, SMTT(30)
    <3>3. 0 <= m /\ m + 1 - 0 <= maxCompletedNotifications /\ 0 \in 0..1
      BY <1>0, <2>2, SMTT(30)
    <3> QED
      BY <3>2, <3>3, SMTT(30)
  <2> QED
    BY <2>1, <2>2
<1>3. PICK d \in 0..1 :
         /\ d = Len(Evicted(q)) /\ d <= m
         /\ d = 1 => m = maxCompletedNotifications /\ Evicted(q)[1] = q[1]
         /\ m + 1 - d <= maxCompletedNotifications
  BY <1>2
<1>4. Q = SubSeq(a, 1 + d, m + 1)
  BY <1>3
<1> HIDE DEF a
<1>5. /\ Q \in Seq(PendingKey) /\ Len(Q) = m + 1 - d
      /\ \A n \in 1..(m + 1 - d) : Q[n] = a[n + d]
  <2>1. a \in Seq(PendingKey) /\ Len(a) = m + 1
    BY <1>0, <1>1
  <2>2. SubSeq(a, 1 + d, m + 1) \in Seq(PendingKey)
    BY <1>0, <1>3, <2>1, SMTT(30)
  <2>3. Len(SubSeq(a, 1 + d, m + 1)) = m + 1 - d
    BY <1>0, <1>3, <2>1, SMTT(30)
  <2>4. ASSUME NEW n \in 1..(m + 1 - d) PROVE SubSeq(a, 1 + d, m + 1)[n] = a[n + d]
    BY <1>0, <1>3, <2>1, SMTT(30)
  <2> QED
    BY <1>4, <2>2, <2>3, <2>4
<1>6. Len(Q) >= 1 /\ Q[Len(Q)] = key
  <2>1. m + 1 - d \in 1..(m + 1 - d) /\ (m + 1 - d) + d = m + 1
    BY <1>0, <1>3, SMTT(30)
  <2>2. Q[m + 1 - d] = a[(m + 1 - d) + d]
    BY <1>5, <2>1
  <2>3. Len(Q) = m + 1 - d /\ Len(Q) >= 1
    BY <1>0, <1>5, <2>1, SMTT(30)
  <2> QED
    BY <1>1, <2>1, <2>2, <2>3
<1>7. ASSUME NEW n \in 1..(Len(Q) - 1) PROVE Q[n] = q[n + d] /\ n + d \in 1..m
  <2>1. n \in 1..(m + 1 - d) /\ n + d \in 1..m
    BY <1>0, <1>3, <1>5, SMTT(30)
  <2> QED
    BY <1>1, <1>5, <2>1
<1> QED
  BY <1>3, <1>5, <1>6, <1>7 DEF MovedUp

(* The loop wakes the call whose entry it has applied.                     *)
LEMMA WakeKeeps ==
  ASSUME ServerInv, NEW s \in Server, loop[s].pc = "notify",
         NEW W, W = {p \in pending[s] : p.key = NotifiedKey(s)},
         W # {}, WakeWaiter(s, NotifiedKey(s), W), loop' = [loop EXCEPT ![s].pc = "select"],
         UNCHANGED <<raftVars, applied, store, refused, closing>>
  PROVE  ServerInv'
<1>i. StateTypes /\ CommitInv /\ KeyInv /\ AnswerInv /\ NotesInv /\ WaiterInv /\ OrderInv
  BY DEF ServerInv
<1>u. /\ UNCHANGED <<term, leader, committed, log, leads, commitIndex>> /\ UNCHANGED raftVars
      /\ UNCHANGED <<applied, store, refused, closing, completed, completionQ>>
  BY DEF WakeWaiter, raftVars
<1> DEFINE a == loop[s].err
           key == NotifiedKey(s)
<1>f. /\ key \in PendingKey /\ a \in {"ok", "error"}
      /\ \A q \in Request : req[q].server = s /\ req[q].key = key => OwnApplied(q)
  BY NotifyFacts
<1>s. Sends(s, W, a) /\ W \in SUBSET pending[s] /\ a \in {"ok", "error", "closed"}
  BY <1>f DEF WakeWaiter, Sends, Woken
<1>w. \A p \in W : p.key = key
  OBVIOUS
<1>W. ASSUME NEW q \in Request, [key |-> key, req |-> q] \in pending[s] PROVE Woken(W, q)
  BY <1>W, SMTT(30) DEF Woken
<1> HIDE DEF key, a
<1>e. Sent(s, W, a)
  BY <1>s, SendEffect
<1>q. /\ req' \in [Request -> Call]
      /\ pending' \in [Server -> SUBSET [key : PendingKey, req : Request]]
      /\ pending'[s] = pending[s] \ W /\ \A t \in Server \ {s} : pending'[t] = pending[t]
      /\ \A q \in Request :
            /\ SameCall(q) /\ req'[q].pc = req[q].pc /\ req'[q].result = req[q].result
            /\ req[q].pc = "done" => req'[q] = req[q]
            /\ ~Woken(W, q) => req'[q] = req[q]
            /\ Woken(W, q) => /\ req[q].pc \in {"waiting", "leaving"} /\ req'[q].ch = a
                              /\ req[q].server = s /\ [key |-> req[q].key, req |-> q] \in W
  BY <1>e DEF Sent
<1>l. /\ loop' \in [Server -> [pc : {"select", "notify", "exited"}, err : {Nil, "ok", "error"}]]
      /\ loop'[s].pc = "select" /\ \A t \in Server \ {s} : loop'[t] = loop[t]
  BY <1>i DEF StateTypes
<1>1. StateTypes'
  BY <1>i, <1>u, <1>q, <1>l DEF StateTypes
<1>2. CommitInv'
  BY <1>i, <1>u, <1>l DEF CommitInv
<1>m. Calm
  BY <1>u, <1>q DEF Calm
<1>3. KeyInv' /\ \A q \in Request : OwnApplied(q)' <=> OwnApplied(q)
  BY <1>i, <1>1, <1>m, CalmKeys
<1>n. \A q \in Request :
         /\ Evictable(q)' <=> Evictable(q)
         /\ Notified(q)' => Notified(q) \/ (req[q].server = s /\ req[q].key = key)
  BY <1>u, <1>q, <1>3, NotifyMoves DEF key
<1>4. AnswerInv'
  <2>1. ASSUME NEW q \in Request, Woken(W, q) PROVE OwnApplied(q)
    <3>1. req[q].server = s /\ [key |-> req[q].key, req |-> q] \in W
      BY <1>q, <2>1
    <3>2. req[q].key = key
      BY <1>w, <3>1
    <3> QED
      BY <1>f, <3>1, <3>2
  <2> QED
    BY <1>u, <1>s, <1>3, <2>1, SendKeepsAnswers
<1>5. NotesInv'
  <2>1. ASSUME NEW t \in Server, NEW n \in 1..Len(completionQ[t])
        PROVE  completionQ[t][n].index + (Len(completionQ[t]) - n)
                 <= IF loop'[t].pc = "notify" THEN applied'[t] - 1 ELSE applied'[t]
    <3>1. completionQ[t][n].index + (Len(completionQ[t]) - n)
                 <= IF loop[t].pc = "notify" THEN applied[t] - 1 ELSE applied[t]
      BY <1>i DEF NotesInv
    <3>2. applied[t] \in Nat /\ completionQ[t] \in Seq(PendingKey)
      BY <1>i DEF StateTypes
    <3>3. completionQ[t][n].index \in Nat /\ Len(completionQ[t]) \in Nat
      <4>1. completionQ[t][n] \in PendingKey /\ Len(completionQ[t]) \in Nat
        BY <3>2, SMTT(30)
      <4> QED
        BY <4>1 DEF PendingKey
    <3>4. CASE t = s
      <4>1. applied'[t] = applied[t] /\ loop'[t].pc # "notify"
        BY <1>u, <1>l, <3>4
      <4> QED
        BY <3>1, <3>2, <3>3, <3>4, <4>1, SMTT(30)
    <3>5. CASE t # s
      <4>1. applied'[t] = applied[t] /\ loop'[t] = loop[t]
        BY <1>u, <1>l, <3>5
      <4> QED
        BY <3>1, <4>1
    <3> QED
      BY <3>4, <3>5
  <2> QED
    BY <1>i, <1>u, <2>1 DEF NotesInv
<1>6. WaiterInv'
  <2>1. ASSUME NEW q \in Request, req'[q].pc = "submitted", Notified(q)', ~Evictable(q)'
        PROVE  \E c \in completed'[req'[q].server] : c.key = req'[q].key
    <3>1. req[q].pc = "submitted" /\ req'[q].server = req[q].server /\ req'[q].key = req[q].key
      BY <1>q, <2>1 DEF SameCall
    <3>2. Notified(q)
      <4>1. PICK p \in W : TRUE
        OBVIOUS
      <4>2. p \in pending[s] /\ p.key = key
        BY <1>s, <1>w, <4>1
      <4>3. p.req \in Request /\ req[p.req].key = key /\ req[p.req].pc \in {"waiting", "leaving"}
        BY <1>i, <4>2, SMTT(30) DEF AnswerInv, StateTypes
      <4>4. HasKey(p.req)
        BY <1>i, <4>3 DEF KeyInv, InProgress
      <4>5. req[q].key # key
        BY <1>i, <3>1, <4>3, <4>4 DEF KeyInv
      <4> QED
        BY <1>n, <2>1, <4>5
    <3>3. \E c \in completed[req[q].server] : c.key = req[q].key
      BY <1>i, <1>n, <2>1, <3>1, <3>2 DEF WaiterInv
    <3> QED
      BY <1>u, <3>1, <3>3
  <2>2. ASSUME NEW q \in Request, req'[q].pc = "waiting", req'[q].ch = Nil
        PROVE  /\ [key |-> req'[q].key, req |-> q] \in pending'[req'[q].server]
               /\ Notified(q)' => Evictable(q)'
    <3>1. ~Woken(W, q)
      BY <1>f, <1>q, <2>2, RequestAssumption
    <3>2. /\ [key |-> req[q].key, req |-> q] \in pending[req[q].server]
          /\ Notified(q) => Evictable(q)
      BY <1>i, <1>q, <2>2, <3>1 DEF WaiterInv
    <3>3. [key |-> req[q].key, req |-> q] \notin W
      BY <3>1 DEF Woken
    <3>4. req[q].server \in Server
      BY <1>i, <1>q, <2>2, KeyFacts DEF InProgress
    <3>5. Notified(q)' => Notified(q)
      BY <1>n, <1>W, <3>1, <3>2
    <3> QED
      BY <1>n, <1>q, <3>1, <3>2, <3>3, <3>4, <3>5, SMTT(30)
  <2> QED
    BY <2>1, <2>2 DEF WaiterInv
<1>7. OrderInv'
  <2>1. /\ \A t \in Server : StoreIsOpen(t)' => StoreIsOpen(t)
        /\ \A q \in Request : InProgress(q) => StoreIsOpen(req[q].server)'
    BY <1>i, <1>u, <1>q DEF StoreIsOpen, OrderInv, SameCall
  <2> QED
    BY <1>i, <1>1, <1>2, <1>m, <2>1, CalmOrder
<1> QED
  BY <1>1, <1>2, <1>3, <1>4, <1>5, <1>6, <1>7 DEF ServerInv

(* The loop leaves a note: the oldest place goes when the queue is full,   *)
(* and then as many later entries are applied as the queue holds.          *)
LEMMA NoteKeeps ==
  ASSUME ServerInv, NEW s \in Server, loop[s].pc = "notify",
         \A p \in pending[s] : p.key # NotifiedKey(s),
         LeaveNote(s, NotifiedKey(s)), loop' = [loop EXCEPT ![s].pc = "select"],
         UNCHANGED <<raftVars, applied, store, refused, closing>>
  PROVE  ServerInv'
<1>i. StateTypes /\ CommitInv /\ KeyInv /\ AnswerInv /\ NotesInv /\ WaiterInv /\ OrderInv
  BY DEF ServerInv
<1> DEFINE key == NotifiedKey(s)
           q == completionQ[s]
           Q == SubSeq(Append(q, key), 1 + Len(Evicted(q)), Len(q) + 1)
           kept == {c \in completed[s] : c.key # key /\ \A n \in 1..Len(Evicted(q)) : c.key # Evicted(q)[n]}
           note == [key |-> key, err |-> loop[s].err]
<1>u. /\ UNCHANGED <<term, leader, committed, log, leads, commitIndex>> /\ UNCHANGED raftVars
      /\ UNCHANGED <<applied, store, refused, closing, pending, req>>
      /\ completionQ' = [completionQ EXCEPT ![s] = Q]
      /\ completed' = [completed EXCEPT ![s] = kept \cup {note}]
  BY DEF LeaveNote, raftVars
<1>f. /\ key \in PendingKey /\ loop[s].err \in {"ok", "error"} /\ key.index = applied[s]
      /\ key.term = log[leader][applied[s]].term /\ applied[s] \in Nat
  BY <1>i, NotifyFacts, NumberTypes DEF NotifiedKey
<1>t. /\ q \in Seq(PendingKey) /\ completionQ \in [Server -> Seq(PendingKey)]
      /\ completed \in [Server -> SUBSET [key : PendingKey, err : {"ok", "error"}]]
      /\ Len(q) <= maxCompletedNotifications /\ Len(q) \in Nat
  BY <1>i, SMTT(30) DEF StateTypes, NotesInv
<1>e. \E d \in 0..1 : MovedUp(q, key, Q, d)
  <2>1. key \in PendingKey /\ q \in Seq(PendingKey) /\ Len(q) <= maxCompletedNotifications
    BY <1>f, <1>t
  <2> HIDE DEF q, key
  <2> QED
    BY <2>1, NoteQueue
<1>p. PICK d \in 0..1 : MovedUp(q, key, Q, d)
  BY <1>e
<1>d. /\ d = Len(Evicted(q)) /\ d <= Len(q)
      /\ d = 1 => Len(q) = maxCompletedNotifications /\ Evicted(q)[1] = q[1]
      /\ Q \in Seq(PendingKey) /\ Len(Q) = Len(q) + 1 - d /\ Len(Q) <= maxCompletedNotifications
      /\ Len(Q) >= 1 /\ Q[Len(Q)] = key
      /\ \A n \in 1..(Len(Q) - 1) : Q[n] = q[n + d] /\ n + d \in 1..Len(q)
  BY <1>p DEF MovedUp
<1>k. /\ kept \subseteq completed[s] /\ \A c \in kept : c.key # key /\ (d = 1 => c.key # q[1])
      /\ \A c \in completed[s] : c \in kept \/ c.key = key \/ (d = 1 /\ c.key = q[1])
  BY <1>d, SMTT(30)
<1>o. note \in [key : PendingKey, err : {"ok", "error"}] /\ note.key = key
  BY <1>f
<1> HIDE DEF key, Q, kept, note
<1>x. /\ completionQ' \in [Server -> Seq(PendingKey)]
      /\ completed' \in [Server -> SUBSET [key : PendingKey, err : {"ok", "error"}]]
      /\ completionQ'[s] = Q /\ completed'[s] = kept \cup {note}
      /\ \A t \in Server \ {s} : completionQ'[t] = completionQ[t] /\ completed'[t] = completed[t]
  <2>1. kept \cup {note} \in SUBSET [key : PendingKey, err : {"ok", "error"}]
    BY <1>t, <1>k, <1>o
  <2> QED
    BY <1>u, <1>t, <1>d, <2>1
<1>l. /\ loop' \in [Server -> [pc : {"select", "notify", "exited"}, err : {Nil, "ok", "error"}]]
      /\ loop'[s].pc = "select" /\ \A t \in Server \ {s} : loop'[t] = loop[t]
  BY <1>i DEF StateTypes
<1>1. StateTypes'
  BY <1>i, <1>u, <1>x, <1>l DEF StateTypes
<1>2. CommitInv'
  BY <1>i, <1>u, <1>l DEF CommitInv
<1>m. Calm
  BY <1>i, <1>u DEF Calm, SameCall, StateTypes
<1>3. KeyInv' /\ \A r \in Request : SameCall(r) /\ (OwnApplied(r)' <=> OwnApplied(r))
  BY <1>i, <1>1, <1>m, CalmKeys DEF Calm
<1>n. \A r \in Request :
         /\ Evictable(r)' <=> Evictable(r)
         /\ Notified(r)' => Notified(r) \/ (req[r].server = s /\ req[r].key = key)
  BY <1>u, <1>3, NotifyMoves DEF key
<1>4. AnswerInv'
  <2>1. ASSUME NEW t \in Server, NEW c \in completed'[t]
        PROVE  c.key.index <= applied[t] /\ log[leader][c.key.index].term = c.key.term
    <3>1. c \in completed[t] \/ (t = s /\ c = note)
      BY <1>x, <1>k
    <3>2. CASE c \in completed[t]
      BY <1>i, <3>2 DEF AnswerInv
    <3>3. CASE t = s /\ c = note
      BY <1>f, <1>o, <3>3, SMTT(30)
    <3> QED
      BY <3>1, <3>2, <3>3
  <2> QED
    BY <1>i, <1>u, <1>3, <2>1, SMTT(30) DEF AnswerInv
<1>b. ASSUME NEW n \in 1..Len(q)
      PROVE  q[n].index \in Nat /\ q[n].index + (Len(q) - n) <= applied[s] - 1
  <2>1. q[n] \in PendingKey
    BY <1>t, SMTT(30)
  <2> QED
    BY <1>i, <2>1 DEF NotesInv, PendingKey
<1>5. NotesInv'
  <2>1. ASSUME NEW t \in Server, t # s
        PROVE  /\ completionQ'[t] = completionQ[t] /\ completed'[t] = completed[t]
               /\ loop'[t] = loop[t] /\ applied'[t] = applied[t]
    BY <1>u, <1>x, <1>l, <2>1
  <2>2. ASSUME NEW c \in kept \cup {note} PROVE \E n \in 1..Len(Q) : Q[n] = c.key
    <3>1. CASE c = note
      <4>1. Len(Q) \in 1..Len(Q)
        BY <1>t, <1>d, SMTT(30)
      <4> QED
        BY <1>d, <1>o, <3>1, <4>1
    <3>2. CASE c \in kept
      <4>1. PICK n \in 1..Len(q) : q[n] = c.key
        BY <1>i, <1>k, <3>2 DEF NotesInv
      <4>2. d = 1 => n # 1
        BY <1>k, <3>2, <4>1
      <4>3. n - d \in 1..(Len(Q) - 1) /\ (n - d) + d = n /\ n - d \in 1..Len(Q)
        BY <1>t, <1>d, <4>2, SMTT(30)
      <4> QED
        BY <1>d, <4>1, <4>3
    <3> QED
      BY <3>1, <3>2
  <2>3. \A b, c \in kept \cup {note} : b.key = c.key => b = c
    BY <1>i, <1>k, <1>o DEF NotesInv
  <2>4. ASSUME NEW n \in 1..Len(Q) PROVE Q[n].index + (Len(Q) - n) <= applied[s]
    <3>1. CASE n = Len(Q)
      BY <1>d, <1>f, <1>t, <3>1, SMTT(30)
    <3>2. CASE n # Len(Q)
      <4>1. n \in 1..(Len(Q) - 1)
        BY <1>d, <1>t, <3>2, SMTT(30)
      <4>2. Q[n] = q[n + d] /\ n + d \in 1..Len(q)
        BY <1>d, <4>1
      <4>3. q[n + d].index \in Nat /\ q[n + d].index + (Len(q) - (n + d)) <= applied[s] - 1
        BY <1>b, <4>2
      <4>4. Len(Q) = Len(q) + 1 - d
        BY <1>d
      <4>5. ASSUME NEW i \in Nat, i + (Len(q) - (n + d)) <= applied[s] - 1
            PROVE  i + (Len(q) + 1 - d - n) <= applied[s]
        <5>1. n \in Int /\ d \in Int /\ Len(q) \in Nat /\ applied[s] \in Nat
          BY <1>f, <1>t, SMTT(30)
        <5> HIDE DEF q
        <5> QED
          BY <4>5, <5>1, SMTT(30)
      <4>6. q[n + d].index + (Len(q) + 1 - d - n) <= applied[s]
        BY <4>3, <4>5
      <4> HIDE DEF q
      <4> QED
        BY <4>2, <4>4, <4>6, SMTT(30)
    <3> QED
      BY <3>1, <3>2
  <2>5. loop'[s].pc # "notify" /\ applied'[s] = applied[s]
    BY <1>u, <1>l
  <2>6. ASSUME NEW t \in Server
        PROVE  /\ Len(completionQ'[t]) <= maxCompletedNotifications
               /\ \A c \in completed'[t] : \E n \in 1..Len(completionQ'[t]) : completionQ'[t][n] = c.key
               /\ \A b, c \in completed'[t] : b.key = c.key => b = c
               /\ \A n \in 1..Len(completionQ'[t]) :
                     completionQ'[t][n].index + (Len(completionQ'[t]) - n)
                       <= IF loop'[t].pc = "notify" THEN applied'[t] - 1 ELSE applied'[t]
    <3>1. CASE t = s
      BY <1>d, <1>x, <2>2, <2>3, <2>4, <2>5, <3>1
    <3>2. CASE t # s
      BY <1>i, <2>1, <3>2, SMTT(30) DEF NotesInv
    <3> QED
      BY <3>1, <3>2
  <2> QED
    BY <2>6 DEF NotesInv
<1>6. WaiterInv'
  <2>1. ASSUME NEW r \in Request, req[r].pc = "submitted", Notified(r)', ~Evictable(r)'
        PROVE  \E c \in completed'[req[r].server] : c.key = req[r].key
    <3>1. CASE req[r].server = s /\ req[r].key = key
      BY <1>x, <1>o, <3>1
    <3>2. CASE ~(req[r].server = s /\ req[r].key = key)
      <4>1. Notified(r) /\ ~Evictable(r) /\ req[r].server \in Server
        BY <1>n, <2>1, <3>2 DEF Notified, OwnApplied
      <4>2. PICK c \in completed[req[r].server] : c.key = req[r].key
        BY <1>i, <2>1, <4>1 DEF WaiterInv
      <4>3. CASE req[r].server # s
        BY <1>x, <4>1, <4>2, <4>3
      <4>4. CASE req[r].server = s
        <5>1. ~(d = 1 /\ c.key = q[1])
          <6>1. ASSUME d = 1, c.key = q[1] PROVE FALSE
            <7>1. Len(q) = maxCompletedNotifications /\ 1 \in 1..Len(q)
              BY <1>d, <1>t, <6>1, SMTT(30)
            <7>2. q[1].index \in Nat /\ q[1].index + (Len(q) - 1) <= applied[s] - 1
              BY <1>b, <7>1
            <7>3. applied[s] >= q[1].index + maxCompletedNotifications
              BY <1>f, <1>t, <7>1, <7>2, SMTT(30)
            <7> QED
              BY <4>1, <4>2, <4>4, <6>1, <7>3 DEF Evictable
          <6> QED
            BY <6>1
        <5>2. c \in kept
          BY <1>k, <3>2, <4>2, <4>4, <5>1
        <5> QED
          BY <1>x, <4>2, <4>4, <5>2
      <4> QED
        BY <4>3, <4>4
    <3> QED
      BY <3>1, <3>2
  <2>2. ASSUME NEW r \in Request, req[r].pc = "waiting", req[r].ch = Nil
        PROVE  /\ [key |-> req[r].key, req |-> r] \in pending[req[r].server]
               /\ Notified(r)' => Evictable(r)'
    <3>1. /\ [key |-> req[r].key, req |-> r] \in pending[req[r].server]
          /\ Notified(r) => Evictable(r)
      BY <1>i, <2>2 DEF WaiterInv
    <3>2. ~(req[r].server = s /\ req[r].key = key)
      BY <3>1, SMTT(30) DEF key
    <3> QED
      BY <1>n, <3>1, <3>2
  <2> QED
    BY <1>u, <2>1, <2>2 DEF WaiterInv
<1>7. OrderInv'
  <2>1. /\ \A t \in Server : StoreIsOpen(t)' => StoreIsOpen(t)
        /\ \A r \in Request : InProgress(r) => StoreIsOpen(req[r].server)'
    BY <1>i, <1>u DEF StoreIsOpen, OrderInv
  <2> QED
    BY <1>i, <1>1, <1>2, <1>m, <2>1, CalmOrder
<1> QED
  BY <1>1, <1>2, <1>3, <1>4, <1>5, <1>6, <1>7 DEF ServerInv

(* notify keeps ServerInv, whether a call is waiting for it or not.        *)
LEMMA NotifyKeeps ==
  ASSUME ServerInv, NEW s \in Server, Notify(s)
  PROVE  ServerInv'
<1> DEFINE W == {p \in pending[s] : p.key = NotifiedKey(s)}
<1>1. /\ loop[s].pc = "notify" /\ loop' = [loop EXCEPT ![s].pc = "select"]
      /\ UNCHANGED <<raftVars, applied, store, refused, closing>>
  BY DEF Notify
<1>2. pendingKey(applied[s], CommittedEntries[applied[s]].term) = NotifiedKey(s)
  BY <1>1, NotifyFacts
<1>3. \/ W # {} /\ WakeWaiter(s, NotifiedKey(s), W)
      \/ W = {} /\ LeaveNote(s, NotifiedKey(s))
  BY <1>2 DEF Notify
<1>4. CASE W # {} /\ WakeWaiter(s, NotifiedKey(s), W)
  BY <1>1, <1>4, WakeKeeps
<1>5. CASE W = {} /\ LeaveNote(s, NotifiedKey(s))
  <2>1. \A p \in pending[s] : p.key # NotifiedKey(s)
    BY <1>5
  <2> QED
    BY <1>1, <1>5, <2>1, NoteKeeps
<1> QED
  BY <1>3, <1>4, <1>5

-----------------------------------------------------------------------------
(* A bounded set of numbers has a greatest element.                        *)
LEMMA MinExists ==
  ASSUME NEW S \in SUBSET Nat, S # {}
  PROVE  \E k \in S : \A l \in S : k <= l
<1>1. PICK k \in S : \A l \in S : ~(<<l, k>> \in OpToRel(<, Nat))
  BY NatLessThanWellFounded, WFMin
<1>2. \A l \in S : ~(l < k)
  BY <1>1 DEF OpToRel
<1> QED
  BY <1>2, SMTT(30)

(* A nonempty set of numbers up to n has a greatest element.               *)
LEMMA MaxExists ==
  ASSUME NEW n \in Nat, NEW S \in SUBSET (0..n), S # {}
  PROVE  \E k \in S : \A l \in S : l <= k
<1> DEFINE T == {n - k : k \in S}
<1>1. T \in SUBSET Nat /\ T # {}
  <2>1. \A k \in S : k \in 0..n /\ n - k \in Nat
    BY SMTT(30)
  <2>2. T # {}
    OBVIOUS
  <2> QED
    BY <2>1, <2>2
<1>2. PICK d \in T : \A e \in T : d <= e
  BY <1>1, MinExists
<1>3. PICK k \in S : d = n - k
  OBVIOUS
<1>4. ASSUME NEW l \in S PROVE l <= k
  <2>1. n - l \in T
    OBVIOUS
  <2>2. n - k <= n - l
    BY <1>2, <1>3, <2>1
  <2> QED
    BY <2>2, SMTT(30)
<1> QED
  BY <1>4

-----------------------------------------------------------------------------
(* What clients have been shown is committed.                              *)
LEMMA SeenIsCommitted ==
  ASSUME StateTypes, CommitInv, OrderInv
  PROVE  Seen \in Nat /\ Seen <= committed
<1> DEFINE points == {0} \cup {req[r].at : r \in Succeeded}
<1>1. committed \in Nat
  BY NumberTypes
<1>2. \A r \in Succeeded : req[r].at \in 0..committed
  <2>1. ASSUME NEW r \in Succeeded PROVE req[r].at \in Nat /\ req[r].at <= committed
    <3>1. r \in Request
      BY DEF Succeeded
    <3>2. req[r].at \in Nat
      BY <3>1, CallTypes DEF Call
    <3>3. req[r].server \in Server /\ req[r].at <= applied[req[r].server]
      BY <3>1 DEF OrderInv
    <3>4. applied[req[r].server] \in Nat /\ applied[req[r].server] <= committed
      BY <3>3, AppliedFacts
    <3> QED
      BY <1>1, <3>2, <3>3, <3>4, SMTT(30)
  <2> QED
    BY <1>1, <2>1, SMTT(30)
<1>3. points \in SUBSET (0..committed) /\ points # {}
  BY <1>1, <1>2, SMTT(30)
<1>4. \E p \in points : \A q \in points : q <= p
  BY <1>1, <1>3, MaxExists
<1>5. Seen \in points
  <2>1. Seen = CHOOSE p \in points : \A q \in points : q <= p
    BY DEF Seen
  <2> HIDE DEF points
  <2> QED
    BY <1>4, <2>1
<1> QED
  BY <1>1, <1>3, <1>5, SMTT(30)

-----------------------------------------------------------------------------
(* Before the first leader nothing is in the logs, and ServerInv holds.    *)
LEMMA InitServer == Init => ServerInv
<1> SUFFICES ASSUME Init PROVE ServerInv
  OBVIOUS
<1>1. /\ \A s \in Server : /\ log[s] = <<>> /\ leads[s] = 0 /\ commitIndex[s] = 0 /\ applied[s] = 0
                           /\ store[s] = Nil /\ refused[s] = {} /\ pending[s] = {} /\ completed[s] = {}
                           /\ completionQ[s] = <<>> /\ closing[s] = "open"
                           /\ loop[s] = [pc |-> "select", err |-> Nil]
      /\ \A r \in Request : req[r] = Idle
      /\ term = 0 /\ leader = Nil /\ committed = 0
  BY DEF Init
<1>2. /\ Idle \in Call /\ Idle.pc = "idle" /\ Idle.key = Nil /\ Idle.ch = Nil
  BY DEF Idle, Call
<1>3. StateTypes
  BY <1>2, SMTT(30) DEF Init, StateTypes
<1>4. CommitInv
  BY <1>1, SMTT(30) DEF CommitInv
<1>5. KeyInv
  <2>1. \A s \in Server : \A k \in 1..Len(log[s]) : FALSE
    BY <1>1, SMTT(30)
  <2>2. \A r \in Request : ~HasKey(r) /\ ~InProgress(r)
    BY <1>1, <1>2 DEF HasKey, InProgress
  <2> QED
    BY <1>1, <2>1, <2>2 DEF KeyInv
<1>6. AnswerInv
  BY <1>1, <1>2, RequestAssumption DEF AnswerInv
<1>7. NotesInv
  BY <1>1, RequestAssumption, SMTT(30) DEF NotesInv
<1>8. WaiterInv
  BY <1>1, <1>2 DEF WaiterInv
<1>9. OrderInv
  <2>1. Succeeded = {}
    BY <1>1, <1>2 DEF Succeeded
  <2>2. ValueAfter(0, {}) = Nil
    BY <1>1, <1>3, <1>4, ValueIsLastWrite, SMTT(30) DEF ValuesAreWritten
  <2> QED
    BY <1>1, <1>2, <2>1, <2>2 DEF OrderInv, HasKey, InProgress, ReadsAreInOrder, InLogOrder
<1> QED
  BY <1>3, <1>4, <1>5, <1>6, <1>7, <1>8, <1>9 DEF ServerInv

(* A step that changes nothing.                                            *)
LEMMA StutterKeeps ==
  ASSUME ServerInv, UNCHANGED vars
  PROVE  ServerInv'
<1>i. StateTypes /\ CommitInv /\ KeyInv /\ AnswerInv /\ NotesInv /\ WaiterInv /\ OrderInv
  BY DEF ServerInv
<1>u. /\ UNCHANGED <<term, leader, committed, log, leads, commitIndex>> /\ UNCHANGED raftVars
      /\ UNCHANGED <<loop, applied, store, refused, pending, completed, completionQ, closing, req>>
  BY DEF vars, raftVars, loopVars, noteVars
<1>1. StateTypes'
  BY <1>i, <1>u DEF StateTypes
<1>2. CommitInv'
  BY <1>i, <1>u DEF CommitInv
<1>m. Calm
  BY <1>i, <1>u DEF Calm, SameCall, StateTypes
<1>3. KeyInv' /\ \A q \in Request : OwnApplied(q)' <=> OwnApplied(q)
  BY <1>i, <1>1, <1>m, CalmKeys
<1>4. AnswerInv'
  BY <1>i, <1>u, <1>3 DEF AnswerInv
<1>5. NotesInv'
  BY <1>i, <1>u DEF NotesInv
<1>6. WaiterInv'
  <2>1. \A q \in Request : (Notified(q)' <=> Notified(q)) /\ (Evictable(q)' <=> Evictable(q))
    BY <1>3, <1>u DEF Notified, Evictable
  <2> QED
    BY <1>i, <1>u, <2>1 DEF WaiterInv
<1>7. OrderInv'
  <2>1. /\ \A t \in Server : StoreIsOpen(t)' => StoreIsOpen(t)
        /\ \A r \in Request : InProgress(r) => StoreIsOpen(req[r].server)'
    BY <1>i, <1>u DEF StoreIsOpen, OrderInv
  <2> QED
    BY <1>i, <1>1, <1>2, <1>m, <2>1, CalmOrder
<1> QED
  BY <1>1, <1>2, <1>3, <1>4, <1>5, <1>6, <1>7 DEF ServerInv

(* Whatever Raft, the calls, the apply loops and Close do, ServerInv holds *)
(* in every state.                                                         *)
THEOREM ServerInvariant == Spec => []ServerInv
<1>1. ASSUME ServerInv, Next PROVE ServerInv'
  <2>1. \/ RaftStep
        \/ \E r \in Request : \/ TimeOut(r) \/ SeeClosed(r)
                              \/ Register(r) \/ TakeAnswer(r) \/ Leave(r) \/ Get(r)
                              \/ \E s \in Server : Submit(r, s)
        \/ \E s \in Server : \/ Close(s) \/ StopServing(s) \/ AnswerWaiters(s)
                             \/ ApplyStore(s) \/ Notify(s) \/ LoopExits(s)
    BY <1>1 DEF Next, RaftStep, CallStep, ServerStep, CloseProceeds
  <2>2. CASE RaftStep
    BY <1>1, <2>2, RaftKeeps
  <2>3. ASSUME NEW r \in Request,
               \/ TimeOut(r) \/ SeeClosed(r)
               \/ Register(r) \/ TakeAnswer(r) \/ Leave(r) \/ Get(r)
               \/ \E s \in Server : Submit(r, s)
        PROVE  ServerInv'
    <3>1. Seen \in Nat /\ Seen <= committed
      BY <1>1, SeenIsCommitted DEF ServerInv
    <3> QED
      BY <1>1, <2>3, <3>1, GiveUpKeeps, RegisterKeeps, TakeAnswerKeeps, LeaveKeeps, GetKeeps, SubmitKeeps
  <2>4. ASSUME NEW s \in Server,
               \/ Close(s) \/ StopServing(s) \/ AnswerWaiters(s)
               \/ ApplyStore(s) \/ Notify(s) \/ LoopExits(s)
        PROVE  ServerInv'
    BY <1>1, <2>4, CloseKeeps, AnswerWaitersKeeps, ApplyStoreKeeps, NotifyKeeps, LoopExitsKeeps
  <2> QED
    BY <2>1, <2>2, <2>3, <2>4
<1>2. ServerInv /\ [Next]_vars => ServerInv'
  BY <1>1, StutterKeeps
<1> QED
  BY <1>2, InitServer, PTL DEF Spec

-----------------------------------------------------------------------------
(* submitAndWait answers "ok", or with an error of the store, only for the *)
(* call's own entry, committed and applied, whoever leads meanwhile.       *)
THEOREM AnswersAreOwn == Spec => []AnswerIsOwn
<1>1. ASSUME ServerInv PROVE AnswerIsOwn
  <2>1. StateTypes /\ CommitInv /\ AnswerInv
    BY <1>1 DEF ServerInv
  <2>2. ASSUME NEW r \in Request, req[r].pc = "done", req[r].result \in {"ok", "error"}
        PROVE  /\ req[r].key.index <= applied[req[r].server]
               /\ CommittedEntries[req[r].key.index].req = r
    <3>1. OwnApplied(r)
      BY <2>1, <2>2 DEF AnswerInv
    <3>2. /\ HasKey(r) /\ req[r].server \in Server /\ req[r].key.index <= applied[req[r].server]
          /\ log[leader][req[r].key.index].req = r
      BY <3>1 DEF OwnApplied
    <3>3. req[r].key.index \in 1..committed
      <4>1. req[r].key.index \in 0..committed
        BY <1>1, <3>1, OwnPlace
      <4>2. req[r].key.index \in Nat \ {0} /\ committed \in Nat
        BY <2>1, <3>2, CallTypes, NumberTypes
      <4> QED
        BY <4>1, <4>2, SMTT(30)
    <3> QED
      BY <2>1, <3>2, <3>3, CommittedFacts
  <2> QED
    BY <2>2 DEF AnswerIsOwn
<1> QED
  BY <1>1, ServerInvariant, PTL

(* Get, Put and Delete take effect in the order of the log: after all that *)
(* was answered before they began, and with the value of the writes before *)
(* them that the store of the reading server did not fail to make.         *)
THEOREM CallsAreInOrder == Spec => []ReadsAreInOrder
<1>1. ServerInv => ReadsAreInOrder
  BY DEF ServerInv, OrderInv
<1> QED
  BY <1>1, ServerInvariant, PTL

(* Reads are linearizable, as README.md says, if no store fails to write   *)
(* what applyCommittedEntries gives it: that is all they depend on.        *)
THEOREM LinearizableIfStoresWrite ==
  ASSUME Failing = {}
  PROVE  Spec => []Linearizable
<1> DEFINE AllWritten == refused = [s \in Server |-> {}]
<1>1. Init => AllWritten
  BY DEF Init
<1>2. AllWritten /\ [Next]_vars => AllWritten'
  <2>1. ASSUME [Next]_vars PROVE UNCHANGED refused
    BY <2>1 DEF Next, vars, loopVars, NewLeader, StepDown, Close, Commit, Follow, TimeOut, CallStep,
                Register, TakeAnswer, SeeClosed, Leave, Get, Submit, ServerStep, ApplyStore, Notify,
                LoopExits, CloseProceeds, AnswerWaiters, StopServing
  <2> QED
    BY <2>1
<1>3. ReadsAreInOrder /\ AllWritten => Linearizable
  BY DEF ReadsAreInOrder, Linearizable
<1> QED
  BY <1>1, <1>2, <1>3, CallsAreInOrder, PTL DEF Spec

(* applyCommittedEntries and Close never block on a waiter's channel.      *)
THEOREM SendsNeverBlock == Spec => []SendNeverBlocks
<1>1. ServerInv => SendNeverBlocks
  BY DEF ServerInv, AnswerInv, SendNeverBlocks
<1> QED
  BY <1>1, ServerInvariant, PTL

(* A call whose entry the loop has notified is not left waiting, but for   *)
(* the notes that maxCompletedNotifications later entries push out.        *)
THEOREM WaitersAreNotForgotten == Spec => []WaiterIsNotForgotten
<1>1. ASSUME ServerInv PROVE WaiterIsNotForgotten
  <2>i. StateTypes /\ CommitInv /\ KeyInv /\ WaiterInv
    BY <1>1 DEF ServerInv
  <2> SUFFICES ASSUME NEW r \in Request, req[r].pc = "waiting", req[r].ch = Nil,
                      req[r].key.index <= committed,
                      CommittedEntries[req[r].key.index].req = r,
                      ~(applied[req[r].server] < req[r].key.index),
                      ~(applied[req[r].server] = req[r].key.index /\ loop[req[r].server].pc = "notify")
               PROVE  applied[req[r].server] >= req[r].key.index + maxCompletedNotifications
    BY DEF WaiterIsNotForgotten
  <2> DEFINE s == req[r].server
             n == req[r].key.index
  <2>1. HasKey(r) /\ s \in Server
    BY <2>i DEF KeyInv, InProgress
  <2>2. n \in Nat \ {0} /\ applied[s] \in Nat /\ committed \in Nat
    BY <2>i, <2>1, CallTypes, NumberTypes
  <2>3. n \in 1..committed /\ n <= applied[s]
    BY <2>2, SMTT(30)
  <2>4. log[leader][n].req = r
    BY <2>i, <2>3, CommittedFacts
  <2>5. Notified(r)
    BY <2>1, <2>3, <2>4 DEF Notified, OwnApplied
  <2> QED
    BY <2>i, <2>5 DEF WaiterInv, Evictable
<1> QED
  BY <1>1, ServerInvariant, PTL

(* rememberCompletedNotification keeps at most maxCompletedNotifications   *)
(* notes, all of them within reach of eviction.                            *)
THEOREM NotesBounded == Spec => []NotesAreBounded
<1>1. ASSUME ServerInv PROVE NotesAreBounded
  <2>i. StateTypes /\ NotesInv
    BY <1>1 DEF ServerInv
  <2>1. ASSUME NEW s \in Server PROVE Cardinality(completed[s]) <= maxCompletedNotifications
    <3> DEFINE m == Len(completionQ[s])
               place == [c \in completed[s] |-> CHOOSE n \in 1..m : completionQ[s][n] = c.key]
    <3>1. /\ m \in Nat /\ m <= maxCompletedNotifications /\ maxCompletedNotifications \in Nat
          /\ \A c \in completed[s] : \E n \in 1..m : completionQ[s][n] = c.key
          /\ \A c, d \in completed[s] : c.key = d.key => c = d
      BY <2>i, RequestAssumption, SMTT(30) DEF StateTypes, NotesInv
    <3>2. ASSUME NEW c \in completed[s] PROVE place[c] \in 1..m /\ completionQ[s][place[c]] = c.key
      <4>1. place[c] = CHOOSE n \in 1..m : completionQ[s][n] = c.key
        OBVIOUS
      <4>2. \E n \in 1..m : completionQ[s][n] = c.key
        BY <3>1
      <4> HIDE DEF place
      <4> QED
        BY <4>1, <4>2
    <3>3. place \in Injection(completed[s], 1..m)
      <4>1. place \in [completed[s] -> 1..m] /\ DOMAIN place = completed[s]
        BY <3>2
      <4> HIDE DEF place
      <4>2. \A c, d \in completed[s] : place[c] = place[d] => c = d
        BY <3>1, <3>2, SMTT(30)
      <4> QED
        BY <4>1, <4>2 DEF Injection, IsInjective
    <3>4. IsFiniteSet(1..m) /\ Cardinality(1..m) = m
      <4>1. m \in Int /\ 1 \in Int /\ (IF 1 > m THEN 0 ELSE m - 1 + 1) = m
        BY <3>1, SMTT(30)
      <4>2. IsFiniteSet(1..m) /\ Cardinality(1..m) = IF 1 > m THEN 0 ELSE m - 1 + 1
        BY <4>1, FS_Interval
      <4> QED
        BY <4>1, <4>2, SMTT(30)
    <3> HIDE DEF place, m
    <3>5. IsFiniteSet(completed[s]) /\ Cardinality(completed[s]) <= m
      BY <3>3, <3>4, FS_Injection, SMTT(30)
    <3>6. Cardinality(completed[s]) \in Nat
      BY <3>5, FS_CardinalityType
    <3> QED
      BY <3>1, <3>5, <3>6, SMTT(30)
  <2> QED
    BY <2>i, <2>1 DEF NotesAreBounded, NotesInv
<1> QED
  BY <1>1, ServerInvariant, PTL
=============================================================================
