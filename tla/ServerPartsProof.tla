-------------------------- MODULE ServerPartsProof --------------------------
(***************************************************************************)
(* Two parts of a server by themselves: the safety properties of ApplyLoop *)
(* for any capacity of applyCh and any number of commits, and the address  *)
(* that PeerAddresses gives for a leader.                                  *)
(***************************************************************************)
EXTENDS ApplyLoop, PeerAddresses, TLAPS

-----------------------------------------------------------------------------
(* The address of the leader.                                              *)

(* -client-peers, when given, is what the hint is taken from: whichever    *)
(* other node is taken for the leader, leaderAddress is where it serves    *)
(* clients.  normalizeConfig accepts such a configuration.                 *)
THEOREM GivenPeersNameLeader ==
    ASSUME NEW n \in Nat, NEW R \in [Nat -> Address], NEW C \in [Nat -> Address],
           NEW i \in Places(n)
    PROVE  /\ normalizeConfig(WithClientPeers(i, n, R, C)) # {}
           /\ NamesLeader(WithClientPeers(i, n, R, C), n, C)
<1> DEFINE cfg == WithClientPeers(i, n, R, C)
<1>1. /\ cfg.id = i /\ cfg.raft = {Local(R[i])} /\ cfg.client = {Local(C[i])}
      /\ cfg.n = n /\ cfg.m = n /\ cfg.clientPeers = [k \in Nat |-> {C[k]}]
  BY DEF WithClientPeers
<1>2. i \in Nat /\ i < n /\ n > 0
  BY DEF Places
<1>3. OwnAddress(cfg) = {Local(C[i])} /\ ~Rejected(cfg)
  BY <1>1, <1>2 DEF OwnAddress, Rejected
<1>4. [cfg EXCEPT !.client = {Local(C[i])}] = cfg
  <2>1. ASSUME NEW own, NEW raft, NEW given
        PROVE  [[id |-> i, raft |-> raft, client |-> own, n |-> n, peers |-> R, m |-> n,
                 clientPeers |-> given] EXCEPT !.client = own]
                 = [id |-> i, raft |-> raft, client |-> own, n |-> n, peers |-> R, m |-> n,
                    clientPeers |-> given]
    OBVIOUS
  <2> QED BY <2>1, Zenon DEF WithClientPeers
<1>5. normalizeConfig(cfg) = {cfg}
  <2> HIDE DEF cfg
  <2>1. cfg.m # 0
    BY <1>1, <1>2
  <2> QED BY <1>3, <1>4, <2>1, Zenon DEF normalizeConfig
<1>6. ASSUME NEW l \in Places(n) \ {i}
      PROVE  leaderAddress(cfg, l) = {C[l]}
  <2> HIDE DEF cfg
  <2>1. l \in Nat /\ l < n
    BY DEF Places
  <2>2. addressesByID(cfg)[l] = {C[l]}
    BY <1>1, <2>1 DEF addressesByID
  <2>3. clientPeers(cfg)[l] = {C[l]}
    BY <1>1, <1>2, <2>1, <2>2 DEF clientPeers, addressesByID
  <2> QED BY <2>1, <2>3 DEF leaderAddress
<1> QED BY <1>1, <1>5, <1>6 DEF NamesLeader

(* Without -client-peers a node derives the addresses of the others from   *)
(* its own two ports.  All nodes then give right hints exactly when all    *)
(* have the two ports at the same distance and on one host; for other      *)
(* layouts some node sends its clients to an address nobody serves.        *)
THEOREM DerivedPeersNameLeader ==
    ASSUME NEW n \in Nat, NEW R \in [Nat -> Address], NEW C \in [Nat -> Address],
           \A i \in Places(n) : normalizeConfig(WithoutClientPeers(i, n, R, C)) # {}
    PROVE  (\A i \in Places(n) : NamesLeader(WithoutClientPeers(i, n, R, C), n, C))
              <=> SameOffset(n, R, C)
<1> DEFINE cfg(i) == WithoutClientPeers(i, n, R, C)
           off(i) == C[i].port - R[i].port
           guess(i, k) == [host |-> R[k].host, port |-> R[k].port + off(i)]
           conf(i) == [cfg(i) EXCEPT !.client = {Local(C[i])}, !.m = n,
                                     !.clientPeers = [k \in Nat |-> {guess(i, k)}]]
<1>1. ASSUME NEW i \in Places(n)
      PROVE  normalizeConfig(cfg(i)) = {conf(i)}
  <2>1. /\ cfg(i).id = i /\ cfg(i).raft = {Local(R[i])} /\ cfg(i).client = {Local(C[i])}
        /\ cfg(i).n = n /\ cfg(i).m = 0 /\ cfg(i).peers = R
    BY DEF WithoutClientPeers
  <2>2. i \in Nat /\ i < n /\ n > 0
    BY DEF Places
  <2>3. OwnAddress(cfg(i)) = {Local(C[i])} /\ ~Rejected(cfg(i))
    BY <2>1, <2>2 DEF OwnAddress, Rejected
  <2> DEFINE D == deriveClientPeerAddresses(n, R, Local(R[i]), Local(C[i]))
  <2>4. normalizeConfig(cfg(i)) =
            {[cfg(i) EXCEPT !.client = {Local(C[i])}, !.m = n, !.clientPeers = derived] : derived \in D}
    <3>1. The({Local(R[i])}) = Local(R[i]) /\ The({Local(C[i])}) = Local(C[i])
      BY DEF The
    <3>2. cfg(i).m = 0 /\ cfg(i).n > 0 /\ {Local(C[i])} # {}
      BY <2>1, <2>2
    <3> DEFINE own == OwnAddress(cfg(i))
               E == deriveClientPeerAddresses(cfg(i).n, cfg(i).peers, The(cfg(i).raft), The(own))
    <3> HIDE DEF cfg
    <3>3. normalizeConfig(cfg(i)) =
              {[cfg(i) EXCEPT !.client = own, !.m = cfg(i).n, !.clientPeers = derived] : derived \in E}
      BY <2>3, <3>2, Zenon DEF normalizeConfig
    <3>4. E = D
      BY <2>1, <2>3, <3>1, Zenon
    <3>5. own = {Local(C[i])} /\ cfg(i).n = n
      BY <2>1, <2>3
    <3> HIDE DEF own, D, E
    <3> QED BY <3>3, <3>4, <3>5, Zenon
  <2>5. D # {}
    BY <2>4
  <2>6. D = {[k \in Nat |-> {guess(i, k)}]}
    BY <2>5 DEF deriveClientPeerAddresses, Moved, Local
  <2> QED BY <2>4, <2>6
<1>2. ASSUME NEW i \in Places(n), NEW k \in Places(n) \ {i}
      PROVE  leaderAddress(conf(i), k) = {guess(i, k)}
  <2>1. /\ conf(i).id = i /\ conf(i).client = {Local(C[i])} /\ conf(i).m = n
        /\ conf(i).clientPeers = [j \in Nat |-> {guess(i, j)}]
    BY DEF WithoutClientPeers
  <2>2. i \in Nat /\ k \in Nat /\ k < n
    BY DEF Places
  <2> HIDE DEF conf, guess
  <2>3. addressesByID(conf(i))[k] = {guess(i, k)}
    BY <2>1, <2>2 DEF addressesByID
  <2>4. clientPeers(conf(i))[k] = {guess(i, k)}
    BY <2>1, <2>2, <2>3 DEF clientPeers, addressesByID
  <2> QED BY <2>2, <2>4 DEF leaderAddress
<1>3. ASSUME NEW i \in Places(n), NEW k \in Places(n)
      PROVE  guess(i, k) = C[k] <=> C[k].host = R[k].host /\ off(k) = off(i)
  BY DEF Places, Address
<1>4. ASSUME NEW i \in Places(n)
      PROVE  NamesLeader(cfg(i), n, C) <=> \A k \in Places(n) : i # k => guess(i, k) = C[k]
  <2>1. cfg(i).id = i
    BY DEF WithoutClientPeers
  <2> HIDE DEF cfg, conf, guess
  <2> QED BY <1>1, <1>2, <2>1 DEF NamesLeader
<1> HIDE DEF guess, conf
<1> QED BY <1>3, <1>4 DEF SameOffset

-----------------------------------------------------------------------------
(* The loop that delivers committed entries.                               *)
USE ZenonT(30)

(* How many entries have been put on the channel.                          *)
Sent == IF pc = "send" THEN lastApplied - 1 ELSE lastApplied

(* ReceivedInOrder, entry by entry.                                        *)
DeliveryInv ==
    /\ received \in Seq(Nat) /\ applyCh \in Seq(Nat)
    /\ pc = "send" => lastApplied > 0
    /\ Len(received) + Len(applyCh) = Sent
    /\ \A n \in 1..Len(received) : received[n] = n
    /\ \A n \in 1..Len(applyCh) : applyCh[n] = Len(received) + n

LoopInv == TypeOK /\ DeliveryInv /\ SignalIsKept

(* The loop starts with nothing to deliver.                                *)
LEMMA InitLoop == Init => LoopInv
<1> SUFFICES ASSUME Init PROVE LoopInv
  OBVIOUS
<1>1. <<>> \in Seq(Nat) /\ Len(<<>>) = 0
  BY SMTT(30)
<1>2. /\ received = <<>> /\ applyCh = <<>> /\ pc = "loop" /\ commitNotifyCh = FALSE
      /\ lastApplied = 0 /\ commitIndex = 0
  BY DEF Init
<1>3. TypeOK
  <2>1. 0 \in 0..MaxCommit /\ 0 \in 0..0 /\ 0 <= ApplyBuffer
    BY BufferAssumption, SMTT(30)
  <2> QED
    BY <1>1, <1>2, <2>1 DEF TypeOK
<1>4. Sent = 0
  BY <1>2 DEF Sent
<1>5. DeliveryInv
  <2>1. Len(received) + Len(applyCh) = Sent
    BY <1>1, <1>2, <1>4, SMTT(30)
  <2>2. 1..Len(received) = {} /\ 1..Len(applyCh) = {}
    BY <1>1, <1>2, SMTT(30)
  <2> QED
    BY <1>1, <1>2, <2>1, <2>2 DEF DeliveryInv
<1> QED
  BY <1>2, <1>3, <1>5 DEF LoopInv, SignalIsKept

(* A step that touches neither the channel nor what was received.          *)
LEMMA QuietKeeps ==
  ASSUME DeliveryInv, UNCHANGED <<received, applyCh>>, Sent' = Sent,
         pc' = "send" => lastApplied' > 0
  PROVE  DeliveryInv'
  BY DEF DeliveryInv

(* What the send of an entry to the channel of the consumer keeps.         *)
LEMMA SendKeeps ==
  ASSUME LoopInv, Send
  PROVE  TypeOK' /\ DeliveryInv'
<1>1. /\ lastApplied \in Nat /\ lastApplied > 0 /\ Len(received) + Len(applyCh) = lastApplied - 1
      /\ received \in Seq(Nat) /\ applyCh \in Seq(Nat)
  BY BufferAssumption, SMTT(30) DEF LoopInv, TypeOK, DeliveryInv, Send, Sent
<1>2. /\ applyCh' = Append(applyCh, lastApplied) /\ pc' = "loop" /\ lastApplied' = lastApplied
      /\ received' = received
  BY DEF Send, serverVars
<1>3. /\ applyCh' \in Seq(Nat) /\ Len(applyCh') = Len(applyCh) + 1
  BY <1>1, <1>2, SMTT(30)
<1>4. ASSUME NEW n \in 1..Len(applyCh') PROVE applyCh'[n] = Len(received) + n
  <2>1. \A k \in 1..Len(applyCh) : applyCh[k] = Len(received) + k
    BY DEF LoopInv, DeliveryInv
  <2>2. CASE n = Len(applyCh) + 1
    BY <1>1, <1>2, <2>2, SMTT(30)
  <2>3. CASE n # Len(applyCh) + 1
    <3>1. n \in 1..Len(applyCh)
      BY <1>1, <1>3, <2>3, SMTT(30)
    <3>2. applyCh'[n] = applyCh[n]
      BY <1>1, <1>2, <3>1, SMTT(30)
    <3> QED
      BY <2>1, <3>1, <3>2
  <2> QED
    BY <2>2, <2>3
<1>5. TypeOK'
  BY <1>1, <1>2, <1>3, BufferAssumption, SMTT(30) DEF LoopInv, TypeOK, Send, commitVars
<1>6. Sent' = lastApplied /\ Len(received') + Len(applyCh') = Sent'
  BY <1>1, <1>2, <1>3, SMTT(30) DEF Sent
<1> QED
  BY <1>1, <1>2, <1>3, <1>4, <1>5, <1>6, SMTT(30) DEF LoopInv, DeliveryInv

(* What the receipt of an entry by the consumer keeps.                     *)
LEMMA ReceiveKeeps ==
  ASSUME LoopInv, Receive
  PROVE  TypeOK' /\ DeliveryInv'
<1>1. /\ received \in Seq(Nat) /\ applyCh \in Seq(Nat) /\ applyCh # <<>>
      /\ \A k \in 1..Len(received) : received[k] = k
      /\ \A k \in 1..Len(applyCh) : applyCh[k] = Len(received) + k
  BY DEF LoopInv, DeliveryInv, Receive
<1>2. /\ received' = Append(received, Head(applyCh)) /\ applyCh' = Tail(applyCh)
      /\ pc' = pc /\ lastApplied' = lastApplied
  BY DEF Receive, nodeVars
<1>3. /\ Len(applyCh) > 0 /\ Head(applyCh) = Len(received) + 1
  BY <1>1, SMTT(30)
<1>4. /\ received' \in Seq(Nat) /\ applyCh' \in Seq(Nat)
      /\ Len(received') = Len(received) + 1 /\ Len(applyCh') = Len(applyCh) - 1
  BY <1>1, <1>2, <1>3, SMTT(30)
<1>5. ASSUME NEW n \in 1..Len(received') PROVE received'[n] = n
  BY <1>1, <1>2, <1>3, <1>4, SMTT(30)
<1>6. ASSUME NEW n \in 1..Len(applyCh') PROVE applyCh'[n] = Len(received') + n
  BY <1>1, <1>2, <1>3, <1>4, SMTT(30)
<1>7. Sent' = Sent
  BY <1>2 DEF Sent
<1>8. Len(received) + Len(applyCh) = Sent /\ (pc = "send" => lastApplied > 0)
  BY DEF LoopInv, DeliveryInv
<1>9. Len(received') + Len(applyCh') = Sent'
  BY <1>1, <1>4, <1>7, <1>8, SMTT(30)
<1>10. TypeOK'
  BY <1>1, <1>2, <1>4, BufferAssumption, SMTT(30) DEF LoopInv, TypeOK, Receive, commitVars
<1> QED
  BY <1>2, <1>4, <1>5, <1>6, <1>8, <1>9, <1>10 DEF DeliveryInv

(* Every step keeps LoopInv.                                               *)
LEMMA LoopStep ==
  ASSUME LoopInv, [Next]_vars
  PROVE  LoopInv'
<1> USE DEF LoopInv
<1>t. /\ commitIndex \in 0..MaxCommit /\ lastApplied \in 0..commitIndex /\ MaxCommit \in Nat
      /\ lastApplied \in Nat /\ commitIndex \in Nat
  BY BufferAssumption, SMTT(30) DEF TypeOK
<1>1. CASE AdvanceCommit
  <2>1. commitIndex' = commitIndex + 1 /\ commitIndex < MaxCommit /\ commitNotifyCh' = TRUE
    BY <1>1 DEF AdvanceCommit, notifyCommitAdvance
  <2>2. UNCHANGED <<lastApplied, pc, applyCh, received>> /\ Sent' = Sent
    BY <1>1 DEF AdvanceCommit, nodeVars, serverVars, Sent
  <2>3. commitIndex' \in 0..MaxCommit /\ lastApplied \in 0..commitIndex'
    BY <1>t, <2>1, SMTT(30)
  <2>4. TypeOK'
    BY <2>1, <2>2, <2>3 DEF TypeOK
  <2>5. DeliveryInv'
    BY <2>2, QuietKeeps DEF DeliveryInv
  <2> QED
    BY <2>1, <2>4, <2>5 DEF SignalIsKept
<1>2. CASE CheckShutdown
  <2>1. /\ UNCHANGED <<commitIndex, commitNotifyCh, lastApplied, applyCh, received>>
        /\ pc = "loop" /\ pc' \in {"check", "stopped"}
    BY <1>2 DEF CheckShutdown, commitVars, serverVars
  <2>2. Sent' = Sent
    BY <2>1 DEF Sent
  <2> QED
    BY <2>1, <2>2, QuietKeeps DEF TypeOK, SignalIsKept
<1>3. CASE CheckCommit
  <2>1. UNCHANGED <<commitIndex, commitNotifyCh, applyCh, received>> /\ pc = "check"
    BY <1>3 DEF CheckCommit, commitVars, serverVars
  <2>2. CASE lastApplied < commitIndex /\ lastApplied' = lastApplied + 1 /\ pc' = "send"
    <3>1. lastApplied' \in 0..commitIndex /\ lastApplied' > 0 /\ Sent' = Sent
      BY <1>t, <2>1, <2>2, SMTT(30) DEF Sent
    <3> QED
      BY <2>1, <2>2, <3>1, QuietKeeps DEF TypeOK, SignalIsKept
  <2>3. CASE lastApplied >= commitIndex /\ pc' = "wait" /\ UNCHANGED lastApplied
    <3>1. ~(lastApplied < commitIndex) /\ Sent' = Sent
      BY <1>t, <2>1, <2>3, SMTT(30) DEF Sent
    <3> QED
      BY <2>1, <2>3, <3>1, QuietKeeps DEF TypeOK, SignalIsKept
  <2> QED
    BY <1>3, <2>2, <2>3 DEF CheckCommit
<1>4. CASE Send
  BY <1>4, SendKeeps DEF Send, SignalIsKept
<1>5. CASE Wait
  <2>1. /\ UNCHANGED <<commitIndex, lastApplied, applyCh, received>>
        /\ pc = "wait" /\ pc' \in {"loop", "stopped"} /\ commitNotifyCh' \in BOOLEAN
    BY <1>5 DEF Wait, serverVars, TypeOK
  <2>2. Sent' = Sent
    BY <2>1 DEF Sent
  <2> QED
    BY <2>1, <2>2, QuietKeeps DEF TypeOK, SignalIsKept
<1>6. CASE Receive
  BY <1>6, ReceiveKeeps DEF Receive, SignalIsKept, commitVars, nodeVars
<1>7. CASE StopServing \/ Close \/ Shutdown \/ UNCHANGED vars
  <2>1. UNCHANGED <<commitIndex, commitNotifyCh, lastApplied, pc, applyCh, received>>
    BY <1>7 DEF StopServing, Close, Shutdown, vars, commitVars, nodeVars, serverVars
  <2>2. Sent' = Sent
    BY <2>1 DEF Sent
  <2> QED
    BY <2>1, <2>2, QuietKeeps DEF TypeOK, SignalIsKept, DeliveryInv
<1> QED
  BY <1>1, <1>2, <1>3, <1>4, <1>5, <1>6, <1>7 DEF Next, NodeLoop, ServerLoop

(* What was received, what is on the channel and what is in hand, joined.  *)
LEMMA InOrder ==
  ASSUME LoopInv
  PROVE  ReceivedInOrder
<1> DEFINE inHand == IF pc = "send" THEN <<lastApplied>> ELSE <<>>
           all == received \o applyCh \o inHand
<1>1. /\ received \in Seq(Nat) /\ applyCh \in Seq(Nat) /\ lastApplied \in Nat
      /\ Len(received) + Len(applyCh) = Sent
      /\ \A n \in 1..Len(received) : received[n] = n
      /\ \A n \in 1..Len(applyCh) : applyCh[n] = Len(received) + n
  BY BufferAssumption, SMTT(30) DEF LoopInv, TypeOK, DeliveryInv
<1>2. /\ inHand \in Seq(Nat) /\ Len(inHand) = lastApplied - Sent
      /\ \A n \in 1..Len(inHand) : inHand[n] = Sent + n
  <2>1. CASE pc = "send"
    <3>1. inHand = <<lastApplied>> /\ Sent = lastApplied - 1
      BY <2>1 DEF Sent
    <3> HIDE DEF inHand
    <3> QED
      BY <1>1, <3>1, SMTT(30)
  <2>2. CASE pc # "send"
    <3>1. inHand = <<>> /\ Sent = lastApplied
      BY <2>2 DEF Sent
    <3> HIDE DEF inHand
    <3> QED
      BY <1>1, <3>1, SMTT(30)
  <2> QED
    BY <2>1, <2>2
<1>4. Len(received) \in Nat /\ Len(applyCh) \in Nat /\ Len(inHand) \in Nat /\ Sent \in Int
  BY <1>1, <1>2, SMTT(30) DEF Sent
<1> HIDE DEF inHand
<1>5. all \in Seq(Nat) /\ Len(all) = lastApplied
  BY <1>1, <1>2, <1>4, SMTT(30)
<1>6. ASSUME NEW n \in 1..lastApplied PROVE all[n] = n
  <2>0. received \o applyCh \in Seq(Nat) /\ Len(received \o applyCh) = Sent
    BY <1>1, SMTT(30)
  <2>1. CASE n \in 1..Len(received)
    <3>1. n \in 1..Sent /\ (received \o applyCh)[n] = received[n]
      BY <1>1, <1>4, <2>1, SMTT(30)
    <3>2. all[n] = (received \o applyCh)[n]
      BY <1>2, <2>0, <3>1, SMTT(30)
    <3> QED
      BY <1>1, <2>1, <3>1, <3>2
  <2>2. CASE n \in (Len(received) + 1)..Sent
    <3>1. n - Len(received) \in 1..Len(applyCh) /\ n = Len(received) + (n - Len(received))
      BY <1>1, <1>4, <2>2, SMTT(30)
    <3>2. (received \o applyCh)[n] = applyCh[n - Len(received)]
      BY <1>1, <1>4, <2>2, SMTT(30)
    <3>3. all[n] = (received \o applyCh)[n]
      BY <1>2, <1>4, <2>0, <2>2, SMTT(30)
    <3> QED
      BY <1>1, <3>1, <3>2, <3>3
  <2>3. CASE n \in (Sent + 1)..lastApplied
    <3>1. n - Sent \in 1..Len(inHand) /\ n = Sent + (n - Sent)
      BY <1>1, <1>2, <1>4, <2>3, SMTT(30)
    <3>2. all[n] = inHand[n - Sent]
      BY <1>2, <1>4, <2>0, <2>3, <3>1, SMTT(30)
    <3> QED
      BY <1>2, <3>1, <3>2
  <2>4. n \in 1..Len(received) \/ n \in (Len(received) + 1)..Sent \/ n \in (Sent + 1)..lastApplied
    BY <1>1, <1>4, SMTT(30)
  <2> QED
    BY <2>1, <2>2, <2>3, <2>4
<1> HIDE DEF all
<1>7. all = [n \in 1..lastApplied |-> n]
  BY <1>1, <1>5, <1>6, SMTT(30)
<1> QED
  BY <1>7 DEF ReceivedInOrder, all, inHand

-----------------------------------------------------------------------------
(* LoopInv holds throughout, for any number of entries and commits.        *)
LEMMA LoopInvariant == Spec => []LoopInv
<1>1. LoopInv /\ [Next]_vars => LoopInv'
  BY LoopStep
<1> QED
  BY <1>1, InitLoop, PTL DEF Spec

(* The channel never holds more than its capacity, and the node never      *)
(* applies beyond commitIndex.                                             *)
THEOREM TypeCorrect == Spec => []TypeOK
<1>1. LoopInv => TypeOK
  BY DEF LoopInv
<1> QED
  BY <1>1, LoopInvariant, PTL

(* The entries the applier takes reach the server's loop once and in       *)
(* order, through a channel of any capacity.                               *)
THEOREM DeliveredInOrder == Spec => []ReceivedInOrder
<1>1. LoopInv => ReceivedInOrder
  BY InOrder
<1> QED
  BY <1>1, LoopInvariant, PTL

(* The applier never waits on commitNotifyCh with entries to apply and no  *)
(* signal: no wake-up is lost.                                             *)
THEOREM NoSignalLost == Spec => []SignalIsKept
<1>1. LoopInv => SignalIsKept
  BY DEF LoopInv
<1> QED
  BY <1>1, LoopInvariant, PTL
=============================================================================
