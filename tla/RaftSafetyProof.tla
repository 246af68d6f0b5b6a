--------------------------- MODULE RaftSafetyProof ---------------------------
(***************************************************************************)
(* Raft without restarts, in clusters in which an election needs every     *)
(* vote: election safety; logs never diverge, and so the state machines    *)
(* never do; what is committed stays committed, is known to every later    *)
(* leader and stored by a majority; the cluster implements CommittedLog.   *)
(***************************************************************************)
EXTENDS RaftTypesProof

USE ZenonT(30)

(* At the start nobody campaigns, leads or has sent anything.              *)
LEMMA InitElection == Init => ElectionInv
  BY SMTT(30) DEF Init, NewNode, ElectionInv, OwnVote, VoteRequestOrigin, VotesAreSupport,
         LeaderIsSupported, RequestIsSupported

(* Requests stay supported while terms only grow and nobody campaigns.     *)
LEMMA RequestsKeepSupport ==
  ASSUME TypeOK, RequestIsSupported, UNCHANGED <<electionTerm, appendRequests>>,
         currentTerm' \in [Server -> Nat],
         \A j \in Server : currentTerm'[j] >= currentTerm[j],
         \A j \in Server : pc'[j] = "election" => pc[j] = "election"
  PROVE  RequestIsSupported'
<1> SUFFICES ASSUME NEW m \in appendRequests
             PROVE  LET l == m.args.leaderId
                        t == m.args.term
                    IN /\ m.to # l /\ t > 0
                       /\ t <= electionTerm[l] /\ (t = electionTerm[l] => pc'[l] # "election")
                       /\ \A j \in Server \ {l} : currentTerm'[j] >= t /\ electionTerm[j] # t
  BY DEF RequestIsSupported
<1>1. m.args.leaderId \in Server /\ m.args.term \in Nat
  BY ArgsFacts, SMTT(30) DEF TypeOK, Term
<1> QED
  BY <1>1, SMTT(30) DEF RequestIsSupported, TypeOK, Term

(* A node that moves to a higher term as a follower disturbs nothing.      *)
LEMMA StepsDownTo ==
  ASSUME TypeOK, ElectionInv, NEW i \in Server, NEW t \in Term, t > currentTerm[i],
         becomeFollowerLocked(i, t),
         UNCHANGED <<pc, electionTerm, votes, voteRequests, voteReplies, appendRequests>>
  PROVE  ElectionInv'
<1>1. /\ currentTerm' = [currentTerm EXCEPT ![i] = t]
      /\ votedFor' = [votedFor EXCEPT ![i] = Nil]
      /\ state' = [state EXCEPT ![i] = "Follower"]
  BY DEF becomeFollowerLocked
<1>2. /\ \A j \in Server : currentTerm'[j] >= currentTerm[j]
      /\ currentTerm' \in [Server -> Nat]
  BY <1>1, SMTT(30) DEF TypeOK, Term
<1>3. \A j, k \in Server : Supports(j, k) => Supports(j, k)'
  BY <1>2, SMTT(30) DEF Supports, TypeOK, Term
<1>4. OwnVote' /\ VoteRequestOrigin'
  BY <1>1, SMTT(30) DEF ElectionInv, OwnVote, VoteRequestOrigin, TypeOK, Term
<1>5. VotesAreSupport'
  BY <1>3 DEF ElectionInv, VotesAreSupport, TypeOK
<1>6. LeaderIsSupported'
  BY <1>1, <1>3 DEF ElectionInv, LeaderIsSupported, TypeOK
<1>7. RequestIsSupported'
  BY <1>2, RequestsKeepSupport DEF ElectionInv
<1> QED
  BY <1>4, <1>5, <1>6, <1>7 DEF ElectionInv

(* Every step keeps the election part of the invariant: one case for each  *)
(* action of Next.                                                         *)
LEMMA NextElection ==
  ASSUME Counting, Unanimous, TypeOK, ElectionInv, [Next]_vars
  PROVE  ElectionInv'
<1> USE DEF Term
<1>t. /\ currentTerm \in [Server -> Term] /\ electionTerm \in [Server -> Term]
      /\ MaxTerm \in Nat
  BY BoundAssumption, SMTT(30) DEF TypeOK
<1>1. ASSUME NEW i \in Server, runFollower(i) PROVE ElectionInv'
  BY <1>1, SMTT(30) DEF ElectionInv, OwnVote, VoteRequestOrigin, VotesAreSupport, LeaderIsSupported,
       RequestIsSupported, Supports, TypeOK, runFollower, runVars, voteVars, appendVars
<1>2. ASSUME NEW i \in Server, run(i) PROVE ElectionInv'
  BY <1>2, SMTT(30) DEF ElectionInv, OwnVote, VoteRequestOrigin, VotesAreSupport, LeaderIsSupported,
       RequestIsSupported, Supports, TypeOK, run, nodeVars, voteVars, appendVars
<1>4. ASSUME NEW i \in Server, ElectionExpires(i) PROVE ElectionInv'
  BY <1>4, SMTT(30) DEF ElectionInv, OwnVote, VoteRequestOrigin, VotesAreSupport, LeaderIsSupported,
       RequestIsSupported, Supports, TypeOK, ElectionExpires, LeaveElection, RepliesTo,
       nodeVars, appendVars
<1>3. ASSUME NEW i \in Server, runCandidate(i) PROVE ElectionInv'
  <2>1. /\ currentTerm' = [currentTerm EXCEPT ![i] = currentTerm[i] + 1]
        /\ electionTerm' = [electionTerm EXCEPT ![i] = currentTerm[i] + 1]
        /\ votedFor' = [votedFor EXCEPT ![i] = i]
        /\ votes' = [votes EXCEPT ![i] = {i}]
        /\ pc[i] = "candidate" /\ pc' = [pc EXCEPT ![i] = "election"]
        /\ UNCHANGED <<state, voteReplies, appendRequests>>
    BY <1>3 DEF runCandidate, appendVars
  <2>2. \A j, k \in Server : k # i /\ Supports(j, k) => Supports(j, k)'
    BY <2>1, <1>t, SMTT(30) DEF Supports
  <2>3. OwnVote'
    BY <2>1, <1>t, SMTT(30) DEF ElectionInv, OwnVote, TypeOK
  <2>4. VoteRequestOrigin'
    <3> DEFINE args == [term |-> currentTerm[i] + 1, candidateId |-> i,
                        lastLogIndex |-> Len(log[i]), lastLogTerm |-> LastTerm(log[i])]
    <3>2. voteRequests' = voteRequests \cup {[to |-> j, args |-> args] : j \in Server \ {i}}
      BY <1>3, RequestedVotes
    <3>3. ASSUME NEW m \in voteRequests'
          PROVE  /\ m.to # m.args.candidateId /\ 0 < m.args.term
                 /\ m.args.term <= electionTerm'[m.args.candidateId]
      <4>1. CASE m \in voteRequests
        <5>1. m.args.candidateId \in Server /\ m.args.term \in Nat
          BY <4>1, SMTT(30) DEF TypeOK, RequestVoteArgs
        <5> QED
          BY <5>1, <4>1, <2>1, <1>t, SMTT(30) DEF ElectionInv, VoteRequestOrigin, OwnVote
      <4>2. CASE \E j \in Server \ {i} : m = [to |-> j, args |-> args]
        BY <4>2, <2>1, <1>t, SMTT(30)
      <4> QED
        BY <3>2, <4>1, <4>2
    <3> QED
      BY <3>3 DEF VoteRequestOrigin
  <2>5. VotesAreSupport'
    BY <2>1, <2>2 DEF ElectionInv, VotesAreSupport, TypeOK
  <2>6. LeaderIsSupported'
    <3>1. state[i] # "Leader"
      BY <2>1 DEF ElectionInv, LeaderIsSupported
    <3> QED
      BY <3>1, <2>1, <2>2 DEF ElectionInv, LeaderIsSupported, TypeOK
  <2>7. RequestIsSupported'
    <3> SUFFICES ASSUME NEW m \in appendRequests
                 PROVE  LET l == m.args.leaderId
                            t == m.args.term
                        IN /\ m.to # l /\ t > 0
                           /\ t <= electionTerm'[l] /\ (t = electionTerm'[l] => pc'[l] # "election")
                           /\ \A j \in Server \ {l} : currentTerm'[j] >= t /\ electionTerm'[j] # t
      BY <2>1 DEF RequestIsSupported
    <3>1. m.args.leaderId \in Server /\ m.args.term \in Nat
      BY ArgsFacts, SMTT(30) DEF TypeOK
    <3> QED
      BY <3>1, <2>1, <1>t, SMTT(30) DEF ElectionInv, RequestIsSupported, OwnVote, TypeOK
  <2> QED
    BY <2>3, <2>4, <2>5, <2>6, <2>7 DEF ElectionInv
<1>5. ASSUME NEW i \in Server, applyCommittedEntries(i) PROVE ElectionInv'
  BY <1>5, SMTT(30) DEF ElectionInv, OwnVote, VoteRequestOrigin, VotesAreSupport, LeaderIsSupported,
       RequestIsSupported, Supports, applyCommittedEntries, nodeVars, runVars, voteVars, appendVars
<1>6. ASSUME NEW i \in Server, NEW r \in voteReplies, CountVote(i, r) PROVE ElectionInv'
  <2> DEFINE counted == IF r.reply.voteGranted THEN votes[i] \cup {r.from} ELSE votes[i]
  <2>1. /\ pc[i] = "election" /\ r.to = i /\ r.from \in Server
        /\ r.reply.term \in Term /\ counted \in SUBSET Server
        /\ UNCHANGED <<log, call, appendRequests>>
    BY <1>6, SMTT(30) DEF CountVote, TypeOK, RequestVoteReply, logVars, appendVars
  <2>2. \A j \in counted : j # i => Supports(j, i)
    BY <2>1 DEF ElectionInv, VotesAreSupport
  <2>3. CASE /\ r.reply.term > electionTerm[i]
             /\ becomeFollowerLocked(i, r.reply.term) /\ LeaveElection(i)
    <3>1. /\ currentTerm' = [currentTerm EXCEPT ![i] =
                               IF r.reply.term > currentTerm[i] THEN r.reply.term ELSE currentTerm[i]]
          /\ votedFor' = [votedFor EXCEPT ![i] = Nil]
          /\ state' = [state EXCEPT ![i] = "Follower"]
          /\ pc' = [pc EXCEPT ![i] = "run"]
          /\ votes' = [votes EXCEPT ![i] = {}]
          /\ voteReplies' = {x \in voteReplies : x.to # i}
          /\ UNCHANGED <<electionTerm, voteRequests>>
      BY <2>3 DEF becomeFollowerLocked, LeaveElection, RepliesTo
    <3>2. \A j \in Server : currentTerm'[j] >= currentTerm[j]
      BY <3>1, <2>1, <1>t, SMTT(30)
    <3>3. \A j, k \in Server : Supports(j, k) => Supports(j, k)'
      BY <3>1, <3>2, <2>1, <1>t, SMTT(30) DEF Supports
    <3>4. OwnVote'
      BY <3>1, <2>1, <2>3, <1>t, SMTT(30) DEF ElectionInv, OwnVote, TypeOK
    <3>5. VoteRequestOrigin'
      BY <3>1 DEF ElectionInv, VoteRequestOrigin
    <3>6. VotesAreSupport'
      BY <3>1, <3>3 DEF ElectionInv, VotesAreSupport, TypeOK
    <3>7. LeaderIsSupported'
      BY <3>1, <3>3 DEF ElectionInv, LeaderIsSupported, TypeOK
    <3>8. RequestIsSupported'
      BY <3>1, <3>2, <2>1, <1>t, RequestsKeepSupport, SMTT(30) DEF ElectionInv, TypeOK
    <3> QED
      BY <3>4, <3>5, <3>6, <3>7, <3>8 DEF ElectionInv
  <2>4. CASE /\ Cardinality(counted) >= VotesNeeded
             /\ state[i] = "Candidate" /\ currentTerm[i] = electionTerm[i]
             /\ becomeLeaderLocked(i) /\ LeaveElection(i)
    <3> HIDE DEF counted
    <3>1. \A j \in Server : j # i => Supports(j, i)
      BY <2>1, <2>2, <2>4, UnanimousWin
    <3>2. currentTerm[i] > 0
      BY <2>1, <2>4 DEF ElectionInv, OwnVote
    <3>3. /\ state' = [state EXCEPT ![i] = "Leader"]
          /\ pc' = [pc EXCEPT ![i] = "run"]
          /\ votes' = [votes EXCEPT ![i] = {}]
          /\ voteReplies' = {x \in voteReplies : x.to # i}
          /\ UNCHANGED <<currentTerm, votedFor, electionTerm, voteRequests>>
      BY <2>4 DEF becomeLeaderLocked, LeaveElection, RepliesTo
    <3>4. \A j, k \in Server : Supports(j, k) => Supports(j, k)'
      BY <3>3 DEF Supports
    <3>5. OwnVote' /\ VoteRequestOrigin'
      BY <3>3, <2>1 DEF ElectionInv, OwnVote, VoteRequestOrigin, TypeOK
    <3>6. VotesAreSupport'
      BY <3>3, <3>4 DEF ElectionInv, VotesAreSupport, TypeOK
    <3>7. LeaderIsSupported'
      BY <2>1, <2>4, <3>1, <3>2, <3>3, <3>4, SMTT(30) DEF ElectionInv, LeaderIsSupported, TypeOK
    <3>8. RequestIsSupported'
      BY <3>3, <2>1, <1>t, RequestsKeepSupport, SMTT(30) DEF ElectionInv, TypeOK
    <3> QED
      BY <3>5, <3>6, <3>7, <3>8 DEF ElectionInv
  <2>5. CASE /\ votes' = [votes EXCEPT ![i] = counted]
             /\ voteReplies' = voteReplies \ {r}
             /\ UNCHANGED <<nodeVars, leaderVars, pc, electionTerm, voteRequests>>
    <3> HIDE DEF counted
    <3> QED
      BY <2>1, <2>2, <2>5, SMTT(30)
      DEF ElectionInv, OwnVote, VoteRequestOrigin, VotesAreSupport, LeaderIsSupported,
          RequestIsSupported, Supports, TypeOK, nodeVars
  <2> QED
    BY <1>6, <2>3, <2>4, <2>5 DEF CountVote
<1>7. ASSUME NEW i \in Server, NEW cmd \in Command, Submit(i, cmd) PROVE ElectionInv'
  BY <1>7, SMTT(30) DEF ElectionInv, OwnVote, VoteRequestOrigin, VotesAreSupport, LeaderIsSupported,
       RequestIsSupported, Supports, Submit, nodeVars, runVars, voteVars, appendVars
<1>8. ASSUME NEW i \in Server, NEW j \in Server, replicateToFollower(i, j) PROVE ElectionInv'
  <2>1. UNCHANGED <<nodeVars, runVars, voteVars>>
    BY <1>8 DEF replicateToFollower
  <2>2. RequestIsSupported'
    <3>1. PICK a \in AppendEntriesArgs :
            /\ a.term = currentTerm[i] /\ a.leaderId = i
            /\ appendRequests' = appendRequests \cup {[to |-> j, args |-> a]}
      BY <1>8, SentArgs
    <3>2. state[i] = "Leader" /\ j # i
      BY <1>8 DEF replicateToFollower
    <3>3. ASSUME NEW m \in appendRequests'
          PROVE  LET l == m.args.leaderId
                     t == m.args.term
                 IN /\ m.to # l /\ t > 0
                    /\ t <= electionTerm[l] /\ (t = electionTerm[l] => pc[l] # "election")
                    /\ \A k \in Server \ {l} : currentTerm[k] >= t /\ electionTerm[k] # t
      <4>1. CASE m \in appendRequests
        BY <4>1 DEF ElectionInv, RequestIsSupported
      <4>2. CASE m = [to |-> j, args |-> a]
        BY <4>2, <3>1, <3>2, <1>t, SMTT(30) DEF ElectionInv, LeaderIsSupported, Supports
      <4> QED
        BY <3>1, <4>1, <4>2
    <3> QED
      BY <3>3, <2>1 DEF RequestIsSupported, nodeVars, runVars
  <2> QED
    BY <2>1, <2>2, SMTT(30) DEF ElectionInv, OwnVote, VoteRequestOrigin, VotesAreSupport,
         LeaderIsSupported, Supports, nodeVars, runVars, voteVars
<1>9. ASSUME NEW i \in Server, NEW j \in Server, ReplicationReply(i, j) PROVE ElectionInv'
  <2>1. UNCHANGED <<pc, electionTerm, votes, voteRequests, voteReplies, appendRequests>>
    BY <1>9 DEF ReplicationReply, runVars, voteVars
  <2>2. CASE UNCHANGED nodeVars
    BY <2>1, <2>2, SMTT(30) DEF ElectionInv, OwnVote, VoteRequestOrigin, VotesAreSupport,
         LeaderIsSupported, RequestIsSupported, Supports, nodeVars
  <2>3. CASE ~UNCHANGED nodeVars
    <3>1. PICK t \in Term : t > currentTerm[i] /\ becomeFollowerLocked(i, t)
      <4>1. call[i][j].reply.term \in Term
        <5>1. call[i][j].reply \in AppendEntriesReply
          BY <1>9, CallFacts DEF ReplicationReply
        <5> QED
          BY <5>1 DEF AppendEntriesReply
      <4> QED
        BY <1>9, <2>3, <4>1 DEF ReplicationReply
    <3> QED
      BY <2>1, <3>1, <1>t, StepsDownTo
  <2> QED
    BY <2>2, <2>3
<1>10. ASSUME NEW i \in Server, NEW j \in Server, ReplicationTimeout(i, j) PROVE ElectionInv'
  BY <1>10, SMTT(30) DEF ElectionInv, OwnVote, VoteRequestOrigin, VotesAreSupport, LeaderIsSupported,
       RequestIsSupported, Supports, ReplicationTimeout, nodeVars, runVars, voteVars
<1>11. ASSUME NEW m \in voteRequests, HandleRequestVote(m) PROVE ElectionInv'
  <2> DEFINE i == m.to
             c == m.args.candidateId
             t == m.args.term
             newer == t > currentTerm[i]
             grant == /\ ~(currentTerm[i] > t)
                      /\ newer \/ votedFor[i] \in {Nil, c}
                      /\ UpToDate(m.args, log[i])
             awaited == pc[c] = "election" /\ electionTerm[c] = t
             r == [from |-> i, to |-> c,
                   reply |-> [term |-> currentTerm[i], voteGranted |-> grant]]
  <2>1. i \in Server /\ c \in Server /\ t \in Term /\ i # c /\ t > 0
    BY DEF TypeOK, RequestVoteArgs, ElectionInv, VoteRequestOrigin
  <2>2. /\ currentTerm' = [currentTerm EXCEPT ![i] = IF newer THEN t ELSE currentTerm[i]]
        /\ state' = [state EXCEPT ![i] = IF newer THEN "Follower" ELSE state[i]]
        /\ votedFor' = [votedFor EXCEPT ![i] =
                           IF grant THEN c ELSE IF newer THEN Nil ELSE votedFor[i]]
        /\ voteRequests' = voteRequests \ {m}
        /\ UNCHANGED <<pc, electionTerm, votes, appendRequests>>
    BY <1>11 DEF HandleRequestVote, runVars, appendVars
  <2>3. voteReplies' = IF awaited THEN voteReplies \cup {r} ELSE voteReplies
    <3>1. [term |-> currentTerm[i], voteGranted |-> grant] \in RequestVoteReply
      <4>1. grant \in BOOLEAN
        OBVIOUS
      <4> HIDE DEF grant
      <4> QED
        BY <2>1, <4>1 DEF TypeOK, RequestVoteReply
    <3> QED
      BY <1>11, <3>1, VoteProtoId DEF HandleRequestVote
  <2>4. grant /\ awaited => Supports(i, c)'
    <3> SUFFICES ASSUME grant, awaited PROVE Supports(i, c)'
      OBVIOUS
    <3>1. currentTerm'[i] = t
      BY <2>1, <2>2, <1>t, SMTT(30)
    <3>2. ASSUME electionTerm[i] = t PROVE FALSE
      <4>1. currentTerm[i] = t
        BY <2>1, <3>2, <1>t, SMTT(30) DEF ElectionInv, OwnVote
      <4>2. votedFor[i] = i
        BY <2>1, <3>2, <4>1 DEF ElectionInv, OwnVote
      <4> QED
        BY <2>1, <4>1, <4>2, <1>t, ServerAssumption
    <3> QED
      BY <2>1, <2>2, <3>1, <3>2, <1>t, SMTT(30) DEF Supports
  <2>5. grant => ~(currentTerm[i] > t)
    OBVIOUS
  <2>6. grant => newer \/ votedFor[i] \in {Nil, c}
    OBVIOUS
  <2> HIDE DEF grant
  <2>7. /\ \A j \in Server : currentTerm'[j] >= currentTerm[j]
        /\ currentTerm' \in [Server -> Nat]
    BY <2>1, <2>2, <1>t, SMTT(30)
  <2>8. \A j, k \in Server : Supports(j, k) => Supports(j, k)'
    BY <2>2, <2>7, <1>t, SMTT(30) DEF Supports
  <2>9. OwnVote'
    <3> SUFFICES ASSUME NEW k \in Server
                 PROVE  /\ electionTerm[k] <= currentTerm'[k]
                        /\ pc[k] = "election" => electionTerm[k] > 0
                        /\ electionTerm[k] = currentTerm'[k] /\ currentTerm'[k] > 0
                              => votedFor'[k] = k
      BY <2>2 DEF OwnVote
    <3>1. /\ electionTerm[k] <= currentTerm[k]
          /\ pc[k] = "election" => electionTerm[k] > 0
          /\ electionTerm[k] = currentTerm[k] /\ currentTerm[k] > 0 => votedFor[k] = k
      BY DEF ElectionInv, OwnVote
    <3>2. CASE k # i
      BY <2>1, <2>2, <3>1, <3>2 DEF TypeOK
    <3>3. CASE k = i /\ newer
      BY <2>1, <2>2, <3>1, <3>3, <1>t, SMTT(30)
    <3>4. CASE k = i /\ ~newer
      <4>1. currentTerm'[i] = currentTerm[i]
        BY <2>1, <2>2, <3>4, <1>t
      <4>2. ASSUME electionTerm[i] = currentTerm[i], currentTerm[i] > 0
            PROVE  votedFor'[i] = i
        <5>1. votedFor[i] = i
          BY <4>2, <3>1, <3>4
        <5>2. ~grant
          BY <5>1, <3>4, <2>6, <2>1, ServerAssumption
        <5> QED
          BY <2>1, <2>2, <3>4, <5>1, <5>2 DEF TypeOK
      <4> QED
        BY <3>1, <3>4, <4>1, <4>2
    <3> QED
      BY <3>2, <3>3, <3>4
  <2>10. VoteRequestOrigin'
    BY <2>2 DEF ElectionInv, VoteRequestOrigin
  <2>11. VotesAreSupport'
    <3>1. ASSUME NEW x \in voteReplies'
          PROVE  /\ pc[x.to] = "election" /\ x.from # x.to
                 /\ x.reply.voteGranted => Supports(x.from, x.to)'
      <4>1. CASE x \in voteReplies
        BY <4>1, <2>8 DEF ElectionInv, VotesAreSupport, TypeOK
      <4>2. CASE awaited /\ x = r
        BY <4>2, <2>1, <2>4
      <4> QED
        BY <2>3, <4>1, <4>2
    <3> QED
      BY <3>1, <2>2, <2>8 DEF ElectionInv, VotesAreSupport, TypeOK
  <2>12. LeaderIsSupported'
    BY <2>1, <2>2, <2>8, <1>t DEF ElectionInv, LeaderIsSupported, TypeOK
  <2>13. RequestIsSupported'
    BY <2>2, <2>7, RequestsKeepSupport DEF ElectionInv
  <2> QED
    BY <2>9, <2>10, <2>11, <2>12, <2>13 DEF ElectionInv
<1>12. ASSUME NEW m \in appendRequests, HandleAppendEntries(m) PROVE ElectionInv'
  <2> DEFINE i == m.to
             l == m.args.leaderId
             t == m.args.term
  <2>1. i \in Server /\ l \in Server /\ t \in Term
    BY ArgsFacts DEF TypeOK
  <2>2. UNCHANGED <<pc, electionTerm, votes, voteRequests, voteReplies, appendRequests>>
    BY <1>12 DEF HandleAppendEntries, runVars, voteVars
  <2>3. CASE currentTerm[i] > t
    <3>1. UNCHANGED nodeVars
      BY <1>12, <2>3 DEF HandleAppendEntries
    <3> QED
      BY <2>2, <3>1, SMTT(30) DEF ElectionInv, OwnVote, VoteRequestOrigin, VotesAreSupport,
           LeaderIsSupported, RequestIsSupported, Supports, nodeVars
  <2>4. CASE ~(currentTerm[i] > t)
    <3>1. /\ currentTerm' = [currentTerm EXCEPT ![i] = t]
          /\ votedFor' = [votedFor EXCEPT ![i] = Nil]
          /\ state' = [state EXCEPT ![i] = "Follower"]
      BY <1>12, <2>4 DEF HandleAppendEntries
    <3>2. electionTerm[i] # t
      BY <2>1 DEF ElectionInv, RequestIsSupported
    <3>3. /\ \A j \in Server : currentTerm'[j] >= currentTerm[j]
          /\ currentTerm' \in [Server -> Nat]
      BY <2>1, <2>4, <3>1, <1>t, SMTT(30)
    <3>4. \A j, k \in Server : Supports(j, k) => Supports(j, k)'
      BY <2>2, <3>3, <1>t, SMTT(30) DEF Supports
    <3>5. OwnVote'
      BY <2>1, <2>2, <2>4, <3>1, <3>2, <1>t, SMTT(30) DEF ElectionInv, OwnVote, TypeOK
    <3>6. VoteRequestOrigin'
      BY <2>2 DEF ElectionInv, VoteRequestOrigin
    <3>7. VotesAreSupport'
      BY <2>2, <3>4 DEF ElectionInv, VotesAreSupport, TypeOK
    <3>8. LeaderIsSupported'
      BY <2>1, <2>2, <3>1, <3>4 DEF ElectionInv, LeaderIsSupported, TypeOK
    <3>9. RequestIsSupported'
      BY <2>2, <3>3, RequestsKeepSupport DEF ElectionInv
    <3> QED
      BY <3>5, <3>6, <3>7, <3>8, <3>9 DEF ElectionInv
  <2> QED
    BY <2>3, <2>4
<1>13. CASE UNCHANGED vars
  BY <1>13, SMTT(30) DEF ElectionInv, OwnVote, VoteRequestOrigin, VotesAreSupport, LeaderIsSupported,
       RequestIsSupported, Supports, vars, nodeVars, runVars, voteVars, appendVars
<1> QED
  BY <1>1, <1>2, <1>3, <1>4, <1>5, <1>6, <1>7, <1>8, <1>9, <1>10, <1>11, <1>12, <1>13 DEF Next

(* Two leaders of one term would each have campaigned in it and each       *)
(* support the other.                                                      *)
LEMMA ElectionInvSafe == TypeOK /\ ElectionInv => ElectionSafety
  BY DEF TypeOK, Term, ElectionInv, LeaderIsSupported, Supports, ElectionSafety

-----------------------------------------------------------------------------
(* Logs.                                                                   *)

(* Accepting a request only adds entries, and only entries of its sender.  *)
LEMMA AppendOnlyAdds ==
  ASSUME TypeOK, LogsNeverDiverge, RequestFromLog,
         NEW m \in appendRequests, m.args.prevLogIndex <= Len(log[m.to])
  PROVE  LET lg == log[m.to]
             src == log[m.args.leaderId]
             new == AppendNew(lg, m.args.prevLogIndex, m.args.entries)
         IN /\ new \in Seq(Entry) /\ Len(new) \in Nat
            /\ Len(new) = IF Len(lg) > m.args.prevLogIndex + Len(m.args.entries)
                          THEN Len(lg) ELSE m.args.prevLogIndex + Len(m.args.entries)
            /\ \A k \in 1..Len(lg) : k <= Len(new) /\ new[k] = lg[k]
            /\ \A k \in 1..Len(new) : k > Len(lg) =>
                  k <= Len(src) /\ new[k] = src[k] /\ src[k].term <= m.args.term
<1> DEFINE lg == log[m.to]
           l == m.args.leaderId
           src == log[l]
           prev == m.args.prevLogIndex
           es == m.args.entries
           last == prev + Len(es)
           n == IF Len(lg) > last THEN Len(lg) ELSE last
           new == AppendNew(lg, prev, es)
<1>1. /\ m.to \in Server /\ m.args \in AppendEntriesArgs /\ l \in Server
      /\ prev \in Nat /\ es \in Seq(Entry) /\ Len(es) \in Nat
  BY ArgsFacts, SMTT(30) DEF TypeOK, Index
<1>2. /\ last <= Len(src)
      /\ \A k \in 1..Len(es) : es[k] = src[prev + k] /\ src[prev + k].term <= m.args.term
  BY DEF RequestFromLog
<1>3. /\ lg \in Seq(Entry) /\ Len(lg) \in Nat /\ src \in Seq(Entry) /\ Len(src) \in Nat
  BY <1>1, LogFacts
<1>4. Conflicts(lg, prev, es) = {}
  <2> SUFFICES ASSUME NEW k \in 1..Len(es), prev + k <= Len(lg)
               PROVE  lg[prev + k].term = es[k].term
    BY DEF Conflicts
  <2>1. prev + k \in 1..Len(lg) /\ prev + k <= Len(src)
    BY <1>1, <1>2, <1>3, SMTT(30)
  <2>2. lg[prev + k] = src[prev + k]
    BY <2>1, <1>1 DEF LogsNeverDiverge, Agree
  <2> QED
    BY <2>2, <1>2
<1>5. new = [k \in 1..n |-> IF k <= Len(lg) THEN lg[k] ELSE es[k - prev]]
  BY <1>4 DEF AppendNew
<1>6. new \in Seq(Entry) /\ Len(new) = n /\ n \in Nat
  <2>1. n \in Nat
    BY <1>1, <1>3, SMTT(30)
  <2>2. ASSUME NEW k \in 1..n PROVE (IF k <= Len(lg) THEN lg[k] ELSE es[k - prev]) \in Entry
    <3>1. CASE k <= Len(lg)
      BY <3>1, <2>1, <1>3, SMTT(30)
    <3>2. CASE ~(k <= Len(lg))
      BY <3>2, <2>1, <1>1, <1>3, SMTT(30)
    <3> QED
      BY <3>1, <3>2
  <2> HIDE DEF lg, prev, es, n, new
  <2> QED
    BY <2>1, <2>2, <1>5, SMTT(30)
<1>8. \A k \in 1..Len(lg) : k <= n /\ new[k] = lg[k]
  BY <1>5, <1>1, <1>3, SMTT(30)
<1>9. ASSUME NEW k \in 1..n, k > Len(lg)
      PROVE  k <= Len(src) /\ new[k] = src[k] /\ src[k].term <= m.args.term
  <2>1. n = last /\ k - prev \in 1..Len(es) /\ prev + (k - prev) = k
    BY <1>1, <1>3, <1>9, SMTT(30)
  <2>2. new[k] = es[k - prev]
    BY <1>5, <1>9, <1>3, SMTT(30)
  <2>3. es[k - prev] = src[prev + (k - prev)] /\ src[prev + (k - prev)].term <= m.args.term
    BY <2>1, <1>2
  <2>4. k <= Len(src)
    BY <2>1, <1>2, <1>1, <1>3, SMTT(30)
  <2> QED
    BY <2>1, <2>2, <2>3, <2>4
<1> HIDE DEF new
<1> QED
  BY <1>6, <1>8, <1>9, <1>1, <1>3 DEF new

-----------------------------------------------------------------------------
(* A step that leaves the logs alone.                                      *)
LEMMA SameLogs ==
  ASSUME TypeOK, TypeOK', LogInv, UNCHANGED <<log, applied, appendRequests>>,
         \A i \in Server : currentTerm'[i] >= currentTerm[i],
         \A i \in Server : commitIndex'[i] >= commitIndex[i] /\ commitIndex'[i] <= Len(log[i])
  PROVE  /\ LogsNeverDiverge' /\ TermsAscend' /\ RequestFromLog' /\ AppliedFromLog'
         /\ applied' \in [Server -> Seq(Entry)]
<1>1. LogsNeverDiverge' /\ RequestFromLog' /\ applied' \in [Server -> Seq(Entry)]
  BY DEF LogInv, LogsNeverDiverge, RequestFromLog
<1>2. TermsAscend'
  <2> SUFFICES ASSUME NEW i \in Server, NEW k \in 1..Len(log[i])
               PROVE  /\ log[i][k].term <= currentTerm'[i]
                      /\ \A l \in k..Len(log[i]) : log[i][k].term <= log[i][l].term
    BY DEF TermsAscend
  <2>1. log[i][k].term \in Nat
    BY LogFacts
  <2>2. currentTerm[i] \in Nat /\ currentTerm'[i] \in Nat
    BY SMTT(30) DEF TypeOK, Term
  <2> QED
    BY <2>1, <2>2, SMTT(30) DEF LogInv, TermsAscend
<1>3. AppliedFromLog'
  <2> SUFFICES ASSUME NEW i \in Server
               PROVE  /\ Len(applied[i]) <= commitIndex'[i]
                      /\ commitIndex'[i] <= Len(log[i])
                      /\ IsPrefixOf(applied[i], log[i])
    BY DEF AppliedFromLog, IsPrefixOf
  <2>1. Len(applied[i]) \in Nat /\ commitIndex[i] \in Nat /\ commitIndex'[i] \in Nat
    BY SMTT(30) DEF LogInv, TypeOK, Index
  <2> QED
    BY <2>1, SMTT(30) DEF LogInv, AppliedFromLog
<1> QED
  BY <1>1, <1>2, <1>3

(* A step that makes no leader, no candidate and no vote.                  *)
LEMMA SameVotes ==
  ASSUME LeaderIsLongest, UNCHANGED <<log, electionTerm>>,
         \A i \in Server : state'[i] = "Leader" => state[i] = "Leader",
         \A i \in Server : StillCandidate(i)' => StillCandidate(i),
         \A i \in Server : votes'[i] \subseteq votes[i],
         voteReplies' \subseteq voteReplies, voteRequests' \subseteq voteRequests
  PROVE  LeaderIsLongest'
  BY DEF LeaderIsLongest

(* The leader of a term, and a candidate with i's vote, exclude each       *)
(* other: a voter of k that leads, or that obeys a leader, has moved k on. *)
LEMMA VoterDoesNotLead ==
  ASSUME TypeOK, ElectionInv, NEW i \in Server, NEW k \in Server, i # k,
         StillCandidate(k), Supports(i, k)
  PROVE  /\ state[i] # "Leader"
         /\ \A m \in appendRequests : m.to = i => currentTerm[i] > m.args.term
<1>1. /\ currentTerm[i] \in Nat /\ currentTerm[k] \in Nat
      /\ electionTerm[i] \in Nat /\ electionTerm[k] \in Nat
  BY SMTT(30) DEF TypeOK, Term
<1>2. ASSUME state[i] = "Leader" PROVE FALSE
  <2>1. electionTerm[i] = currentTerm[i] /\ Supports(k, i)
    BY <1>2 DEF ElectionInv, LeaderIsSupported
  <2> QED
    BY <1>1, <2>1, SMTT(30) DEF Supports, StillCandidate
<1>3. ASSUME NEW m \in appendRequests, m.to = i PROVE currentTerm[i] > m.args.term
  <2>1. m.args.leaderId \in Server /\ m.args.term \in Nat
    BY ArgsFacts, SMTT(30) DEF TypeOK, Term
  <2>2. CASE m.args.leaderId = k
    <3>1. m.args.term <= electionTerm[k] /\ (m.args.term = electionTerm[k] => pc[k] # "election")
      BY <2>2 DEF ElectionInv, RequestIsSupported
    <3> QED
      BY <1>1, <2>1, <3>1, SMTT(30) DEF Supports, StillCandidate
  <2>3. CASE m.args.leaderId # k
    <3>1. currentTerm[k] >= m.args.term /\ electionTerm[k] # m.args.term
      BY <2>3 DEF ElectionInv, RequestIsSupported
    <3> QED
      BY <1>1, <2>1, <3>1, SMTT(30) DEF Supports, StillCandidate
  <2> QED
    BY <2>2, <2>3
<1> QED
  BY <1>2, <1>3

(* A step that only adds entries to logs.                                  *)
LEMMA GrowingLogs ==
  ASSUME TypeOK, TypeOK', LogInv, UNCHANGED <<applied, appendRequests>>,
         \A j \in Server : /\ Len(log'[j]) >= Len(log[j]) /\ Len(log'[j]) \in Nat
                           /\ \A k \in 1..Len(log[j]) : log'[j][k] = log[j][k],
         \A j \in Server : commitIndex'[j] >= commitIndex[j] /\ commitIndex'[j] <= Len(log'[j])
  PROVE  RequestFromLog' /\ AppliedFromLog' /\ applied' \in [Server -> Seq(Entry)]
<1>1. RequestFromLog'
  <2> SUFFICES ASSUME NEW m \in appendRequests
               PROVE  LET lg == log'[m.args.leaderId]
                          prev == m.args.prevLogIndex
                      IN /\ prev + Len(m.args.entries) <= Len(lg)
                         /\ \A k \in 1..Len(m.args.entries) :
                               /\ m.args.entries[k] = lg[prev + k]
                               /\ lg[prev + k].term <= m.args.term
                         /\ m.args.leaderCommit <= prev + Len(m.args.entries)
    BY DEF RequestFromLog
  <2> DEFINE l == m.args.leaderId
             prev == m.args.prevLogIndex
             es == m.args.entries
  <2>0. m.args \in AppendEntriesArgs
    BY DEF TypeOK
  <2>1. l \in Server /\ prev \in Nat /\ Len(es) \in Nat
    BY <2>0, ArgsFacts, SMTT(30) DEF Index
  <2>2. /\ prev + Len(es) <= Len(log[l])
        /\ \A k \in 1..Len(es) : es[k] = log[l][prev + k] /\ log[l][prev + k].term <= m.args.term
        /\ m.args.leaderCommit <= prev + Len(es)
    BY DEF LogInv, RequestFromLog
  <2>n. Len(log[l]) \in Nat /\ Len(log'[l]) \in Nat /\ Len(log[l]) <= Len(log'[l])
    BY <2>1, LogFacts
  <2>3. \A k \in 1..Len(es) : log'[l][prev + k] = log[l][prev + k]
    <3> SUFFICES ASSUME NEW k \in 1..Len(es) PROVE log'[l][prev + k] = log[l][prev + k]
      OBVIOUS
    <3>1. prev + k \in 1..Len(log[l])
      BY <2>1, <2>2, <2>n, SMTT(30)
    <3> QED
      BY <3>1, <2>1
  <2>4. prev + Len(es) <= Len(log'[l])
    <3> HIDE DEF l, prev, es
    <3> QED
      BY <2>1, <2>2, <2>n, SMTT(30)
  <2> QED
    BY <2>2, <2>3, <2>4
<1>2. AppliedFromLog'
  <2> SUFFICES ASSUME NEW j \in Server
               PROVE  /\ Len(applied[j]) <= commitIndex'[j]
                      /\ commitIndex'[j] <= Len(log'[j])
                      /\ Len(applied[j]) <= Len(log'[j])
                      /\ \A k \in 1..Len(applied[j]) : applied[j][k] = log'[j][k]
    BY DEF AppliedFromLog, IsPrefixOf
  <2>0. commitIndex[j] \in Nat /\ commitIndex'[j] \in Nat
    BY SMTT(30) DEF TypeOK, Index
  <2>1. Len(applied[j]) \in Nat /\ Len(log[j]) \in Nat
    BY LogFacts, SMTT(30) DEF LogInv
  <2>2. /\ Len(applied[j]) <= commitIndex[j] /\ Len(applied[j]) <= Len(log[j])
        /\ \A k \in 1..Len(applied[j]) : applied[j][k] = log[j][k]
    BY DEF LogInv, AppliedFromLog, IsPrefixOf
  <2> QED
    BY <2>0, <2>1, <2>2, SMTT(30)
<1> QED
  BY <1>1, <1>2 DEF LogInv

(* All logs are empty at the start.                                        *)
LEMMA InitLog == Init => LogInv
  BY SMTT(30) DEF Init, NewNode, LogInv, LogsNeverDiverge, Agree, TermsAscend, RequestFromLog,
         LeaderIsLongest, StillCandidate, AppliedFromLog, IsPrefixOf

-----------------------------------------------------------------------------
(* Every step keeps the log part of the invariant: one case for each       *)
(* action of Next.                                                         *)
LEMMA NextLog ==
  ASSUME Counting, Unanimous, TypeOK, TypeOK', ElectionInv, LogInv, [Next]_vars
  PROVE  LogInv'
<1>t. /\ currentTerm \in [Server -> Nat] /\ electionTerm \in [Server -> Nat]
      /\ commitIndex \in [Server -> Nat]
  BY SMTT(30) DEF TypeOK, Term, Index
<1>c. \A i \in Server : commitIndex[i] <= Len(log[i])
  BY DEF LogInv, AppliedFromLog
<1>1. ASSUME NEW i \in Server, runFollower(i) PROVE LogInv'
  <2>1. /\ pc[i] = "run" /\ state' = [state EXCEPT ![i] = "Candidate"]
        /\ UNCHANGED <<currentTerm, log, commitIndex, applied, pc, electionTerm, votes,
                       voteRequests, voteReplies, appendRequests>>
    BY <1>1 DEF runFollower, logVars, runVars, voteVars, appendVars
  <2>2. LeaderIsLongest'
    BY <2>1, SameVotes DEF TypeOK, LogInv, StillCandidate
  <2> QED
    BY <2>1, <2>2, <1>t, <1>c, SameLogs, SMTT(30) DEF LogInv
<1>2. ASSUME NEW i \in Server, run(i) PROVE LogInv'
  <2>1. /\ pc' = [pc EXCEPT ![i] = "candidate"]
        /\ UNCHANGED <<currentTerm, state, log, commitIndex, applied, electionTerm, votes,
                       voteRequests, voteReplies, appendRequests>>
    BY <1>2 DEF run, nodeVars, logVars, voteVars, appendVars
  <2>2. LeaderIsLongest'
    BY <2>1, SameVotes, SMTT(30) DEF TypeOK, LogInv, StillCandidate
  <2> QED
    BY <2>1, <2>2, <1>t, <1>c, SameLogs, SMTT(30) DEF LogInv
<1>3. ASSUME NEW i \in Server, runCandidate(i) PROVE LogInv'
  <2> DEFINE args == [term |-> currentTerm[i] + 1, candidateId |-> i,
                      lastLogIndex |-> Len(log[i]), lastLogTerm |-> LastTerm(log[i])]
  <2>1. /\ currentTerm' = [currentTerm EXCEPT ![i] = currentTerm[i] + 1]
        /\ electionTerm' = [electionTerm EXCEPT ![i] = currentTerm[i] + 1]
        /\ votes' = [votes EXCEPT ![i] = {i}]
        /\ pc[i] = "candidate" /\ pc' = [pc EXCEPT ![i] = "election"]
        /\ UNCHANGED <<state, log, commitIndex, applied, voteReplies, appendRequests>>
    BY <1>3 DEF runCandidate, logVars, appendVars
  <2>2. voteRequests' = voteRequests \cup {[to |-> j, args |-> args] : j \in Server \ {i}}
    BY <1>3, RequestedVotes
  <2>3. LeaderIsLongest'
    <3>1. \A a, b \in Server : state'[a] = "Leader" => Len(log'[b]) <= Len(log'[a])
      BY <2>1 DEF LogInv, LeaderIsLongest
    <3>2. ASSUME NEW a \in Server, StillCandidate(a)'
          PROVE  /\ \A j \in votes'[a] : Len(log[j]) <= Len(log[a])
                 /\ \A r \in voteReplies :
                       r.to = a /\ r.reply.voteGranted => Len(log[r.from]) <= Len(log[a])
                 /\ \A m \in voteRequests' :
                       m.args.candidateId = a /\ m.args.term = electionTerm'[a] =>
                           /\ m.args.lastLogIndex = Len(log[a])
                           /\ m.args.lastLogTerm = LastTerm(log[a])
      <4>1. CASE a = i
        <5>1. votes'[a] = {i} /\ Len(log[i]) \in Nat
          BY <4>1, <2>1, LogFacts, SMTT(30) DEF TypeOK
        <5>2. \A r \in voteReplies : r.to # i
          BY <2>1 DEF ElectionInv, VotesAreSupport
        <5>3. \A m \in voteRequests :
                m.args.candidateId = i => m.args.term # electionTerm'[i]
          <6> SUFFICES ASSUME NEW m \in voteRequests, m.args.candidateId = i
                       PROVE  m.args.term # electionTerm'[i]
            OBVIOUS
          <6>1. m.args.term <= electionTerm[i] /\ electionTerm[i] <= currentTerm[i]
            BY DEF ElectionInv, VoteRequestOrigin, OwnVote
          <6>2. m.args.term \in Nat
            BY SMTT(30) DEF TypeOK, RequestVoteArgs, Term
          <6> QED
            BY <6>1, <6>2, <2>1, <1>t, SMTT(30)
        <5> QED
          BY <4>1, <5>1, <5>2, <5>3, <2>2, SMTT(30)
      <4>2. CASE a # i
        <5>1. StillCandidate(a) /\ votes'[a] = votes[a] /\ electionTerm'[a] = electionTerm[a]
          BY <3>2, <4>2, <2>1 DEF StillCandidate, TypeOK
        <5>2. /\ \A j \in votes[a] : Len(log[j]) <= Len(log[a])
              /\ \A r \in voteReplies :
                    r.to = a /\ r.reply.voteGranted => Len(log[r.from]) <= Len(log[a])
              /\ \A m \in voteRequests :
                    m.args.candidateId = a /\ m.args.term = electionTerm[a] =>
                        /\ m.args.lastLogIndex = Len(log[a])
                        /\ m.args.lastLogTerm = LastTerm(log[a])
          BY <5>1 DEF LogInv, LeaderIsLongest
        <5>3. \A m \in voteRequests' : m.args.candidateId = a => m \in voteRequests
          BY <4>2, <2>2, SMTT(30)
        <5> QED
          BY <5>1, <5>2, <5>3
      <4> QED
        BY <4>1, <4>2
    <3> QED
      BY <3>1, <3>2, <2>1 DEF LeaderIsLongest
  <2> QED
    BY <2>1, <2>3, <1>t, <1>c, SameLogs, SMTT(30) DEF LogInv
<1>4. ASSUME NEW i \in Server, ElectionExpires(i) PROVE LogInv'
  <2>1. /\ pc' = [pc EXCEPT ![i] = "run"] /\ votes' = [votes EXCEPT ![i] = {}]
        /\ voteReplies' \subseteq voteReplies
        /\ UNCHANGED <<currentTerm, state, log, commitIndex, applied, electionTerm,
                       voteRequests, appendRequests>>
    BY <1>4 DEF ElectionExpires, LeaveElection, nodeVars, logVars, appendVars
  <2>2. LeaderIsLongest'
    BY <2>1, SameVotes, SMTT(30) DEF TypeOK, LogInv, StillCandidate
  <2> QED
    BY <2>1, <2>2, <1>t, <1>c, SameLogs, SMTT(30) DEF LogInv
<1>5. ASSUME NEW i \in Server, applyCommittedEntries(i) PROVE LogInv'
  <2> DEFINE n == Len(applied[i]) + 1
  <2>1. /\ Len(applied[i]) < commitIndex[i]
        /\ applied' = [applied EXCEPT ![i] = Append(applied[i], log[i][n])]
        /\ UNCHANGED <<currentTerm, state, log, commitIndex, pc, electionTerm, votes,
                       voteRequests, voteReplies, appendRequests>>
    BY <1>5 DEF applyCommittedEntries, nodeVars, runVars, voteVars, appendVars
  <2>2. LeaderIsLongest' /\ LogsNeverDiverge' /\ TermsAscend' /\ RequestFromLog'
    BY <2>1 DEF LogInv, LeaderIsLongest, StillCandidate, LogsNeverDiverge, TermsAscend,
                RequestFromLog
  <2>3. applied[i] \in Seq(Entry) /\ Len(applied[i]) \in Nat /\ n \in 1..Len(log[i])
    <3>1. applied[i] \in Seq(Entry) /\ Len(applied[i]) \in Nat
      BY SMTT(30) DEF LogInv
    <3>2. Len(log[i]) \in Nat /\ commitIndex[i] \in Nat /\ commitIndex[i] <= Len(log[i])
      BY <1>t, <1>c, LogFacts
    <3> QED
      BY <3>1, <3>2, <2>1, SMTT(30)
  <2>4. log[i][n] \in Entry
    BY <2>3, LogFacts
  <2>5. applied' \in [Server -> Seq(Entry)]
    BY <2>1, <2>3, <2>4, SMTT(30) DEF LogInv
  <2>6. AppliedFromLog'
    <3> SUFFICES ASSUME NEW j \in Server
                 PROVE  /\ Len(applied'[j]) <= commitIndex[j]
                        /\ commitIndex[j] <= Len(log[j])
                        /\ IsPrefixOf(applied'[j], log[j])
      BY <2>1, SMTT(30) DEF AppliedFromLog, IsPrefixOf
    <3>1. CASE j # i
      BY <3>1, <2>1 DEF LogInv, AppliedFromLog
    <3>2. CASE j = i
      <4>1. applied'[i] = Append(applied[i], log[i][n])
        BY <2>1 DEF LogInv
      <4>2. /\ Len(applied'[i]) = n
            /\ \A k \in 1..n : applied'[i][k] = IF k < n THEN applied[i][k] ELSE log[i][n]
        BY <4>1, <2>3, <2>4, SMTT(30)
      <4>3. \A k \in 1..n : k < n => applied[i][k] = log[i][k]
        BY <2>3, SMTT(30) DEF LogInv, AppliedFromLog, IsPrefixOf
      <4>4. \A k \in 1..n : applied'[i][k] = log[i][k]
        BY <4>2, <4>3, <2>3, SMTT(30)
      <4> QED
        BY <3>2, <4>2, <4>4, <2>1, <2>3, <1>t, <1>c, SMTT(30) DEF IsPrefixOf
    <3> QED
      BY <3>1, <3>2
  <2> QED
    BY <2>2, <2>5, <2>6 DEF LogInv
<1>6. ASSUME NEW i \in Server, NEW r \in voteReplies, CountVote(i, r) PROVE LogInv'
  <2> DEFINE counted == IF r.reply.voteGranted THEN votes[i] \cup {r.from} ELSE votes[i]
  <2>1. /\ pc[i] = "election" /\ r.to = i /\ r.from \in Server
        /\ r.reply.term \in Nat /\ counted \in SUBSET Server
        /\ UNCHANGED <<log, commitIndex, applied, call, appendRequests>>
    BY <1>6, SMTT(30) DEF CountVote, TypeOK, RequestVoteReply, Term, logVars, appendVars
  <2>2. StillCandidate(i) => \A j \in counted : Len(log[j]) <= Len(log[i])
    BY <2>1 DEF LogInv, LeaderIsLongest
  <2>3. CASE /\ r.reply.term > electionTerm[i]
             /\ becomeFollowerLocked(i, r.reply.term) /\ LeaveElection(i)
    <3>1. /\ currentTerm' = [currentTerm EXCEPT ![i] =
                               IF r.reply.term > currentTerm[i] THEN r.reply.term ELSE currentTerm[i]]
          /\ state' = [state EXCEPT ![i] = "Follower"]
          /\ pc' = [pc EXCEPT ![i] = "run"]
          /\ votes' = [votes EXCEPT ![i] = {}]
          /\ voteReplies' \subseteq voteReplies
          /\ UNCHANGED <<electionTerm, voteRequests>>
      BY <2>3 DEF becomeFollowerLocked, LeaveElection
    <3>2. \A j \in Server : currentTerm'[j] >= currentTerm[j]
      BY <3>1, <2>1, <1>t, SMTT(30)
    <3>3. LeaderIsLongest'
      <4>1. \A k \in Server : /\ state'[k] = "Leader" => state[k] = "Leader"
                              /\ StillCandidate(k)' => StillCandidate(k)
                              /\ votes'[k] \subseteq votes[k]
        BY <3>1, SMTT(30) DEF TypeOK, StillCandidate
      <4> QED
        BY <3>1, <4>1, <2>1, SameVotes DEF LogInv
    <3> QED
      BY <3>2, <3>3, <2>1, <1>t, <1>c, SameLogs, SMTT(30) DEF LogInv
  <2>4. CASE /\ Cardinality(counted) >= VotesNeeded
             /\ state[i] = "Candidate" /\ currentTerm[i] = electionTerm[i]
             /\ becomeLeaderLocked(i) /\ LeaveElection(i)
    <3> HIDE DEF counted
    <3>1. \A j \in Server : Len(log[j]) <= Len(log[i])
      BY <2>1, <2>2, <2>4, UnanimousWin DEF StillCandidate
    <3>2. /\ state' = [state EXCEPT ![i] = "Leader"]
          /\ pc' = [pc EXCEPT ![i] = "run"]
          /\ votes' = [votes EXCEPT ![i] = {}]
          /\ voteReplies' \subseteq voteReplies
          /\ UNCHANGED <<currentTerm, electionTerm, voteRequests>>
      BY <2>4 DEF becomeLeaderLocked, LeaveElection
    <3>3. \A k \in Server : StillCandidate(k)' => StillCandidate(k) /\ k # i
      BY <3>2, SMTT(30) DEF StillCandidate, TypeOK
    <3>4. \A k \in Server : state'[k] = "Leader" => k = i \/ state[k] = "Leader"
      BY <3>2, SMTT(30) DEF TypeOK
    <3>5. \A k \in Server : votes'[k] \subseteq votes[k]
      BY <3>2, SMTT(30) DEF TypeOK
    <3>6. LeaderIsLongest'
      BY <3>1, <3>2, <3>3, <3>4, <3>5, <2>1 DEF LogInv, LeaderIsLongest
    <3> QED
      BY <3>2, <3>6, <2>1, <1>t, <1>c, SameLogs, SMTT(30) DEF LogInv
  <2>5. CASE /\ votes' = [votes EXCEPT ![i] = counted]
             /\ voteReplies' = voteReplies \ {r}
             /\ UNCHANGED <<nodeVars, leaderVars, pc, electionTerm, voteRequests>>
    <3> HIDE DEF counted
    <3>1. LeaderIsLongest'
      <4>1. \A a, b \in Server : state'[a] = "Leader" => Len(log'[b]) <= Len(log'[a])
        BY <2>1, <2>5 DEF LogInv, LeaderIsLongest, nodeVars
      <4>2. ASSUME NEW a \in Server, StillCandidate(a)'
            PROVE  \A j \in votes'[a] : Len(log[j]) <= Len(log[a])
        <5>1. StillCandidate(a)
          BY <4>2, <2>5 DEF StillCandidate, nodeVars
        <5> QED
          BY <5>1, <2>1, <2>2, <2>5, SMTT(30) DEF LogInv, LeaderIsLongest, TypeOK
      <4>3. \A a \in Server : StillCandidate(a)' => StillCandidate(a)
        BY <2>5 DEF StillCandidate, nodeVars
      <4> QED
        BY <4>1, <4>2, <4>3, <2>1, <2>5 DEF LogInv, LeaderIsLongest
    <3> QED
      BY <3>1, <2>1, <2>5, <1>t, <1>c, SameLogs, SMTT(30) DEF LogInv, nodeVars
  <2> QED
    BY <1>6, <2>3, <2>4, <2>5 DEF CountVote
<1>7. ASSUME NEW i \in Server, NEW cmd \in Command, Submit(i, cmd) PROVE LogInv'
  <2> DEFINE e == [term |-> currentTerm[i], index |-> Len(log[i]) + 1, cmd |-> cmd]
             new == Append(log[i], e)
  <2>1. /\ state[i] = "Leader" /\ Len(log[i]) < MaxLog
        /\ log' = [log EXCEPT ![i] = new]
        /\ UNCHANGED <<currentTerm, state, commitIndex, applied, pc, electionTerm, votes,
                       voteRequests, voteReplies, appendRequests>>
    BY <1>7 DEF Submit, nodeVars, runVars, voteVars, appendVars
  <2>2. e \in Entry
    <3>1. Len(log[i]) + 1 \in Index
      BY <2>1, LogFacts, BoundAssumption, SMTT(30) DEF Index
    <3> QED
      BY <3>1 DEF Entry, TypeOK
  <2>3. /\ Len(new) = Len(log[i]) + 1 /\ new[Len(new)] = e
        /\ \A k \in 1..Len(log[i]) : new[k] = log[i][k]
    BY <2>2, LogFacts, SMTT(30)
  <2>4. /\ log'[i] = new
        /\ \A j \in Server : j # i => log'[j] = log[j]
    BY <2>1 DEF TypeOK
  <2> HIDE DEF new
  <2>5. /\ \A j \in Server : Len(log[j]) <= Len(log[i]) /\ Len(log[j]) \in Nat
        /\ \A j \in Server : state[j] = "Leader" => j = i
    <3>1. \A j \in Server : Len(log[j]) <= Len(log[i])
      BY <2>1 DEF LogInv, LeaderIsLongest
    <3>2. \A j \in Server : state[j] = "Leader" => j = i
      BY <2>1, <1>t, SMTT(30) DEF ElectionInv, LeaderIsSupported, Supports
    <3> QED
      BY <3>1, <3>2, LogFacts
  <2>6. LogsNeverDiverge'
    <3> SUFFICES ASSUME NEW a \in Server, NEW b \in Server, NEW k \in 1..Len(log'[a]),
                        k <= Len(log'[b])
                 PROVE  log'[a][k] = log'[b][k]
      BY DEF LogsNeverDiverge, Agree
    <3>1. CASE a = b
      BY <3>1
    <3>2. CASE a # b
      <4>1. k \in 1..Len(log[a]) /\ k <= Len(log[b]) /\ k \in 1..Len(log[b])
        BY <3>2, <2>3, <2>4, <2>5, SMTT(30)
      <4>2. log'[a][k] = log[a][k] /\ log'[b][k] = log[b][k]
        BY <4>1, <2>3, <2>4
      <4> QED
        BY <4>1, <4>2 DEF LogInv, LogsNeverDiverge, Agree
    <3> QED
      BY <3>1, <3>2
  <2>7. TermsAscend'
    <3> SUFFICES ASSUME NEW a \in Server, NEW k \in 1..Len(log'[a])
                 PROVE  /\ log'[a][k].term <= currentTerm[a]
                        /\ \A l \in k..Len(log'[a]) : log'[a][k].term <= log'[a][l].term
      BY <2>1 DEF TermsAscend
    <3>1. CASE a # i
      BY <3>1, <2>4 DEF LogInv, TermsAscend
    <3>2. CASE a = i
      <4>1. \A l \in 1..Len(log[i]) : new[l].term <= currentTerm[i]
        BY <2>3 DEF LogInv, TermsAscend
      <4>2. new[Len(new)].term = currentTerm[i] /\ currentTerm[i] \in Nat
        BY <2>3, <1>t, SMTT(30)
      <4>3. \A l \in 1..Len(new) : l = Len(new) \/ l \in 1..Len(log[i])
        BY <2>3, <2>5, SMTT(30)
      <4>4. \A l \in 1..Len(new) : new[l].term <= currentTerm[i]
        BY <4>1, <4>2, <4>3, SMTT(30)
      <4>5. ASSUME NEW l \in k..Len(new) PROVE new[k].term <= new[l].term
        <5>1. CASE l = Len(new)
          BY <5>1, <4>2, <4>4, <3>2, <2>4
        <5>2. CASE l # Len(new)
          <6>1. k \in 1..Len(log[i]) /\ l \in k..Len(log[i]) /\ l \in 1..Len(log[i])
            BY <5>2, <2>3, <2>4, <2>5, <3>2, SMTT(30)
          <6> QED
            BY <6>1, <2>3 DEF LogInv, TermsAscend
        <5> QED
          BY <5>1, <5>2
      <4> QED
        BY <3>2, <2>4, <4>4, <4>5
    <3> QED
      BY <3>1, <3>2
  <2>8. \A j \in Server : /\ Len(log'[j]) >= Len(log[j]) /\ Len(log'[j]) \in Nat
                          /\ \A k \in 1..Len(log[j]) : log'[j][k] = log[j][k]
    BY <2>3, <2>4, <2>5, SMTT(30)
  <2>9. RequestFromLog' /\ AppliedFromLog' /\ applied' \in [Server -> Seq(Entry)]
    <3>1. \A j \in Server : commitIndex'[j] >= commitIndex[j] /\ commitIndex'[j] <= Len(log'[j])
      BY <2>1, <2>5, <2>8, <1>t, <1>c, SMTT(30)
    <3>2. UNCHANGED <<applied, appendRequests>>
      BY <2>1
    <3> HIDE DEF e
    <3> QED
      BY <3>1, <3>2, <2>8, GrowingLogs
  <2>10. LeaderIsLongest'
    <3>1. \A a, b \in Server : state'[a] = "Leader" => Len(log'[b]) <= Len(log'[a])
      BY <2>1, <2>3, <2>4, <2>5, SMTT(30)
    <3>2. ASSUME NEW a \in Server, StillCandidate(a)'
          PROVE  /\ a # i /\ StillCandidate(a)
                 /\ \A j \in votes[a] : j # i
                 /\ \A r \in voteReplies : r.to = a /\ r.reply.voteGranted => r.from # i
      <4>1. a # i /\ StillCandidate(a)
        BY <3>2, <2>1 DEF StillCandidate
      <4>2. ~Supports(i, a)
        BY <4>1, <2>1, VoterDoesNotLead
      <4> QED
        BY <4>1, <4>2 DEF ElectionInv, VotesAreSupport
    <3>3. \A a \in Server : StillCandidate(a)' =>
             \A j \in votes[a] : Len(log'[j]) <= Len(log'[a])
      <4> SUFFICES ASSUME NEW a \in Server, StillCandidate(a)', NEW j \in votes[a]
                   PROVE  Len(log'[j]) <= Len(log'[a])
        OBVIOUS
      <4>1. StillCandidate(a) /\ a # i /\ j # i
        BY <3>2
      <4>2. j \in Server
        BY DEF TypeOK
      <4>3. log'[j] = log[j] /\ log'[a] = log[a]
        BY <4>1, <4>2, <2>4
      <4> QED
        BY <4>1, <4>3 DEF LogInv, LeaderIsLongest
    <3>4. \A a \in Server : StillCandidate(a)' => \A r \in voteReplies :
             r.to = a /\ r.reply.voteGranted => Len(log'[r.from]) <= Len(log'[a])
      <4> SUFFICES ASSUME NEW a \in Server, StillCandidate(a)',
                          NEW r \in voteReplies, r.to = a, r.reply.voteGranted
                   PROVE  Len(log'[r.from]) <= Len(log'[a])
        OBVIOUS
      <4>1. StillCandidate(a) /\ a # i /\ r.from # i
        BY <3>2
      <4>2. r.from \in Server
        BY DEF TypeOK
      <4>3. log'[r.from] = log[r.from] /\ log'[a] = log[a]
        BY <4>1, <4>2, <2>4
      <4> QED
        BY <4>1, <4>3 DEF LogInv, LeaderIsLongest
    <3>5. \A a \in Server : StillCandidate(a)' => \A m \in voteRequests :
             m.args.candidateId = a /\ m.args.term = electionTerm[a] =>
                /\ m.args.lastLogIndex = Len(log'[a])
                /\ m.args.lastLogTerm = LastTerm(log'[a])
      BY <3>2, <2>4 DEF LogInv, LeaderIsLongest
    <3> QED
      BY <3>1, <3>3, <3>4, <3>5, <2>1 DEF LeaderIsLongest
  <2> QED
    BY <2>6, <2>7, <2>9, <2>10 DEF LogInv
<1>8. ASSUME NEW i \in Server, NEW j \in Server, replicateToFollower(i, j) PROVE LogInv'
  <2>1. UNCHANGED <<currentTerm, state, log, commitIndex, applied, pc, electionTerm, votes,
                    voteRequests, voteReplies>>
    BY <1>8 DEF replicateToFollower, nodeVars, logVars, runVars, voteVars
  <2>2. PICK a \in AppendEntriesArgs :
          /\ a.term = currentTerm[i] /\ a.leaderId = i
          /\ a.prevLogIndex \in 0..Len(log[i])
          /\ a.entries = SubSeq(log[i], a.prevLogIndex + 1, Len(log[i]))
          /\ a.leaderCommit = commitIndex[i]
          /\ appendRequests' = appendRequests \cup {[to |-> j, args |-> a]}
    BY <1>8, SentArgs
  <2>3. /\ log[i] \in Seq(Entry) /\ Len(log[i]) \in Nat
        /\ a.prevLogIndex \in Nat /\ a.prevLogIndex <= Len(log[i])
    BY <2>2, LogFacts, SMTT(30)
  <2>4. /\ a.prevLogIndex + Len(a.entries) = Len(log[i]) /\ Len(a.entries) \in Nat
        /\ \A k \in 1..Len(a.entries) : a.entries[k] = log[i][a.prevLogIndex + k]
    <3> DEFINE p == a.prevLogIndex
               es == SubSeq(log[i], p + 1, Len(log[i]))
    <3>1. /\ es \in Seq(Entry) /\ Len(es) = Len(log[i]) - p
          /\ \A k \in 1..(Len(log[i]) - p) : es[k] = log[i][p + k]
      BY <2>2, <2>3, SuffixFacts
    <3>2. a.entries = es
      BY <2>2
    <3> HIDE DEF es
    <3> QED
      BY <2>3, <3>1, <3>2, SMTT(30)
  <2>5. RequestFromLog'
    <3> SUFFICES ASSUME NEW m \in appendRequests'
                 PROVE  LET lg == log[m.args.leaderId]
                            prev == m.args.prevLogIndex
                        IN /\ prev + Len(m.args.entries) <= Len(lg)
                           /\ \A k \in 1..Len(m.args.entries) :
                                 /\ m.args.entries[k] = lg[prev + k]
                                 /\ lg[prev + k].term <= m.args.term
                           /\ m.args.leaderCommit <= prev + Len(m.args.entries)
      BY <2>1 DEF RequestFromLog
    <3>1. CASE m \in appendRequests
      BY <3>1 DEF LogInv, RequestFromLog
    <3>2. CASE m = [to |-> j, args |-> a]
      <4>1. m.args = a
        BY <3>2
      <4>2. \A k \in 1..Len(a.entries) : log[i][a.prevLogIndex + k].term <= currentTerm[i]
        <5> SUFFICES ASSUME NEW k \in 1..Len(a.entries)
                     PROVE  log[i][a.prevLogIndex + k].term <= currentTerm[i]
          OBVIOUS
        <5>1. a.prevLogIndex + k \in 1..Len(log[i])
          BY <2>3, <2>4, SMTT(30)
        <5> QED
          BY <5>1 DEF LogInv, TermsAscend
      <4>3. /\ a.prevLogIndex + Len(a.entries) <= Len(log[i])
            /\ a.leaderCommit <= a.prevLogIndex + Len(a.entries)
        BY <2>2, <2>3, <2>4, <1>c, SMTT(30)
      <4> QED
        BY <4>1, <4>2, <4>3, <2>2, <2>4
    <3> QED
      BY <3>1, <3>2, <2>2
  <2>6. LogsNeverDiverge' /\ TermsAscend' /\ AppliedFromLog' /\ applied' \in [Server -> Seq(Entry)]
    BY <2>1 DEF LogInv, LogsNeverDiverge, TermsAscend, AppliedFromLog
  <2>7. LeaderIsLongest'
    BY <2>1, SameVotes DEF LogInv, StillCandidate
  <2> QED
    BY <2>5, <2>6, <2>7 DEF LogInv
<1>9. ASSUME NEW i \in Server, NEW j \in Server, ReplicationReply(i, j) PROVE LogInv'
  <2>1. UNCHANGED <<log, applied, pc, electionTerm, votes, voteRequests, voteReplies, appendRequests>>
    BY <1>9 DEF ReplicationReply, runVars, voteVars
  <2>2. /\ \A k \in Server : currentTerm'[k] >= currentTerm[k]
        /\ \A k \in Server : state'[k] = state[k] \/ state'[k] = "Follower"
        /\ \A k \in Server : StillCandidate(k)' => StillCandidate(k)
        /\ \A k \in Server : commitIndex'[k] >= commitIndex[k] /\ commitIndex'[k] <= Len(log[k])
    <3>1. CASE UNCHANGED nodeVars /\ UNCHANGED commitIndex
      BY <3>1, <2>1, <1>t, <1>c, SMTT(30) DEF nodeVars, StillCandidate
    <3>2. CASE /\ becomeFollowerLocked(i, call[i][j].reply.term) /\ UNCHANGED commitIndex
               /\ call[i][j].reply.term > currentTerm[i]
      <4>1. state' = [state EXCEPT ![i] = "Follower"]
        BY <3>2 DEF becomeFollowerLocked
      <4>2. currentTerm' = [currentTerm EXCEPT ![i] = call[i][j].reply.term]
        BY <3>2 DEF becomeFollowerLocked
      <4>3. \A k \in Server : /\ k # i => state'[k] = state[k] /\ currentTerm'[k] = currentTerm[k]
                              /\ k = i => state'[k] = "Follower"
        BY <4>1, <4>2 DEF TypeOK
      <4>4. currentTerm'[i] > currentTerm[i]
        BY <4>2, <3>2 DEF TypeOK
      <4>5. \A k \in Server : currentTerm'[k] \in Nat
        BY SMTT(30) DEF TypeOK, Term
      <4>6. \A k \in Server : currentTerm'[k] >= currentTerm[k]
        BY <4>3, <4>4, <4>5, <1>t, SMTT(30)
      <4>7. \A k \in Server : StillCandidate(k)' => StillCandidate(k)
        BY <4>3, <2>1 DEF StillCandidate
      <4> QED
        BY <4>3, <4>6, <4>7, <3>2, <1>t, <1>c, SMTT(30)
    <3>3. CASE UNCHANGED nodeVars /\ \E mt : tryAdvanceCommitIndexLocked(i, mt)
      <4>1. \A k \in Server : commitIndex'[k] >= commitIndex[k] /\ commitIndex'[k] <= Len(log[k])
        <5>1. PICK mt : tryAdvanceCommitIndexLocked(i, mt)
          BY <3>3
        <5>2. CASE UNCHANGED commitIndex
          BY <5>2, <1>t, <1>c, SMTT(30)
        <5>3. CASE \E n \in Committable(i, mt) : commitIndex' = [commitIndex EXCEPT ![i] = n]
          <6>1. PICK n \in Committable(i, mt) : commitIndex' = [commitIndex EXCEPT ![i] = n]
            BY <5>3
          <6>2. n \in (commitIndex[i] + 1)..Len(log[i])
            BY DEF Committable
          <6> QED
            BY <6>1, <6>2, <1>t, <1>c, LogFacts, SMTT(30)
        <5> QED
          BY <5>1, <5>2, <5>3 DEF tryAdvanceCommitIndexLocked
      <4> QED
        BY <4>1, <3>3, <2>1, <1>t, SMTT(30) DEF nodeVars, StillCandidate
    <3> QED
      BY <1>9, <3>1, <3>2, <3>3 DEF ReplicationReply
  <2>3. LeaderIsLongest'
    BY <2>1, <2>2, SameVotes DEF LogInv
  <2> QED
    BY <2>1, <2>2, <2>3, SameLogs DEF LogInv
<1>10. ASSUME NEW i \in Server, NEW j \in Server, ReplicationTimeout(i, j) PROVE LogInv'
  <2>1. UNCHANGED <<currentTerm, state, log, commitIndex, applied, pc, electionTerm, votes,
                    voteRequests, voteReplies, appendRequests>>
    BY <1>10 DEF ReplicationTimeout, nodeVars, logVars, runVars, voteVars
  <2>2. LeaderIsLongest'
    BY <2>1, SameVotes DEF LogInv, StillCandidate
  <2> QED
    BY <2>1, <2>2, <1>t, <1>c, SameLogs, SMTT(30) DEF LogInv
<1>11. ASSUME NEW m \in voteRequests, HandleRequestVote(m) PROVE LogInv'
  <2> DEFINE i == m.to
             c == m.args.candidateId
  <2>1. i \in Server /\ c \in Server /\ m.args.term \in Nat
    BY SMTT(30) DEF TypeOK, RequestVoteArgs, Term
  <2>2. /\ UNCHANGED <<log, commitIndex, applied, pc, electionTerm, votes, appendRequests>>
        /\ voteRequests' \subseteq voteRequests
    BY <1>11 DEF HandleRequestVote, logVars, runVars, appendVars
  <2>3. /\ \A k \in Server : currentTerm'[k] >= currentTerm[k]
        /\ \A k \in Server : state'[k] = "Leader" => state[k] = "Leader"
        /\ \A k \in Server : state'[k] = "Candidate" =>
              state[k] = "Candidate" /\ currentTerm'[k] = currentTerm[k]
    <3>1. CASE m.args.term > currentTerm[i]
      <4>1. /\ state' = [state EXCEPT ![i] = "Follower"]
            /\ currentTerm' = [currentTerm EXCEPT ![i] = m.args.term]
        BY <1>11, <3>1 DEF HandleRequestVote
      <4>2. state \in [Server -> {"Follower", "Candidate", "Leader"}]
        BY DEF TypeOK
      <4>3. /\ state'[i] = "Follower" /\ currentTerm'[i] = m.args.term
            /\ \A k \in Server : k # i => state'[k] = state[k] /\ currentTerm'[k] = currentTerm[k]
        BY <4>1, <4>2, <2>1, <1>t
      <4> QED
        BY <4>3, <3>1, <2>1, <1>t, SMTT(30)
    <3>2. CASE ~(m.args.term > currentTerm[i])
      <4>1. /\ state' = [state EXCEPT ![i] = @]
            /\ currentTerm' = [currentTerm EXCEPT ![i] = @]
        BY <1>11, <3>2 DEF HandleRequestVote
      <4>2. state' = state /\ currentTerm' = currentTerm
        BY <4>1, <2>1 DEF TypeOK
      <4> QED
        BY <4>2, <1>t, SMTT(30)
    <3> QED
      BY <3>1, <3>2
  <2>4. \A k \in Server : StillCandidate(k)' => StillCandidate(k)
    BY <2>2, <2>3 DEF StillCandidate
  <2>5. ASSUME NEW r \in voteReplies', r \notin voteReplies
        PROVE  /\ r.from = i /\ r.to = c
               /\ r.reply.voteGranted => UpToDate(m.args, log[i])
               /\ electionTerm[c] = m.args.term
    <3> DEFINE free == m.args.term > currentTerm[i] \/ votedFor[i] \in {Nil, c}
               grant == ~(currentTerm[i] > m.args.term) /\ free /\ UpToDate(m.args, log[i])
               reply == [term |-> Int32(currentTerm[i]), voteGranted |-> grant]
    <3>1. /\ electionTerm[c] = m.args.term
          /\ voteReplies' = voteReplies \cup {[from |-> i, to |-> c, reply |-> reply]}
      BY <1>11, <2>5 DEF HandleRequestVote, RequestVoteReplyToProto
    <3>2. r = [from |-> i, to |-> c, reply |-> reply]
      BY <3>1, <2>5
    <3>3. r.reply.voteGranted = grant
      BY <3>2
    <3> HIDE DEF reply
    <3> QED
      BY <3>1, <3>2, <3>3
  <2>6. ASSUME NEW k \in Server, StillCandidate(k), NEW r \in voteReplies',
               r.to = k, r.reply.voteGranted
        PROVE  Len(log[r.from]) <= Len(log[k])
    <3>1. CASE r \in voteReplies
      BY <2>6, <3>1 DEF LogInv, LeaderIsLongest
    <3>2. CASE r \notin voteReplies
      <4>1. k = c /\ r.from = i /\ UpToDate(m.args, log[i]) /\ m.args.term = electionTerm[k]
        BY <2>5, <2>6, <3>2
      <4>2. m.args.lastLogIndex = Len(log[k]) /\ m.args.lastLogTerm = LastTerm(log[k])
        BY <4>1, <2>6 DEF LogInv, LeaderIsLongest
      <4>3. LogsNeverDiverge /\ TermsAscend
        BY DEF LogInv
      <4> HIDE DEF i, c
      <4> QED
        BY <4>1, <4>2, <4>3, <2>1, RecentIsLonger
    <3> QED
      BY <3>1, <3>2
  <2>7. LeaderIsLongest'
    <3>1. \A a, b \in Server : state'[a] = "Leader" => Len(log[b]) <= Len(log[a])
      BY <2>3 DEF LogInv, LeaderIsLongest
    <3>2. \A a \in Server : StillCandidate(a)' => \A j \in votes[a] : Len(log[j]) <= Len(log[a])
      BY <2>4 DEF LogInv, LeaderIsLongest
    <3>3. \A a \in Server : StillCandidate(a)' => \A v \in voteRequests' :
             v.args.candidateId = a /\ v.args.term = electionTerm[a] =>
                /\ v.args.lastLogIndex = Len(log[a])
                /\ v.args.lastLogTerm = LastTerm(log[a])
      BY <2>2, <2>4 DEF LogInv, LeaderIsLongest
    <3> QED
      BY <3>1, <3>2, <3>3, <2>2, <2>4, <2>6 DEF LeaderIsLongest
  <2>8. \A k \in Server : commitIndex'[k] >= commitIndex[k] /\ commitIndex'[k] <= Len(log[k])
    BY <2>2, <1>t, <1>c, SMTT(30)
  <2>9. UNCHANGED <<log, applied, appendRequests>>
    BY <2>2
  <2>10. \A k \in Server : currentTerm'[k] >= currentTerm[k]
    BY <2>3
  <2> QED
    BY <2>7, <2>8, <2>9, <2>10, SameLogs DEF LogInv
<1>12. ASSUME NEW m \in appendRequests, HandleAppendEntries(m) PROVE LogInv'
  <2> DEFINE i == m.to
             l == m.args.leaderId
             prev == m.args.prevLogIndex
             stale == currentTerm[i] > m.args.term
             src == log[l]
             new == AppendNew(log[i], prev, m.args.entries)
  <2>0. i \in Server /\ m.args \in AppendEntriesArgs
    BY DEF TypeOK
  <2>1. l \in Server /\ m.args.term \in Nat /\ prev \in Nat /\ m.args.leaderCommit \in Nat
    BY <2>0, ArgsFacts, SMTT(30) DEF Term, Index
  <2>2. UNCHANGED <<applied, pc, electionTerm, votes, voteRequests, voteReplies, appendRequests>>
    BY <1>12 DEF HandleAppendEntries, runVars, voteVars
  <2>3. /\ \A k \in Server : k # i => state'[k] = state[k] /\ currentTerm'[k] = currentTerm[k]
        /\ stale => state'[i] = state[i] /\ currentTerm'[i] = currentTerm[i]
        /\ ~stale => state'[i] = "Follower" /\ currentTerm'[i] = m.args.term
    <3>1. CASE stale
      BY <3>1, <1>12 DEF HandleAppendEntries, nodeVars
    <3>2. CASE ~stale
      <4>1. /\ state' = [state EXCEPT ![i] = "Follower"]
            /\ currentTerm' = [currentTerm EXCEPT ![i] = m.args.term]
        BY <3>2, <1>12 DEF HandleAppendEntries
      <4> QED
        BY <4>1, <3>2, <2>0, SMTT(30) DEF TypeOK
    <3> QED
      BY <3>1, <3>2
  <2>4. \A k \in Server : currentTerm'[k] >= currentTerm[k]
    BY <2>0, <2>1, <2>3, <1>t, SMTT(30)
  <2>5. /\ \A k \in Server : state'[k] = "Leader" => state[k] = "Leader" /\ (stale \/ k # i)
        /\ \A k \in Server : StillCandidate(k)' => StillCandidate(k) /\ (stale \/ k # i)
    BY <2>2, <2>3 DEF StillCandidate
  <2>6. CASE UNCHANGED <<log, commitIndex>>
    <3>1. LeaderIsLongest'
      BY <2>2, <2>5, <2>6, SameVotes DEF LogInv
    <3>2. \A k \in Server : commitIndex'[k] >= commitIndex[k] /\ commitIndex'[k] <= Len(log[k])
      BY <2>6, <1>t, <1>c, SMTT(30)
    <3>3. UNCHANGED <<log, applied, appendRequests>>
      BY <2>2, <2>6
    <3> QED
      BY <3>1, <3>2, <3>3, <2>4, SameLogs DEF LogInv
  <2>7. CASE ~UNCHANGED <<log, commitIndex>>
    <3>1. /\ ~stale /\ prev <= Len(log[i])
          /\ log' = [log EXCEPT ![i] = new]
          /\ commitIndex' = [commitIndex EXCEPT ![i] =
                IF m.args.leaderCommit > commitIndex[i]
                THEN IF m.args.leaderCommit <= Len(new) THEN m.args.leaderCommit ELSE Len(new)
                ELSE commitIndex[i]]
      BY <1>12, <2>1, <2>7, SMTT(30) DEF HandleAppendEntries
    <3>2. /\ Len(new) \in Nat
          /\ Len(new) = IF Len(log[i]) > prev + Len(m.args.entries)
                        THEN Len(log[i]) ELSE prev + Len(m.args.entries)
          /\ \A k \in 1..Len(log[i]) : k <= Len(new) /\ new[k] = log[i][k]
          /\ \A k \in 1..Len(new) : k > Len(log[i]) =>
                k <= Len(src) /\ new[k] = src[k] /\ src[k].term <= m.args.term
      BY <3>1, AppendOnlyAdds DEF LogInv
    <3>3. prev + Len(m.args.entries) <= Len(src)
      BY DEF LogInv, RequestFromLog
    <3>4. /\ log'[i] = new /\ \A k \in Server : k # i => log'[k] = log[k]
          /\ \A k \in Server : Len(log[k]) \in Nat
      BY <3>1, <2>0, LogFacts DEF TypeOK
    <3>5. commitIndex'[i] = (IF m.args.leaderCommit > commitIndex[i]
                THEN IF m.args.leaderCommit <= Len(new) THEN m.args.leaderCommit ELSE Len(new)
                ELSE commitIndex[i])
          /\ \A k \in Server : k # i => commitIndex'[k] = commitIndex[k]
      BY <3>1, <2>0, SMTT(30) DEF TypeOK
    <3> HIDE DEF new, i, l, prev
    <3>6. ~stale
      BY <3>1
    <3>7. LogsNeverDiverge'
      <4>1. ASSUME NEW a \in Server, NEW k \in 1..Len(log'[a])
            PROVE  \E s \in Server : k \in 1..Len(log[s]) /\ log'[a][k] = log[s][k]
        <5>1. CASE a # i
          BY <5>1, <3>4
        <5>2. CASE a = i /\ k <= Len(log[i])
          BY <5>2, <3>2, <3>4, SMTT(30)
        <5>3. CASE a = i /\ k > Len(log[i])
          <6>1. k <= Len(src) /\ new[k] = src[k] /\ k \in 1..Len(src)
            BY <5>3, <3>2, <3>4, SMTT(30)
          <6> QED
            BY <6>1, <5>3, <3>4, <2>1
        <5> QED
          BY <5>1, <5>2, <5>3, <3>4, <2>0, <3>2, SMTT(30)
      <4> QED
        <5> SUFFICES ASSUME NEW a \in Server, NEW b \in Server, NEW k \in 1..Len(log'[a]),
                            k <= Len(log'[b])
                     PROVE  log'[a][k] = log'[b][k]
          BY DEF LogsNeverDiverge, Agree
        <5>0. k \in 1..Len(log'[b])
          BY SMTT(30)
        <5>1. PICK s \in Server : k \in 1..Len(log[s]) /\ log'[a][k] = log[s][k]
          BY <4>1
        <5>2. PICK t \in Server : k \in 1..Len(log[t]) /\ log'[b][k] = log[t][k]
          BY <4>1, <5>0
        <5>3. log[s][k] = log[t][k]
          BY <5>1, <5>2, SMTT(30) DEF LogInv, LogsNeverDiverge, Agree
        <5> QED
          BY <5>1, <5>2, <5>3
    <3>8. TermsAscend'
      <4> SUFFICES ASSUME NEW a \in Server, NEW k \in 1..Len(log'[a])
                   PROVE  /\ log'[a][k].term <= currentTerm'[a]
                          /\ \A n \in k..Len(log'[a]) : log'[a][k].term <= log'[a][n].term
        BY DEF TermsAscend
      <4>1. CASE a # i
        BY <4>1, <3>4, <2>3 DEF LogInv, TermsAscend
      <4>2. CASE a = i
        <5>1. currentTerm'[i] = m.args.term /\ currentTerm[i] <= m.args.term
          BY <3>6, <2>0, <2>1, <2>3, <1>t, SMTT(30)
        <5>2. new[k].term <= m.args.term
          <6>1. CASE k <= Len(log[i])
            <7>1. k \in 1..Len(log[i])
              BY <6>1, <4>2, <3>2, <3>4, <2>0, SMTT(30)
            <7>2. new[k] = log[i][k] /\ log[i][k].term <= currentTerm[i] /\ log[i][k].term \in Nat
              BY <7>1, <3>2, <2>0, LogFacts DEF LogInv, TermsAscend
            <7> QED
              BY <7>2, <5>1, <1>t, <2>0, <2>1, SMTT(30)
          <6>2. CASE k > Len(log[i])
            BY <6>2, <4>2, <3>2, <3>4
          <6> QED
            BY <6>1, <6>2, <4>2, <3>2, <3>4, <2>0, SMTT(30)
        <5>3. ASSUME NEW n \in k..Len(new) PROVE new[k].term <= new[n].term
          <6>1. CASE n <= Len(log[i])
            <7>1. k \in 1..Len(log[i]) /\ n \in k..Len(log[i]) /\ n \in 1..Len(log[i])
              BY <6>1, <4>2, <3>2, <3>4, <2>0, SMTT(30)
            <7> QED
              BY <7>1, <3>2, <2>0 DEF LogInv, TermsAscend
          <6>2. CASE n > Len(log[i])
            <7>1. n \in 1..Len(new) /\ k \in 1..Len(new)
              BY <4>2, <3>2, <3>4, SMTT(30)
            <7>2. new[n] = src[n] /\ n <= Len(src)
              BY <7>1, <6>2, <3>2
            <7>3. k \in 1..Len(src) /\ n \in k..Len(src)
              BY <7>1, <7>2, <3>4, <2>1, SMTT(30)
            <7>4. new[k] = src[k]
              <8>1. CASE k \in 1..Len(log[i])
                <9>1. new[k] = log[i][k] /\ k <= Len(src)
                  BY <8>1, <7>3, <3>2, SMTT(30)
                <9>2. log[i][k] = log[l][k]
                  BY <8>1, <9>1, <2>0, <2>1 DEF LogInv, LogsNeverDiverge, Agree
                <9> QED
                  BY <9>1, <9>2
              <8>2. CASE k > Len(log[i])
                BY <8>2, <7>1, <3>2
              <8> QED
                BY <8>1, <8>2, <7>1, <3>4, <2>0, SMTT(30)
            <7>5. src[k].term <= src[n].term
              BY <7>3, <2>1 DEF LogInv, TermsAscend
            <7> QED
              BY <7>2, <7>4, <7>5
          <6> QED
            BY <6>1, <6>2, <3>2, <3>4, <2>0, <4>2, SMTT(30)
        <5> QED
          BY <4>2, <5>1, <5>2, <5>3, <3>4
      <4> QED
        BY <4>1, <4>2
    <3>9. \A k \in Server : /\ Len(log'[k]) >= Len(log[k]) /\ Len(log'[k]) \in Nat
                            /\ \A n \in 1..Len(log[k]) : log'[k][n] = log[k][n]
      <4>1. Len(new) >= Len(log[i])
        BY <3>2, <3>4, <2>0, SMTT(30)
      <4>2. \A n \in 1..Len(log[i]) : log'[i][n] = log[i][n]
        BY <3>2, <3>4
      <4>3. \A k \in Server : k # i => Len(log'[k]) >= Len(log[k]) /\ Len(log'[k]) \in Nat
        BY <3>4, SMTT(30)
      <4>4. Len(log'[i]) >= Len(log[i]) /\ Len(log'[i]) \in Nat
        BY <4>1, <3>2, <3>4
      <4> SUFFICES ASSUME NEW k \in Server
                   PROVE  /\ Len(log'[k]) >= Len(log[k]) /\ Len(log'[k]) \in Nat
                          /\ \A n \in 1..Len(log[k]) : log'[k][n] = log[k][n]
        OBVIOUS
      <4>5. CASE k = i
        BY <4>5, <4>2, <4>4
      <4>6. CASE k # i
        BY <4>6, <4>3, <3>4
      <4> QED
        BY <4>5, <4>6
    <3>10. RequestFromLog' /\ AppliedFromLog' /\ applied' \in [Server -> Seq(Entry)]
      <4>1. commitIndex'[i] >= commitIndex[i] /\ commitIndex'[i] <= Len(new)
        <5>1. commitIndex[i] <= Len(new) /\ commitIndex[i] \in Nat
          BY <3>4, <3>9, <2>0, <1>t, <1>c, SMTT(30)
        <5> QED
          BY <5>1, <3>2, <3>5, <2>1, SMTT(30)
      <4>2. \A k \in Server : commitIndex'[k] >= commitIndex[k] /\ commitIndex'[k] <= Len(log'[k])
        <5> SUFFICES ASSUME NEW k \in Server
                     PROVE  commitIndex'[k] >= commitIndex[k] /\ commitIndex'[k] <= Len(log'[k])
          OBVIOUS
        <5>1. CASE k = i
          BY <5>1, <4>1, <3>4
        <5>2. CASE k # i
          BY <5>2, <3>4, <3>5, <1>t, <1>c, SMTT(30)
        <5> QED
          BY <5>1, <5>2
      <4>3. UNCHANGED <<applied, appendRequests>>
        BY <2>2
      <4> QED
        BY <4>2, <4>3, <3>9, GrowingLogs
    <3>11. LeaderIsLongest'
      <4>1. ASSUME NEW a \in Server, NEW b \in Server, state'[a] = "Leader"
            PROVE  Len(log'[b]) <= Len(log'[a])
        <5>1. state[a] = "Leader" /\ a # i
          BY <4>1, <2>5, <3>6
        <5>2. Len(log[b]) <= Len(log[a]) /\ Len(log[i]) <= Len(log[a]) /\ Len(src) <= Len(log[a])
          BY <5>1, <2>0, <2>1 DEF LogInv, LeaderIsLongest
        <5>3. Len(new) <= Len(log[i]) \/ Len(new) <= Len(src)
          BY <3>2, <3>3, <3>4, <2>0, <2>1, SMTT(30)
        <5>4. Len(new) <= Len(log[a])
          BY <5>2, <5>3, <3>2, <3>4, <2>0, <2>1, SMTT(30)
        <5> QED
          BY <5>1, <5>2, <5>4, <3>4
      <4>2. ASSUME NEW a \in Server, StillCandidate(a)'
            PROVE  /\ a # i /\ StillCandidate(a)
                   /\ \A j \in votes[a] : j # i
                   /\ \A r \in voteReplies : r.to = a /\ r.reply.voteGranted => r.from # i
        <5>1. a # i /\ StillCandidate(a)
          BY <4>2, <2>5, <3>6
        <5>2. ~Supports(i, a)
          BY <5>1, <2>0, <3>6, VoterDoesNotLead DEF i
        <5> QED
          BY <5>1, <5>2 DEF ElectionInv, VotesAreSupport
      <4>3. \A a \in Server : StillCandidate(a)' =>
               \A j \in votes[a] : Len(log'[j]) <= Len(log'[a])
        <5> SUFFICES ASSUME NEW a \in Server, StillCandidate(a)', NEW j \in votes[a]
                     PROVE  Len(log'[j]) <= Len(log'[a])
          OBVIOUS
        <5>1. StillCandidate(a) /\ a # i /\ j # i
          BY <4>2
        <5>2. j \in Server
          BY DEF TypeOK
        <5>3. log'[j] = log[j] /\ log'[a] = log[a]
          BY <5>1, <5>2, <3>4
        <5> QED
          BY <5>1, <5>3 DEF LogInv, LeaderIsLongest
      <4>4. \A a \in Server : StillCandidate(a)' => \A r \in voteReplies :
               r.to = a /\ r.reply.voteGranted => Len(log'[r.from]) <= Len(log'[a])
        <5> SUFFICES ASSUME NEW a \in Server, StillCandidate(a)',
                            NEW r \in voteReplies, r.to = a, r.reply.voteGranted
                     PROVE  Len(log'[r.from]) <= Len(log'[a])
          OBVIOUS
        <5>1. StillCandidate(a) /\ a # i /\ r.from # i
          BY <4>2
        <5>2. r.from \in Server
          BY DEF TypeOK
        <5>3. log'[r.from] = log[r.from] /\ log'[a] = log[a]
          BY <5>1, <5>2, <3>4
        <5> QED
          BY <5>1, <5>3 DEF LogInv, LeaderIsLongest
      <4>5. \A a \in Server : StillCandidate(a)' => \A v \in voteRequests :
               v.args.candidateId = a /\ v.args.term = electionTerm[a] =>
                  /\ v.args.lastLogIndex = Len(log'[a])
                  /\ v.args.lastLogTerm = LastTerm(log'[a])
        BY <4>2, <3>4 DEF LogInv, LeaderIsLongest
      <4> QED
        BY <4>1, <4>3, <4>4, <4>5, <2>2 DEF LeaderIsLongest
    <3> QED
      BY <3>7, <3>8, <3>10, <3>11 DEF LogInv
  <2> QED
    BY <2>6, <2>7
<1>13. CASE UNCHANGED vars
  <2>1. UNCHANGED <<currentTerm, state, log, commitIndex, applied, pc, electionTerm, votes,
                    voteRequests, voteReplies, appendRequests>>
    BY <1>13 DEF vars, nodeVars, logVars, runVars, voteVars, appendVars
  <2>2. LeaderIsLongest'
    BY <2>1, SameVotes DEF LogInv, StillCandidate
  <2> QED
    BY <2>1, <2>2, <1>t, <1>c, SameLogs, SMTT(30) DEF LogInv
<1> QED
  BY <1>1, <1>2, <1>3, <1>4, <1>5, <1>6, <1>7, <1>8, <1>9, <1>10, <1>11, <1>12, <1>13 DEF Next

(* Every step keeps the three parts of the invariant together.             *)
LEMMA NextSafety ==
  ASSUME Counting, Unanimous, SafetyInv, [Next]_vars
  PROVE  SafetyInv'
<1>1. TypeOK /\ ElectionInv /\ LogInv
  BY DEF SafetyInv
<1>2. TypeOK'
  BY <1>1, NextType
<1>3. ElectionInv'
  BY <1>1, <1>2, NextElection
<1>4. LogInv'
  BY <1>1, <1>2, NextLog
<1> QED
  BY <1>2, <1>3, <1>4 DEF SafetyInv

(* What two nodes have applied is in both logs, which agree.               *)
LEMMA SafeStateMachines == SafetyInv => StateMachineSafety
<1> SUFFICES ASSUME SafetyInv PROVE StateMachineSafety
  OBVIOUS
<1> SUFFICES ASSUME NEW i \in Server, NEW j \in Server, NEW k \in 1..Len(applied[i]),
                    k <= Len(applied[j])
             PROVE  applied[i][k] = applied[j][k]
  BY DEF StateMachineSafety, Agree
<1>0. LogInv
  BY DEF SafetyInv
<1>1. Len(applied[i]) \in Nat /\ Len(applied[j]) \in Nat /\ k \in 1..Len(applied[j])
  BY <1>0, SMTT(30) DEF LogInv
<1>2. /\ applied[i][k] = log[i][k] /\ applied[j][k] = log[j][k]
      /\ Len(applied[i]) <= Len(log[i]) /\ Len(applied[j]) <= Len(log[j])
  BY <1>0, <1>1 DEF LogInv, AppliedFromLog, IsPrefixOf
<1>3. Len(log[i]) \in Nat /\ Len(log[j]) \in Nat
  BY LogFacts DEF SafetyInv
<1>4. k \in 1..Len(log[i]) /\ k <= Len(log[j])
  BY <1>1, <1>2, <1>3, SMTT(30)
<1>5. log[i][k] = log[j][k]
  BY <1>0, <1>4 DEF LogInv, LogsNeverDiverge, Agree
<1> QED
  BY <1>2, <1>5

-----------------------------------------------------------------------------
(* Commitment.                                                             *)

(* What a node has committed is the beginning of its log.                  *)
LEMMA CommittedFacts ==
  ASSUME TypeOK, LogInv, NEW i \in Server
  PROVE  /\ Len(Committed(i)) = commitIndex[i] /\ commitIndex[i] \in Nat
         /\ commitIndex[i] <= Len(log[i]) /\ Len(log[i]) \in Nat
         /\ \A k \in 1..commitIndex[i] : Committed(i)[k] = log[i][k]
<1>1. commitIndex[i] \in Nat
  BY SMTT(30) DEF TypeOK, Index
<1>2. commitIndex[i] <= Len(log[i])
  BY DEF LogInv, AppliedFromLog
<1>3. log[i] \in Seq(Entry) /\ Len(log[i]) \in Nat /\ \A k \in 1..Len(log[i]) : log[i][k] \in Entry
  BY LogFacts
<1>4. commitIndex[i] \in 0..Len(log[i])
  BY <1>1, <1>2, <1>3, SMTT(30)
<1>6. Len(Committed(i)) = commitIndex[i]
  BY <1>3, <1>4, PrefixFacts DEF Committed
<1>7. ASSUME NEW k \in 1..commitIndex[i] PROVE Committed(i)[k] = log[i][k]
  BY <1>3, <1>4, PrefixFacts DEF Committed
<1> QED
  BY <1>1, <1>2, <1>3, <1>6, <1>7

(* A leader has the longest log, and logs agree.                           *)
LEMMA SafeLeaders == SafetyInv => LeaderCompleteness
<1> SUFFICES ASSUME SafetyInv PROVE LeaderCompleteness
  OBVIOUS
<1> SUFFICES ASSUME NEW i \in Server, NEW j \in Server, state[i] = "Leader"
             PROVE  IsPrefixOf(Committed(j), log[i])
  BY DEF LeaderCompleteness
<1>0. TypeOK /\ LogInv
  BY DEF SafetyInv
<1>1. /\ Len(Committed(j)) = commitIndex[j] /\ commitIndex[j] \in Nat
      /\ commitIndex[j] <= Len(log[j]) /\ Len(log[j]) \in Nat
      /\ \A k \in 1..commitIndex[j] : Committed(j)[k] = log[j][k]
  BY <1>0, CommittedFacts
<1>2. Len(log[j]) <= Len(log[i]) /\ Len(log[i]) \in Nat
  BY <1>0, LogFacts DEF LogInv, LeaderIsLongest
<1>3. \A k \in 1..Len(log[j]) : log[j][k] = log[i][k]
  BY <1>0, <1>1, <1>2, SMTT(30) DEF LogInv, LogsNeverDiverge, Agree
<1> QED
  BY <1>1, <1>2, <1>3, SMTT(30) DEF IsPrefixOf

-----------------------------------------------------------------------------
(* What no step takes back, in a cluster whose elections are unanimous.    *)
NothingLost(i) ==
    /\ IsPrefixOf(log[i], log'[i])
    /\ commitIndex'[i] >= commitIndex[i]
    /\ currentTerm'[i] >= currentTerm[i]

(* No step shortens a log, lowers a commit index or lowers a term.         *)
LEMMA StepsLoseNothing ==
  ASSUME TypeOK, TypeOK', LogInv, [Next]_vars, NEW k \in Server
  PROVE  NothingLost(k)
<1>t. /\ currentTerm \in [Server -> Nat] /\ commitIndex \in [Server -> Nat]
      /\ log \in [Server -> Log] /\ currentTerm'[k] \in Nat
  BY SMTT(30) DEF TypeOK, Term, Index
<1>l. log[k] \in Seq(Entry) /\ Len(log[k]) \in Nat /\ Len(log[k]) <= Len(log[k])
  BY LogFacts, SMTT(30)
<1>0. IsPrefixOf(log[k], log[k]) /\ commitIndex[k] >= commitIndex[k] /\ currentTerm[k] >= currentTerm[k]
  BY <1>t, <1>l, SMTT(30) DEF IsPrefixOf
<1>1. CASE UNCHANGED <<log, commitIndex, currentTerm>>
  BY <1>0, <1>1 DEF NothingLost
<1>2. ASSUME NEW i \in Server, runCandidate(i) PROVE NothingLost(k)
  <2>1. /\ currentTerm' = [currentTerm EXCEPT ![i] = currentTerm[i] + 1]
        /\ UNCHANGED <<log, commitIndex>>
    BY <1>2 DEF runCandidate, logVars
  <2>2. currentTerm'[k] >= currentTerm[k]
    BY <2>1, <1>t, SMTT(30)
  <2> QED
    BY <2>1, <2>2, <1>0 DEF NothingLost
<1>3. ASSUME NEW i \in Server, NEW t, becomeFollowerLocked(i, t), UNCHANGED <<log, commitIndex>>
      PROVE  NothingLost(k)
  <2>1. currentTerm'[k] = currentTerm[k] \/ currentTerm'[k] > currentTerm[k]
    BY <1>3, <1>t DEF becomeFollowerLocked
  <2>2. currentTerm'[k] >= currentTerm[k]
    BY <2>1, <1>t, SMTT(30)
  <2> QED
    BY <2>2, <1>0, <1>3 DEF NothingLost
<1>4. ASSUME NEW i \in Server, NEW r \in voteReplies, CountVote(i, r) PROVE NothingLost(k)
  <2>1. UNCHANGED <<log, commitIndex>>
    BY <1>4 DEF CountVote, logVars
  <2>2. UNCHANGED currentTerm \/ becomeFollowerLocked(i, r.reply.term)
    BY <1>4 DEF CountVote, becomeLeaderLocked, nodeVars
  <2> QED
    BY <2>1, <2>2, <1>1, <1>3
<1>5. ASSUME NEW i \in Server, NEW cmd \in Command, Submit(i, cmd) PROVE NothingLost(k)
  <2> DEFINE e == [term |-> currentTerm[i], index |-> Len(log[i]) + 1, cmd |-> cmd]
  <2>1. /\ UNCHANGED <<currentTerm, commitIndex>> /\ Len(log[i]) < MaxLog
        /\ log' = [log EXCEPT ![i] = Append(log[i], e)]
    BY <1>5 DEF Submit, nodeVars
  <2>2. e \in Entry
    <3>1. Len(log[i]) + 1 \in Index
      BY <2>1, LogFacts, BoundAssumption, SMTT(30) DEF Index
    <3> QED
      BY <3>1 DEF Entry, TypeOK
  <2> HIDE DEF e
  <2>3. IsPrefixOf(log[k], log'[k])
    <3>1. CASE k = i
      <4>1. log'[k] = Append(log[k], e)
        BY <2>1, <3>1, <1>t
      <4> QED
        BY <4>1, <2>2, <1>l, SMTT(30) DEF IsPrefixOf
    <3>2. CASE k # i
      BY <2>1, <3>2, <1>0, <1>t
    <3> QED
      BY <3>1, <3>2
  <2> QED
    BY <2>1, <2>3, <1>0 DEF NothingLost
<1>6. ASSUME NEW i \in Server, NEW j \in Server, ReplicationReply(i, j) PROVE NothingLost(k)
  <2>1. UNCHANGED log
    BY <1>6 DEF ReplicationReply
  <2>2. CASE UNCHANGED <<nodeVars, commitIndex>>
    BY <2>1, <2>2, <1>1 DEF nodeVars
  <2>3. CASE becomeFollowerLocked(i, call[i][j].reply.term) /\ UNCHANGED commitIndex
    BY <2>1, <2>3, <1>3
  <2>4. CASE UNCHANGED nodeVars /\ \E mt : tryAdvanceCommitIndexLocked(i, mt)
    <3>1. PICK mt : tryAdvanceCommitIndexLocked(i, mt)
      BY <2>4
    <3>2. CASE UNCHANGED commitIndex
      BY <2>1, <2>4, <3>2, <1>1 DEF nodeVars
    <3>3. CASE \E n \in Committable(i, mt) : commitIndex' = [commitIndex EXCEPT ![i] = n]
      <4>1. PICK n \in Committable(i, mt) : commitIndex' = [commitIndex EXCEPT ![i] = n]
        BY <3>3
      <4>2. n \in (commitIndex[i] + 1)..Len(log[i])
        BY DEF Committable
      <4>3. commitIndex'[k] >= commitIndex[k]
        BY <4>1, <4>2, <1>t, LogFacts, SMTT(30)
      <4> QED
        BY <4>3, <2>1, <2>4, <1>0 DEF nodeVars, NothingLost
    <3> QED
      BY <3>1, <3>2, <3>3 DEF tryAdvanceCommitIndexLocked
  <2> QED
    BY <1>6, <2>2, <2>3, <2>4 DEF ReplicationReply
<1>7. ASSUME NEW m \in voteRequests, HandleRequestVote(m) PROVE NothingLost(k)
  <2>1. m.to \in Server /\ m.args.term \in Nat
    BY SMTT(30) DEF TypeOK, RequestVoteArgs, Term
  <2>2. /\ UNCHANGED <<log, commitIndex>>
        /\ currentTerm' = [currentTerm EXCEPT ![m.to] =
              IF m.args.term > currentTerm[m.to] THEN m.args.term ELSE currentTerm[m.to]]
    BY <1>7 DEF HandleRequestVote, logVars
  <2>3. currentTerm'[k] >= currentTerm[k]
    BY <2>1, <2>2, <1>t, SMTT(30)
  <2> QED
    BY <2>2, <2>3, <1>0 DEF NothingLost
<1>8. ASSUME NEW m \in appendRequests, HandleAppendEntries(m) PROVE NothingLost(k)
  <2> DEFINE i == m.to
             prev == m.args.prevLogIndex
             new == AppendNew(log[i], prev, m.args.entries)
  <2>0. i \in Server /\ m.args \in AppendEntriesArgs
    BY DEF TypeOK
  <2>1. m.args.term \in Nat /\ prev \in Nat /\ m.args.leaderCommit \in Nat
    BY <2>0, ArgsFacts, SMTT(30) DEF Term, Index
  <2>2. currentTerm'[k] >= currentTerm[k]
    <3>1. UNCHANGED currentTerm \/ (/\ ~(currentTerm[i] > m.args.term)
                                    /\ currentTerm' = [currentTerm EXCEPT ![i] = m.args.term])
      BY <1>8 DEF HandleAppendEntries, nodeVars
    <3> HIDE DEF i
    <3> QED
      BY <3>1, <2>0, <2>1, <1>t, SMTT(30)
  <2>3. CASE UNCHANGED <<log, commitIndex>>
    BY <2>2, <2>3, <1>0 DEF NothingLost
  <2>4. CASE ~UNCHANGED <<log, commitIndex>>
    <3>1. /\ prev <= Len(log[i])
          /\ log' = [log EXCEPT ![i] = new]
          /\ commitIndex' = [commitIndex EXCEPT ![i] =
                IF m.args.leaderCommit > commitIndex[i]
                THEN IF m.args.leaderCommit <= Len(new) THEN m.args.leaderCommit ELSE Len(new)
                ELSE commitIndex[i]]
      BY <1>8, <2>1, <2>4, SMTT(30) DEF HandleAppendEntries
    <3>2. Len(new) \in Nat /\ \A n \in 1..Len(log[i]) : n <= Len(new) /\ new[n] = log[i][n]
      BY <3>1, AppendOnlyAdds DEF LogInv
    <3>3. /\ Len(log[i]) \in Nat /\ commitIndex[i] \in Nat /\ commitIndex[i] <= Len(log[i])
      BY <2>0, <1>t, LogFacts DEF LogInv, AppliedFromLog
    <3> HIDE DEF new, i, prev
    <3>4. Len(log[i]) <= Len(new)
      <4>1. CASE Len(log[i]) = 0
        BY <4>1, <3>2, SMTT(30)
      <4>2. CASE Len(log[i]) # 0
        <5>1. Len(log[i]) \in 1..Len(log[i])
          BY <4>2, <3>3, SMTT(30)
        <5> QED
          BY <5>1, <3>2
      <4> QED
        BY <4>1, <4>2
    <3>5. CASE k = i
      <4>1. log'[k] = new /\ IsPrefixOf(log[k], log'[k])
        BY <3>1, <3>2, <3>4, <3>5, <1>t DEF IsPrefixOf
      <4>2. commitIndex'[k] >= commitIndex[k]
        BY <3>1, <3>2, <3>3, <3>4, <3>5, <2>1, <1>t, SMTT(30)
      <4> QED
        BY <4>1, <4>2, <2>2 DEF NothingLost
    <3>6. CASE k # i
      BY <3>1, <3>6, <2>0, <2>2, <1>0, <1>t DEF NothingLost
    <3> QED
      BY <3>5, <3>6
  <2> QED
    BY <2>3, <2>4
<1>9. ASSUME NEW i \in Server,
             \/ runFollower(i) \/ run(i) \/ ElectionExpires(i) \/ applyCommittedEntries(i)
      PROVE  NothingLost(k)
  BY <1>1, <1>9 DEF runFollower, run, ElectionExpires, applyCommittedEntries, nodeVars, logVars
<1>10. ASSUME NEW i \in Server, NEW j \in Server,
              replicateToFollower(i, j) \/ ReplicationTimeout(i, j)
       PROVE  NothingLost(k)
  BY <1>1, <1>10 DEF replicateToFollower, ReplicationTimeout, nodeVars, logVars
<1>11. CASE UNCHANGED vars
  BY <1>1, <1>11 DEF vars, nodeVars, logVars
<1> QED
  BY <1>2, <1>4, <1>5, <1>6, <1>7, <1>8, <1>9, <1>10, <1>11 DEF Next

(* A step that takes nothing back takes back nothing committed.            *)
LEMMA SafeCommitted == SafetyInv /\ SafetyInv' /\ [Next]_vars => CommittedStep
<1> SUFFICES ASSUME SafetyInv, SafetyInv', [Next]_vars PROVE CommittedStep
  OBVIOUS
<1> SUFFICES ASSUME NEW i \in Server
             PROVE  /\ IsPrefixOf(Committed(i), Committed(i)')
                    /\ currentTerm'[i] >= currentTerm[i]
  BY DEF CommittedStep
<1>1. TypeOK /\ LogInv /\ TypeOK' /\ LogInv'
  BY DEF SafetyInv
<1>2. NothingLost(i)
  BY <1>1, StepsLoseNothing
<1>3. /\ Len(Committed(i)) = commitIndex[i] /\ commitIndex[i] \in Nat
      /\ commitIndex[i] <= Len(log[i]) /\ Len(log[i]) \in Nat
      /\ \A k \in 1..commitIndex[i] : Committed(i)[k] = log[i][k]
  BY <1>1, CommittedFacts
<1>4. (/\ Len(Committed(i)) = commitIndex[i] /\ commitIndex[i] \in Nat
       /\ commitIndex[i] <= Len(log[i]) /\ Len(log[i]) \in Nat
       /\ \A k \in 1..commitIndex[i] : Committed(i)[k] = log[i][k])'
  BY <1>1, CommittedFacts, PTL
<1>5. \A k \in 1..commitIndex[i] : Committed(i)[k] = Committed(i)'[k]
  BY <1>2, <1>3, <1>4, SMTT(30) DEF NothingLost, IsPrefixOf
<1> QED
  BY <1>2, <1>3, <1>4, <1>5 DEF NothingLost, IsPrefixOf

(* Nor does it take back any other entry.                                  *)
LEMMA SafeLogs == SafetyInv /\ SafetyInv' /\ [Next]_vars => LogStep
  BY StepsLoseNothing DEF SafetyInv, NothingLost, LogStep

-----------------------------------------------------------------------------
(* A Raft cluster of up to three nodes implements CommittedLog.            *)

(* Some node has the highest commit index.                                 *)
LEMMA FurthestExists ==
  ASSUME Counting, TypeOK, Server # {}
  PROVE  Furthest \in Server /\ \A j \in Server : commitIndex[j] <= commitIndex[Furthest]
<1> DEFINE S == {MaxLog - commitIndex[i] : i \in Server}
<1>1. \A i \in Server : commitIndex[i] \in 0..MaxLog
  BY DEF TypeOK, Index
<1>2. MaxLog \in Nat
  BY BoundAssumption, SMTT(30)
<1>3. S \in SUBSET Nat /\ S # {}
  BY <1>1, <1>2, SMTT(30)
<1>4. PICK n \in S : \A l \in S : n <= l
  BY <1>3, MinExists
<1>5. PICK i \in Server : n = MaxLog - commitIndex[i]
  BY <1>4
<1>6. \A j \in Server : commitIndex[j] <= commitIndex[i]
  <2> SUFFICES ASSUME NEW j \in Server PROVE commitIndex[j] <= commitIndex[i]
    OBVIOUS
  <2>1. MaxLog - commitIndex[i] <= MaxLog - commitIndex[j]
    BY <1>4, <1>5
  <2> QED
    BY <2>1, <1>1, <1>2, SMTT(30)
<1> QED
  BY <1>6 DEF Furthest

(* Every entry that some node regards as committed is in the abstract log. *)
LEMMA AbstractLog ==
  ASSUME Counting, TypeOK, LogInv, Server # {}
  PROVE  LET c == Committed(Furthest)
         IN /\ Len(c) \in Nat /\ Len(c) = commitIndex[Furthest]
            /\ \A i \in Server : commitIndex[i] <= Len(c)
            /\ \A i \in Server : \A k \in 1..Len(c) : k <= Len(log[i]) => c[k] = log[i][k]
<1> DEFINE F == Furthest
           c == Committed(F)
<1>1. F \in Server /\ \A j \in Server : commitIndex[j] <= commitIndex[F]
  BY FurthestExists
<1> HIDE DEF F
<1>2. /\ Len(c) = commitIndex[F] /\ commitIndex[F] \in Nat
      /\ commitIndex[F] <= Len(log[F]) /\ Len(log[F]) \in Nat
      /\ \A k \in 1..commitIndex[F] : c[k] = log[F][k]
  BY <1>1, CommittedFacts
<1>3. ASSUME NEW i \in Server, NEW k \in 1..Len(c), k <= Len(log[i])
      PROVE  c[k] = log[i][k]
  <2>1. k \in 1..Len(log[F]) /\ c[k] = log[F][k]
    BY <1>2, SMTT(30)
  <2> QED
    BY <2>1, <1>1, <1>3 DEF LogInv, LogsNeverDiverge, Agree
<1> QED
  BY <1>1, <1>2, <1>3 DEF F

(* The initial states are initial states of CommittedLog.                  *)
LEMMA InitRefines ==
  ASSUME Counting, Init, TypeOK, LogInv, Server # {}
  PROVE  Abstract!Init
<1>1. Furthest \in Server
  BY FurthestExists
<1>2. commitIndex[Furthest] = 0 /\ log[Furthest] = <<>>
  BY <1>1 DEF Init, NewNode
<1>3. Committed(Furthest) = <<>>
  BY <1>2, SMTT(30) DEF Committed
<1> QED
  BY <1>3 DEF Abstract!Init, Init, NewNode

(* Every step is a Commit, an Apply or a stutter of CommittedLog.          *)
LEMMA StepRefines ==
  ASSUME Counting, TypeOK, LogInv, TypeOK', LogInv', [Next]_vars, Server # {}
  PROVE  [Abstract!Next]_(Abstract!vars)
<1> DEFINE c == Committed(Furthest)
           d == Committed(Furthest)'
<1>1. /\ Len(c) \in Nat /\ Len(c) = commitIndex[Furthest]
      /\ \A i \in Server : commitIndex[i] <= Len(c)
      /\ \A i \in Server : \A k \in 1..Len(c) : k <= Len(log[i]) => c[k] = log[i][k]
  BY AbstractLog
<1>2. /\ Len(d) \in Nat
      /\ \A i \in Server : commitIndex'[i] <= Len(d)
      /\ \A i \in Server : \A k \in 1..Len(d) : k <= Len(log'[i]) => d[k] = log'[i][k]
  <2>1. (LET c0 == Committed(Furthest)
         IN /\ Len(c0) \in Nat /\ Len(c0) = commitIndex[Furthest]
            /\ \A i \in Server : commitIndex[i] <= Len(c0)
            /\ \A i \in Server : \A k \in 1..Len(c0) : k <= Len(log[i]) => c0[k] = log[i][k])'
    BY AbstractLog, PTL
  <2> QED
    BY <2>1
<1>3. \A i \in Server : /\ commitIndex[i] \in Nat /\ commitIndex'[i] \in Nat
                        /\ Len(log[i]) \in Nat /\ commitIndex[i] <= Len(log[i])
  <2>1. \A i \in Server : commitIndex[i] \in Nat /\ commitIndex'[i] \in Nat
    BY SMTT(30) DEF TypeOK, Index
  <2> QED
    BY <2>1, LogFacts DEF LogInv, AppliedFromLog
<1>4. CASE UNCHANGED applied
  <2> DEFINE F == Furthest
  <2>1. F \in Server
    BY FurthestExists
  <2>2. NothingLost(F)
    BY <2>1, StepsLoseNothing
  <2>3. Len(log[F]) <= Len(log'[F]) /\ \A k \in 1..Len(log[F]) : log'[F][k] = log[F][k]
    BY <2>2 DEF NothingLost, IsPrefixOf
  <2>4. commitIndex'[F] >= commitIndex[F]
    BY <2>2 DEF NothingLost
  <2>c. Len(c) = commitIndex[F]
    BY <1>1
  <2>l. Len(log'[F]) \in Nat
    BY <2>1, SMTT(30) DEF TypeOK, Log
  <2> HIDE DEF F, c, d
  <2>5. Len(d) >= Len(c)
    BY <1>1, <1>2, <1>3, <2>1, <2>4, <2>c, SMTT(30)
  <2>6. ASSUME NEW k \in 1..Len(c) PROVE d[k] = c[k]
    <3>1. k \in 1..Len(log[F]) /\ k <= Len(log'[F]) /\ k \in 1..Len(d)
      BY <1>1, <1>2, <1>3, <2>1, <2>3, <2>5, <2>c, <2>l, SMTT(30)
    <3>2. c[k] = log[F][k] /\ log[F][k] = log'[F][k] /\ d[k] = log'[F][k]
      BY <3>1, <1>1, <1>2, <2>1, <2>3, SMTT(30)
    <3> QED
      BY <3>2
  <2>7. Abstract!Extends(d, c)
    BY <2>5, <2>6 DEF Abstract!Extends
  <2> QED
    BY <1>4, <2>7 DEF Abstract!Next, Abstract!Commit, c, d
<1>5. ASSUME NEW i \in Server, applyCommittedEntries(i) PROVE Abstract!Next
  <2>1. /\ Len(applied[i]) < commitIndex[i]
        /\ applied' = [applied EXCEPT ![i] = Append(applied[i], log[i][Len(applied[i]) + 1])]
        /\ UNCHANGED <<log, commitIndex>>
    BY <1>5 DEF applyCommittedEntries
  <2>2. d = c
    BY <2>1 DEF Committed, Furthest
  <2>3. Len(applied[i]) \in Nat
    BY SMTT(30) DEF LogInv
  <2> HIDE DEF c, d
  <2>4. Len(applied[i]) < Len(c) /\ c[Len(applied[i]) + 1] = log[i][Len(applied[i]) + 1]
    <3>1. Len(applied[i]) + 1 \in 1..Len(c) /\ Len(applied[i]) + 1 <= Len(log[i])
      BY <2>1, <2>3, <1>1, <1>3, SMTT(30)
    <3> QED
      BY <3>1, <2>3, <1>1, SMTT(30)
  <2>5. Abstract!Apply(i)
    BY <2>1, <2>2, <2>4 DEF Abstract!Apply, c, d
  <2> QED
    BY <2>5 DEF Abstract!Next
<1>6. UNCHANGED applied \/ \E i \in Server : applyCommittedEntries(i)
  <2>1. ASSUME NEW i \in Server,
               runFollower(i) \/ run(i) \/ runCandidate(i) \/ ElectionExpires(i)
        PROVE  UNCHANGED applied
    BY <2>1 DEF logVars, runFollower, run, runCandidate, ElectionExpires
  <2>2. ASSUME NEW i \in Server, NEW r \in voteReplies, CountVote(i, r) PROVE UNCHANGED applied
    BY <2>2 DEF logVars, CountVote
  <2>3. ASSUME NEW i \in Server, NEW cmd \in Command, Submit(i, cmd) PROVE UNCHANGED applied
    BY <2>3 DEF Submit
  <2>4. ASSUME NEW i \in Server, NEW j \in Server,
               \/ replicateToFollower(i, j) \/ ReplicationReply(i, j) \/ ReplicationTimeout(i, j)
        PROVE  UNCHANGED applied
    BY <2>4 DEF logVars, replicateToFollower, ReplicationReply, ReplicationTimeout
  <2>5. ASSUME NEW m \in voteRequests, HandleRequestVote(m) PROVE UNCHANGED applied
    BY <2>5 DEF logVars, HandleRequestVote
  <2>6. ASSUME NEW m \in appendRequests, HandleAppendEntries(m) PROVE UNCHANGED applied
    BY <2>6 DEF HandleAppendEntries
  <2>7. CASE UNCHANGED vars
    BY <2>7 DEF vars, logVars
  <2> QED
    BY <2>1, <2>2, <2>3, <2>4, <2>5, <2>6, <2>7 DEF Next
<1> QED
  BY <1>4, <1>5, <1>6

-----------------------------------------------------------------------------
(* What leaders believe, and what the server relies on.                    *)

(* The steps that add to a log.                                            *)
LEMMA LogSteps ==
  ASSUME [Next]_vars
  PROVE  \/ UNCHANGED log
         \/ \E i \in Server : \E cmd \in Command : Submit(i, cmd)
         \/ \E m \in appendRequests : HandleAppendEntries(m)
<1>1. ASSUME NEW i \in Server,
             \/ runFollower(i) \/ run(i) \/ runCandidate(i) \/ ElectionExpires(i)
             \/ applyCommittedEntries(i)
      PROVE  UNCHANGED log
  BY <1>1 DEF runFollower, run, runCandidate, ElectionExpires, applyCommittedEntries, logVars
<1>2. ASSUME NEW i \in Server, NEW r \in voteReplies, CountVote(i, r) PROVE UNCHANGED log
  BY <1>2 DEF CountVote, logVars
<1>3. ASSUME NEW i \in Server, NEW j \in Server,
             replicateToFollower(i, j) \/ ReplicationReply(i, j) \/ ReplicationTimeout(i, j)
      PROVE  UNCHANGED log
  BY <1>3 DEF replicateToFollower, ReplicationReply, ReplicationTimeout, logVars
<1>4. ASSUME NEW m \in voteRequests, HandleRequestVote(m) PROVE UNCHANGED log
  BY <1>4 DEF HandleRequestVote, logVars
<1>5. CASE UNCHANGED vars
  BY <1>5 DEF vars, logVars
<1> QED
  BY <1>1, <1>2, <1>3, <1>4, <1>5 DEF Next

(* What Submit adds, and what accepting a request adds.                    *)
LEMMA SubmitAdds ==
  ASSUME TypeOK, NEW i \in Server, NEW cmd \in Command, Submit(i, cmd)
  PROVE  LET e == [term |-> currentTerm[i], index |-> Len(log[i]) + 1, cmd |-> cmd]
         IN /\ log' = [log EXCEPT ![i] = Append(log[i], e)]
            /\ Len(log'[i]) = Len(log[i]) + 1 /\ Len(log[i]) \in Nat
            /\ \A k \in 1..Len(log[i]) : log'[i][k] = log[i][k]
            /\ log'[i][Len(log[i]) + 1] = e
            /\ matchIndex' = [matchIndex EXCEPT ![i][i] = Len(log[i]) + 1]
<1> DEFINE e == [term |-> currentTerm[i], index |-> Len(log[i]) + 1, cmd |-> cmd]
<1>1. /\ log' = [log EXCEPT ![i] = Append(log[i], e)] /\ Len(log[i]) < MaxLog
      /\ matchIndex' = [matchIndex EXCEPT ![i][i] = Len(log[i]) + 1]
  BY DEF Submit
<1>2. log[i] \in Seq(Entry) /\ Len(log[i]) \in Nat /\ log \in [Server -> Log]
  BY LogFacts DEF TypeOK
<1>3. e \in Entry
  <2>1. Len(log[i]) + 1 \in Index
    BY <1>1, <1>2, BoundAssumption, SMTT(30) DEF Index
  <2> QED
    BY <2>1 DEF Entry, TypeOK
<1> HIDE DEF e
<1>4. log'[i] = Append(log[i], e)
  BY <1>1, <1>2
<1>5. /\ Len(log'[i]) = Len(log[i]) + 1 /\ log'[i][Len(log[i]) + 1] = e
      /\ \A k \in 1..Len(log[i]) : log'[i][k] = log[i][k]
  BY <1>2, <1>3, <1>4, SMTT(30)
<1> QED
  BY <1>1, <1>2, <1>5 DEF e

(* HandleAppendEntries keeps the log and adds entries of the request.      *)
LEMMA HandlerAdds ==
  ASSUME TypeOK, LogInv, NEW m \in appendRequests, HandleAppendEntries(m)
  PROVE  \/ UNCHANGED <<log, commitIndex>>
         \/ LET new == AppendNew(log[m.to], m.args.prevLogIndex, m.args.entries)
            IN /\ m.args.prevLogIndex <= Len(log[m.to])
               /\ log' = [log EXCEPT ![m.to] = new]
               /\ \/ UNCHANGED commitIndex
                  \/ commitIndex' = [commitIndex EXCEPT ![m.to] = m.args.leaderCommit]
<1> DEFINE i == m.to
           prev == m.args.prevLogIndex
           new == AppendNew(log[i], prev, m.args.entries)
<1>1. i \in Server /\ m.args \in AppendEntriesArgs
  BY DEF TypeOK
<1>2. prev \in Nat /\ m.args.leaderCommit \in Nat /\ Len(m.args.entries) \in Nat
  BY <1>1, ArgsFacts, SMTT(30) DEF Index
<1>3. CASE ~UNCHANGED <<log, commitIndex>>
  <2>1. /\ prev <= Len(log[i])
        /\ log' = [log EXCEPT ![i] = new]
        /\ commitIndex' = [commitIndex EXCEPT ![i] =
              IF m.args.leaderCommit > commitIndex[i]
              THEN IF m.args.leaderCommit <= Len(new) THEN m.args.leaderCommit ELSE Len(new)
              ELSE commitIndex[i]]
    BY <1>2, <1>3, SMTT(30) DEF HandleAppendEntries
  <2>2. Len(new) = IF Len(log[i]) > prev + Len(m.args.entries)
                   THEN Len(log[i]) ELSE prev + Len(m.args.entries)
    BY <2>1, AppendOnlyAdds DEF LogInv
  <2>3. m.args.leaderCommit <= prev + Len(m.args.entries) /\ Len(log[i]) \in Nat
    BY <1>1, LogFacts DEF LogInv, RequestFromLog
  <2> HIDE DEF new, prev, i
  <2>4. m.args.leaderCommit <= Len(new)
    BY <1>2, <2>2, <2>3, SMTT(30)
  <2>5. commitIndex \in [Server -> Index]
    BY DEF TypeOK
  <2>6. CASE m.args.leaderCommit > commitIndex[i]
    BY <2>1, <2>4, <2>6 DEF new, prev, i
  <2>7. CASE ~(m.args.leaderCommit > commitIndex[i])
    <3>1. commitIndex' = [commitIndex EXCEPT ![i] = commitIndex[i]]
      BY <2>1, <2>7
    <3>2. UNCHANGED commitIndex
      BY <3>1, <2>5
    <3> QED
      BY <2>1, <3>2 DEF new, prev, i
  <2> QED
    BY <2>6, <2>7
<1> QED
  BY <1>3

(* Every entry knows its place: Submit numbers it, and requests carry it   *)
(* to the same place of another log.                                       *)
LEMMA NextIndexIsPlace ==
  ASSUME TypeOK, LogInv, IndexIsPlace, [Next]_vars
  PROVE  IndexIsPlace'
<1>0. log \in [Server -> Log]
  BY DEF TypeOK
<1>1. CASE UNCHANGED log
  BY <1>1 DEF IndexIsPlace
<1>2. ASSUME NEW i \in Server, NEW cmd \in Command, Submit(i, cmd) PROVE IndexIsPlace'
  <2> SUFFICES ASSUME NEW j \in Server, NEW k \in 1..Len(log'[j]) PROVE log'[j][k].index = k
    BY DEF IndexIsPlace
  <2> DEFINE e == [term |-> currentTerm[i], index |-> Len(log[i]) + 1, cmd |-> cmd]
  <2>1. /\ log' = [log EXCEPT ![i] = Append(log[i], e)]
        /\ Len(log'[i]) = Len(log[i]) + 1 /\ Len(log[i]) \in Nat
        /\ \A n \in 1..Len(log[i]) : log'[i][n] = log[i][n]
        /\ log'[i][Len(log[i]) + 1] = e
    BY <1>2, SubmitAdds
  <2>2. e.index = Len(log[i]) + 1
    OBVIOUS
  <2> HIDE DEF e
  <2>3. CASE j # i
    BY <2>1, <2>3, <1>0 DEF IndexIsPlace
  <2>4. CASE j = i /\ k <= Len(log[i])
    BY <2>1, <2>4, SMTT(30) DEF IndexIsPlace
  <2>5. CASE j = i /\ k > Len(log[i])
    <3>1. k = Len(log[i]) + 1
      BY <2>1, <2>5, SMTT(30)
    <3> QED
      BY <2>1, <2>2, <2>5, <3>1
  <2> QED
    BY <2>1, <2>3, <2>4, <2>5, SMTT(30)
<1>3. ASSUME NEW m \in appendRequests, HandleAppendEntries(m), ~UNCHANGED log
      PROVE  IndexIsPlace'
  <2> DEFINE lg == log[m.to]
             src == log[m.args.leaderId]
             new == AppendNew(lg, m.args.prevLogIndex, m.args.entries)
  <2>0. m.to \in Server /\ m.args.leaderId \in Server
    BY ArgsFacts DEF TypeOK
  <2>1. m.args.prevLogIndex <= Len(lg) /\ log' = [log EXCEPT ![m.to] = new]
    BY <1>3, HandlerAdds
  <2>2. /\ Len(new) \in Nat
        /\ \A k \in 1..Len(lg) : k <= Len(new) /\ new[k] = lg[k]
        /\ \A k \in 1..Len(new) : k > Len(lg) => k <= Len(src) /\ new[k] = src[k]
    BY <2>1, AppendOnlyAdds DEF LogInv
  <2>3. Len(lg) \in Nat /\ Len(src) \in Nat
    BY <2>0, LogFacts
  <2> SUFFICES ASSUME NEW j \in Server, NEW k \in 1..Len(log'[j]) PROVE log'[j][k].index = k
    BY DEF IndexIsPlace
  <2> HIDE DEF new
  <2>4. CASE j # m.to
    BY <2>1, <2>4, <1>0 DEF IndexIsPlace
  <2>5. CASE j = m.to
    <3>1. log'[j] = new
      BY <2>0, <2>1, <2>5, <1>0
    <3>2. CASE k <= Len(lg)
      <4>1. k \in 1..Len(lg) /\ new[k] = lg[k]
        BY <2>2, <2>3, <3>1, <3>2, SMTT(30)
      <4> QED
        BY <4>1, <3>1, <2>0 DEF IndexIsPlace
    <3>3. CASE k > Len(lg)
      <4>1. k \in 1..Len(src) /\ new[k] = src[k]
        BY <2>2, <2>3, <3>1, <3>3, SMTT(30)
      <4> QED
        BY <4>1, <3>1, <2>0 DEF IndexIsPlace
    <3> QED
      BY <3>1, <3>2, <3>3, <2>2, <2>3, SMTT(30)
  <2> QED
    BY <2>4, <2>5
<1> QED
  BY <1>1, <1>2, <1>3, LogSteps

(* No log becomes shorter.                                                 *)
LEMMA LogsGrow ==
  ASSUME TypeOK, TypeOK', LogInv, [Next]_vars, NEW j \in Server
  PROVE  /\ Len(log[j]) \in Nat /\ Len(log'[j]) \in Nat
         /\ Len(log[j]) <= Len(log'[j])
<1>1. NothingLost(j)
  BY StepsLoseNothing
<1>2. log[j] \in Log /\ log'[j] \in Log
  BY DEF TypeOK
<1> QED
  BY <1>1, <1>2, SMTT(30) DEF NothingLost, IsPrefixOf, Log

-----------------------------------------------------------------------------
(* What is known of the followers' logs stays true: a reply is made when   *)
(* the follower has stored the entries, and no log shrinks afterwards.     *)
LEMMA NextMatchIsStored ==
  ASSUME TypeOK, TypeOK', LogInv, MatchIsStored, [Next]_vars
  PROVE  MatchIsStored'
<1> DEFINE Accepted(i, j) == call[i][j].status = "replied" /\ call[i][j].reply.success
<1>t. /\ matchIndex \in [Server -> [Server -> Index]]
      /\ call \in [Server -> [Server -> Call]]
  BY DEF TypeOK
<1>g. \A j \in Server : /\ Len(log[j]) \in Nat /\ Len(log'[j]) \in Nat
                        /\ Len(log[j]) <= Len(log'[j])
  BY LogsGrow
<1>n. \A i, j \in Server : /\ matchIndex[i][j] \in Nat
                           /\ Accepted(i, j) => MatchedBy(call[i][j].args) \in Nat
  <2>1. ASSUME NEW i \in Server, NEW j \in Server, Accepted(i, j)
        PROVE  MatchedBy(call[i][j].args) \in Nat
    <3>1. call[i][j].args \in AppendEntriesArgs
      BY <2>1, CallFacts
    <3> QED
      BY <3>1, ArgsFacts, SMTT(30) DEF MatchedBy, Index
  <2> QED
    BY <2>1, <1>t, SMTT(30) DEF Index
<1>1. SUFFICES ASSUME NEW i \in Server, NEW j \in Server
               PROVE  /\ matchIndex'[i][j] <= Len(log'[j])
                      /\ Accepted(i, j)' => MatchedBy(call'[i][j].args) <= Len(log'[j])
  BY DEF MatchIsStored
<1>2. CASE matchIndex'[i][j] = matchIndex[i][j] /\ (Accepted(i, j)' => call'[i][j] = call[i][j])
  BY <1>2, <1>g, <1>n, SMTT(30) DEF MatchIsStored
<1>3. CASE UNCHANGED <<matchIndex, call>>
  BY <1>2, <1>3
<1>4. ASSUME NEW l \in Server, NEW r \in voteReplies, CountVote(l, r), ~UNCHANGED matchIndex
      PROVE  matchIndex'[i][j] <= Len(log'[j]) /\ UNCHANGED call
  <2>1. /\ UNCHANGED call /\ UNCHANGED log
        /\ matchIndex' = [matchIndex EXCEPT ![l] =
                            [p \in Server |-> IF p = l THEN Len(log[l]) ELSE 0]]
    BY <1>4 DEF CountVote, becomeLeaderLocked, leaderVars, logVars, appendVars
  <2>2. CASE i # l
    BY <2>1, <2>2, <1>t, <1>g, <1>n DEF MatchIsStored
  <2>3. CASE i = l
    <3>1. matchIndex'[i][j] = IF j = l THEN Len(log[l]) ELSE 0
      BY <2>1, <2>3, <1>t
    <3> QED
      BY <3>1, <2>1, <1>g, SMTT(30)
  <2> QED
    BY <2>1, <2>2, <2>3
<1>5. ASSUME NEW l \in Server, NEW cmd \in Command, Submit(l, cmd)
      PROVE  matchIndex'[i][j] <= Len(log'[j]) /\ UNCHANGED call
  <2>1. UNCHANGED call
    BY <1>5 DEF Submit, appendVars
  <2>2. /\ matchIndex' = [matchIndex EXCEPT ![l][l] = Len(log[l]) + 1]
        /\ Len(log'[l]) = Len(log[l]) + 1
    BY <1>5, SubmitAdds
  <2>3. CASE i = l /\ j = l
    BY <2>1, <2>2, <2>3, <1>t, <1>g, SMTT(30)
  <2>4. CASE ~(i = l /\ j = l)
    <3>1. matchIndex'[i][j] = matchIndex[i][j]
      BY <2>2, <2>4, <1>t
    <3> QED
      BY <2>1, <3>1, <1>g, <1>n, SMTT(30) DEF MatchIsStored
  <2> QED
    BY <2>1, <2>3, <2>4
<1>6. ASSUME NEW l \in Server, NEW p \in Server, ReplicationReply(l, p)
      PROVE  /\ matchIndex'[i][j] <= Len(log'[j])
             /\ Accepted(i, j)' => call'[i][j] = call[i][j]
  <2>1. call[l][p].status = "replied" /\ call' = [call EXCEPT ![l][p] = NoCall]
    BY <1>6 DEF ReplicationReply
  <2>2. Accepted(i, j)' => call'[i][j] = call[i][j]
    BY <2>1, <1>t DEF NoCall
  <2>3. CASE UNCHANGED matchIndex
    <3>1. matchIndex[i][j] <= Len(log[j]) /\ matchIndex[i][j] \in Nat
      BY <1>n DEF MatchIsStored
    <3> HIDE DEF Accepted
    <3> QED
      BY <2>2, <2>3, <3>1, <1>g, SMTT(30)
  <2>4. CASE ~UNCHANGED matchIndex
    <3>1. /\ call[l][p].reply.success
          /\ matchIndex' = [matchIndex EXCEPT ![l][p] = MatchedBy(call[l][p].args)]
      BY <1>6, <2>4 DEF ReplicationReply, leaderVars
    <3>2. MatchedBy(call[l][p].args) <= Len(log[p]) /\ MatchedBy(call[l][p].args) \in Nat
      BY <2>1, <3>1, <1>n DEF MatchIsStored
    <3>3. matchIndex[i][j] <= Len(log[j]) /\ matchIndex[i][j] \in Nat
      BY <1>n DEF MatchIsStored
    <3> HIDE DEF Accepted
    <3>4. matchIndex'[i][j] <= Len(log'[j])
      <4>1. CASE i = l /\ j = p
        BY <3>1, <3>2, <4>1, <1>t, <1>g, SMTT(30)
      <4>2. CASE ~(i = l /\ j = p)
        BY <3>1, <3>3, <4>2, <1>t, <1>g, SMTT(30)
      <4> QED
        BY <4>1, <4>2
    <3> QED
      BY <2>2, <3>4
  <2> QED
    BY <2>2, <2>3, <2>4
<1>7. ASSUME NEW m \in appendRequests, HandleAppendEntries(m), ~UNCHANGED call, Accepted(i, j)'
      PROVE  call'[i][j] = call[i][j] \/ MatchedBy(call'[i][j].args) <= Len(log'[j])
  <2> DEFINE l == m.args.leaderId
             p == m.to
             c == call[l][p]
             prev == m.args.prevLogIndex
             new == AppendNew(log[p], prev, m.args.entries)
             ok == /\ ~(currentTerm[p] > m.args.term)
                   /\ \/ prev < 0
                      \/ prev <= Len(log[p]) /\ TermAt(log[p], prev) = m.args.prevLogTerm
             reply == AppendEntriesReplyToProto([term |-> currentTerm[p], success |-> ok])
  <2>a. p \in Server /\ m.args \in AppendEntriesArgs
    BY DEF TypeOK
  <2>0. /\ p \in Server /\ m.args \in AppendEntriesArgs /\ l \in Server
        /\ prev \in Nat /\ Len(m.args.entries) \in Nat
    BY <2>a, ArgsFacts, SMTT(30) DEF Index
  <2>1. /\ c.status = "sent" /\ AppendEntriesArgsToProto(c.args) = m.args
        /\ call' = [call EXCEPT ![l][p] = Replied(c.args, reply)]
    BY <1>7 DEF HandleAppendEntries
  <2>2. c.args = m.args
    <3>1. c.args \in AppendEntriesArgs
      BY <2>0, <2>1, CallFacts
    <3> QED
      BY <3>1, <2>1, AppendProtoId
  <2>3. reply.success = ok
    BY DEF AppendEntriesReplyToProto
  <2>4. ok => log' = [log EXCEPT ![p] = new]
    BY <1>7 DEF HandleAppendEntries
  <2>5. ok => prev <= Len(log[p])
    BY <2>0, SMTT(30)
  <2>6. prev <= Len(log[p]) =>
          /\ Len(new) = IF Len(log[p]) > prev + Len(m.args.entries)
                        THEN Len(log[p]) ELSE prev + Len(m.args.entries)
    BY AppendOnlyAdds DEF LogInv
  <2>7. CASE i = l /\ j = p
    <3> HIDE DEF reply, ok, new
    <3>1. call'[i][j] = Replied(c.args, reply)
      BY <2>0, <2>1, <2>7, <1>t
    <3>2. call'[i][j].args = m.args /\ ok
      BY <3>1, <2>2, <2>3, <1>7, SMTT(30) DEF Replied
    <3>3. log'[p] = new
      BY <2>0, <2>4, <3>2 DEF TypeOK
    <3> HIDE DEF p, prev, l, c
    <3>4. prev + Len(m.args.entries) <= Len(new)
      BY <2>0, <2>5, <2>6, <3>2, <1>g, SMTT(30)
    <3> QED
      BY <3>2, <3>3, <3>4, <2>7 DEF MatchedBy, prev
  <2>8. CASE ~(i = l /\ j = p)
    <3> HIDE DEF p, l, c, reply
    <3> QED
      BY <2>0, <2>1, <2>8, <1>t
  <2> QED
    BY <2>7, <2>8
<1>8. ASSUME NEW m \in appendRequests, HandleAppendEntries(m)
      PROVE  UNCHANGED matchIndex
  BY <1>8 DEF HandleAppendEntries, leaderVars
<1>9. ASSUME NEW l \in Server, NEW p \in Server,
             replicateToFollower(l, p) \/ ReplicationTimeout(l, p)
      PROVE  /\ UNCHANGED matchIndex
             /\ Accepted(i, j)' => call'[i][j] = call[i][j]
  <2>1. UNCHANGED matchIndex
    BY <1>9 DEF replicateToFollower, ReplicationTimeout, leaderVars
  <2>2. \E d : call' = [call EXCEPT ![l][p] = d] /\ d.status # "replied"
    <3>1. CASE replicateToFollower(l, p)
      <4>1. PICK a \in AppendEntriesArgs : call' = [call EXCEPT ![l][p] = Calling(a)]
        BY <3>1, SentArgs, SMTT(30)
      <4>2. Calling(a).status # "replied"
        BY DEF Calling
      <4> QED
        BY <4>1, <4>2
    <3>2. CASE ReplicationTimeout(l, p)
      <4>1. call' = [call EXCEPT ![l][p] = NoCall] /\ NoCall.status # "replied"
        BY <3>2 DEF ReplicationTimeout, NoCall
      <4> QED
        BY <4>1
    <3> QED
      BY <1>9, <3>1, <3>2
  <2> QED
    BY <2>1, <2>2, <1>t, SMTT(30)
<1>10. ASSUME NEW l \in Server,
              \/ runFollower(l) \/ run(l) \/ runCandidate(l) \/ ElectionExpires(l)
              \/ applyCommittedEntries(l)
       PROVE  UNCHANGED <<matchIndex, call>>
  BY <1>10 DEF runFollower, run, runCandidate, ElectionExpires, applyCommittedEntries,
               leaderVars, appendVars
<1>11. ASSUME NEW l \in Server, NEW r \in voteReplies, CountVote(l, r)
       PROVE  UNCHANGED call
  BY <1>11 DEF CountVote, appendVars
<1>12. ASSUME NEW m \in voteRequests, HandleRequestVote(m) PROVE UNCHANGED <<matchIndex, call>>
  BY <1>12 DEF HandleRequestVote, leaderVars, appendVars
<1>13. CASE UNCHANGED vars
  BY <1>3, <1>13 DEF vars, leaderVars, appendVars
<1>m. UNCHANGED matchIndex => matchIndex'[i][j] <= Len(log'[j])
  BY <1>g, <1>n, SMTT(30) DEF MatchIsStored
<1>c. (Accepted(i, j)' => call'[i][j] = call[i][j])
         => (Accepted(i, j)' => MatchedBy(call'[i][j].args) <= Len(log'[j]))
  BY <1>g, <1>n, SMTT(30) DEF MatchIsStored
<1>u. UNCHANGED call => (Accepted(i, j)' => call'[i][j] = call[i][j])
  OBVIOUS
<1> HIDE DEF Accepted
<1> QED
  BY <1>3, <1>4, <1>5, <1>6, <1>7, <1>8, <1>9, <1>10, <1>11, <1>12, <1>13, <1>m, <1>c, <1>u DEF Next

-----------------------------------------------------------------------------
(* More nodes are at least as many.                                        *)
LEMMA MoreIsMajority ==
  ASSUME Counting, NEW S \in SUBSET Server, NEW T \in SUBSET Server, S \subseteq T,
         Cardinality(S) > Cardinality(Server) \div 2
  PROVE  Cardinality(T) > Cardinality(Server) \div 2
<1>1. /\ Cardinality(S) \in Nat /\ Cardinality(T) \in Nat /\ Cardinality(Server) \in Nat
      /\ S = T \/ Cardinality(S) < Cardinality(T)
  BY DEF Counting
<1> QED
  BY <1>1, SMTT(30)

(* What a majority stores, a majority goes on storing.                     *)
LEMMA StoredStays ==
  ASSUME Counting, TypeOK, TypeOK', LogInv, [Next]_vars, NEW n \in Nat, StoredByMajority(n)
  PROVE  StoredByMajority(n)'
<1> DEFINE S == {j \in Server : Len(log[j]) >= n}
           T == {j \in Server : Len(log'[j]) >= n}
<1>1. S \subseteq T
  BY LogsGrow, SMTT(30)
<1>2. Cardinality(T) > Cardinality(Server) \div 2
  BY <1>1, MoreIsMajority DEF StoredByMajority
<1> QED
  BY <1>2 DEF StoredByMajority

(* What is called committed is stored by a majority: a leader commits by   *)
(* the matchIndex of a majority, and others take over what it says.        *)
LEMMA NextCommitIsStored ==
  ASSUME Counting, TypeOK, TypeOK', LogInv, MatchIsStored, CommitIsStored, [Next]_vars
  PROVE  CommitIsStored'
<1>t. /\ commitIndex \in [Server -> Nat]
      /\ \A m \in appendRequests : m.to \in Server /\ m.args.leaderCommit \in Nat
  <2>1. \A m \in appendRequests : m.to \in Server /\ m.args \in AppendEntriesArgs
    BY DEF TypeOK
  <2>2. \A m \in appendRequests : m.args.leaderCommit \in Index
    BY <2>1, ArgsFacts
  <2>3. commitIndex \in [Server -> Index]
    BY DEF TypeOK
  <2>4. Index \subseteq Nat
    BY SMTT(30) DEF Index
  <2> HIDE DEF Index
  <2>5. commitIndex \in [Server -> Nat]
    BY <2>3, <2>4
  <2> QED
    BY <2>1, <2>2, <2>4, <2>5
<1>s. \A n \in Nat : StoredByMajority(n) => StoredByMajority(n)'
  BY StoredStays
<1> DEFINE Kept(n) == Cardinality({j \in Server : Len(log'[j]) >= n}) > Cardinality(Server) \div 2
<1>k. /\ \A i \in Server : Kept(commitIndex[i])
      /\ \A m \in appendRequests : Kept(m.args.leaderCommit)
  BY <1>t, <1>s DEF CommitIsStored, StoredByMajority
<1>1. SUFFICES /\ \A i \in Server : Kept(commitIndex'[i])
               /\ \A m \in appendRequests' : Kept(m.args.leaderCommit)
  BY DEF CommitIsStored, StoredByMajority
<1> HIDE DEF Kept
<1>2. CASE UNCHANGED <<commitIndex, appendRequests>>
  BY <1>2, <1>k
<1>3. ASSUME NEW m \in appendRequests, HandleAppendEntries(m)
      PROVE  \A i \in Server : Kept(commitIndex'[i])
  <2>1. \/ UNCHANGED commitIndex
        \/ commitIndex' = [commitIndex EXCEPT ![m.to] = m.args.leaderCommit]
    BY <1>3, HandlerAdds
  <2> QED
    BY <2>1, <1>t, <1>k
<1>4. ASSUME NEW l \in Server, NEW p \in Server, replicateToFollower(l, p)
      PROVE  \A m \in appendRequests' : Kept(m.args.leaderCommit)
  <2>1. PICK a \in AppendEntriesArgs :
            /\ a.leaderCommit = commitIndex[l]
            /\ appendRequests' = appendRequests \cup {[to |-> p, args |-> a]}
    BY <1>4, SentArgs
  <2> QED
    BY <2>1, <1>k, SMTT(30)
<1>5. ASSUME NEW l \in Server, NEW p \in Server, ReplicationReply(l, p), ~UNCHANGED commitIndex
      PROVE  \A i \in Server : Kept(commitIndex'[i])
  <2> DEFINE match == [matchIndex[l] EXCEPT ![p] = MatchedBy(call[l][p].args)]
  <2>1. /\ UNCHANGED log
        /\ call[l][p].status = "replied" /\ call[l][p].reply.success
        /\ tryAdvanceCommitIndexLocked(l, match)
    BY <1>5 DEF ReplicationReply
  <2>2. PICK n \in Committable(l, match) : commitIndex' = [commitIndex EXCEPT ![l] = n]
    BY <1>5, <2>1 DEF tryAdvanceCommitIndexLocked
  <2>3. /\ n \in (commitIndex[l] + 1)..Len(log[l])
        /\ Cardinality({q \in Server : q = l \/ match[q] >= n}) > Cardinality(Server) \div 2
    BY DEF Committable
  <2>4. ASSUME NEW q \in Server, q = l \/ match[q] >= n PROVE Len(log'[q]) >= n
    <3>1. Len(log[q]) \in Nat /\ Len(log[l]) \in Nat /\ n \in Nat /\ n <= Len(log[l])
      BY <2>3, <1>t, LogFacts, SMTT(30)
    <3>2. match[q] \in Nat /\ match[q] <= Len(log[q])
      <4>1. matchIndex[l] \in [Server -> Index] /\ matchIndex[l][q] <= Len(log[q])
        BY DEF TypeOK, MatchIsStored
      <4>2. MatchedBy(call[l][p].args) <= Len(log[p]) /\ MatchedBy(call[l][p].args) \in Nat
        <5>1. call[l][p].args \in AppendEntriesArgs
          BY <2>1, CallFacts
        <5> QED
          BY <2>1, <5>1, ArgsFacts, SMTT(30) DEF MatchIsStored, MatchedBy, Index
      <4>3. match[q] = IF q = p THEN MatchedBy(call[l][p].args) ELSE matchIndex[l][q]
        BY <4>1
      <4> QED
        BY <4>1, <4>2, <4>3, SMTT(30) DEF Index
    <3> HIDE DEF match
    <3> QED
      BY <2>1, <2>4, <3>1, <3>2, SMTT(30)
  <2> HIDE DEF match
  <2>5. Kept(n)
    <3> DEFINE S == {q \in Server : q = l \/ match[q] >= n}
               T == {q \in Server : Len(log'[q]) >= n}
    <3>1. S \subseteq T
      BY <2>4
    <3> QED
      BY <2>3, <3>1, MoreIsMajority DEF Kept
  <2> QED
    BY <2>2, <2>5, <1>k, <1>t
<1>6. ASSUME NEW l \in Server,
             \/ runFollower(l) \/ run(l) \/ runCandidate(l) \/ ElectionExpires(l)
             \/ applyCommittedEntries(l)
      PROVE  UNCHANGED <<commitIndex, appendRequests>>
  BY <1>6 DEF runFollower, run, runCandidate, ElectionExpires, applyCommittedEntries,
              logVars, appendVars
<1>7. ASSUME NEW l \in Server, NEW r \in voteReplies, CountVote(l, r)
      PROVE  UNCHANGED <<commitIndex, appendRequests>>
  BY <1>7 DEF CountVote, logVars, appendVars
<1>8. ASSUME NEW l \in Server, NEW cmd \in Command, Submit(l, cmd)
      PROVE  UNCHANGED <<commitIndex, appendRequests>>
  BY <1>8 DEF Submit, appendVars
<1>9. ASSUME NEW m \in voteRequests, HandleRequestVote(m)
      PROVE  UNCHANGED <<commitIndex, appendRequests>>
  BY <1>9 DEF HandleRequestVote, logVars, appendVars
<1>10. ASSUME NEW l \in Server, NEW p \in Server
       PROVE  /\ replicateToFollower(l, p) => UNCHANGED commitIndex
              /\ ReplicationReply(l, p) => UNCHANGED appendRequests
              /\ ReplicationTimeout(l, p) => UNCHANGED <<commitIndex, appendRequests>>
  BY DEF replicateToFollower, ReplicationReply, ReplicationTimeout, logVars
<1>11. ASSUME NEW m \in appendRequests, HandleAppendEntries(m) PROVE UNCHANGED appendRequests
  BY <1>11 DEF HandleAppendEntries
<1>12. CASE UNCHANGED vars
  BY <1>2, <1>12 DEF vars, logVars, appendVars
<1> QED
  BY <1>2, <1>3, <1>4, <1>5, <1>6, <1>7, <1>8, <1>9, <1>10, <1>11, <1>12, <1>k DEF Next

-----------------------------------------------------------------------------
(* A leader that stops leading has left its term: it never meets a request *)
(* of another leader of the same term, and it is done with its election.   *)
LEMMA LeaderStays ==
  ASSUME TypeOK, TypeOK', ElectionInv, LogInv, [Next]_vars, NEW l \in Server, NEW t \in Nat, Led(l, t)
  PROVE  Led(l, t)'
<1>t. /\ currentTerm \in [Server -> Nat] /\ currentTerm'[l] \in Nat
      /\ state \in [Server -> {"Follower", "Candidate", "Leader"}]
  BY SMTT(30) DEF TypeOK, Term
<1>g. currentTerm'[l] >= currentTerm[l]
  BY StepsLoseNothing DEF NothingLost
<1>1. SUFFICES ASSUME state[l] = "Leader", currentTerm'[l] = currentTerm[l]
               PROVE  state'[l] = "Leader"
  <2> SUFFICES currentTerm'[l] >= t /\ (currentTerm'[l] = t => state'[l] = "Leader")
    BY DEF Led
  <2> QED
    BY <1>1, <1>t, <1>g, SMTT(30) DEF Led
<1>2. pc[l] = "run" /\ electionTerm[l] = currentTerm[l]
  BY <1>1 DEF ElectionInv, LeaderIsSupported
<1>3. ASSUME NEW i \in Server, NEW r \in voteReplies, CountVote(i, r) PROVE state'[l] = "Leader"
  <2>1. i # l
    BY <1>2, <1>3 DEF CountVote
  <2>2. state'[l] = state[l]
    BY <1>3, <1>t, <2>1 DEF CountVote, becomeFollowerLocked, becomeLeaderLocked, nodeVars
  <2> QED
    BY <1>1, <2>2
<1>4. ASSUME NEW i \in Server, NEW j \in Server, ReplicationReply(i, j) PROVE state'[l] = "Leader"
  <2>1. CASE UNCHANGED nodeVars
    BY <1>1, <2>1 DEF nodeVars
  <2>2. CASE /\ call[i][j].reply.term > currentTerm[i]
             /\ becomeFollowerLocked(i, call[i][j].reply.term)
    <3>1. currentTerm' = [currentTerm EXCEPT ![i] = call[i][j].reply.term]
      BY <2>2 DEF becomeFollowerLocked
    <3>2. call[i][j].reply.term \in Nat
      <4>1. call[i][j].reply \in AppendEntriesReply
        BY <1>4, CallFacts DEF ReplicationReply
      <4> QED
        BY <4>1, SMTT(30) DEF AppendEntriesReply, Term
    <3>3. i # l
      BY <1>1, <1>t, <2>2, <3>1, <3>2, SMTT(30)
    <3> QED
      BY <1>1, <1>t, <2>2, <3>3 DEF becomeFollowerLocked
  <2> QED
    BY <1>4, <2>1, <2>2 DEF ReplicationReply
<1>5. ASSUME NEW m \in voteRequests, HandleRequestVote(m) PROVE state'[l] = "Leader"
  <2>1. m.to \in Server /\ m.args.term \in Nat
    BY SMTT(30) DEF TypeOK, RequestVoteArgs, Term
  <2>2. /\ currentTerm' = [currentTerm EXCEPT ![m.to] =
              IF m.args.term > currentTerm[m.to] THEN m.args.term ELSE currentTerm[m.to]]
        /\ state' = [state EXCEPT ![m.to] =
              IF m.args.term > currentTerm[m.to] THEN "Follower" ELSE state[m.to]]
    BY <1>5 DEF HandleRequestVote
  <2>3. m.to = l => ~(m.args.term > currentTerm[m.to])
    BY <1>1, <1>t, <2>1, <2>2, SMTT(30)
  <2> QED
    BY <1>1, <1>t, <2>1, <2>2, <2>3
<1>6. ASSUME NEW m \in appendRequests, HandleAppendEntries(m) PROVE state'[l] = "Leader"
  <2>1. m.to \in Server /\ m.args \in AppendEntriesArgs
    BY DEF TypeOK
  <2>2. CASE UNCHANGED nodeVars
    BY <1>1, <2>2 DEF nodeVars
  <2>3. CASE /\ currentTerm' = [currentTerm EXCEPT ![m.to] = m.args.term]
             /\ state' = [state EXCEPT ![m.to] = "Follower"]
    <3>1. m.to # m.args.leaderId /\ electionTerm[m.to] # m.args.term
      BY <2>1 DEF ElectionInv, RequestIsSupported
    <3>2. m.to # l
      BY <1>1, <1>2, <1>t, <2>1, <2>3, <3>1
    <3> QED
      BY <1>1, <1>t, <2>3, <3>2
  <2> QED
    BY <1>6, <2>2, <2>3 DEF HandleAppendEntries
<1>7. ASSUME NEW i \in Server, runFollower(i) PROVE state'[l] = "Leader"
  BY <1>1, <1>7, <1>t DEF runFollower
<1>8. ASSUME NEW i \in Server,
             run(i) \/ runCandidate(i) \/ ElectionExpires(i) \/ applyCommittedEntries(i)
      PROVE  state'[l] = "Leader"
  BY <1>1, <1>8 DEF run, runCandidate, ElectionExpires, applyCommittedEntries, nodeVars
<1>9. ASSUME NEW i \in Server, NEW cmd \in Command, Submit(i, cmd) PROVE state'[l] = "Leader"
  BY <1>1, <1>9 DEF Submit, nodeVars
<1>10. ASSUME NEW i \in Server, NEW j \in Server, replicateToFollower(i, j) \/ ReplicationTimeout(i, j)
       PROVE  state'[l] = "Leader"
  BY <1>1, <1>10 DEF replicateToFollower, ReplicationTimeout, nodeVars
<1>11. CASE UNCHANGED vars
  BY <1>1, <1>11 DEF vars, nodeVars
<1> QED
  BY <1>3, <1>4, <1>5, <1>6, <1>7, <1>8, <1>9, <1>10, <1>11 DEF Next

(* How a step may change whom a node follows: it forgets it, keeps it in   *)
(* the same term, becomes the leader, or takes it from a request.          *)
LEMMA FollowedBy ==
  ASSUME TypeOK, TypeOK', [Next]_vars, NEW k \in Server
  PROVE  \/ leaderID'[k] = Nil
         \/ leaderID'[k] = leaderID[k] /\ currentTerm'[k] = currentTerm[k]
         \/ leaderID'[k] = k /\ state'[k] = "Leader"
         \/ \E m \in appendRequests :
               leaderID'[k] = m.args.leaderId /\ currentTerm'[k] = m.args.term
<1> DEFINE Goal == \/ leaderID'[k] = Nil
                   \/ leaderID'[k] = leaderID[k] /\ currentTerm'[k] = currentTerm[k]
                   \/ leaderID'[k] = k /\ state'[k] = "Leader"
                   \/ \E m \in appendRequests :
                         leaderID'[k] = m.args.leaderId /\ currentTerm'[k] = m.args.term
<1> SUFFICES Goal
  OBVIOUS
<1>t. /\ currentTerm \in [Server -> Nat] /\ leaderID \in [Server -> Server \cup {Nil}]
      /\ state \in [Server -> {"Follower", "Candidate", "Leader"}]
  BY SMTT(30) DEF TypeOK, Term
<1>1. CASE UNCHANGED <<leaderID, currentTerm>>
  BY <1>1
<1>2. ASSUME NEW i \in Server, NEW t, becomeFollowerLocked(i, t) PROVE Goal
  <2>1. CASE k = i
    BY <2>1, <1>2, <1>t DEF becomeFollowerLocked
  <2>2. CASE k # i
    BY <2>2, <1>2, <1>t DEF becomeFollowerLocked
  <2> QED
    BY <2>1, <2>2
<1>3. ASSUME NEW i \in Server, becomeLeaderLocked(i) PROVE Goal
  <2>1. CASE k = i
    BY <2>1, <1>3, <1>t DEF becomeLeaderLocked
  <2>2. CASE k # i
    BY <2>2, <1>3, <1>t DEF becomeLeaderLocked
  <2> QED
    BY <2>1, <2>2
<1>4. ASSUME NEW i \in Server, NEW r \in voteReplies, CountVote(i, r) PROVE Goal
  <2>1. \/ becomeFollowerLocked(i, r.reply.term) \/ becomeLeaderLocked(i)
        \/ UNCHANGED <<leaderID, currentTerm>>
    BY <1>4 DEF CountVote, nodeVars
  <2> HIDE DEF Goal
  <2> QED
    BY <2>1, <1>1, <1>2, <1>3
<1>5. ASSUME NEW i \in Server, NEW j \in Server, ReplicationReply(i, j) PROVE Goal
  <2>1. \/ becomeFollowerLocked(i, call[i][j].reply.term)
        \/ UNCHANGED <<leaderID, currentTerm>>
    BY <1>5 DEF ReplicationReply, nodeVars
  <2> HIDE DEF Goal
  <2> QED
    BY <2>1, <1>1, <1>2
<1>6. ASSUME NEW m \in voteRequests, HandleRequestVote(m) PROVE Goal
  <2>1. m.to \in Server
    BY DEF TypeOK
  <2>2. /\ currentTerm' = [currentTerm EXCEPT ![m.to] =
              IF m.args.term > currentTerm[m.to] THEN m.args.term ELSE currentTerm[m.to]]
        /\ leaderID' = [leaderID EXCEPT ![m.to] =
              IF m.args.term > currentTerm[m.to] THEN Nil ELSE leaderID[m.to]]
    BY <1>6 DEF HandleRequestVote
  <2> QED
    BY <1>t, <2>1, <2>2
<1>7. ASSUME NEW m \in appendRequests, HandleAppendEntries(m) PROVE Goal
  <2>1. m.to \in Server
    BY DEF TypeOK
  <2>2. CASE UNCHANGED nodeVars
    BY <1>1, <2>2 DEF nodeVars
  <2>3. CASE /\ currentTerm' = [currentTerm EXCEPT ![m.to] = m.args.term]
             /\ leaderID' = [leaderID EXCEPT ![m.to] = m.args.leaderId]
    <3>1. CASE k = m.to
      <4>1. leaderID'[k] = m.args.leaderId /\ currentTerm'[k] = m.args.term
        BY <1>t, <2>1, <2>3, <3>1
      <4> QED
        BY <4>1
    <3>2. CASE k # m.to
      BY <1>t, <2>3, <3>2
    <3> QED
      BY <3>1, <3>2
  <2> HIDE DEF Goal
  <2> QED
    BY <1>7, <2>2, <2>3 DEF HandleAppendEntries
<1>8. ASSUME NEW i \in Server, runCandidate(i) PROVE Goal
  <2>1. CASE k = i
    BY <2>1, <1>8, <1>t DEF runCandidate
  <2>2. CASE k # i
    BY <2>2, <1>8, <1>t DEF runCandidate
  <2> QED
    BY <2>1, <2>2
<1>9. ASSUME NEW i \in Server,
             runFollower(i) \/ run(i) \/ ElectionExpires(i) \/ applyCommittedEntries(i)
      PROVE  Goal
  BY <1>1, <1>9 DEF runFollower, run, ElectionExpires, applyCommittedEntries, nodeVars
<1>10. ASSUME NEW i \in Server, NEW cmd \in Command, Submit(i, cmd) PROVE Goal
  BY <1>1, <1>10 DEF Submit, nodeVars
<1>11. ASSUME NEW i \in Server, NEW j \in Server, replicateToFollower(i, j) \/ ReplicationTimeout(i, j)
       PROVE  Goal
  BY <1>1, <1>11 DEF replicateToFollower, ReplicationTimeout, nodeVars
<1>12. CASE UNCHANGED vars
  BY <1>1, <1>12 DEF vars, nodeVars
<1> HIDE DEF Goal
<1> QED
  BY <1>4, <1>5, <1>6, <1>7, <1>8, <1>9, <1>10, <1>11, <1>12 DEF Next

(* Only a leader sends requests, in its own name and for its own term.     *)
LEMMA RequestsFromLeaders ==
  ASSUME TypeOK, [Next]_vars, NEW m \in appendRequests', m \notin appendRequests
  PROVE  \E i \in Server : /\ m.args.leaderId = i /\ m.args.term = currentTerm[i]
                           /\ state[i] = "Leader" /\ UNCHANGED nodeVars
<1>1. PICK i \in Server, j \in Server : replicateToFollower(i, j)
  BY DEF Next, runFollower, run, runCandidate, CountVote, ElectionExpires, HandleRequestVote,
         HandleAppendEntries, ReplicationReply, ReplicationTimeout, Submit,
         applyCommittedEntries, appendVars, vars
<1>2. PICK a \in AppendEntriesArgs :
         /\ a.term = currentTerm[i] /\ a.leaderId = i
         /\ appendRequests' = appendRequests \cup {[to |-> j, args |-> a]}
  BY <1>1, SentArgs
<1>3. m.args = a
  BY <1>2, SMTT(30)
<1>4. state[i] = "Leader" /\ UNCHANGED nodeVars
  BY <1>1 DEF replicateToFollower
<1> QED
  BY <1>2, <1>3, <1>4

(* Who is named as a leader has led: no step makes a name false.           *)
LEMMA NextLeaderIsNamed ==
  ASSUME TypeOK, TypeOK', ElectionInv, LogInv, LeaderIsNamed, [Next]_vars
  PROVE  LeaderIsNamed'
<1>t. /\ currentTerm \in [Server -> Nat] /\ leaderID \in [Server -> Server \cup {Nil}]
      /\ currentTerm' \in [Server -> Nat]
  BY SMTT(30) DEF TypeOK, Term
<1>r. ASSUME NEW m \in appendRequests
      PROVE  m.args.leaderId \in Server /\ m.args.term \in Nat
  <2>1. m.args \in AppendEntriesArgs
    BY DEF TypeOK
  <2> QED
    BY <2>1, ArgsFacts, SMTT(30) DEF Term
<1>1. ASSUME NEW m \in appendRequests' PROVE Led(m.args.leaderId, m.args.term)'
  <2>1. CASE m \in appendRequests
    BY <2>1, <1>r, LeaderStays DEF LeaderIsNamed
  <2>2. CASE m \notin appendRequests
    <3>1. PICK i \in Server : /\ m.args.leaderId = i /\ m.args.term = currentTerm[i]
                              /\ state[i] = "Leader" /\ UNCHANGED nodeVars
      BY <2>2, RequestsFromLeaders
    <3> QED
      BY <3>1, <1>t, SMTT(30) DEF Led, nodeVars
  <2> QED
    BY <2>1, <2>2
<1>2. ASSUME NEW k \in Server, leaderID'[k] # Nil PROVE Led(leaderID[k], currentTerm[k])'
  <2>1. CASE leaderID'[k] = leaderID[k] /\ currentTerm'[k] = currentTerm[k]
    <3>1. Led(leaderID[k], currentTerm[k]) /\ leaderID[k] \in Server /\ currentTerm[k] \in Nat
      BY <1>2, <1>t, <2>1 DEF LeaderIsNamed
    <3>2. /\ currentTerm'[leaderID[k]] >= currentTerm[k]
          /\ currentTerm'[leaderID[k]] = currentTerm[k] => state'[leaderID[k]] = "Leader"
      BY <3>1, LeaderStays DEF Led
    <3> QED
      BY <2>1, <3>2 DEF Led
  <2>2. CASE leaderID'[k] = k /\ state'[k] = "Leader"
    BY <2>2, <1>t, SMTT(30) DEF Led
  <2>3. ASSUME NEW m \in appendRequests,
               leaderID'[k] = m.args.leaderId, currentTerm'[k] = m.args.term
        PROVE  Led(leaderID[k], currentTerm[k])'
    <3>1. /\ currentTerm'[m.args.leaderId] >= m.args.term
          /\ currentTerm'[m.args.leaderId] = m.args.term => state'[m.args.leaderId] = "Leader"
      BY <1>r, LeaderStays DEF Led, LeaderIsNamed
    <3> QED
      BY <2>3, <3>1 DEF Led
  <2> QED
    BY <1>2, <2>1, <2>2, <2>3, FollowedBy
<1> QED
  BY <1>1, <1>2 DEF LeaderIsNamed

(* A new cluster has logged, matched, committed and named nothing.         *)
LEMMA InitReplication ==
  ASSUME Cardinality(Server) \in 1..3, Init
  PROVE  ReplicationInv
<1>1. /\ \A i \in Server : log[i] = <<>> /\ commitIndex[i] = 0 /\ leaderID[i] = Nil
      /\ \A i, j \in Server : matchIndex[i][j] = 0 /\ call[i][j] = NoCall
      /\ appendRequests = {}
  BY DEF Init, NewNode
<1>2. IndexIsPlace
  BY <1>1, SMTT(30) DEF IndexIsPlace
<1>3. MatchIsStored
  BY <1>1, SMTT(30) DEF MatchIsStored, NoCall
<1>4. StoredByMajority(0)
  <2>1. {j \in Server : Len(log[j]) >= 0} = Server
    BY <1>1, SMTT(30)
  <2>2. Cardinality(Server) > Cardinality(Server) \div 2
    BY SMTT(30)
  <2> QED
    BY <2>1, <2>2 DEF StoredByMajority
<1>5. CommitIsStored
  BY <1>1, <1>4 DEF CommitIsStored
<1>6. LeaderIsNamed
  BY <1>1 DEF LeaderIsNamed
<1> QED
  BY <1>2, <1>3, <1>5, <1>6 DEF ReplicationInv

(* Every step keeps the parts of the replication invariant together.       *)
LEMMA NextReplication == Counting /\ SafetyInv /\ SafetyInv' /\ ReplicationInv /\ [Next]_vars => ReplicationInv'
<1> SUFFICES ASSUME Counting, SafetyInv, SafetyInv', ReplicationInv, [Next]_vars PROVE ReplicationInv'
  OBVIOUS
<1>1. /\ TypeOK /\ ElectionInv /\ LogInv /\ TypeOK'
      /\ IndexIsPlace /\ MatchIsStored /\ CommitIsStored /\ LeaderIsNamed
  BY DEF SafetyInv, ReplicationInv
<1>2. IndexIsPlace'
  BY <1>1, NextIndexIsPlace
<1>3. MatchIsStored'
  BY <1>1, NextMatchIsStored
<1>4. CommitIsStored'
  BY <1>1, NextCommitIsStored
<1>5. LeaderIsNamed'
  BY <1>1, NextLeaderIsNamed
<1> QED
  BY <1>2, <1>3, <1>4, <1>5 DEF ReplicationInv

(* An index is a place in the log, and logs agree.                         *)
LEMMA SafeKeys == SafetyInv /\ ReplicationInv => EntryKeyIsUnique
<1> SUFFICES ASSUME SafetyInv, ReplicationInv PROVE EntryKeyIsUnique
  OBVIOUS
<1> SUFFICES ASSUME NEW i \in Server, NEW j \in Server,
                    NEW k \in 1..Len(log[i]), NEW l \in 1..Len(log[j]),
                    log[i][k].index = log[j][l].index
             PROVE  k = l /\ log[i][k] = log[j][l]
  BY SMTT(30) DEF EntryKeyIsUnique
<1>1. k = l
  BY DEF ReplicationInv, IndexIsPlace
<1> QED
  BY <1>1, SMTT(30) DEF SafetyInv, LogInv, LogsNeverDiverge, Agree

(* A leader has the longest log, so what it has matched agrees with it.    *)
LEMMA SafeMatch == SafetyInv /\ ReplicationInv => MatchIndexIsTrue
<1> SUFFICES ASSUME SafetyInv, ReplicationInv PROVE MatchIndexIsTrue
  OBVIOUS
<1>0. TypeOK /\ LogInv
  BY DEF SafetyInv
<1> SUFFICES ASSUME NEW i \in Server, NEW j \in Server, state[i] = "Leader"
             PROVE  /\ matchIndex[i][j] <= Len(log[j])
                    /\ \A k \in 1..matchIndex[i][j] : log[j][k] = log[i][k]
  BY DEF MatchIndexIsTrue
<1>1. matchIndex[i][j] <= Len(log[j]) /\ matchIndex[i][j] \in Nat
  BY <1>0, SMTT(30) DEF ReplicationInv, MatchIsStored, TypeOK, Index
<1>2. Len(log[j]) <= Len(log[i]) /\ Len(log[i]) \in Nat /\ Len(log[j]) \in Nat
  BY <1>0, LogFacts DEF LogInv, LeaderIsLongest
<1>3. \A k \in 1..Len(log[j]) : log[j][k] = log[i][k]
  BY <1>0, <1>2, SMTT(30) DEF LogInv, LogsNeverDiverge, Agree
<1> QED
  BY <1>1, <1>2, <1>3, SMTT(30)

(* Who stores as many entries as a node has committed stores them all.     *)
LEMMA SafeMajority == Counting /\ SafetyInv /\ ReplicationInv => CommittedOnMajority
<1> SUFFICES ASSUME Counting, SafetyInv, ReplicationInv PROVE CommittedOnMajority
  OBVIOUS
<1>0. TypeOK /\ LogInv
  BY DEF SafetyInv
<1> SUFFICES ASSUME NEW i \in Server
             PROVE  Cardinality({j \in Server : IsPrefixOf(Committed(i), log[j])})
                       > Cardinality(Server) \div 2
  BY DEF CommittedOnMajority
<1> DEFINE S == {j \in Server : Len(log[j]) >= commitIndex[i]}
           T == {j \in Server : IsPrefixOf(Committed(i), log[j])}
<1>1. /\ Len(Committed(i)) = commitIndex[i] /\ commitIndex[i] \in Nat
      /\ commitIndex[i] <= Len(log[i]) /\ Len(log[i]) \in Nat
      /\ \A k \in 1..commitIndex[i] : Committed(i)[k] = log[i][k]
  BY <1>0, CommittedFacts
<1>2. ASSUME NEW j \in S PROVE j \in T
  <2>1. Len(log[j]) \in Nat /\ commitIndex[i] <= Len(log[j])
    BY <1>0, <1>1, LogFacts
  <2>2. \A k \in 1..commitIndex[i] : log[j][k] = log[i][k]
    BY <1>0, <1>1, <2>1, SMTT(30) DEF LogInv, LogsNeverDiverge, Agree
  <2> QED
    BY <1>1, <2>1, <2>2 DEF IsPrefixOf
<1>3. Cardinality(S) > Cardinality(Server) \div 2
  BY DEF ReplicationInv, CommitIsStored, StoredByMajority
<1>4. S \in SUBSET Server /\ T \in SUBSET Server /\ S \subseteq T
  BY <1>2
<1> HIDE DEF S, T
<1>5. Cardinality(T) > Cardinality(Server) \div 2
  BY <1>3, <1>4, MoreIsMajority
<1> QED
  BY <1>5 DEF T

(* Whoever is named has led the term it is named for.                      *)
LEMMA SafeHints == ReplicationInv => LeaderHint
<1> SUFFICES ASSUME ReplicationInv PROVE LeaderHint
  OBVIOUS
<1> SUFFICES ASSUME NEW i \in Server, NEW j \in Server,
                    leaderID[i] = j, currentTerm[j] = currentTerm[i]
             PROVE  state[j] = "Leader"
  BY DEF LeaderHint
<1>1. leaderID[i] # Nil
  BY ServerAssumption
<1> QED
  BY <1>1 DEF ReplicationInv, LeaderIsNamed, Led

-----------------------------------------------------------------------------
(* Theorems.                                                               *)
Finite == INSTANCE FiniteSetTheorems

(* The library's facts are about the Cardinality of FiniteSets.            *)
LEMMA CountsAlike ==
  \A T : (Finite!IsFiniteSet(T) <=> IsFiniteSet(T)) /\ Finite!Cardinality(T) = Cardinality(T)
  BY DEF Finite!IsFiniteSet, IsFiniteSet, Finite!Cardinality, Cardinality

(* The library says what the lemmas assume of finite sets.                 *)
LEMMA Counts == Counting
<1>1. ASSUME NEW S \in SUBSET Nat, S # {} PROVE \E k \in S : \A l \in S : k <= l
  <2>1. PICK k \in S : \A l \in S : ~(<<l, k>> \in Finite!OpToRel(<, Nat))
    BY <1>1, Finite!NatLessThanWellFounded, Finite!WFMin
  <2>2. \A l \in S : ~(l < k)
    BY <2>1 DEF Finite!OpToRel
  <2> QED
    BY <2>2, SMTT(30)
<1>2. ASSUME NEW T \in SUBSET Server
      PROVE  /\ Cardinality(T) \in Nat
             /\ \A S \in SUBSET T : S = T \/ Cardinality(S) < Cardinality(T)
  <2>1. IsFiniteSet(T)
    BY ServerAssumption, CountsAlike, Finite!FS_Subset
  <2>2. Cardinality(T) \in Nat
    BY <2>1, CountsAlike, Finite!FS_CardinalityType
  <2>3. ASSUME NEW S \in SUBSET T, S # T PROVE Cardinality(S) < Cardinality(T)
    <3>1. IsFiniteSet(S) /\ Cardinality(S) <= Cardinality(T) /\ Cardinality(S) # Cardinality(T)
      BY <2>1, <2>3, CountsAlike, Finite!FS_Subset
    <3>2. Cardinality(S) \in Nat
      BY <3>1, CountsAlike, Finite!FS_CardinalityType
    <3> QED
      BY <3>1, <3>2, <2>2, SMTT(30)
  <2> QED
    BY <2>2, <2>3
<1>3. Cardinality({}) = 0
  BY CountsAlike, Finite!FS_EmptySet
<1>4. \A i \in Server : Cardinality({i}) = 1
  BY CountsAlike, Finite!FS_Singleton
<1> QED
  BY <1>1, <1>2, <1>3, <1>4 DEF Counting

(* Every step of the code keeps every field well typed, and terms and      *)
(* indices within the 32 bits the messages give them, whatever the number  *)
(* of servers.                                                             *)
THEOREM TypeCorrect == Spec => []TypeOK
<1>1. TypeOK /\ [Next]_vars => TypeOK'
  BY Counts, NextType
<1> QED
  BY <1>1, InitType, PTL DEF Spec

(* In a cluster of one to three nodes no term ever has two leaders,        *)
(* although HandleAppendEntries and a late vote reply make a node forget   *)
(* whom it voted for in its current term (node.go:255).                    *)
THEOREM ElectionSafe ==
  ASSUME Cardinality(Server) \in 1..3
  PROVE  Spec => []ElectionSafety
<1>1. Unanimous
  BY SmallIsUnanimous
<1>2. TypeOK /\ ElectionInv /\ [Next]_vars => (TypeOK /\ ElectionInv)'
  BY <1>1, Counts, NextType, NextElection
<1> QED
  BY <1>2, InitType, InitElection, ElectionInvSafe, PTL DEF Spec

(* In a cluster of one to three nodes every reachable state satisfies      *)
(* SafetyInv: its three parts (types, elections, logs) together are        *)
(* preserved by every step of the code.                                    *)
THEOREM SafetyInvariant ==
  ASSUME Cardinality(Server) \in 1..3
  PROVE  Spec => []SafetyInv
<1>1. Unanimous
  BY SmallIsUnanimous
<1>2. Init => SafetyInv
  BY InitType, InitElection, InitLog DEF SafetyInv
<1>3. SafetyInv /\ [Next]_vars => SafetyInv'
  BY <1>1, Counts, NextSafety
<1> QED
  BY <1>2, <1>3, PTL DEF Spec

(* With up to three nodes any two logs are prefixes of one another, so     *)
(* HandleAppendEntries never finds an entry that conflicts with its own    *)
(* log.                                                                    *)
THEOREM LogsAgree ==
  ASSUME Cardinality(Server) \in 1..3
  PROVE  Spec => []LogsNeverDiverge
<1>1. SafetyInv => LogsNeverDiverge
  BY DEF SafetyInv, LogInv
<1> QED
  BY <1>1, SafetyInvariant, PTL

(* With up to three nodes commitIndex and lastApplied never point past the *)
(* log, and what the applier has sent on applyCh stays in the log: the     *)
(* unchecked n.log[n.lastApplied] is safe.                                 *)
THEOREM AppliedSafe ==
  ASSUME Cardinality(Server) \in 1..3
  PROVE  Spec => []AppliedFromLog
<1>1. SafetyInv => AppliedFromLog
  BY DEF SafetyInv, LogInv
<1> QED
  BY <1>1, SafetyInvariant, PTL

(* With up to three nodes the sequences two nodes have sent on applyCh     *)
(* agree, whatever leaders they followed.                                  *)
THEOREM StateMachinesAgree ==
  ASSUME Cardinality(Server) \in 1..3
  PROVE  Spec => []StateMachineSafety
<1> QED
  BY SafeStateMachines, SafetyInvariant, PTL

(* With up to three nodes the leader of the highest term holds every entry *)
(* that any node regards as committed.                                     *)
THEOREM LeadersComplete ==
  ASSUME Cardinality(Server) \in 1..3
  PROVE  Spec => []LeaderCompleteness
<1> QED
  BY SafeLeaders, SafetyInvariant, PTL

(* With up to three nodes no step of the code takes back or rewrites an    *)
(* entry a node regards as committed, and no step lowers a term.           *)
THEOREM CommittedStable ==
  ASSUME Cardinality(Server) \in 1..3
  PROVE  Spec => CommittedIsStable
<1> QED
  BY SafeCommitted, SafetyInvariant, PTL DEF Spec, CommittedIsStable

(* With up to three nodes no node ever loses an entry of its log,          *)
(* committed or not.                                                       *)
THEOREM NoEntryLost ==
  ASSUME Cardinality(Server) \in 1..3
  PROVE  Spec => LogsOnlyGrow
<1> QED
  BY SafeLogs, SafetyInvariant, PTL DEF Spec, LogsOnlyGrow

(* The nodes together implement one committed log, applied in order by     *)
(* each of them: the promise the key-value servers are built on.           *)
THEOREM ImplementsLog ==
  ASSUME Cardinality(Server) \in 1..3
  PROVE  Spec => ImplementsCommittedLog
<1>0. Server # {}
  <2>1. Cardinality({}) = 0
    BY Counts DEF Counting
  <2> QED
    BY <2>1, SMTT(30)
<1>1. Init => Abstract!Init
  BY <1>0, Counts, InitRefines, InitType, InitLog
<1>2. SafetyInv /\ SafetyInv' /\ [Next]_vars => [Abstract!Next]_(Abstract!vars)
  BY <1>0, Counts, StepRefines DEF SafetyInv
<1> QED
  BY <1>1, <1>2, SafetyInvariant, PTL DEF Spec, ImplementsCommittedLog, Abstract!Spec

(* With up to three nodes, every matchIndex, every commit index and every  *)
(* leaderID that the code keeps or sends is true of the node it is about.  *)
THEOREM ReplicationInvariant ==
  ASSUME Cardinality(Server) \in 1..3
  PROVE  Spec => []ReplicationInv
<1>1. SafetyInv /\ SafetyInv' /\ ReplicationInv /\ [Next]_vars => ReplicationInv'
  BY Counts, NextReplication
<1>2. Init => ReplicationInv
  BY InitReplication
<1> QED
  BY <1>1, <1>2, SafetyInvariant, PTL DEF Spec

(* With up to three nodes the pair (index, term) under which the server    *)
(* files a waiter names one command, on all nodes, while none restarts.    *)
THEOREM EntryKeysUnique ==
  ASSUME Cardinality(Server) \in 1..3
  PROVE  Spec => []EntryKeyIsUnique
<1> QED
  BY SafeKeys, SafetyInvariant, ReplicationInvariant, PTL

(* With up to three nodes a leader's matchIndex never claims more than the *)
(* follower stores, and what it claims is the leader's own log.            *)
THEOREM MatchIndexTrue ==
  ASSUME Cardinality(Server) \in 1..3
  PROVE  Spec => []MatchIndexIsTrue
<1> QED
  BY SafeMatch, SafetyInvariant, ReplicationInvariant, PTL

(* With up to three nodes what any node regards as committed is stored by  *)
(* a majority.                                                             *)
THEOREM CommittedStored ==
  ASSUME Cardinality(Server) \in 1..3
  PROVE  Spec => []CommittedOnMajority
<1>1. SafetyInv /\ ReplicationInv => CommittedOnMajority
  BY Counts, SafeMajority
<1> QED
  BY <1>1, SafetyInvariant, ReplicationInvariant, PTL

(* With up to three nodes the node a follower names to clients has led the *)
(* follower's term, and leads it still unless it has gone beyond it.       *)
THEOREM LeaderHinted ==
  ASSUME Cardinality(Server) \in 1..3
  PROVE  Spec => []LeaderHint
<1> QED
  BY SafeHints, ReplicationInvariant, PTL
=============================================================================
