----------------------- MODULE RaftRestartVotesProof -----------------------
(***************************************************************************)
(* The restart of one node that has lost its memory, in clusters in which  *)
(* an election needs every vote: what the votes and the leaders of         *)
(* RestartInv keep, and the steps that leave the logs and the commit       *)
(* indices alone.                                                          *)
(*                                                                         *)
(* Most steps are Mild: they give no vote and make no candidate and no     *)
(* leader.  The others are a new campaign, a win, a vote and the restart.  *)
(***************************************************************************)
EXTENDS RaftRestartInductive, RaftTypesProof

USE ZenonT(30)

-----------------------------------------------------------------------------
(* Types.                                                                  *)

(* At most one node restarts when MaxRestarts is at most one.              *)
LEMMA FirstRestart ==
  ASSUME Counting, MaxRestarts <= 1, RestartTypeOK, NEW i \in Server, Restart(i)
  PROVE  restarted = {} /\ restarted' = {i}
<1>1. /\ Cardinality(restarted) \in Nat /\ restarted \in SUBSET Server
      /\ {} = restarted \/ Cardinality({}) < Cardinality(restarted)
  BY DEF Counting, RestartTypeOK
<1>2. Cardinality(restarted) < MaxRestarts /\ restarted' = restarted \cup {i}
  BY DEF Restart, NewProcess
<1>3. Cardinality({}) = 0
  BY DEF Counting
<1>4. restarted = {}
  BY <1>1, <1>2, <1>3, RestartAssumption, SMTT(30)
<1> QED
  BY <1>2, <1>4

(* A restart, and a call of a process that is gone, keep the types.        *)
LEMMA RestartType ==
  ASSUME Counting, MaxRestarts <= 1, RestartTypeOK, [RestartNext]_restartVars,
         applied' \in [Server -> Seq(Entry)]
  PROVE  RestartTypeOK'
<1>1. CASE Next /\ UNCHANGED <<restarted, orphans>>
  BY <1>1, NextType DEF RestartTypeOK
<1>2. ASSUME NEW m \in orphans, HandleOrphan(m) PROVE RestartTypeOK'
  <2>1. m.to \in Server /\ m.args.term \in Term /\ m.args.candidateId \in Server
    BY DEF RestartTypeOK, RequestVoteArgs
  <2>2. TypeOK'
    BY <1>2, <2>1 DEF RestartTypeOK, TypeOK, HandleOrphan, logVars, leaderVars, runVars, voteVars,
                      appendVars
  <2> QED
    BY <1>2, <2>2 DEF RestartTypeOK, HandleOrphan
<1>3. ASSUME NEW i \in Server, Restart(i) PROVE RestartTypeOK'
  <2>1. restarted' = {i} /\ NewProcess(i)
    BY <1>3, FirstRestart DEF Restart
  <2>2. 0 \in Term /\ 0 \in Index /\ 0 \in 0..(MaxLog + 1) /\ <<>> \in Log
    BY BoundAssumption, SMTT(30) DEF Term, Index, Log
  <2>3. /\ currentTerm' \in [Server -> Term]
        /\ votedFor' \in [Server -> Server \cup {Nil}]
        /\ state' \in [Server -> {"Follower", "Candidate", "Leader"}]
        /\ leaderID' \in [Server -> Server \cup {Nil}]
        /\ log' \in [Server -> Log]
        /\ commitIndex' \in [Server -> Index]
        /\ pc' \in [Server -> {"run", "candidate", "election"}]
        /\ electionTerm' \in [Server -> Term]
        /\ votes' \in [Server -> SUBSET Server]
    BY <2>1, <2>2 DEF NewProcess, RestartTypeOK, TypeOK
  <2>4. /\ nextIndex' \in [Server -> [Server -> 0..(MaxLog + 1)]]
        /\ matchIndex' \in [Server -> [Server -> Index]]
        /\ call' \in [Server -> [Server -> Call]]
    BY <2>1, <2>2 DEF NewProcess, RestartTypeOK, TypeOK, Call
  <2>5. /\ voteRequests' \subseteq voteRequests /\ voteReplies' \subseteq voteReplies
        /\ orphans' \subseteq orphans \cup voteRequests
        /\ appendRequests' = appendRequests
    BY <2>1 DEF NewProcess
  <2> QED
    BY <2>1, <2>3, <2>4, <2>5 DEF RestartTypeOK, TypeOK
<1>4. CASE UNCHANGED restartVars
  BY <1>4, NextType DEF RestartTypeOK, restartVars
<1> QED
  BY <1>1, <1>2, <1>3, <1>4 DEF RestartNext

-----------------------------------------------------------------------------
(* Votes.                                                                  *)

(* A step that makes no candidate and no leader, and one that, besides,    *)
(* gives no vote.                                                          *)
Calm ==
    /\ UNCHANGED <<electionTerm, restarted>>
    /\ voteRequests' \subseteq voteRequests
    /\ \A k \in Server :
          /\ currentTerm'[k] >= currentTerm[k]
          /\ state'[k] = "Leader"
                => state[k] = "Leader" /\ pc'[k] = pc[k] /\ currentTerm'[k] = currentTerm[k]
          /\ pc'[k] = "election" => pc[k] = "election"
          /\ StillCandidate(k)' => StillCandidate(k)
Mild == Calm /\ \A j, k \in Server : Granted(j, k)' => Granted(j, k)

(* The parts of VoteInv about one node or one message at a time.           *)
Local == OwnVoteKept /\ VoteRequestOrigin /\ VotesInPlay

(* Terms are numbers.                                                      *)
LEMMA TermFacts ==
  ASSUME TypeOK
  PROVE  currentTerm \in [Server -> Nat] /\ electionTerm \in [Server -> Nat]
  BY SMTT(30) DEF TypeOK, Term

(* A request names a sender and carries entries with their places.         *)
LEMMA RequestFacts ==
  ASSUME TypeOK, NEW m \in appendRequests
  PROVE  /\ m.to \in Server /\ m.args \in AppendEntriesArgs /\ m.args.leaderId \in Server
         /\ m.args.term \in Nat /\ m.args.prevLogTerm \in Nat /\ m.args.leaderCommit \in Nat
         /\ m.args.prevLogIndex \in Nat /\ Len(m.args.entries) \in Nat
         /\ m.args.entries \in Seq(Entry)
<1>1. m.to \in Server /\ m.args \in AppendEntriesArgs
  BY DEF TypeOK
<1> QED
  BY <1>1, ArgsFacts, SMTT(30) DEF Term, Index

(* A step of a client, the applier or a replication worker.                *)
LEMMA QuietIsMild ==
  ASSUME TypeOK, Local, UNCHANGED <<nodeVars, runVars, voteVars, restarted, orphans>>
  PROVE  Mild /\ Local'
<1>1. \A j, k \in Server : Granted(j, k)' = Granted(j, k)
  BY DEF Granted, runVars, voteVars
<1>2. \A k \in Server : StillCandidate(k)' = StillCandidate(k)
  BY DEF StillCandidate, runVars, nodeVars
<1>3. Mild
  BY <1>1, <1>2, TermFacts, SMTT(30) DEF Mild, Calm, nodeVars, runVars, voteVars
<1> QED
  BY <1>3 DEF Local, OwnVoteKept, VoteRequestOrigin, VotesInPlay, nodeVars, runVars, voteVars

(* A node follows the leader of a term it has not gone beyond.             *)
LEMMA FollowsIsMild ==
  ASSUME TypeOK, Local, NEW i \in Server, NEW t \in Nat, t >= currentTerm[i],
         i \notin restarted => electionTerm[i] # t,
         currentTerm' = [currentTerm EXCEPT ![i] = t],
         votedFor' = [votedFor EXCEPT ![i] = Nil],
         state' = [state EXCEPT ![i] = "Follower"],
         UNCHANGED <<runVars, voteVars, restarted, orphans>>
  PROVE  Mild /\ Local'
<1>t. currentTerm \in [Server -> Nat] /\ electionTerm \in [Server -> Nat]
  BY TermFacts
<1>1. \A j, k \in Server : Granted(j, k)' = Granted(j, k)
  BY DEF Granted, runVars, voteVars
<1>2. \A k \in Server : currentTerm'[k] >= currentTerm[k]
  BY <1>t, SMTT(30)
<1>3. \A k \in Server :
        /\ state'[k] = "Leader"
                => state[k] = "Leader" /\ pc'[k] = pc[k] /\ currentTerm'[k] = currentTerm[k]
        /\ StillCandidate(k)' => StillCandidate(k)
  BY <1>t DEF StillCandidate, runVars, TypeOK
<1>4. Mild
  BY <1>1, <1>2, <1>3 DEF Mild, Calm, runVars, voteVars
<1>5. OwnVoteKept'
  <2> SUFFICES ASSUME NEW k \in Server
               PROVE  /\ electionTerm[k] <= currentTerm'[k]
                      /\ pc[k] = "election" => electionTerm[k] > 0
                      /\ k \notin restarted /\ electionTerm[k] = currentTerm'[k] /\ currentTerm'[k] > 0
                            => votedFor'[k] = k
    BY DEF OwnVoteKept, runVars
  <2>1. /\ electionTerm[k] <= currentTerm[k]
        /\ pc[k] = "election" => electionTerm[k] > 0
        /\ k \notin restarted /\ electionTerm[k] = currentTerm[k] /\ currentTerm[k] > 0
              => votedFor[k] = k
    BY DEF Local, OwnVoteKept
  <2>2. CASE k = i
    BY <2>1, <2>2, <1>t, SMTT(30)
  <2>3. CASE k # i
    BY <2>1, <2>3, <1>t DEF TypeOK
  <2> QED
    BY <2>2, <2>3
<1> QED
  BY <1>4, <1>5 DEF Local, VoteRequestOrigin, VotesInPlay, runVars, voteVars

(* The run goroutine becomes a candidate but has not asked for votes.      *)
LEMMA RunIsMild ==
  ASSUME TypeOK, Local, UNCHANGED <<restarted, orphans>>, NEW i \in Server,
         runFollower(i) \/ run(i)
  PROVE  Mild /\ Local'
<1>t. currentTerm \in [Server -> Nat] /\ electionTerm \in [Server -> Nat]
  BY TermFacts
<1>1. /\ pc[i] = "run" /\ state[i] # "Leader"
      /\ \/ pc' = pc /\ state' = [state EXCEPT ![i] = "Candidate"]
         \/ state' = state /\ pc' = [pc EXCEPT ![i] = "candidate"]
      /\ UNCHANGED <<currentTerm, votedFor, electionTerm, votes, voteVars>>
  BY DEF runFollower, run, nodeVars, runVars
<1>2. \A j, k \in Server : Granted(j, k)' = Granted(j, k)
  BY <1>1 DEF Granted, voteVars
<1>3. \A k \in Server :
        /\ state'[k] = "Leader" => state[k] = "Leader" /\ pc'[k] = pc[k]
        /\ StillCandidate(k)' => StillCandidate(k)
        /\ pc'[k] = "election" <=> pc[k] = "election"
  BY <1>1, SMTT(30) DEF StillCandidate, TypeOK
<1>4. Mild
  BY <1>1, <1>2, <1>3, <1>t, SMTT(30) DEF Mild, Calm, voteVars
<1>5. OwnVoteKept'
  BY <1>1, <1>3 DEF Local, OwnVoteKept
<1>6. VotesInPlay'
  BY <1>1, <1>3 DEF Local, VotesInPlay, voteVars, TypeOK
<1> QED
  BY <1>1, <1>4, <1>5, <1>6 DEF Local, VoteRequestOrigin, voteVars

(* An election ends without a leader, or a vote is counted.                *)
LEMMA CountingIsMild ==
  ASSUME TypeOK, Local, LeaderIsKept, UNCHANGED <<restarted, orphans>>, NEW i \in Server,
         pc[i] = "election",
         \/ ElectionExpires(i)
         \/ \E r \in voteReplies : CountVote(i, r) /\ state'[i] # "Leader"
  PROVE  Mild /\ Local'
<1>t. currentTerm \in [Server -> Nat] /\ electionTerm \in [Server -> Nat]
  BY TermFacts
<1>1. CASE LeaveElection(i) /\ UNCHANGED <<currentTerm, votedFor, state>>
  <2>1. /\ pc' = [pc EXCEPT ![i] = "run"] /\ votes' = [votes EXCEPT ![i] = {}]
        /\ voteReplies' = {x \in voteReplies : x.to # i}
        /\ UNCHANGED <<currentTerm, votedFor, state, electionTerm, voteRequests>>
    BY <1>1 DEF LeaveElection, RepliesTo
  <2>2. \A j, k \in Server : Granted(j, k)' => Granted(j, k)
    BY <2>1 DEF Granted, TypeOK
  <2>3. \A k \in Server : /\ k # i => pc'[k] = pc[k]
                          /\ currentTerm'[k] >= currentTerm[k]
    BY <2>1, <1>t, SMTT(30) DEF TypeOK
  <2>4. Mild
    <3>1. state[i] # "Leader" /\ pc'[i] = "run"
      BY <2>1 DEF LeaderIsKept, TypeOK
    <3> QED
      BY <2>1, <2>2, <2>3, <3>1 DEF Mild, Calm, StillCandidate
  <2> QED
    BY <2>1, <2>3, <2>4 DEF Local, OwnVoteKept, VoteRequestOrigin, VotesInPlay, TypeOK
<1>2. ASSUME NEW t \in Nat, t > electionTerm[i], becomeFollowerLocked(i, t), LeaveElection(i)
      PROVE  Mild /\ Local'
  <2> DEFINE u == IF t > currentTerm[i] THEN t ELSE currentTerm[i]
  <2>1. /\ pc' = [pc EXCEPT ![i] = "run"] /\ votes' = [votes EXCEPT ![i] = {}]
        /\ voteReplies' = {x \in voteReplies : x.to # i}
        /\ currentTerm' = [currentTerm EXCEPT ![i] = u]
        /\ votedFor' = [votedFor EXCEPT ![i] = Nil]
        /\ state' = [state EXCEPT ![i] = "Follower"]
        /\ UNCHANGED <<electionTerm, voteRequests>>
    BY <1>2 DEF LeaveElection, RepliesTo, becomeFollowerLocked
  <2>2. u \in Nat /\ u >= currentTerm[i] /\ u > electionTerm[i]
    BY <1>2, <1>t, SMTT(30)
  <2> HIDE DEF u
  <2>3. Mild
    <3>1. \A j, k \in Server : Granted(j, k)' => Granted(j, k)
      BY <2>1 DEF Granted, TypeOK
    <3>2. \A k \in Server :
            /\ currentTerm'[k] >= currentTerm[k]
            /\ k # i => state'[k] = state[k] /\ pc'[k] = pc[k] /\ currentTerm'[k] = currentTerm[k]
      BY <2>1, <2>2, <1>t, SMTT(30) DEF TypeOK
    <3>3. state'[i] = "Follower" /\ pc'[i] = "run"
      BY <2>1 DEF TypeOK
    <3> QED
      BY <2>1, <3>1, <3>2, <3>3 DEF Mild, Calm, StillCandidate
  <2>4. OwnVoteKept'
    BY <2>1, <2>2, <1>t, SMTT(30) DEF Local, OwnVoteKept, TypeOK
  <2> QED
    BY <2>1, <2>3, <2>4 DEF Local, VoteRequestOrigin, VotesInPlay, TypeOK
<1>3. ASSUME NEW r \in voteReplies, r.to = i,
             votes' = [votes EXCEPT ![i] =
                          IF r.reply.voteGranted THEN votes[i] \cup {r.from} ELSE votes[i]],
             voteReplies' = voteReplies \ {r},
             UNCHANGED <<nodeVars, pc, electionTerm, voteRequests>>
      PROVE  Mild /\ Local'
  <2>1. \A j, k \in Server : Granted(j, k)' => Granted(j, k)
    BY <1>3, SMTT(30) DEF Granted, TypeOK
  <2>2. Mild
    BY <1>3, <2>1, <1>t, SMTT(30) DEF Mild, Calm, StillCandidate, nodeVars
  <2>3. VotesInPlay'
    BY <1>3, SMTT(30) DEF Local, VotesInPlay, TypeOK
  <2> QED
    BY <1>3, <2>2, <2>3 DEF Local, OwnVoteKept, VoteRequestOrigin, nodeVars
<1>4. CASE ElectionExpires(i)
  BY <1>1, <1>4 DEF ElectionExpires, nodeVars
<1>5. ASSUME NEW r \in voteReplies, CountVote(i, r), state'[i] # "Leader"
      PROVE  Mild /\ Local'
  <2>1. r.reply.term \in Nat
    BY SMTT(30) DEF TypeOK, RequestVoteReply, Term
  <2>2. ~becomeLeaderLocked(i)
    BY <1>5 DEF becomeLeaderLocked, TypeOK
  <2> QED
    BY <1>5, <2>1, <2>2, <1>2, <1>3 DEF CountVote
<1> QED
  BY <1>4, <1>5

(* What a node does with a vote request, when the candidate no longer      *)
(* listens and in general.                                                 *)
LEMMA VotingIsCalm ==
  ASSUME TypeOK, Local, NEW m, m.to \in Server, m.args.term \in Nat,
         m.args.candidateId \in Server, m.to # m.args.candidateId,
         HandleOrphan(m) \/ (HandleRequestVote(m) /\ UNCHANGED <<restarted, orphans>>)
  PROVE  /\ Calm /\ OwnVoteKept' /\ VoteRequestOrigin'
         /\ UNCHANGED <<pc, votes, appendRequests, log, commitIndex, applied, matchIndex, call>>
         /\ \A k \in Server : k # m.to => currentTerm'[k] = currentTerm[k]
         /\ m.args.term > currentTerm[m.to] => state'[m.to] = "Follower"
         /\ ~(m.args.term > currentTerm[m.to]) => state'[m.to] = state[m.to]
<1> DEFINE i == m.to
           c == m.args.candidateId
           t == m.args.term
           newer == t > currentTerm[i]
<1>t. currentTerm \in [Server -> Nat] /\ electionTerm \in [Server -> Nat]
  BY TermFacts
<1>1. PICK g \in BOOLEAN :
        /\ g => newer \/ votedFor[i] \in {Nil, c}
        /\ votedFor' = [votedFor EXCEPT ![i] = IF g THEN c ELSE IF newer THEN Nil ELSE votedFor[i]]
  <2> DEFINE free == newer \/ votedFor[i] \in {Nil, c}
             g1 == /\ newer \/ (t = currentTerm[i] /\ votedFor[i] \in {Nil, c})
                   /\ UpToDate(m.args, log[i])
             g2 == ~(currentTerm[i] > t) /\ free /\ UpToDate(m.args, log[i])
  <2>1. g1 \in BOOLEAN /\ g2 \in BOOLEAN /\ (g1 => free) /\ (g2 => free)
    OBVIOUS
  <2>2. CASE HandleOrphan(m)
    <3>1. votedFor' = [votedFor EXCEPT ![i] = IF g1 THEN c ELSE IF newer THEN Nil ELSE votedFor[i]]
      BY <2>2 DEF HandleOrphan
    <3> HIDE DEF g1
    <3> QED
      BY <2>1, <3>1
  <2>3. CASE HandleRequestVote(m)
    <3>1. votedFor' = [votedFor EXCEPT ![i] = IF g2 THEN c ELSE IF newer THEN Nil ELSE votedFor[i]]
      BY <2>3 DEF HandleRequestVote
    <3> HIDE DEF g2
    <3> QED
      BY <2>1, <3>1
  <2> QED
    BY <2>2, <2>3
<1>2. /\ currentTerm' = [currentTerm EXCEPT ![i] = IF newer THEN t ELSE currentTerm[i]]
      /\ state' = [state EXCEPT ![i] = IF newer THEN "Follower" ELSE state[i]]
      /\ voteRequests' \subseteq voteRequests
      /\ UNCHANGED <<pc, electionTerm, votes, restarted>>
      /\ UNCHANGED <<appendRequests, log, commitIndex, applied, matchIndex, call>>
  BY DEF HandleOrphan, HandleRequestVote, logVars, leaderVars, runVars, voteVars, appendVars
<1>3. \A k \in Server :
        /\ currentTerm'[k] >= currentTerm[k]
        /\ k # i => state'[k] = state[k] /\ currentTerm'[k] = currentTerm[k]
  BY <1>2, <1>t, SMTT(30) DEF TypeOK
<1>4. /\ newer => state'[i] = "Follower" /\ currentTerm'[i] = t
      /\ ~newer => state'[i] = state[i] /\ currentTerm'[i] = currentTerm[i]
  BY <1>2, <1>t DEF TypeOK
<1> HIDE DEF newer
<1>5. Calm
  BY <1>2, <1>3, <1>4 DEF Calm, StillCandidate
<1>6. OwnVoteKept'
  <2> SUFFICES ASSUME NEW k \in Server
               PROVE  /\ electionTerm[k] <= currentTerm'[k]
                      /\ pc[k] = "election" => electionTerm[k] > 0
                      /\ k \notin restarted /\ electionTerm[k] = currentTerm'[k] /\ currentTerm'[k] > 0
                            => votedFor'[k] = k
    BY <1>2 DEF OwnVoteKept
  <2>1. /\ electionTerm[k] <= currentTerm[k]
        /\ pc[k] = "election" => electionTerm[k] > 0
        /\ k \notin restarted /\ electionTerm[k] = currentTerm[k] /\ currentTerm[k] > 0
              => votedFor[k] = k
    BY DEF Local, OwnVoteKept
  <2>2. CASE k # i
    BY <2>1, <2>2, <1>1, <1>3 DEF TypeOK
  <2>3. CASE k = i /\ newer
    BY <2>1, <2>3, <1>4, <1>t, SMTT(30) DEF newer
  <2>4. CASE k = i /\ ~newer
    <3>1. votedFor[i] = i => votedFor'[i] = i
      BY <2>4, <1>1, ServerAssumption DEF TypeOK
    <3> QED
      BY <2>1, <2>4, <1>4, <3>1
  <2> QED
    BY <2>2, <2>3, <2>4
<1>7. VoteRequestOrigin'
  BY <1>2 DEF Local, VoteRequestOrigin
<1> QED
  BY <1>2, <1>3, <1>4, <1>5, <1>6, <1>7 DEF newer

(* m.to gives the candidate of m its vote.                                 *)
NewVote(m) ==
    LET i == m.to
        c == m.args.candidateId
        t == m.args.term
    IN /\ \A j, k \in Server : Granted(j, k)' => Granted(j, k) \/ (j = i /\ k = c)
       /\ pc[c] = "election" /\ electionTerm[c] = t
       /\ currentTerm[i] <= t /\ currentTerm'[i] = t
       /\ UpToDate(m.args, log[i])
       /\ i \notin restarted => electionTerm[i] # t

(* A vote counts only with the candidate that still waits for it.          *)
LEMMA OrphanIsMild ==
  ASSUME RestartTypeOK, Local, NEW m \in orphans, HandleOrphan(m)
  PROVE  Mild /\ Local'
<1>1. m.to \in Server /\ m.args.term \in Nat /\ m.args.candidateId \in Server
  BY SMTT(30) DEF RestartTypeOK, RequestVoteArgs, Term
<1>2. m.to # m.args.candidateId
  BY DEF Local, VotesInPlay
<1>3. Calm /\ OwnVoteKept' /\ VoteRequestOrigin' /\ UNCHANGED <<pc, votes>>
  BY <1>1, <1>2, VotingIsCalm DEF RestartTypeOK
<1>4. voteReplies' = voteReplies /\ orphans' \subseteq orphans
  BY DEF HandleOrphan, voteVars
<1>5. \A j, k \in Server : Granted(j, k)' => Granted(j, k)
  BY <1>3, <1>4 DEF Granted
<1> QED
  BY <1>3, <1>4, <1>5 DEF Mild, Calm, Local, VotesInPlay

(* HandleRequestVote gives a vote or is Mild.                              *)
LEMMA VoteEffect ==
  ASSUME RestartTypeOK, Local, UNCHANGED <<restarted, orphans>>,
         NEW m \in voteRequests, HandleRequestVote(m)
  PROVE  /\ m.to \in Server /\ m.args.candidateId \in Server /\ m.args.term \in Nat
         /\ m.to # m.args.candidateId
         /\ Calm /\ Local' /\ (Mild \/ NewVote(m))
<1> DEFINE i == m.to
           c == m.args.candidateId
           t == m.args.term
           grant == /\ ~(currentTerm[i] > t)
                    /\ t > currentTerm[i] \/ votedFor[i] \in {Nil, c}
                    /\ UpToDate(m.args, log[i])
           awaited == pc[c] = "election" /\ electionTerm[c] = t
           r == [from |-> i, to |-> c,
                 reply |-> [term |-> currentTerm[i], voteGranted |-> grant]]
<1>t. currentTerm \in [Server -> Nat] /\ electionTerm \in [Server -> Nat]
  BY TermFacts DEF RestartTypeOK
<1>1. i \in Server /\ t \in Nat /\ c \in Server
  BY SMTT(30) DEF RestartTypeOK, TypeOK, RequestVoteArgs, Term
<1>2. i # c /\ t > 0
  BY DEF Local, VoteRequestOrigin
<1>3. Calm /\ OwnVoteKept' /\ VoteRequestOrigin' /\ UNCHANGED <<pc, votes>>
  BY <1>1, <1>2, VotingIsCalm DEF RestartTypeOK
<1>4. voteReplies' = IF awaited THEN voteReplies \cup {r} ELSE voteReplies
  <2>1. [term |-> currentTerm[i], voteGranted |-> grant] \in RequestVoteReply
    <3>1. grant \in BOOLEAN
      OBVIOUS
    <3> HIDE DEF grant
    <3> QED
      BY <1>1, <3>1 DEF RestartTypeOK, TypeOK, RequestVoteReply
  <2> QED
    BY <2>1, VoteProtoId DEF HandleRequestVote
<1>5. VotesInPlay'
  <2>1. \A x \in voteReplies' : pc[x.to] = "election" /\ x.from # x.to
    <3> SUFFICES ASSUME NEW x \in voteReplies' PROVE pc[x.to] = "election" /\ x.from # x.to
      OBVIOUS
    <3>1. CASE x \in voteReplies
      BY <3>1 DEF Local, VotesInPlay
    <3>2. CASE awaited /\ x = r
      BY <3>2, <1>2
    <3> QED
      BY <3>1, <3>2, <1>4
  <2> QED
    BY <2>1, <1>3 DEF Local, VotesInPlay
<1>6. \A j, k \in Server : Granted(j, k)' => Granted(j, k) \/ (grant /\ awaited /\ j = i /\ k = c)
  <2> SUFFICES ASSUME NEW j \in Server, NEW k \in Server, Granted(j, k)'
               PROVE  Granted(j, k) \/ (grant /\ awaited /\ j = i /\ k = c)
    OBVIOUS
  <2>1. CASE j \in votes'[k]
    BY <2>1, <1>3 DEF Granted
  <2>2. CASE \E x \in voteReplies' : x.from = j /\ x.to = k /\ x.reply.voteGranted
    <3>1. PICK x \in voteReplies' : x.from = j /\ x.to = k /\ x.reply.voteGranted
      BY <2>2
    <3>2. CASE x \in voteReplies
      BY <3>1, <3>2 DEF Granted
    <3>3. CASE awaited /\ x = r
      BY <3>1, <3>3
    <3> QED
      BY <3>2, <3>3, <1>4
  <2> QED
    BY <2>1, <2>2 DEF Granted
<1>7. CASE ~(grant /\ awaited)
  BY <1>1, <1>2, <1>3, <1>5, <1>6, <1>7 DEF Mild, Local
<1>8. CASE grant /\ awaited
  <2>1. currentTerm[i] <= t /\ currentTerm'[i] = t
    BY <1>8, <1>1, <1>t, SMTT(30) DEF HandleRequestVote
  <2>2. ASSUME i \notin restarted, electionTerm[i] = t PROVE FALSE
    <3>1. currentTerm[i] = t
      BY <2>1, <2>2, <1>1, <1>t, SMTT(30) DEF Local, OwnVoteKept
    <3>2. votedFor[i] = i
      BY <2>2, <3>1, <1>1, <1>2 DEF Local, OwnVoteKept
    <3>3. ~(t > currentTerm[i])
      BY <3>1, <1>1, SMTT(30)
    <3> QED
      BY <3>2, <3>3, <1>8, <1>1, <1>2, ServerAssumption
  <2> HIDE DEF grant
  <2>3. NewVote(m)
    <3>1. UpToDate(m.args, log[i])
      BY <1>8 DEF grant
    <3> QED
      BY <1>6, <1>8, <2>1, <2>2, <3>1 DEF NewVote
  <2> QED
    BY <1>1, <1>2, <1>3, <1>5, <2>3 DEF Local
<1> QED
  BY <1>7, <1>8

(* The other three kinds of steps, as far as the elections see them.       *)
Campaigns(i) ==
    /\ currentTerm'[i] = currentTerm[i] + 1 /\ electionTerm'[i] = currentTerm[i] + 1
    /\ state[i] # "Leader" /\ state' = state /\ restarted' = restarted
    /\ \A k \in Server : k # i =>
          /\ currentTerm'[k] = currentTerm[k] /\ electionTerm'[k] = electionTerm[k]
          /\ pc'[k] = pc[k] /\ StillCandidate(k)' = StillCandidate(k)
    /\ \A j, k \in Server : Granted(j, k)' => IF k = i THEN j = i ELSE Granted(j, k)
    /\ UNCHANGED <<appendRequests, log, commitIndex, applied, matchIndex, call>>
Wins(i) ==
    /\ StillCandidate(i) /\ electionTerm[i] > 0 /\ \A j \in Server : Granted(j, i)
    /\ pc'[i] = "run" /\ state'[i] = "Leader"
    /\ \A k \in Server : k # i => pc'[k] = pc[k] /\ state'[k] = state[k]
    /\ \A k \in Server : StillCandidate(k)' => StillCandidate(k) /\ k # i
    /\ \A j, k \in Server : Granted(j, k)' => Granted(j, k) /\ k # i
    /\ matchIndex' = [matchIndex EXCEPT ![i] =
                         [p \in Server |-> IF p = i THEN Len(log[i]) ELSE 0]]
    /\ UNCHANGED <<currentTerm, electionTerm, voteRequests, restarted>>
    /\ UNCHANGED <<appendRequests, log, commitIndex, applied, call>>
Boots(i) ==
    /\ restarted = {} /\ restarted' = {i} /\ state[i] # "Leader"
    /\ currentTerm'[i] = 0 /\ electionTerm'[i] = 0 /\ state'[i] = "Follower"
    /\ pc'[i] = "run" /\ log'[i] = <<>> /\ commitIndex'[i] = 0 /\ applied'[i] = <<>>
    /\ \A j \in Server : matchIndex'[i][j] = 0 /\ call'[i][j] = NoCall
    /\ \A k \in Server : k # i =>
          /\ currentTerm'[k] = currentTerm[k] /\ electionTerm'[k] = electionTerm[k]
          /\ state'[k] = state[k] /\ pc'[k] = pc[k] /\ log'[k] = log[k]
          /\ commitIndex'[k] = commitIndex[k] /\ applied'[k] = applied[k]
          /\ matchIndex'[k] = matchIndex[k] /\ call'[k] = call[k]
    /\ \A k \in Server : StillCandidate(k)' => StillCandidate(k) /\ k # i
    /\ \A j, k \in Server : Granted(j, k)' => Granted(j, k) /\ k # i
    /\ voteRequests' \subseteq voteRequests /\ UNCHANGED appendRequests

(* runCandidate starts an election with the candidate's own vote.          *)
LEMMA CampaignEffect ==
  ASSUME RestartTypeOK, Local, LeaderIsKept, UNCHANGED <<restarted, orphans>>,
         NEW i \in Server, runCandidate(i)
  PROVE  Local' /\ Campaigns(i)
<1>t. currentTerm \in [Server -> Nat] /\ electionTerm \in [Server -> Nat]
  BY TermFacts DEF RestartTypeOK
<1> DEFINE args == [term |-> currentTerm[i] + 1, candidateId |-> i,
                    lastLogIndex |-> Len(log[i]), lastLogTerm |-> LastTerm(log[i])]
<1>1. /\ currentTerm' = [currentTerm EXCEPT ![i] = currentTerm[i] + 1]
      /\ electionTerm' = [electionTerm EXCEPT ![i] = currentTerm[i] + 1]
      /\ votedFor' = [votedFor EXCEPT ![i] = i]
      /\ votes' = [votes EXCEPT ![i] = {i}]
      /\ pc[i] = "candidate" /\ pc' = [pc EXCEPT ![i] = "election"]
      /\ UNCHANGED <<state, voteReplies, appendRequests, log, commitIndex, applied, matchIndex, call>>
  BY DEF runCandidate, appendVars, logVars, leaderVars
<1>2. voteRequests' = voteRequests \cup {[to |-> j, args |-> args] : j \in Server \ {i}}
  BY RequestedVotes DEF RestartTypeOK
<1>3. /\ currentTerm'[i] = currentTerm[i] + 1 /\ electionTerm'[i] = currentTerm[i] + 1
      /\ votedFor'[i] = i /\ votes'[i] = {i} /\ pc'[i] = "election"
      /\ \A k \in Server : k # i =>
            /\ currentTerm'[k] = currentTerm[k] /\ electionTerm'[k] = electionTerm[k]
            /\ votedFor'[k] = votedFor[k] /\ votes'[k] = votes[k] /\ pc'[k] = pc[k]
  BY <1>1 DEF RestartTypeOK, TypeOK
<1>4. \A r \in voteReplies : r.to # i
  BY <1>1 DEF Local, VotesInPlay
<1>5. \A j, k \in Server : Granted(j, k)' => IF k = i THEN j = i ELSE Granted(j, k)
  <2>1. \A j \in Server : Granted(j, i)' => j = i
    BY <1>1, <1>3, <1>4 DEF Granted
  <2>2. \A j, k \in Server : k # i /\ Granted(j, k)' => Granted(j, k)
    BY <1>1, <1>3 DEF Granted
  <2> QED
    BY <2>1, <2>2
<1>6. OwnVoteKept'
  <2> SUFFICES ASSUME NEW k \in Server
               PROVE  /\ electionTerm'[k] <= currentTerm'[k]
                      /\ pc'[k] = "election" => electionTerm'[k] > 0
                      /\ k \notin restarted /\ electionTerm'[k] = currentTerm'[k] /\ currentTerm'[k] > 0
                            => votedFor'[k] = k
    BY DEF OwnVoteKept
  <2>1. CASE k = i
    BY <2>1, <1>3, <1>t, SMTT(30)
  <2>2. CASE k # i
    BY <2>2, <1>3 DEF Local, OwnVoteKept
  <2> QED
    BY <2>1, <2>2
<1>7. VoteRequestOrigin'
  <2> SUFFICES ASSUME NEW m \in voteRequests'
               PROVE  /\ m.to # m.args.candidateId /\ 0 < m.args.term
                      /\ m.args.term <= electionTerm'[m.args.candidateId]
    BY DEF VoteRequestOrigin
  <2>1. CASE m \in voteRequests
    <3>1. m.args.candidateId \in Server /\ m.args.term \in Nat
      BY <2>1, SMTT(30) DEF RestartTypeOK, TypeOK, RequestVoteArgs, Term
    <3>2. electionTerm[i] <= currentTerm[i]
      BY DEF Local, OwnVoteKept
    <3> QED
      BY <2>1, <3>1, <3>2, <1>3, <1>t, SMTT(30) DEF Local, VoteRequestOrigin
  <2>2. CASE \E j \in Server \ {i} : m = [to |-> j, args |-> args]
    BY <2>2, <1>3, <1>t, SMTT(30)
  <2> QED
    BY <1>2, <2>1, <2>2
<1>8. VotesInPlay'
  BY <1>1, <1>3 DEF Local, VotesInPlay, RestartTypeOK, TypeOK
<1>9. state[i] # "Leader"
  BY <1>1 DEF LeaderIsKept
<1> QED
  BY <1>1, <1>3, <1>5, <1>6, <1>7, <1>8, <1>9 DEF Campaigns, Local, StillCandidate

(* A candidate that becomes the leader has counted every vote.             *)
LEMMA WinEffect ==
  ASSUME Counting, Unanimous, RestartTypeOK, Local, LeaderIsKept, UNCHANGED <<restarted, orphans>>,
         NEW i \in Server, NEW r \in voteReplies, CountVote(i, r), state'[i] = "Leader"
  PROVE  Local' /\ Wins(i)
<1> DEFINE counted == IF r.reply.voteGranted THEN votes[i] \cup {r.from} ELSE votes[i]
<1>1. /\ pc[i] = "election" /\ r.to = i /\ counted \in SUBSET Server
      /\ UNCHANGED <<appendRequests, log, commitIndex, applied, call>>
  <2>1. r.from \in Server /\ votes[i] \in SUBSET Server
    BY DEF RestartTypeOK, TypeOK
  <2> QED
    BY <2>1 DEF CountVote, logVars, appendVars
<1>2. state[i] # "Leader"
  BY <1>1 DEF LeaderIsKept
<1>3. /\ Cardinality(counted) >= VotesNeeded /\ state[i] = "Candidate"
      /\ currentTerm[i] = electionTerm[i] /\ becomeLeaderLocked(i) /\ LeaveElection(i)
  <2>1. ~becomeFollowerLocked(i, r.reply.term)
    BY DEF becomeFollowerLocked, RestartTypeOK, TypeOK
  <2>2. ~UNCHANGED nodeVars
    BY <1>2 DEF nodeVars
  <2> QED
    BY <2>1, <2>2 DEF CountVote
<1> HIDE DEF counted
<1>4. \A j \in Server : Granted(j, i)
  <2>1. counted = Server
    BY <1>1, <1>3, UnanimousWin
  <2> QED
    BY <2>1, <1>1 DEF counted, Granted
<1>5. /\ pc' = [pc EXCEPT ![i] = "run"] /\ votes' = [votes EXCEPT ![i] = {}]
      /\ voteReplies' = {x \in voteReplies : x.to # i}
      /\ state' = [state EXCEPT ![i] = "Leader"]
      /\ matchIndex' = [matchIndex EXCEPT ![i] =
                              [p \in Server |-> IF p = i THEN Len(log[i]) ELSE 0]]
      /\ UNCHANGED <<currentTerm, votedFor, electionTerm, voteRequests>>
  BY <1>3 DEF becomeLeaderLocked, LeaveElection, RepliesTo
<1>6. /\ pc'[i] = "run"
      /\ \A k \in Server : k # i => pc'[k] = pc[k] /\ state'[k] = state[k] /\ votes'[k] = votes[k]
  BY <1>5 DEF RestartTypeOK, TypeOK
<1>7. \A k \in Server : StillCandidate(k)' => StillCandidate(k) /\ k # i
  BY <1>5, <1>6 DEF StillCandidate
<1>8. \A j, k \in Server : Granted(j, k)' => Granted(j, k) /\ k # i
  BY <1>5 DEF Granted, RestartTypeOK, TypeOK
<1>9. OwnVoteKept' /\ VoteRequestOrigin'
  BY <1>5, <1>6 DEF Local, OwnVoteKept, VoteRequestOrigin
<1>10. VotesInPlay'
  BY <1>5, <1>6 DEF Local, VotesInPlay, RestartTypeOK, TypeOK
<1>11. StillCandidate(i) /\ electionTerm[i] > 0
  BY <1>1, <1>3 DEF StillCandidate, Local, OwnVoteKept
<1> QED
  BY <1>1, <1>4, <1>5, <1>6, <1>7, <1>8, <1>9, <1>10, <1>11 DEF Local, Wins

(* A new process knows nothing, and nobody waits for its votes any more.   *)
LEMMA RestartEffect ==
  ASSUME Counting, MaxRestarts <= 1, RestartTypeOK, Local, NEW i \in Server, Restart(i)
  PROVE  Local' /\ Boots(i)
<1>1. restarted = {} /\ restarted' = {i} /\ state[i] # "Leader" /\ NewProcess(i)
  BY FirstRestart DEF Restart
<1>2. /\ currentTerm'[i] = 0 /\ electionTerm'[i] = 0 /\ state'[i] = "Follower"
      /\ votedFor'[i] = Nil /\ votes'[i] = {}
      /\ pc'[i] = "run" /\ log'[i] = <<>> /\ commitIndex'[i] = 0 /\ applied'[i] = <<>>
      /\ \A j \in Server : matchIndex'[i][j] = 0 /\ call'[i][j] = NoCall
  BY <1>1 DEF NewProcess, RestartTypeOK, TypeOK
<1>3. \A k \in Server : k # i =>
         /\ currentTerm'[k] = currentTerm[k] /\ electionTerm'[k] = electionTerm[k]
         /\ state'[k] = state[k] /\ pc'[k] = pc[k] /\ log'[k] = log[k]
         /\ commitIndex'[k] = commitIndex[k] /\ applied'[k] = applied[k]
         /\ matchIndex'[k] = matchIndex[k] /\ call'[k] = call[k]
         /\ votedFor'[k] = votedFor[k] /\ votes'[k] = votes[k]
  BY <1>1 DEF NewProcess, RestartTypeOK, TypeOK
<1>4. /\ voteReplies' = {x \in voteReplies : x.to # i}
      /\ voteRequests' = {m \in voteRequests : m.args.candidateId # i}
      /\ orphans' \subseteq orphans \cup voteRequests
      /\ UNCHANGED appendRequests
  BY <1>1 DEF NewProcess, RepliesTo
<1>5. \A k \in Server : StillCandidate(k)' => StillCandidate(k) /\ k # i
  BY <1>2, <1>3 DEF StillCandidate
<1>6. \A j, k \in Server : Granted(j, k)' => Granted(j, k) /\ k # i
  BY <1>2, <1>3, <1>4 DEF Granted
<1>7. OwnVoteKept'
  <2> SUFFICES ASSUME NEW k \in Server
               PROVE  /\ electionTerm'[k] <= currentTerm'[k]
                      /\ pc'[k] = "election" => electionTerm'[k] > 0
                      /\ k \notin restarted' /\ electionTerm'[k] = currentTerm'[k] /\ currentTerm'[k] > 0
                            => votedFor'[k] = k
    BY DEF OwnVoteKept
  <2>1. CASE k = i
    BY <2>1, <1>2, SMTT(30)
  <2>2. CASE k # i
    BY <2>2, <1>1, <1>3 DEF Local, OwnVoteKept
  <2> QED
    BY <2>1, <2>2
<1>8. VoteRequestOrigin'
  BY <1>3, <1>4 DEF Local, VoteRequestOrigin, RestartTypeOK, TypeOK, RequestVoteArgs
<1>9. VotesInPlay'
  <2>1. \A m \in orphans' : m.to # m.args.candidateId
    BY <1>4 DEF Local, VotesInPlay, VoteRequestOrigin
  <2>2. \A x \in voteReplies' : pc'[x.to] = "election" /\ x.from # x.to
    <3>1. \A x \in voteReplies' : x \in voteReplies /\ x.to # i
      BY <1>4
    <3>2. \A x \in voteReplies : x.to \in Server /\ pc[x.to] = "election" /\ x.from # x.to
      BY DEF Local, VotesInPlay, RestartTypeOK, TypeOK
    <3> QED
      BY <3>1, <3>2, <1>3
  <2>3. \A k \in Server : votes'[k] # {} => pc'[k] = "election"
    BY <1>2, <1>3 DEF Local, VotesInPlay
  <2> QED
    BY <2>1, <2>2, <2>3, <1>1 DEF VotesInPlay
<1> QED
  BY <1>1, <1>2, <1>3, <1>4, <1>5, <1>6, <1>7, <1>8, <1>9 DEF Local, Boots

-----------------------------------------------------------------------------
(* Who voted for whom, and the traces of leaders.                          *)

(* The parts of VoteInv that relate two nodes.                             *)
Elected == VotesAreKept /\ LeaderIsKept /\ OldVoteBinds

Traced(m) == Kept(m) /\ (Backed(m) \/ Unbacked(m))

(* A node that has reached a term stays beyond it.                         *)
LEMMA SupportLasts ==
  ASSUME TypeOK, TypeOK', Calm
  PROVE  /\ \A i, j \in Server : Supports(j, i) => Supports(j, i)'
         /\ LeaderIsKept => LeaderIsKept'
<1>t. /\ currentTerm \in [Server -> Nat] /\ electionTerm \in [Server -> Nat]
      /\ currentTerm' \in [Server -> Nat]
  BY SMTT(30) DEF TypeOK, Term
<1>1. \A i, j \in Server : Supports(j, i) => Supports(j, i)'
  BY <1>t, SMTT(30) DEF Calm, Supports
<1> QED
  BY <1>1 DEF Calm, LeaderIsKept

(* Log entries stay where a request was taken from.                        *)
LEMMA BackedLasts ==
  ASSUME TypeOK, TypeOK', NEW m \in appendRequests, Backed(m),
         IsPrefixOf(log[m.args.leaderId], log'[m.args.leaderId]),
         \/ /\ electionTerm'[m.args.leaderId] = electionTerm[m.args.leaderId]
            /\ pc'[m.args.leaderId] = "election" => pc[m.args.leaderId] = "election"
         \/ electionTerm'[m.args.leaderId] > electionTerm[m.args.leaderId]
  PROVE  Backed(m)'
<1> DEFINE l == m.args.leaderId
           prev == m.args.prevLogIndex
           n == Len(m.args.entries)
<1>1. /\ m.args \in AppendEntriesArgs /\ l \in Server /\ prev \in Nat /\ n \in Nat
      /\ m.args.term \in Nat
  BY RequestFacts
<1>2. /\ electionTerm[l] \in Nat /\ electionTerm'[l] \in Nat
      /\ Len(log[l]) \in Nat /\ Len(log'[l]) \in Nat
  <2>1. Len(log[l]) \in Nat
    BY <1>1, LogFacts
  <2>2. log'[l] \in Seq(Entry)
    BY <1>1 DEF TypeOK, Log
  <2>3. Len(log'[l]) \in Nat
    BY <2>2, SMTT(30)
  <2> QED
    BY <1>1, <2>1, <2>3, SMTT(30) DEF TypeOK, Term
<1>3. /\ m.args.term <= electionTerm'[l]
      /\ m.args.term = electionTerm'[l] => pc'[l] # "election"
  <2>1. m.args.term <= electionTerm[l] /\ (m.args.term = electionTerm[l] => pc[l] # "election")
    BY DEF Backed
  <2>2. CASE electionTerm'[l] > electionTerm[l]
    BY <2>1, <2>2, <1>1, <1>2, SMTT(30)
  <2> QED
    BY <2>1, <2>2
<1>4. prev + n <= Len(log[l]) /\ \A k \in 1..n : m.args.entries[k] = log[l][prev + k]
  BY DEF Backed
<1>5. prev + n <= Len(log'[l]) /\ \A k \in 1..n : m.args.entries[k] = log'[l][prev + k]
  <2>1. Len(log[l]) <= Len(log'[l]) /\ \A k \in 1..Len(log[l]) : log[l][k] = log'[l][k]
    BY DEF IsPrefixOf
  <2>2. \A k \in 1..n : prev + k \in 1..Len(log[l])
    BY <1>1, <1>2, <1>4, SMTT(30)
  <2>3. prev + n <= Len(log'[l])
    BY <2>1, <1>1, <1>2, <1>4, SMTT(30)
  <2> QED
    BY <2>1, <2>2, <2>3, <1>4
<1> QED
  BY <1>3, <1>5 DEF Backed

(* A Mild step keeps votes, leaders and their traces.                      *)
LEMMA MildKeepsVotes ==
  ASSUME RestartTypeOK, TypeOK', Elected, Mild
  PROVE  Elected'
<1>t. /\ currentTerm \in [Server -> Nat] /\ electionTerm \in [Server -> Nat]
      /\ currentTerm' \in [Server -> Nat] /\ restarted \subseteq Server
  BY SMTT(30) DEF RestartTypeOK, TypeOK, Term
<1>1. \A i, j \in Server : Supports(j, i) => Supports(j, i)'
  BY SupportLasts DEF Mild, RestartTypeOK
<1>2. VotesAreKept'
  BY <1>1 DEF Elected, VotesAreKept, Mild, Calm
<1>3. LeaderIsKept'
  BY SupportLasts DEF Elected, Mild, RestartTypeOK
<1>4. OldVoteBinds'
  <2> SUFFICES ASSUME NEW r \in restarted, NEW i \in Server \ {r},
                      currentTerm'[r] < electionTerm[i],
                      state'[i] = "Leader" \/ (StillCandidate(i)' /\ Granted(r, i)')
               PROVE  state'[r] # "Leader" /\ ~Granted(i, r)'
    BY DEF OldVoteBinds, Mild, Calm
  <2>1. r \in Server /\ currentTerm[r] < electionTerm[i]
    BY <1>t, SMTT(30) DEF Mild, Calm
  <2>2. state[i] = "Leader" \/ (StillCandidate(i) /\ Granted(r, i))
    BY <2>1 DEF Mild, Calm
  <2>3. state[r] # "Leader" /\ ~Granted(i, r)
    BY <2>1, <2>2 DEF Elected, OldVoteBinds
  <2> QED
    BY <2>1, <2>3 DEF Mild, Calm
<1> QED
  BY <1>2, <1>3, <1>4 DEF Elected

(* Nor does it hide where a request came from, as long as logs only grow.  *)
LEMMA MildKeepsTraces ==
  ASSUME RestartTypeOK, TypeOK', Mild, LogStep, NEW m \in appendRequests, Traced(m)
  PROVE  Traced(m)'
<1>t. /\ currentTerm \in [Server -> Nat] /\ electionTerm \in [Server -> Nat]
      /\ currentTerm' \in [Server -> Nat] /\ restarted \subseteq Server
      /\ m.args.term \in Nat /\ m.args.leaderId \in Server
  <2>1. m.args.term \in Nat /\ m.args.leaderId \in Server
    BY RequestFacts DEF RestartTypeOK
  <2>2. currentTerm' \in [Server -> Nat]
    BY SMTT(30) DEF TypeOK, Term
  <2> QED
    BY <2>1, <2>2, TermFacts DEF RestartTypeOK
<1>1. Kept(m)'
  <2>1. \A j \in Server : currentTerm[j] >= m.args.term => currentTerm'[j] >= m.args.term
    BY <1>t, SMTT(30) DEF Mild, Calm
  <2> QED
    BY <2>1, <1>t DEF Traced, Kept, Mild, Calm
<1>2. Backed(m) => Backed(m)'
  BY <1>t, BackedLasts DEF RestartTypeOK, LogStep, Mild, Calm
<1>3. Unbacked(m) => Unbacked(m)'
  <2>1. \A j \in Server : currentTerm[j] > m.args.term => currentTerm'[j] > m.args.term
    BY <1>t, SMTT(30) DEF Mild, Calm
  <2> QED
    BY <2>1, <1>t DEF Unbacked, Mild, Calm
<1> QED
  BY <1>1, <1>2, <1>3 DEF Traced

(* A vote does not contradict an older one, nor the trace of a leader.     *)
LEMMA NewVoteKeepsVotes ==
  ASSUME RestartTypeOK, TypeOK', OwnVoteKept, Elected, Calm,
         NEW m, m.to \in Server, m.args.candidateId \in Server, m.args.term \in Nat,
         m.to # m.args.candidateId, NewVote(m)
  PROVE  Elected'
<1> DEFINE v == m.to
           c == m.args.candidateId
           t == m.args.term
<1>t. /\ currentTerm \in [Server -> Nat] /\ electionTerm \in [Server -> Nat]
      /\ currentTerm' \in [Server -> Nat] /\ restarted \subseteq Server
  BY SMTT(30) DEF RestartTypeOK, TypeOK, Term
<1>1. /\ \A i, j \in Server : Supports(j, i) => Supports(j, i)'
      /\ LeaderIsKept'
  BY SupportLasts DEF Elected, RestartTypeOK
<1>2. /\ \A j, k \in Server : Granted(j, k)' => Granted(j, k) \/ (j = v /\ k = c)
      /\ electionTerm[c] = t /\ currentTerm'[v] = t
      /\ v \notin restarted => electionTerm[v] # t
  BY DEF NewVote
<1>3. VotesAreKept'
  <2> SUFFICES ASSUME NEW i \in Server, NEW j \in Server \ (restarted \cup {i}), Granted(j, i)'
               PROVE  Supports(j, i)'
    BY DEF VotesAreKept, Calm
  <2>1. CASE Granted(j, i)
    BY <2>1, <1>1 DEF Elected, VotesAreKept
  <2>2. CASE j = v /\ i = c
    <3>1. currentTerm'[v] >= electionTerm[c] /\ electionTerm[v] # electionTerm[c]
      BY <2>2, <1>2, <1>t, SMTT(30)
    <3> QED
      BY <3>1, <2>2 DEF Supports, Calm
  <2> QED
    BY <2>1, <2>2, <1>2
<1>4. OldVoteBinds'
  <2> SUFFICES ASSUME NEW r \in restarted, NEW i \in Server \ {r},
                      currentTerm'[r] < electionTerm[i],
                      state'[i] = "Leader" \/ (StillCandidate(i)' /\ Granted(r, i)')
               PROVE  state'[r] # "Leader" /\ ~Granted(i, r)'
    BY DEF OldVoteBinds, Calm
  <2>1. r \in Server /\ currentTerm[r] < electionTerm[i]
    BY <1>t, SMTT(30) DEF Calm
  <2>2. ~(r = v /\ i = c)
    BY <1>2, <1>t, SMTT(30)
  <2>3. state[i] = "Leader" \/ (StillCandidate(i) /\ Granted(r, i))
    BY <2>1, <2>2, <1>2 DEF Calm
  <2>4. state[r] # "Leader" /\ ~Granted(i, r)
    BY <2>1, <2>3 DEF Elected, OldVoteBinds
  <2>5. ASSUME i = v, r = c PROVE FALSE
    <3>1. electionTerm[v] <= currentTerm[v] /\ electionTerm[c] <= currentTerm[c]
      BY DEF OwnVoteKept
    <3>2. currentTerm[v] <= currentTerm'[v] /\ currentTerm[c] <= currentTerm'[c]
      BY <1>t, SMTT(30) DEF Calm
    <3> QED
      BY <2>5, <3>1, <3>2, <1>2, <1>t, SMTT(30)
  <2> QED
    BY <2>1, <2>4, <2>5, <1>2 DEF Calm
<1> QED
  BY <1>1, <1>3, <1>4 DEF Elected

(* A new vote does not hide where a request came from.                     *)
LEMMA NewVoteKeepsTraces ==
  ASSUME RestartTypeOK, TypeOK', OwnVoteKept, Calm, log' = log,
         NEW m, m.to \in Server, m.args.candidateId \in Server, m.args.term \in Nat,
         m.to # m.args.candidateId, NewVote(m),
         NEW n \in appendRequests, Traced(n)
  PROVE  Traced(n)'
<1> DEFINE v == m.to
           c == m.args.candidateId
           t == m.args.term
           l == n.args.leaderId
<1>t. /\ currentTerm \in [Server -> Nat] /\ electionTerm \in [Server -> Nat]
      /\ currentTerm' \in [Server -> Nat] /\ restarted \subseteq Server
      /\ n.args.term \in Nat /\ l \in Server
  <2>1. n.args.term \in Nat /\ l \in Server
    BY RequestFacts DEF RestartTypeOK
  <2>2. currentTerm' \in [Server -> Nat]
    BY SMTT(30) DEF TypeOK, Term
  <2> QED
    BY <2>1, <2>2, TermFacts DEF RestartTypeOK
<1>2. /\ \A j, k \in Server : Granted(j, k)' => Granted(j, k) \/ (j = v /\ k = c)
      /\ electionTerm[c] = t /\ currentTerm'[v] = t /\ currentTerm[v] <= t
      /\ v \notin restarted => electionTerm[v] # t
  BY DEF NewVote
<1>3. Kept(n)'
  <2>1. \A j \in Server : currentTerm[j] >= n.args.term => currentTerm'[j] >= n.args.term
    BY <1>t, SMTT(30) DEF Calm
  <2>2. ASSUME NEW r \in restarted \ {l}, StillCandidate(r)', electionTerm[r] <= n.args.term,
               Granted(l, r)'
        PROVE  FALSE
    <3>1. ~Granted(l, r)
      BY <2>2, <1>t DEF Traced, Kept, Calm
    <3>2. l = v /\ r = c
      BY <2>2, <3>1, <1>2, <1>t
    <3>3. l \notin restarted
      BY <2>2 DEF RestartTypeOK
    <3>4. n.args.term <= electionTerm[v]
      BY <3>2, <3>3 DEF Traced, Backed, Unbacked
    <3>5. electionTerm[v] <= currentTerm[v]
      BY DEF OwnVoteKept
    <3> QED
      BY <2>2, <3>2, <3>3, <3>4, <3>5, <1>2, <1>t, SMTT(30)
  <2> QED
    BY <2>1, <2>2, <1>t DEF Traced, Kept, Calm
<1>4. Backed(n) => Backed(n)'
  <2>1. IsPrefixOf(log[l], log'[l])
    BY <1>t, LogFacts, SMTT(30) DEF RestartTypeOK, IsPrefixOf
  <2> QED
    BY <2>1, <1>t, BackedLasts DEF RestartTypeOK, Calm
<1>5. ASSUME Unbacked(n) PROVE Unbacked(n)'
  <2>1. PICK k \in Server \ {l} : /\ l \in restarted /\ currentTerm[k] > n.args.term
                                  /\ Granted(k, l) \/ state[l] = "Leader" => electionTerm[l] > n.args.term
    BY <1>5 DEF Unbacked
  <2>2. currentTerm'[k] > n.args.term
    BY <2>1, <1>t, SMTT(30) DEF Calm
  <2>3. k = v /\ l = c => electionTerm[l] > n.args.term
    BY <2>1, <1>2, <1>t, SMTT(30)
  <2>4. Granted(k, l)' \/ state'[l] = "Leader" => electionTerm'[l] > n.args.term
    BY <2>1, <2>3, <1>2, <1>t DEF Calm
  <2> QED
    BY <2>1, <2>2, <2>4 DEF Unbacked, Calm
<1> QED
  BY <1>3, <1>4, <1>5 DEF Traced

(* The term of a new campaign is above all terms the candidate has seen.   *)
LEMMA CampaignKeepsVotes ==
  ASSUME RestartTypeOK, TypeOK', OwnVoteKept, Elected, NEW i \in Server, Campaigns(i)
  PROVE  Elected' /\ \A m \in appendRequests : Traced(m) => Traced(m)'
<1>t. /\ currentTerm \in [Server -> Nat] /\ electionTerm \in [Server -> Nat]
      /\ restarted \subseteq Server
      /\ \A m \in appendRequests : m.args.term \in Nat /\ m.args.leaderId \in Server
  BY TermFacts, RequestFacts DEF RestartTypeOK
<1>0. /\ currentTerm'[i] = currentTerm[i] + 1 /\ electionTerm'[i] = currentTerm[i] + 1
      /\ electionTerm[i] <= currentTerm[i]
      /\ \A k \in Server : k # i => /\ currentTerm'[k] = currentTerm[k]
                                    /\ electionTerm'[k] = electionTerm[k]
      /\ \A j, k \in Server : Granted(j, k)' => IF k = i THEN j = i ELSE Granted(j, k)
  BY DEF Campaigns, OwnVoteKept
<1>1. \A k, j \in Server : k # i /\ k # j /\ Supports(j, k) => Supports(j, k)'
  BY <1>0, <1>t, SMTT(30) DEF Supports
<1>2. VotesAreKept'
  BY <1>0, <1>1 DEF Elected, VotesAreKept, Campaigns
<1>3. LeaderIsKept'
  BY <1>0, <1>1 DEF Elected, LeaderIsKept, Campaigns
<1>4. OldVoteBinds'
  <2> SUFFICES ASSUME NEW r \in restarted, NEW k \in Server \ {r},
                      currentTerm'[r] < electionTerm'[k],
                      state'[k] = "Leader" \/ (StillCandidate(k)' /\ Granted(r, k)')
               PROVE  state'[r] # "Leader" /\ ~Granted(k, r)'
    BY DEF OldVoteBinds, Campaigns
  <2>1. r \in Server /\ k # i
    BY <1>0, <1>t DEF Campaigns
  <2>2. currentTerm[r] < electionTerm[k]
    BY <2>1, <1>0, <1>t, SMTT(30)
  <2>3. state[k] = "Leader" \/ (StillCandidate(k) /\ Granted(r, k))
    BY <2>1, <1>0 DEF Campaigns
  <2>4. state[r] # "Leader" /\ ~Granted(k, r)
    BY <2>2, <2>3 DEF Elected, OldVoteBinds
  <2> QED
    BY <2>1, <2>4, <1>0 DEF Campaigns
<1>5. ASSUME NEW m \in appendRequests, Traced(m) PROVE Traced(m)'
  <2> DEFINE l == m.args.leaderId
             t == m.args.term
  <2>1. \A j \in Server : /\ currentTerm[j] >= t => currentTerm'[j] >= t
                          /\ currentTerm[j] > t => currentTerm'[j] > t
                          /\ currentTerm[j] >= t /\ electionTerm[j] # t => electionTerm'[j] # t
    BY <1>0, <1>t, SMTT(30)
  <2>2. Kept(m)'
    BY <1>5, <2>1, <1>0, <1>t DEF Traced, Kept, Campaigns
  <2>3. Backed(m) => Backed(m)'
    <3>1. IsPrefixOf(log[l], log'[l])
      BY <1>t, LogFacts, SMTT(30) DEF RestartTypeOK, IsPrefixOf, Campaigns
    <3>2. l = i => electionTerm'[l] > electionTerm[l]
      BY <1>0, <1>t, SMTT(30)
    <3> QED
      BY <3>1, <3>2, <1>t, BackedLasts DEF RestartTypeOK, Campaigns
  <2>4. Unbacked(m) => Unbacked(m)'
    BY <2>1, <1>0, <1>t DEF Unbacked, Campaigns
  <2> QED
    BY <1>5, <2>2, <2>3, <2>4 DEF Traced
<1> QED
  BY <1>2, <1>3, <1>4, <1>5 DEF Elected

(* A winner has every vote, also that of a leader it would contradict.     *)
LEMMA WinKeepsVotes ==
  ASSUME RestartTypeOK, TypeOK', Elected, NEW i \in Server, Wins(i)
  PROVE  Elected' /\ \A m \in appendRequests : Traced(m) => Traced(m)'
<1>t. /\ restarted \subseteq Server
      /\ \A m \in appendRequests : m.args.leaderId \in Server
  BY RequestFacts DEF RestartTypeOK
<1>0. /\ UNCHANGED <<currentTerm, electionTerm, restarted>>
      /\ \A j, k \in Server : Granted(j, k)' => Granted(j, k)
      /\ \A k \in Server : StillCandidate(k)' => StillCandidate(k)
      /\ StillCandidate(i) /\ \A j \in Server : Granted(j, i)
      /\ \A k \in Server : k # i => state'[k] = state[k]
  BY DEF Wins
<1>1. VotesAreKept'
  BY <1>0 DEF Elected, VotesAreKept, Supports
<1>2. LeaderIsKept'
  <2>1. \A j \in Server \ (restarted \cup {i}) : Supports(j, i)
    BY <1>0 DEF Elected, VotesAreKept
  <2>2. electionTerm[i] = currentTerm[i] /\ currentTerm[i] > 0 /\ pc'[i] = "run"
    BY DEF Wins, StillCandidate
  <2>3. \A j, k \in Server : Supports(j, k) => Supports(j, k)'
    BY DEF Supports, Wins
  <2> QED
    BY <2>1, <2>2, <2>3, <1>0 DEF Elected, LeaderIsKept, Wins
<1>3. OldVoteBinds'
  <2> SUFFICES ASSUME NEW r \in restarted, NEW k \in Server \ {r},
                      currentTerm[r] < electionTerm[k],
                      state'[k] = "Leader" \/ (StillCandidate(k)' /\ Granted(r, k)')
               PROVE  state'[r] # "Leader" /\ ~Granted(k, r)'
    BY <1>0 DEF OldVoteBinds
  <2>1. state[k] = "Leader" \/ (StillCandidate(k) /\ Granted(r, k))
    BY <1>0, <1>t
  <2>2. state[r] # "Leader" /\ ~Granted(k, r)
    BY <2>1 DEF Elected, OldVoteBinds
  <2> QED
    BY <2>2, <1>0, <1>t
<1>4. ASSUME NEW m \in appendRequests, Traced(m) PROVE Traced(m)'
  <2>1. Kept(m)'
    BY <1>4, <1>0, <1>t DEF Traced, Kept
  <2>2. Backed(m) => Backed(m)'
    BY <1>0, <1>t DEF Backed, Wins
  <2>3. Unbacked(m) => Unbacked(m)'
    BY <1>0, <1>t DEF Unbacked
  <2> QED
    BY <1>4, <2>1, <2>2, <2>3 DEF Traced
<1> QED
  BY <1>1, <1>2, <1>3, <1>4 DEF Elected

(* A new process votes for nobody yet; what it sent before was sent in a   *)
(* term that another node has gone beyond.                                 *)
LEMMA RestartKeepsVotes ==
  ASSUME RestartTypeOK, TypeOK', Elected, DeposedByHigherTerm, NEW i \in Server, Boots(i)
  PROVE  Elected' /\ \A m \in appendRequests : Traced(m) => Traced(m)'
<1>t. \A m \in appendRequests : m.args.leaderId \in Server
  BY RequestFacts DEF RestartTypeOK
<1>0. /\ restarted = {} /\ restarted' = {i}
      /\ \A k \in Server : k # i =>
            /\ currentTerm'[k] = currentTerm[k] /\ electionTerm'[k] = electionTerm[k]
            /\ state'[k] = state[k] /\ pc'[k] = pc[k] /\ log'[k] = log[k]
      /\ \A k \in Server : StillCandidate(k)' => StillCandidate(k) /\ k # i
      /\ \A j, k \in Server : Granted(j, k)' => Granted(j, k) /\ k # i
      /\ state'[i] = "Follower" /\ state[i] # "Leader"
  BY DEF Boots
<1>1. VotesAreKept'
  BY <1>0 DEF Elected, VotesAreKept, Supports
<1>2. LeaderIsKept'
  <2> SUFFICES ASSUME NEW k \in Server, state'[k] = "Leader"
               PROVE  /\ pc'[k] = "run" /\ electionTerm'[k] = currentTerm'[k] /\ currentTerm'[k] > 0
                      /\ \A j \in Server \ (restarted' \cup {k}) : Supports(j, k)'
    BY DEF LeaderIsKept
  <2>1. k # i /\ state[k] = "Leader"
    BY <1>0
  <2>2. /\ pc[k] = "run" /\ electionTerm[k] = currentTerm[k] /\ currentTerm[k] > 0
        /\ \A j \in Server \ (restarted \cup {k}) : Supports(j, k)
    BY <2>1 DEF Elected, LeaderIsKept
  <2> QED
    BY <2>1, <2>2, <1>0 DEF Supports
<1>3. OldVoteBinds'
  BY <1>0 DEF OldVoteBinds
<1>4. ASSUME NEW m \in appendRequests, Traced(m) PROVE Traced(m)'
  <2>1. Kept(m)'
    BY <1>4, <1>0, <1>t DEF Traced, Kept
  <2>2. CASE m.args.leaderId # i
    BY <2>1, <2>2, <1>4, <1>0, <1>t DEF Traced, Backed, Unbacked
  <2>3. CASE m.args.leaderId = i
    <3>1. PICK k \in Server \ {i} : currentTerm[k] > m.args.term
      BY <2>3, <1>0 DEF DeposedByHigherTerm
    <3>2. Unbacked(m)'
      BY <2>3, <3>1, <1>0 DEF Unbacked
    <3> QED
      BY <2>1, <3>2 DEF Traced
  <2> QED
    BY <2>2, <2>3
<1> QED
  BY <1>1, <1>2, <1>3, <1>4 DEF Elected

-----------------------------------------------------------------------------
(* Leaders.                                                                *)

(* A leader's term, and what the others know of it.                        *)
LEMMA LeaderTerm ==
  ASSUME RestartTypeOK, LeaderIsKept, NEW i \in Server, state[i] = "Leader"
  PROVE  /\ electionTerm[i] = currentTerm[i] /\ currentTerm[i] \in Nat /\ currentTerm[i] > 0
         /\ \A j \in Server \ (restarted \cup {i}) :
               /\ currentTerm[j] \in Nat /\ currentTerm[j] >= currentTerm[i]
               /\ electionTerm[j] # currentTerm[i]
  BY TermFacts DEF RestartTypeOK, LeaderIsKept, Supports

(* Of two leaders one has restarted, and the other counts on its old vote. *)
LEMMA OneLeader ==
  ASSUME RestartTypeOK, Elected, NEW i \in Server, NEW k \in Server,
         state[i] = "Leader", state[k] = "Leader"
  PROVE  i = k
<1> SUFFICES ASSUME i # k PROVE FALSE
  OBVIOUS
<1>1. /\ electionTerm[i] = currentTerm[i] /\ currentTerm[i] \in Nat
      /\ electionTerm[k] = currentTerm[k] /\ currentTerm[k] \in Nat
  BY LeaderTerm DEF Elected
<1>2. /\ i \notin restarted => currentTerm[i] > currentTerm[k]
      /\ k \notin restarted => currentTerm[k] > currentTerm[i]
  <2>1. /\ i \notin restarted => currentTerm[i] >= currentTerm[k] /\ electionTerm[i] # currentTerm[k]
        /\ k \notin restarted => currentTerm[k] >= currentTerm[i] /\ electionTerm[k] # currentTerm[i]
    BY LeaderTerm DEF Elected
  <2> QED
    BY <2>1, <1>1, SMTT(30)
<1>3. i \in restarted => ~(currentTerm[i] < currentTerm[k])
  BY <1>1 DEF Elected, OldVoteBinds
<1>4. k \in restarted => ~(currentTerm[k] < currentTerm[i])
  BY <1>1 DEF Elected, OldVoteBinds
<1>5. ~(i \in restarted /\ k \in restarted)
  BY DEF RestartTypeOK
<1> QED
  BY <1>1, <1>2, <1>3, <1>4, <1>5, SMTT(30)

(* A leader has not voted in an election that may still be won.            *)
LEMMA LeaderDoesNotVote ==
  ASSUME RestartTypeOK, Elected, NEW i \in Server, NEW k \in Server, i # k,
         state[i] = "Leader", StillCandidate(k)
  PROVE  ~Granted(i, k)
<1> SUFFICES ASSUME Granted(i, k) PROVE FALSE
  OBVIOUS
<1>1. /\ electionTerm[i] = currentTerm[i] /\ currentTerm[i] \in Nat
      /\ electionTerm[k] = currentTerm[k] /\ currentTerm[k] \in Nat
  BY LeaderTerm, TermFacts DEF Elected, StillCandidate, RestartTypeOK
<1>2. i \notin restarted => currentTerm[i] > currentTerm[k]
  <2>1. i \notin restarted => Supports(i, k)
    BY DEF Elected, VotesAreKept
  <2> QED
    BY <2>1, <1>1, SMTT(30) DEF Supports
<1>3. k \notin restarted => currentTerm[k] > currentTerm[i]
  <2>1. k \notin restarted => currentTerm[k] >= currentTerm[i] /\ electionTerm[k] # currentTerm[i]
    BY LeaderTerm DEF Elected
  <2> QED
    BY <2>1, <1>1, SMTT(30)
<1>4. i \in restarted => ~(currentTerm[i] < currentTerm[k])
  <2> SUFFICES ASSUME i \in restarted, currentTerm[i] < electionTerm[k] PROVE FALSE
    BY <1>1
  <2>1. state[i] # "Leader"
    BY DEF Elected, OldVoteBinds
  <2> QED
    BY <2>1
<1>5. k \in restarted => ~(currentTerm[k] < currentTerm[i])
  BY <1>1 DEF Elected, OldVoteBinds
<1>6. ~(i \in restarted /\ k \in restarted)
  BY DEF RestartTypeOK
<1> QED
  BY <1>1, <1>2, <1>3, <1>4, <1>5, <1>6, SMTT(30)

(* While there is a leader, a request that can be accepted is a piece of a *)
(* log, and no longer than the leader's.                                   *)
LEMMA LeaderCoversLive ==
  ASSUME RestartTypeOK, Elected, LeaderCovers, NEW i \in Server, state[i] = "Leader",
         NEW m \in appendRequests, Traced(m), Live(m)
  PROVE  m.args.prevLogIndex + Len(m.args.entries) <= Len(log[i])
<1> DEFINE l == m.args.leaderId
           t == m.args.term
<1>t. /\ m.to \in Server /\ l \in Server /\ t \in Nat /\ currentTerm[m.to] \in Nat
      /\ m.args.prevLogIndex \in Nat /\ Len(m.args.entries) \in Nat
      /\ Len(log[i]) \in Nat /\ Len(log[l]) \in Nat
  BY RequestFacts, TermFacts, LogFacts DEF RestartTypeOK
<1>1. /\ electionTerm[i] = currentTerm[i] /\ currentTerm[i] \in Nat
      /\ m.to \notin restarted \cup {i} => currentTerm[m.to] >= currentTerm[i]
  BY LeaderTerm, <1>t DEF Elected
<1>2. CASE Backed(m)
  <2>1. Len(log[l]) <= Len(log[i])
    BY <1>t DEF LeaderCovers
  <2>2. m.args.prevLogIndex + Len(m.args.entries) <= Len(log[l])
    BY <1>2 DEF Backed
  <2> QED
    BY <2>1, <2>2, <1>t, SMTT(30)
<1>3. CASE Unbacked(m)
  <2>1. m.to # l /\ l \in restarted /\ m.to \notin restarted
    BY <1>3 DEF Traced, Kept, Unbacked, RestartTypeOK
  <2>2. currentTerm[i] > t
    <3>1. CASE i = l
      BY <3>1, <1>1, <1>3 DEF Unbacked
    <3>2. CASE i # l
      <4>1. currentTerm[i] >= t /\ electionTerm[i] # t
        BY <3>2, <2>1 DEF Traced, Kept, RestartTypeOK
      <4> QED
        BY <4>1, <1>1, <1>t, SMTT(30)
    <3> QED
      BY <3>1, <3>2
  <2> QED
    BY <2>1, <2>2, <1>1, <1>t, SMTT(30) DEF Live
<1> QED
  BY <1>2, <1>3 DEF Traced

(* Before anybody restarts, a voter accepts nothing in the term it voted   *)
(* in; afterwards whoever sends to it blocks the candidate.                *)
LEMMA VoterAccepts ==
  ASSUME RestartTypeOK, OwnVoteKept, Elected, NEW m \in appendRequests, Traced(m), Live(m),
         NEW k \in Server, StillCandidate(k), k # m.to, m.to \notin restarted,
         Granted(m.to, k)
  PROVE  k \in restarted /\ Blocked(k)
<1> DEFINE j == m.to
           l == m.args.leaderId
           t == m.args.term
<1>t. /\ j \in Server /\ l \in Server /\ t \in Nat
      /\ currentTerm \in [Server -> Nat] /\ electionTerm \in [Server -> Nat]
  BY RequestFacts, TermFacts DEF RestartTypeOK
<1>1. electionTerm[k] = currentTerm[k] /\ pc[k] = "election"
  BY DEF StillCandidate
<1>2. electionTerm[k] <= t
  <2>1. currentTerm[j] >= electionTerm[k] /\ currentTerm[j] <= t
    BY <1>t DEF Elected, VotesAreKept, Supports, Live
  <2> QED
    BY <2>1, <1>t, SMTT(30)
<1>3. l = k => Unbacked(m)
  <2>1. ASSUME l = k, Backed(m) PROVE FALSE
    <3>1. t <= electionTerm[k] /\ (t = electionTerm[k] => pc[k] # "election")
      BY <2>1 DEF Backed
    <3> QED
      BY <3>1, <1>1, <1>2, <1>t, SMTT(30)
  <2> QED
    BY <2>1 DEF Traced
<1>4. k \in restarted
  <2> SUFFICES ASSUME k \notin restarted PROVE FALSE
    OBVIOUS
  <2>1. l # k
    BY <1>3 DEF Unbacked
  <2>2. currentTerm[k] >= t /\ electionTerm[k] # t
    BY <2>1 DEF Traced, Kept
  <2> QED
    BY <2>2, <1>1, <1>2, <1>t, SMTT(30)
<1>5. CASE l = k
  <2>1. PICK w \in Server \ {l} : /\ currentTerm[w] > t
                                  /\ Granted(w, l) => electionTerm[l] > t
    BY <1>3, <1>5 DEF Unbacked
  <2>2. ~(electionTerm[l] > t) /\ currentTerm[w] > electionTerm[k]
    BY <2>1, <1>2, <1>5, <1>t, SMTT(30)
  <2>3. w \notin restarted
    BY <2>1, <1>4, <1>5 DEF RestartTypeOK
  <2> QED
    BY <2>1, <2>2, <2>3, <1>4, <1>5 DEF Blocked
<1>6. CASE l # k
  <2>1. ~Granted(l, k)
    BY <1>2, <1>4, <1>6 DEF Traced, Kept
  <2>2. l \notin restarted
    BY <1>4, <1>6 DEF RestartTypeOK
  <2>3. t <= electionTerm[l] /\ electionTerm[l] <= currentTerm[l]
    BY <2>2, <1>t DEF Traced, Backed, Unbacked, OwnVoteKept
  <2>4. \/ currentTerm[l] > electionTerm[k]
        \/ currentTerm[l] = electionTerm[k] /\ electionTerm[l] = electionTerm[k]
    BY <2>3, <1>2, <1>t, SMTT(30)
  <2> QED
    BY <2>1, <2>2, <2>4, <1>4, <1>6, <1>t DEF Blocked
<1> QED
  BY <1>5, <1>6

-----------------------------------------------------------------------------
(* Leaders and candidates have the longest logs.                           *)

(* What blocks a candidate blocks it until it campaigns again.             *)
LEMMA BlockedLasts ==
  ASSUME RestartTypeOK, TypeOK', Calm, NEW k \in Server, Blocked(k),
         \A l \in Server \ restarted :
            \/ Granted(l, k)' => Granted(l, k)
            \/ currentTerm[l] <= electionTerm[k] /\ electionTerm[l] # electionTerm[k]
  PROVE  Blocked(k)'
<1>t. /\ currentTerm \in [Server -> Nat] /\ electionTerm \in [Server -> Nat]
      /\ currentTerm' \in [Server -> Nat]
  BY SMTT(30) DEF RestartTypeOK, TypeOK, Term
<1>1. PICK l \in Server \ (restarted \cup {k}) :
        /\ ~Granted(l, k)
        /\ \/ currentTerm[l] > electionTerm[k]
           \/ currentTerm[l] = electionTerm[k] /\ electionTerm[l] = electionTerm[k]
  BY DEF Blocked
<1>2. ~(currentTerm[l] <= electionTerm[k] /\ electionTerm[l] # electionTerm[k])
  BY <1>1, <1>t, SMTT(30)
<1>3. ~Granted(l, k)'
  BY <1>1, <1>2
<1>4. \/ currentTerm'[l] > electionTerm[k]
      \/ currentTerm'[l] = electionTerm[k] /\ electionTerm[l] = electionTerm[k]
  BY <1>1, <1>t, SMTT(30) DEF Calm
<1> QED
  BY <1>1, <1>3, <1>4 DEF Blocked, Calm

(* A step that gives no vote, whatever it adds to the logs.                *)
LEMMA MildKeepsCovers ==
  ASSUME RestartTypeOK, TypeOK', LeaderCovers, Mild, LogStep,
         \A i, j \in Server : state'[i] = "Leader" => Len(log'[j]) <= Len(log'[i]),
         \A k \in Server : StillCandidate(k)' =>
            /\ log'[k] = log[k]
            /\ \A j \in Server : Granted(j, k) =>
                  \/ log'[j] = log[j]
                  \/ Covered(j, k) => Covered(j, k)'
                  \/ k \in restarted /\ Blocked(k)
  PROVE  LeaderCovers'
<1> SUFFICES ASSUME NEW k \in Server, StillCandidate(k)'
             PROVE  /\ \/ k \in restarted' /\ Blocked(k)'
                       \/ \A j \in Server : Granted(j, k)' => Covered(j, k)'
                    /\ \A m \in voteRequests' :
                          m.args.candidateId = k /\ m.args.term = electionTerm'[k] =>
                             /\ m.args.lastLogIndex = Len(log'[k])
                             /\ m.args.lastLogTerm = LastTerm(log'[k])
  BY DEF LeaderCovers
<1>1. StillCandidate(k) /\ log'[k] = log[k] /\ restarted' = restarted
  BY DEF Mild, Calm
<1>2. k \in restarted /\ Blocked(k) => Blocked(k)'
  BY BlockedLasts DEF Mild
<1>3. \A m \in voteRequests' :
        m.args.candidateId = k /\ m.args.term = electionTerm'[k] =>
            m.args.lastLogIndex = Len(log'[k]) /\ m.args.lastLogTerm = LastTerm(log'[k])
  BY <1>1 DEF LeaderCovers, Mild, Calm
<1>4. ASSUME ~(k \in restarted /\ Blocked(k)), NEW j \in Server, Granted(j, k)'
      PROVE  Covered(j, k)'
  <2>1. Granted(j, k) /\ Covered(j, k)
    BY <1>1, <1>4 DEF LeaderCovers, Mild
  <2>2. CASE log'[j] = log[j]
    <3>1. \A l \in Server : /\ Len(log[l]) \in Nat /\ Len(log'[l]) \in Nat
                            /\ Len(log[l]) <= Len(log'[l])
      <4> SUFFICES ASSUME NEW l \in Server
                   PROVE  /\ Len(log[l]) \in Nat /\ Len(log'[l]) \in Nat
                          /\ Len(log[l]) <= Len(log'[l])
        OBVIOUS
      <4>1. log'[l] \in Seq(Entry)
        BY DEF TypeOK, Log
      <4>2. Len(log'[l]) \in Nat
        BY <4>1, SMTT(30)
      <4> QED
        BY <4>2, LogFacts DEF RestartTypeOK, LogStep, IsPrefixOf
    <3>2. \A l \in Server : Len(log[j]) <= Len(log[l]) => Len(log'[j]) <= Len(log'[l])
      BY <2>2, <3>1, SMTT(30)
    <3> QED
      BY <2>1, <3>2, <1>1 DEF Covered
  <2> QED
    BY <1>4, <2>1, <2>2
<1> QED
  BY <1>1, <1>2, <1>3, <1>4

(* The same when no log changes.                                           *)
LEMMA QuietKeepsCovers ==
  ASSUME RestartTypeOK, TypeOK', LeaderCovers, Mild, log' = log
  PROVE  LogStep /\ LeaderCovers'
<1>1. LogStep
  BY LogFacts, SMTT(30) DEF RestartTypeOK, LogStep, IsPrefixOf
<1>2. \A i, j \in Server : state'[i] = "Leader" => Len(log'[j]) <= Len(log'[i])
  BY DEF LeaderCovers, Mild, Calm
<1> QED
  BY <1>1, <1>2, MildKeepsCovers

(* UpToDate makes the candidate's log at least as long as the voter's.     *)
LEMMA NewVoteKeepsCovers ==
  ASSUME RestartTypeOK, TypeOK', LogsNeverDiverge, TermsAscend, LeaderCovers, Calm, log' = log,
         NEW m \in voteRequests, m.to \in Server, m.args.candidateId \in Server,
         m.args.term \in Nat, NewVote(m)
  PROVE  LeaderCovers'
<1> DEFINE v == m.to
           c == m.args.candidateId
<1>0. /\ \A j, k \in Server : Granted(j, k)' => Granted(j, k) \/ (j = v /\ k = c)
      /\ electionTerm[c] = m.args.term /\ currentTerm[v] <= m.args.term
      /\ v \notin restarted => electionTerm[v] # m.args.term
      /\ UpToDate(m.args, log[v])
  BY DEF NewVote
<1>1. \A i, j \in Server : state'[i] = "Leader" => Len(log[j]) <= Len(log[i])
  BY DEF LeaderCovers, Calm
<1> SUFFICES ASSUME NEW k \in Server, StillCandidate(k)'
             PROVE  /\ \/ k \in restarted' /\ Blocked(k)'
                       \/ \A j \in Server : Granted(j, k)' => Covered(j, k)'
                    /\ \A n \in voteRequests' :
                          n.args.candidateId = k /\ n.args.term = electionTerm'[k] =>
                             /\ n.args.lastLogIndex = Len(log'[k])
                             /\ n.args.lastLogTerm = LastTerm(log'[k])
  BY <1>1 DEF LeaderCovers
<1>2. StillCandidate(k) /\ restarted' = restarted
  BY DEF Calm
<1>3. \A n \in voteRequests' :
        n.args.candidateId = k /\ n.args.term = electionTerm'[k] =>
            n.args.lastLogIndex = Len(log'[k]) /\ n.args.lastLogTerm = LastTerm(log'[k])
  BY <1>2 DEF LeaderCovers, Calm
<1>4. Blocked(k) => Blocked(k)'
  BY <1>0, BlockedLasts
<1>5. ASSUME ~(k \in restarted /\ Blocked(k)), NEW j \in Server, Granted(j, k)'
      PROVE  Covered(j, k)'
  <2>1. CASE Granted(j, k)
    BY <2>1, <1>2, <1>5 DEF LeaderCovers, Covered
  <2>2. CASE j = v /\ k = c
    <3>1. m.args.lastLogIndex = Len(log[c]) /\ m.args.lastLogTerm = LastTerm(log[c])
      BY <2>2, <1>0, <1>2 DEF LeaderCovers
    <3>2. Len(log[v]) <= Len(log[c])
      BY <3>1, <1>0, RecentIsLonger DEF RestartTypeOK
    <3> QED
      BY <2>2, <3>2 DEF Covered
  <2> QED
    BY <2>1, <2>2, <1>0, <1>5
<1> QED
  BY <1>2, <1>3, <1>4, <1>5

(* A new candidate has its own vote only, and asks with its own log.       *)
LEMMA CampaignKeepsCovers ==
  ASSUME RestartTypeOK, OwnVoteKept, VoteRequestOrigin, LeaderCovers,
         NEW i \in Server, runCandidate(i), Campaigns(i)
  PROVE  LeaderCovers'
<1> DEFINE args == [term |-> currentTerm[i] + 1, candidateId |-> i,
                    lastLogIndex |-> Len(log[i]), lastLogTerm |-> LastTerm(log[i])]
<1>t. currentTerm \in [Server -> Nat] /\ electionTerm \in [Server -> Nat]
  BY TermFacts DEF RestartTypeOK
<1>0. /\ UNCHANGED <<log, state, restarted>> /\ state[i] # "Leader"
      /\ electionTerm'[i] = currentTerm[i] + 1 /\ currentTerm'[i] = currentTerm[i] + 1
      /\ \A k \in Server : k # i =>
            /\ currentTerm'[k] = currentTerm[k] /\ electionTerm'[k] = electionTerm[k]
            /\ StillCandidate(k)' = StillCandidate(k)
      /\ \A j, k \in Server : Granted(j, k)' => IF k = i THEN j = i ELSE Granted(j, k)
  BY DEF Campaigns
<1>1. voteRequests' = voteRequests \cup {[to |-> j, args |-> args] : j \in Server \ {i}}
  BY RequestedVotes DEF RestartTypeOK
<1>a. args.candidateId = i /\ args.lastLogIndex = Len(log[i]) /\ args.lastLogTerm = LastTerm(log[i])
  BY SMTT(30)
<1> HIDE DEF args
<1>n. ASSUME NEW n \in voteRequests' PROVE n \in voteRequests \/ n.args = args
  <2>1. CASE \E j \in Server \ {i} : n = [to |-> j, args |-> args]
    BY <2>1, SMTT(30)
  <2> QED
    BY <2>1, <1>1
<1>2. ASSUME NEW n \in voteRequests', n.args.candidateId = i, n.args.term = electionTerm'[i]
      PROVE  n.args.lastLogIndex = Len(log[i]) /\ n.args.lastLogTerm = LastTerm(log[i])
  <2>1. CASE n \in voteRequests
    <3>1. n.args.term <= electionTerm[i] /\ electionTerm[i] <= currentTerm[i]
      BY <2>1, <1>2 DEF VoteRequestOrigin, OwnVoteKept
    <3> QED
      BY <3>1, <1>0, <1>2, <1>t, SMTT(30)
  <2> QED
    BY <2>1, <1>a, <1>n
<1>3. ASSUME NEW k \in Server, k # i, NEW n \in voteRequests', n.args.candidateId = k
      PROVE  n \in voteRequests
  BY <1>a, <1>n, <1>3
<1>4. Len(log[i]) <= Len(log[i])
  BY LogFacts, SMTT(30) DEF RestartTypeOK
<1>5. ASSUME NEW k \in Server, k # i, Blocked(k) PROVE Blocked(k)'
  <2>1. PICK l \in Server \ (restarted \cup {k}) :
          /\ ~Granted(l, k)
          /\ \/ currentTerm[l] > electionTerm[k]
             \/ currentTerm[l] = electionTerm[k] /\ electionTerm[l] = electionTerm[k]
    BY <1>5 DEF Blocked
  <2>2. \/ currentTerm'[l] > electionTerm[k]
        \/ currentTerm'[l] = electionTerm[k] /\ electionTerm'[l] = electionTerm[k]
    BY <2>1, <1>0, <1>t, SMTT(30)
  <2> QED
    BY <2>1, <2>2, <1>0, <1>5 DEF Blocked
<1>6. ASSUME NEW k \in Server, StillCandidate(k)'
      PROVE  \/ k \in restarted /\ Blocked(k)'
             \/ \A j \in Server : Granted(j, k)' => Covered(j, k)'
  <2>1. CASE k = i
    BY <2>1, <1>0, <1>4 DEF Covered
  <2>2. CASE k # i
    BY <2>2, <1>0, <1>5, <1>6 DEF LeaderCovers, Covered
  <2> QED
    BY <2>1, <2>2
<1>7. ASSUME NEW k \in Server, StillCandidate(k)', NEW n \in voteRequests',
             n.args.candidateId = k, n.args.term = electionTerm'[k]
      PROVE  n.args.lastLogIndex = Len(log[k]) /\ n.args.lastLogTerm = LastTerm(log[k])
  <2>1. CASE k = i
    BY <2>1, <1>2, <1>7
  <2>2. CASE k # i
    <3>1. StillCandidate(k) /\ n \in voteRequests /\ n.args.term = electionTerm[k]
      BY <2>2, <1>0, <1>3, <1>7
    <3> QED
      BY <3>1, <1>7 DEF LeaderCovers
  <2> QED
    BY <2>1, <2>2
<1>8. \A k, j \in Server : state[k] = "Leader" => Len(log[j]) <= Len(log[k])
  BY DEF LeaderCovers
<1> QED
  BY <1>0, <1>6, <1>7, <1>8 DEF LeaderCovers

(* The winner has the votes of all nodes that remember, so no log, not     *)
(* even that of a node that has caught up since, is longer than its own.   *)
LEMMA WinKeepsCovers ==
  ASSUME RestartTypeOK, LeaderCovers, NEW i \in Server, Wins(i)
  PROVE  LeaderCovers'
<1>0. /\ UNCHANGED <<currentTerm, electionTerm, restarted, log, voteRequests>>
      /\ \A j, k \in Server : Granted(j, k)' => Granted(j, k)
      /\ \A k \in Server : StillCandidate(k)' => StillCandidate(k)
      /\ StillCandidate(i) /\ \A j \in Server : Granted(j, i)
      /\ \A k \in Server : k # i => state'[k] = state[k]
  BY DEF Wins
<1>1. ~Blocked(i)
  BY <1>0 DEF Blocked
<1>2. \A j \in Server : Covered(j, i)
  BY <1>0, <1>1 DEF LeaderCovers
<1>3. \A j \in Server : Len(log[j]) <= Len(log[i])
  <2> SUFFICES ASSUME NEW j \in Server, ~(Len(log[j]) <= Len(log[i])) PROVE FALSE
    OBVIOUS
  <2>1. PICK l \in Server \ {j} : j \in restarted /\ Len(log[j]) <= Len(log[l])
    BY <1>2 DEF Covered
  <2>2. Len(log[l]) <= Len(log[i])
    BY <2>1, <1>2 DEF Covered, RestartTypeOK
  <2> QED
    <3>1. Len(log[j]) \in Nat /\ Len(log[l]) \in Nat /\ Len(log[i]) \in Nat
      BY LogFacts DEF RestartTypeOK
    <3> QED
      BY <2>1, <2>2, <3>1, SMTT(30)
<1>4. \A k, j \in Server : state'[k] = "Leader" => Len(log[j]) <= Len(log[k])
  BY <1>0, <1>3 DEF LeaderCovers
<1>5. ASSUME NEW k \in Server, Blocked(k) PROVE Blocked(k)'
  <2>1. PICK l \in Server \ (restarted \cup {k}) :
          /\ ~Granted(l, k)
          /\ \/ currentTerm[l] > electionTerm[k]
             \/ currentTerm[l] = electionTerm[k] /\ electionTerm[l] = electionTerm[k]
    BY <1>5 DEF Blocked
  <2>2. ~Granted(l, k)'
    BY <2>1, <1>0
  <2> QED
    BY <2>1, <2>2, <1>0 DEF Blocked
<1>6. \A j, k \in Server : Covered(j, k) => Covered(j, k)'
  BY <1>0 DEF Covered
<1> QED
  BY <1>0, <1>4, <1>5, <1>6 DEF LeaderCovers

(* The node that restarts loses its log and wins nothing by it.            *)
LEMMA RestartKeepsCovers ==
  ASSUME RestartTypeOK, LeaderCovers, NEW i \in Server, Boots(i)
  PROVE  LeaderCovers'
<1>0. /\ restarted = {} /\ restarted' = {i} /\ log'[i] = <<>> /\ state'[i] = "Follower"
      /\ voteRequests' \subseteq voteRequests
      /\ \A k \in Server : k # i =>
            log'[k] = log[k] /\ state'[k] = state[k] /\ electionTerm'[k] = electionTerm[k]
      /\ \A k \in Server : StillCandidate(k)' => StillCandidate(k) /\ k # i
      /\ \A j, k \in Server : Granted(j, k)' => Granted(j, k)
  BY DEF Boots
<1>1. ASSUME NEW k \in Server, NEW j \in Server, Len(log[j]) <= Len(log[k]), k # i
      PROVE  Len(log'[j]) <= Len(log'[k])
  <2>1. Len(log[k]) \in Nat
    BY LogFacts DEF RestartTypeOK
  <2>2. CASE j = i
    BY <2>1, <2>2, <1>0, <1>1, SMTT(30)
  <2> QED
    BY <2>2, <1>0, <1>1
<1>2. \A k, j \in Server : Covered(j, k) /\ k # i => Covered(j, k)'
  BY <1>0, <1>1 DEF Covered
<1>3. \A k, j \in Server : state'[k] = "Leader" => Len(log'[j]) <= Len(log'[k])
  BY <1>0, <1>1 DEF LeaderCovers
<1> QED
  BY <1>0, <1>2, <1>3 DEF LeaderCovers

-----------------------------------------------------------------------------
(* What was ever committed.                                                *)

(* The last conjunct of RestartNext.                                       *)
EverStep ==
    everCommitted' = IF Len(LongestCommitted) > Len(everCommitted)
                     THEN LongestCommitted ELSE everCommitted

(* Commit indices and what is committed have lengths.                      *)
LEMMA CommitFacts ==
  ASSUME TypeOK, CommittedIsKept, NEW i \in Server
  PROVE  /\ commitIndex[i] \in Nat /\ Len(everCommitted) \in Nat
         /\ commitIndex[i] <= Len(everCommitted)
<1>1. everCommitted \in Seq(Entry) /\ commitIndex[i] <= Len(everCommitted)
  BY DEF CommittedIsKept
<1>2. commitIndex[i] \in Nat
  BY SMTT(30) DEF TypeOK, Index
<1> QED
  BY <1>1, <1>2, SMTT(30)

(* everCommitted changes only when some node commits more than that.       *)
LEMMA EverChoice ==
  ASSUME TypeOK', Counting, Server # {}, everCommitted \in Seq(Entry), EverStep,
         \A i \in Server : commitIndex'[i] <= Len(log'[i])
  PROVE  \/ /\ everCommitted' = everCommitted
            /\ \A i \in Server : commitIndex'[i] <= Len(everCommitted)
         \/ \E i \in Server :
               /\ commitIndex'[i] > Len(everCommitted)
               /\ everCommitted' = SubSeq(log'[i], 1, commitIndex'[i])
               /\ \A j \in Server : commitIndex'[j] <= commitIndex'[i]
<1> DEFINE S == {MaxLog - commitIndex'[i] : i \in Server}
           top == CHOOSE i \in Server : \A j \in Server : commitIndex'[j] <= commitIndex'[i]
<1>1. \A i \in Server : commitIndex'[i] \in 0..MaxLog
  BY DEF TypeOK, Index
<1>2. MaxLog \in Nat
  BY BoundAssumption, SMTT(30)
<1>3. S \in SUBSET Nat /\ S # {}
  BY <1>1, <1>2, SMTT(30)
<1>4. PICK s \in S : \A r \in S : s <= r
  BY <1>3, MinExists
<1>5. PICK i \in Server : s = MaxLog - commitIndex'[i]
  BY <1>4
<1>6. \A j \in Server : commitIndex'[j] <= commitIndex'[i]
  <2> SUFFICES ASSUME NEW j \in Server PROVE commitIndex'[j] <= commitIndex'[i]
    OBVIOUS
  <2>1. MaxLog - commitIndex'[i] <= MaxLog - commitIndex'[j]
    BY <1>4, <1>5
  <2> QED
    BY <2>1, <1>1, <1>2, SMTT(30)
<1>7. top \in Server /\ \A j \in Server : commitIndex'[j] <= commitIndex'[top]
  BY <1>6
<1>8. LongestCommitted = SubSeq(log'[top], 1, commitIndex'[top])
  BY DEF LongestCommitted
<1> HIDE DEF top
<1>9. Len(LongestCommitted) = commitIndex'[top]
  <2>1. log'[top] \in Seq(Entry)
    BY <1>7 DEF TypeOK, Log
  <2>2. commitIndex'[top] \in 0..Len(log'[top])
    BY <2>1, <1>1, <1>7, SMTT(30)
  <2> QED
    BY <2>1, <2>2, <1>8, PrefixFacts
<1>10. CASE commitIndex'[top] > Len(everCommitted)
  BY <1>7, <1>8, <1>9, <1>10 DEF EverStep
<1>11. CASE ~(commitIndex'[top] > Len(everCommitted))
  <2>1. \A j \in Server : commitIndex'[j] <= Len(everCommitted)
    BY <1>1, <1>7, <1>11, SMTT(30)
  <2> QED
    BY <2>1, <1>9, <1>11 DEF EverStep
<1> QED
  BY <1>10, <1>11

(* It stays while no node commits more.                                    *)
LEMMA EverStays ==
  ASSUME TypeOK, TypeOK', Counting, Server # {}, CommittedIsKept, EverStep,
         \A i \in Server : /\ commitIndex'[i] <= Len(log'[i])
                           /\ \/ commitIndex'[i] <= Len(everCommitted)
                              \/ commitIndex'[i] = commitIndex[i]
  PROVE  everCommitted' = everCommitted
<1>1. everCommitted \in Seq(Entry)
  BY DEF CommittedIsKept
<1>2. \A i \in Server : /\ commitIndex'[i] \in Nat /\ Len(everCommitted) \in Nat
                        /\ commitIndex'[i] <= Len(everCommitted)
  <2>1. \A i \in Server : commitIndex'[i] \in Nat
    BY SMTT(30) DEF TypeOK, Index
  <2> QED
    BY <2>1, CommitFacts
<1>3. \A i \in Server : ~(commitIndex'[i] > Len(everCommitted))
  BY <1>2, SMTT(30)
<1> QED
  BY <1>1, <1>3, EverChoice

-----------------------------------------------------------------------------
(* Steps that leave the logs alone.                                        *)

(* A step that leaves the logs and what was committed alone keeps all that *)
(* is said of them.                                                        *)
LEMMA SameStore ==
  ASSUME RestartTypeOK, TypeOK', LogsNeverDiverge, TermsAscend, IndexIsPlace,
         LiveRequestsAgree, RequestIsOrdered, CommittedIsKept,
         UNCHANGED <<log, restarted, everCommitted>>,
         \A i \in Server : currentTerm'[i] >= currentTerm[i],
         \A i \in Server : commitIndex'[i] <= Len(everCommitted)
  PROVE  /\ LogsNeverDiverge' /\ TermsAscend' /\ IndexIsPlace' /\ CommittedIsKept'
         /\ appendRequests' = appendRequests => LiveRequestsAgree' /\ RequestIsOrdered'
<1>t. /\ currentTerm \in [Server -> Nat] /\ currentTerm' \in [Server -> Nat]
  BY SMTT(30) DEF RestartTypeOK, TypeOK, Term
<1>1. LogsNeverDiverge' /\ IndexIsPlace'
  BY DEF LogsNeverDiverge, IndexIsPlace
<1>2. TermsAscend'
  <2> SUFFICES ASSUME NEW i \in Server, NEW k \in 1..Len(log[i])
               PROVE  /\ log[i][k].term <= currentTerm'[i]
                      /\ \A l \in k..Len(log[i]) : log[i][k].term <= log[i][l].term
    BY DEF TermsAscend
  <2>1. log[i][k].term \in Nat
    BY LogFacts DEF RestartTypeOK
  <2>2. /\ log[i][k].term <= currentTerm[i]
        /\ \A l \in k..Len(log[i]) : log[i][k].term <= log[i][l].term
    BY DEF TermsAscend
  <2> QED
    BY <2>1, <2>2, <1>t, SMTT(30)
<1>3. CommittedIsKept'
  BY DEF CommittedIsKept
<1>4. ASSUME appendRequests' = appendRequests
      PROVE  LiveRequestsAgree' /\ RequestIsOrdered'
  <2>1. ASSUME NEW m \in appendRequests, Live(m)' PROVE Live(m)
    <3>1. m.to \in Server /\ m.args.term \in Nat
      BY RequestFacts DEF RestartTypeOK
    <3> QED
      BY <2>1, <3>1, <1>t, SMTT(30) DEF Live
  <2>2. LiveRequestsAgree'
    BY <2>1, <1>4 DEF LiveRequestsAgree
  <2>3. RequestIsOrdered'
    BY <1>4 DEF RequestIsOrdered, Ordered
  <2> QED
    BY <2>2, <2>3
<1> QED
  BY <1>1, <1>2, <1>3, <1>4

(* So does it keep what the applier has sent on applyCh.                   *)
LEMMA SameApplied ==
  ASSUME AppliedFromLog, UNCHANGED <<log, commitIndex, applied>>
  PROVE  AppliedFromLog'
  BY DEF AppliedFromLog

(* So does it keep what followers acknowledged.                            *)
LEMMA SameMatch ==
  ASSUME MatchIsKept, UNCHANGED <<log, restarted, matchIndex, call>>
  PROVE  MatchIsKept'
  BY DEF MatchIsKept

(* A leader gives way to a term that some other node has reached.          *)
LEMMA DeposedStays ==
  ASSUME RestartTypeOK, TypeOK', DeposedByHigherTerm, UNCHANGED <<restarted, appendRequests>>,
         \A k \in Server : currentTerm'[k] >= currentTerm[k],
         \A i, j \in Server :
            call'[i][j].status = "replied" =>
               call'[i][j] = call[i][j] \/ call'[i][j].reply.term <= currentTerm'[j],
         \A l \in Server : state[l] = "Leader" =>
            \/ state'[l] = "Leader" /\ currentTerm'[l] = currentTerm[l]
            \/ restarted = {} => \E k \in Server \ {l} : currentTerm'[k] > currentTerm[l]
  PROVE  DeposedByHigherTerm'
<1> SUFFICES ASSUME restarted = {}
             PROVE  /\ \A m \in appendRequests :
                          LET l == m.args.leaderId
                          IN \/ state'[l] = "Leader" /\ currentTerm'[l] = m.args.term
                             \/ \E k \in Server \ {l} : currentTerm'[k] > m.args.term
                    /\ \A i, j \in Server : call'[i][j].status = "replied"
                          => call'[i][j].reply.term <= currentTerm'[j]
  BY DEF DeposedByHigherTerm
<1>t. /\ currentTerm \in [Server -> Nat] /\ currentTerm' \in [Server -> Nat]
  BY SMTT(30) DEF RestartTypeOK, TypeOK, Term
<1>1. ASSUME NEW m \in appendRequests
      PROVE  LET l == m.args.leaderId
             IN \/ state'[l] = "Leader" /\ currentTerm'[l] = m.args.term
                \/ \E k \in Server \ {l} : currentTerm'[k] > m.args.term
  <2> DEFINE l == m.args.leaderId
  <2>t. l \in Server /\ m.args.term \in Nat
    BY RequestFacts DEF RestartTypeOK
  <2>1. CASE state[l] = "Leader" /\ currentTerm[l] = m.args.term
    BY <2>1, <2>t
  <2>2. CASE \E k \in Server \ {l} : currentTerm[k] > m.args.term
    BY <2>2, <2>t, <1>t, SMTT(30)
  <2> QED
    BY <2>1, <2>2 DEF DeposedByHigherTerm
<1>2. ASSUME NEW i \in Server, NEW j \in Server, call'[i][j].status = "replied"
      PROVE  call'[i][j].reply.term <= currentTerm'[j]
  <2>1. CASE call'[i][j] = call[i][j]
    <3>1. call[i][j].reply.term <= currentTerm[j] /\ call[i][j].reply.term \in Nat
      <4>1. call[i][j].reply \in AppendEntriesReply
        BY <1>2, <2>1, CallFacts DEF RestartTypeOK
      <4>2. call[i][j].reply.term \in Nat
        BY <4>1, SMTT(30) DEF AppendEntriesReply, Term
      <4> QED
        BY <1>2, <2>1, <4>2 DEF DeposedByHigherTerm
    <3> QED
      BY <2>1, <3>1, <1>t, SMTT(30)
  <2> QED
    BY <1>2, <2>1
<1> QED
  BY <1>1, <1>2

-----------------------------------------------------------------------------
(* The steps.                                                              *)

Rest == VoteInv /\ RequestInv /\ StoreInv

(* The parts of RestartInv as the lemmas above name them.                  *)
LEMMA Parts ==
  ASSUME RestartInv
  PROVE  /\ RestartTypeOK /\ TypeOK /\ Local /\ Elected /\ OwnVoteKept /\ VoteRequestOrigin
         /\ LeaderIsKept /\ RequestIsOrdered /\ DeposedByHigherTerm
         /\ \A m \in appendRequests : Traced(m)
         /\ LogsNeverDiverge /\ TermsAscend /\ IndexIsPlace /\ AppliedFromLog
         /\ LiveRequestsAgree /\ LeaderCovers /\ MatchIsKept /\ CommittedIsKept
         /\ \A i \in Server : commitIndex[i] <= Len(log[i])
  BY DEF RestartInv, RestartTypeOK, VoteInv, RequestInv, StoreInv, Local, Elected, Traced,
         RequestIsKept, AppliedFromLog

(* A step that leaves all logs and commit indices alone.                   *)
LEMMA LogsStay ==
  ASSUME Counting, Server # {}, RestartInv, TypeOK', EverStep,
         UNCHANGED <<log, commitIndex, appendRequests, restarted>>,
         \A k \in Server : currentTerm'[k] >= currentTerm[k],
         Local', Elected', \A m \in appendRequests : Traced(m)',
         LeaderCovers', AppliedFromLog', MatchIsKept', DeposedByHigherTerm'
  PROVE  Rest'
<1>1. everCommitted' = everCommitted
  BY Parts, EverStays
<1>2. /\ LogsNeverDiverge' /\ TermsAscend' /\ IndexIsPlace' /\ CommittedIsKept'
      /\ LiveRequestsAgree' /\ RequestIsOrdered'
  <2>1. \A i \in Server : commitIndex'[i] <= Len(everCommitted)
    BY Parts DEF CommittedIsKept
  <2> QED
    BY <1>1, <2>1, Parts, SameStore
<1>3. RequestIsKept'
  BY DEF RequestIsKept, Traced
<1> QED
  BY <1>2, <1>3 DEF Rest, VoteInv, RequestInv, StoreInv, Local, Elected

(* A Mild one.                                                             *)
LEMMA MildStep ==
  ASSUME Counting, Server # {}, RestartInv, TypeOK', EverStep, Mild, Local',
         UNCHANGED <<log, commitIndex, appendRequests>>,
         AppliedFromLog', MatchIsKept', DeposedByHigherTerm'
  PROVE  Rest'
<1>1. LogStep /\ LeaderCovers'
  BY Parts, QuietKeepsCovers
<1>2. Elected'
  BY Parts, MildKeepsVotes
<1>3. \A m \in appendRequests : Traced(m)'
  BY <1>1, Parts, MildKeepsTraces
<1>4. restarted' = restarted /\ \A k \in Server : currentTerm'[k] >= currentTerm[k]
  BY DEF Mild, Calm
<1> QED
  BY <1>1, <1>2, <1>3, <1>4, LogsStay

(* One that, besides, deposes no leader.                                   *)
LEMMA QuietStep ==
  ASSUME Counting, Server # {}, RestartInv, TypeOK', EverStep, Mild, Local',
         UNCHANGED <<log, commitIndex, appendRequests, applied, matchIndex, call>>,
         \A l \in Server : state[l] = "Leader" =>
            \/ state'[l] = "Leader" /\ currentTerm'[l] = currentTerm[l]
            \/ restarted = {} => \E k \in Server \ {l} : currentTerm'[k] > currentTerm[l]
  PROVE  Rest'
<1>1. restarted' = restarted /\ \A k \in Server : currentTerm'[k] >= currentTerm[k]
  BY DEF Mild, Calm
<1>2. AppliedFromLog'
  BY Parts, SameApplied
<1>3. MatchIsKept'
  BY <1>1, Parts, SameMatch
<1>4. DeposedByHigherTerm'
  BY <1>1, Parts, DeposedStays
<1> QED
  BY <1>2, <1>3, <1>4, MildStep

(* The run goroutine, as long as it neither campaigns nor wins.            *)
LEMMA RunStep ==
  ASSUME Counting, Server # {}, RestartInv, TypeOK', EverStep, UNCHANGED <<restarted, orphans>>,
         NEW i \in Server,
         \/ runFollower(i) \/ run(i) \/ ElectionExpires(i)
         \/ \E r \in voteReplies : CountVote(i, r) /\ state'[i] # "Leader"
  PROVE  Rest'
<1>1. /\ UNCHANGED <<log, commitIndex, appendRequests, applied, call>>
      /\ state[i] # "Leader" /\ matchIndex' = matchIndex
      /\ \A l \in Server : l # i => state'[l] = state[l] /\ currentTerm'[l] = currentTerm[l]
  <2>1. CASE runFollower(i) \/ run(i)
    BY <2>1, Parts DEF runFollower, run, nodeVars, logVars, leaderVars, appendVars, TypeOK
  <2>2. CASE ElectionExpires(i)
    BY <2>2, Parts DEF ElectionExpires, nodeVars, logVars, leaderVars, appendVars, LeaderIsKept
  <2>3. ASSUME NEW r \in voteReplies, CountVote(i, r), state'[i] # "Leader"
        PROVE  /\ UNCHANGED <<log, commitIndex, appendRequests, applied, call>>
               /\ state[i] # "Leader" /\ matchIndex' = matchIndex
               /\ \A l \in Server : l # i => state'[l] = state[l] /\ currentTerm'[l] = currentTerm[l]
    <3>1. /\ UNCHANGED <<log, commitIndex, appendRequests, applied, call>>
          /\ state[i] # "Leader"
      BY <2>3, Parts DEF CountVote, logVars, appendVars, LeaderIsKept
    <3>2. ~becomeLeaderLocked(i)
      BY <2>3, Parts DEF becomeLeaderLocked, TypeOK
    <3>3. \/ UNCHANGED <<nodeVars, leaderVars>>
          \/ UNCHANGED leaderVars /\ becomeFollowerLocked(i, r.reply.term)
      BY <2>3, <3>2 DEF CountVote
    <3>4. state \in [Server -> {"Follower", "Candidate", "Leader"}] /\ currentTerm \in [Server -> Term]
      BY Parts DEF TypeOK
    <3>5. \A l \in Server : l # i => state'[l] = state[l] /\ currentTerm'[l] = currentTerm[l]
      <4>1. CASE UNCHANGED nodeVars
        BY <4>1 DEF nodeVars
      <4>2. CASE becomeFollowerLocked(i, r.reply.term)
        <5>1. /\ currentTerm' = [currentTerm EXCEPT ![i] = currentTerm'[i]]
              /\ state' = [state EXCEPT ![i] = "Follower"]
          BY <4>2, <3>4 DEF becomeFollowerLocked
        <5> QED
          BY <5>1, <3>4
      <4> QED
        BY <4>1, <4>2, <3>3
    <3>6. matchIndex' = matchIndex
      BY <3>3 DEF leaderVars
    <3> QED
      BY <3>1, <3>5, <3>6
  <2> QED
    BY <2>1, <2>2, <2>3
<1>2. Mild /\ Local'
  <2>1. CASE runFollower(i) \/ run(i)
    BY <2>1, Parts, RunIsMild
  <2>2. CASE ElectionExpires(i) \/ \E r \in voteReplies : CountVote(i, r) /\ state'[i] # "Leader"
    <3>1. pc[i] = "election"
      BY <2>2 DEF ElectionExpires, CountVote
    <3> QED
      BY <2>2, <3>1, Parts, CountingIsMild
  <2> QED
    BY <2>1, <2>2
<1> QED
  BY <1>1, <1>2, QuietStep

(* The applier sends the next entry of the log.                            *)
LEMMA ApplyStep ==
  ASSUME Counting, Server # {}, RestartInv, TypeOK', EverStep, UNCHANGED <<restarted, orphans>>,
         NEW i \in Server, applyCommittedEntries(i)
  PROVE  Rest' /\ applied' \in [Server -> Seq(Entry)]
<1> DEFINE n == Len(applied[i]) + 1
<1>1. /\ Len(applied[i]) < commitIndex[i]
      /\ applied' = [applied EXCEPT ![i] = Append(applied[i], log[i][n])]
      /\ UNCHANGED <<nodeVars, runVars, voteVars>>
      /\ UNCHANGED <<log, commitIndex, appendRequests, matchIndex, call, state, currentTerm>>
  BY DEF applyCommittedEntries, leaderVars, appendVars, nodeVars
<1>2. /\ applied[i] \in Seq(Entry) /\ log[i] \in Seq(Entry) /\ commitIndex[i] \in Nat
      /\ commitIndex[i] <= Len(log[i]) /\ IsPrefixOf(applied[i], log[i])
      /\ applied \in [Server -> Seq(Entry)]
  BY Parts, LogFacts, CommitFacts DEF RestartTypeOK, AppliedFromLog
<1>3. n \in 1..Len(log[i]) /\ n <= commitIndex[i] /\ n \in Nat
  BY <1>1, <1>2, SMTT(30)
<1>4. log[i][n] \in Entry
  BY <1>2, <1>3, SMTT(30)
<1>5. /\ Append(applied[i], log[i][n]) \in Seq(Entry)
      /\ Len(Append(applied[i], log[i][n])) = n
      /\ Append(applied[i], log[i][n])[n] = log[i][n]
      /\ \A k \in 1..Len(applied[i]) : Append(applied[i], log[i][n])[k] = applied[i][k]
  BY <1>2, <1>4, SMTT(30)
<1>6. applied' \in [Server -> Seq(Entry)]
  BY <1>1, <1>2, <1>5
<1>7. IsPrefixOf(Append(applied[i], log[i][n]), log[i])
  <2>1. \A k \in 1..n : k = n \/ k \in 1..Len(applied[i])
    BY <1>2, SMTT(30)
  <2>2. \A k \in 1..Len(applied[i]) : applied[i][k] = log[i][k]
    BY <1>2 DEF IsPrefixOf
  <2>3. n <= Len(log[i])
    BY <1>3, SMTT(30)
  <2> HIDE DEF n
  <2> QED
    BY <2>1, <2>2, <2>3, <1>5 DEF IsPrefixOf
<1>8. AppliedFromLog'
  <2> HIDE DEF n
  <2>1. applied'[i] = Append(applied[i], log[i][n]) /\ \A k \in Server : k # i => applied'[k] = applied[k]
    BY <1>1, <1>2
  <2>2. Len(applied'[i]) <= commitIndex[i]
    BY <2>1, <1>3, <1>5
  <2> QED
    BY <2>1, <2>2, <1>1, <1>2, <1>7, Parts DEF AppliedFromLog
<1>9. Mild /\ Local'
  BY <1>1, Parts, QuietIsMild
<1>10. MatchIsKept' /\ DeposedByHigherTerm'
  BY <1>1, Parts DEF MatchIsKept, DeposedByHigherTerm
<1> QED
  BY <1>1, <1>6, <1>8, <1>9, <1>10, MildStep

(* A new campaign.                                                         *)
LEMMA CampaignStep ==
  ASSUME Counting, Server # {}, RestartInv, TypeOK', EverStep, UNCHANGED <<restarted, orphans>>,
         NEW i \in Server, runCandidate(i)
  PROVE  Rest'
<1>1. Local' /\ Campaigns(i)
  BY Parts, CampaignEffect
<1>2. Elected' /\ \A m \in appendRequests : Traced(m)'
  BY <1>1, Parts, CampaignKeepsVotes
<1>3. LeaderCovers'
  BY <1>1, Parts, CampaignKeepsCovers
<1>4. \A k \in Server : /\ currentTerm'[k] >= currentTerm[k]
                        /\ state[k] = "Leader" => state'[k] = "Leader" /\ currentTerm'[k] = currentTerm[k]
  <2>1. currentTerm \in [Server -> Nat]
    BY Parts, TermFacts
  <2>2. /\ currentTerm'[i] = currentTerm[i] + 1 /\ state[i] # "Leader" /\ state' = state
        /\ \A k \in Server : k # i => currentTerm'[k] = currentTerm[k]
    BY <1>1 DEF Campaigns
  <2> QED
    BY <2>1, <2>2, SMTT(30)
<1>5. UNCHANGED <<log, commitIndex, appendRequests, applied, matchIndex, call>>
  BY <1>1 DEF Campaigns
<1>6. AppliedFromLog' /\ MatchIsKept'
  BY <1>5, Parts, SameApplied, SameMatch
<1>7. DeposedByHigherTerm'
  BY <1>4, <1>5, Parts, DeposedStays
<1> QED
  BY <1>1, <1>2, <1>3, <1>4, <1>5, <1>6, <1>7, LogsStay

(* A won election.                                                         *)
LEMMA WinStep ==
  ASSUME Counting, Server # {}, Unanimous, RestartInv, TypeOK', EverStep, UNCHANGED <<restarted, orphans>>,
         NEW i \in Server, NEW r \in voteReplies, CountVote(i, r), state'[i] = "Leader"
  PROVE  Rest'
<1>1. Local' /\ Wins(i)
  BY Parts, WinEffect
<1>2. Elected' /\ \A m \in appendRequests : Traced(m)'
  BY <1>1, Parts, WinKeepsVotes
<1>3. LeaderCovers'
  BY <1>1, Parts, WinKeepsCovers
<1>4. \A k \in Server : /\ currentTerm'[k] >= currentTerm[k] /\ currentTerm'[k] = currentTerm[k]
                        /\ state[k] = "Leader" => state'[k] = "Leader"
  <2>1. currentTerm \in [Server -> Nat]
    BY Parts, TermFacts
  <2>2. currentTerm' = currentTerm /\ \A k \in Server : state'[k] = state[k] \/ state'[k] = "Leader"
    BY <1>1 DEF Wins
  <2> QED
    BY <2>1, <2>2, SMTT(30)
<1>5. UNCHANGED <<log, commitIndex, appendRequests, applied, call>>
  BY <1>1 DEF Wins
<1>6. AppliedFromLog'
  BY <1>5, Parts, SameApplied
<1>7. MatchIsKept'
  <2>1. ASSUME NEW k \in Server, NEW j \in Server \ restarted
        PROVE  matchIndex'[k][j] <= Len(log[j])
    <3>1. Len(log[j]) \in Nat /\ matchIndex[k][j] <= Len(log[j])
      BY Parts, LogFacts DEF MatchIsKept
    <3>2. k # i => matchIndex'[k] = matchIndex[k]
      BY <1>1, Parts DEF Wins, TypeOK
    <3>3. k = i => matchIndex'[k][j] = IF j = i THEN Len(log[i]) ELSE 0
      BY <1>1, Parts DEF Wins, TypeOK
    <3> QED
      BY <3>1, <3>2, <3>3, SMTT(30)
  <2> QED
    BY <2>1, <1>5, Parts DEF MatchIsKept
<1>8. DeposedByHigherTerm'
  BY <1>4, <1>5, Parts, DeposedStays
<1> QED
  BY <1>1, <1>2, <1>3, <1>4, <1>5, <1>6, <1>7, <1>8, LogsStay

(* A vote request, of a candidate that listens or of one that is gone.     *)
LEMMA VoteStep ==
  ASSUME Counting, Server # {}, RestartInv, TypeOK', EverStep, NEW m,
         \/ m \in voteRequests /\ HandleRequestVote(m) /\ UNCHANGED <<restarted, orphans>>
         \/ m \in orphans /\ HandleOrphan(m)
  PROVE  Rest'
<1> DEFINE v == m.to
           c == m.args.candidateId
           t == m.args.term
<1>t. currentTerm \in [Server -> Nat] /\ electionTerm \in [Server -> Nat]
  BY Parts, TermFacts
<1>1. v \in Server /\ c \in Server /\ t \in Nat /\ v # c
  <2>1. m.to \in Server /\ m.args \in RequestVoteArgs
    BY Parts DEF TypeOK, RestartTypeOK
  <2>2. v # c
    BY Parts DEF VoteRequestOrigin, Local, VotesInPlay
  <2>3. c \in Server /\ t \in Nat
    BY <2>1, SMTT(30) DEF RequestVoteArgs, Term
  <2> QED
    BY <2>1, <2>2, <2>3
<1>2. /\ Calm
      /\ UNCHANGED <<log, commitIndex, appendRequests, applied, matchIndex, call>>
      /\ \A k \in Server : k # v => currentTerm'[k] = currentTerm[k]
      /\ ~(t > currentTerm[v]) => state'[v] = state[v]
  BY <1>1, Parts, VotingIsCalm
<1>3. restarted' = restarted /\ \A k \in Server : currentTerm'[k] >= currentTerm[k]
  BY <1>2 DEF Calm
<1>4. AppliedFromLog' /\ MatchIsKept'
  BY <1>2, <1>3, Parts, SameApplied, SameMatch
<1>5. DeposedByHigherTerm'
  <2>1. \A k \in Server : k # v => state'[k] = state[k]
    BY <1>1, Parts DEF HandleRequestVote, HandleOrphan, TypeOK
  <2>2. ASSUME ~(t > currentTerm[v]) PROVE currentTerm'[v] = currentTerm[v]
    BY <2>2, <1>1, <1>t DEF HandleRequestVote, HandleOrphan
  <2>3. ASSUME t > currentTerm[v], restarted = {} PROVE currentTerm'[c] > currentTerm[v]
    <3>1. m \in voteRequests
      BY <2>3, Parts DEF Local, VotesInPlay
    <3>2. t <= electionTerm[c] /\ electionTerm[c] <= currentTerm[c]
      BY <3>1, <1>1, Parts DEF VoteRequestOrigin, OwnVoteKept
    <3>3. currentTerm'[c] = currentTerm[c]
      BY <1>1, <1>2
    <3> QED
      BY <2>3, <3>2, <3>3, <1>1, <1>t, SMTT(30)
  <2>4. ASSUME NEW l \in Server, state[l] = "Leader"
        PROVE  \/ state'[l] = "Leader" /\ currentTerm'[l] = currentTerm[l]
               \/ restarted = {} => \E k \in Server \ {l} : currentTerm'[k] > currentTerm[l]
    BY <2>1, <2>2, <2>3, <2>4, <1>1, <1>2
  <2> QED
    BY <2>4, <1>2, <1>3, Parts, DeposedStays
<1>6. ASSUME Mild, Local' PROVE Rest'
  BY <1>2, <1>4, <1>5, <1>6, MildStep
<1>7. CASE m \in orphans /\ HandleOrphan(m)
  BY <1>6, <1>7, Parts, OrphanIsMild
<1>8. CASE m \in voteRequests /\ HandleRequestVote(m) /\ UNCHANGED <<restarted, orphans>>
  <2>1. Local' /\ (Mild \/ NewVote(m))
    BY <1>8, Parts, VoteEffect
  <2>2. ASSUME NewVote(m) PROVE Rest'
    <3>1. Elected'
      BY <2>2, <1>1, <1>2, Parts, NewVoteKeepsVotes
    <3>2. \A n \in appendRequests : Traced(n)'
      BY <2>2, <1>1, <1>2, Parts, NewVoteKeepsTraces
    <3>3. LeaderCovers'
      BY <2>2, <1>1, <1>2, <1>8, Parts, NewVoteKeepsCovers
    <3> QED
      BY <2>1, <3>1, <3>2, <3>3, <1>2, <1>3, <1>4, <1>5, LogsStay
  <2> QED
    BY <2>1, <2>2, <1>6
<1> QED
  BY <1>7, <1>8

(* A replication worker gives up waiting.                                  *)
LEMMA TimeoutStep ==
  ASSUME Counting, Server # {}, RestartInv, TypeOK', EverStep, UNCHANGED <<restarted, orphans>>,
         NEW i \in Server, NEW j \in Server, ReplicationTimeout(i, j)
  PROVE  Rest'
<1>1. /\ call' = [call EXCEPT ![i][j] = NoCall]
      /\ UNCHANGED <<nodeVars, runVars, voteVars>>
      /\ UNCHANGED <<log, commitIndex, applied, matchIndex, appendRequests, state, currentTerm>>
  BY DEF ReplicationTimeout, nodeVars, logVars, leaderVars
<1>2. Mild /\ Local'
  BY <1>1, Parts, QuietIsMild
<1>3. \A a, b \in Server : call'[a][b].status = "replied" => call'[a][b] = call[a][b]
  <2> SUFFICES ASSUME NEW a \in Server, NEW b \in Server, call'[a][b].status = "replied"
               PROVE  call'[a][b] = call[a][b]
    OBVIOUS
  <2>1. call'[i][j] = NoCall /\ (a # i \/ b # j => call'[a][b] = call[a][b])
    <3>1. call \in [Server -> [Server -> Call]] /\ call' = [call EXCEPT ![i][j] = NoCall]
      BY <1>1, Parts DEF TypeOK
    <3> QED
      BY <3>1, SMTT(30)
  <2>2. NoCall.status # "replied"
    BY SMTT(30) DEF NoCall
  <2> QED
    BY <2>1, <2>2
<1>4. MatchIsKept'
  BY <1>1, <1>3, Parts DEF MatchIsKept
<1>5. DeposedByHigherTerm'
  BY <1>1, <1>3, Parts DEF DeposedByHigherTerm
<1>6. AppliedFromLog'
  BY <1>1, Parts, SameApplied
<1> QED
  BY <1>1, <1>2, <1>4, <1>5, <1>6, MildStep

(* A leader sends a piece of its log, in order and agreeing with all that  *)
(* is stored or still to be accepted.                                      *)
LEMMA SendStep ==
  ASSUME Counting, Server # {}, RestartInv, TypeOK', EverStep, UNCHANGED <<restarted, orphans>>,
         NEW i \in Server, NEW j \in Server, replicateToFollower(i, j)
  PROVE  Rest'
<1>1. /\ j # i /\ state[i] = "Leader" /\ call[i][j] = NoCall
      /\ UNCHANGED <<nodeVars, runVars, voteVars>>
      /\ UNCHANGED <<log, commitIndex, applied, matchIndex, state, currentTerm, electionTerm, pc>>
  BY DEF replicateToFollower, nodeVars, logVars, leaderVars, runVars
<1>2. PICK a \in AppendEntriesArgs :
        /\ a.term = currentTerm[i] /\ a.leaderId = i
        /\ a.prevLogIndex \in 0..Len(log[i])
        /\ a.prevLogTerm = TermAt(log[i], a.prevLogIndex)
        /\ a.entries = SubSeq(log[i], a.prevLogIndex + 1, Len(log[i]))
        /\ a.leaderCommit = commitIndex[i]
        /\ call' = [call EXCEPT ![i][j] = Calling(a)]
        /\ appendRequests' = appendRequests \cup {[to |-> j, args |-> a]}
  BY Parts, SentArgs
<1> DEFINE m == [to |-> j, args |-> a]
           p == a.prevLogIndex
           n == Len(a.entries)
<1>m. m.to = j /\ m.args = a
  OBVIOUS
<1> HIDE DEF m
<1>3. Mild /\ Local'
  BY <1>1, Parts, QuietIsMild
<1>l. log[i] \in Seq(Entry) /\ Len(log[i]) \in Nat
  BY Parts, LogFacts
<1>4. /\ p \in Nat /\ p <= Len(log[i]) /\ n \in Nat /\ p + n = Len(log[i])
      /\ \A k \in 1..n : p + k \in 1..Len(log[i]) /\ a.entries[k] = log[i][p + k]
  <2>1. n = Len(log[i]) - p /\ \A k \in 1..(Len(log[i]) - p) : a.entries[k] = log[i][p + k]
    <3>1. p \in 0..Len(log[i]) /\ a.entries = SubSeq(log[i], p + 1, Len(log[i]))
      BY <1>2
    <3> QED
      BY <3>1, <1>l, SuffixFacts
  <2>2. p \in Nat /\ p <= Len(log[i]) /\ n \in Nat /\ p + n = Len(log[i])
    <3>1. p \in 0..Len(log[i])
      BY <1>2
    <3> QED
      BY <2>1, <3>1, <1>l, SMTT(30)
  <2>3. \A k \in 1..n : p + k \in 1..Len(log[i])
    BY <2>2, <1>l, SMTT(30)
  <2> QED
    BY <2>1, <2>2, <2>3
<1>5. everCommitted' = everCommitted
  BY <1>1, Parts, EverStays
<1>6. /\ LogsNeverDiverge' /\ TermsAscend' /\ IndexIsPlace' /\ CommittedIsKept'
  <2>1. \A k \in Server : commitIndex'[k] <= Len(everCommitted)
    BY <1>1, Parts DEF CommittedIsKept
  <2>2. \A k \in Server : currentTerm'[k] >= currentTerm[k]
    BY <1>3 DEF Mild, Calm
  <2> QED
    BY <1>1, <1>5, <2>1, <2>2, Parts, SameStore
<1>7. LogStep /\ LeaderCovers'
  BY <1>1, <1>3, Parts, QuietKeepsCovers
<1>8. Elected'
  BY <1>3, Parts, MildKeepsVotes
<1>9. AppliedFromLog'
  BY <1>1, Parts, SameApplied
<1>10. \A x, y \in Server : call'[x][y].status = "replied" => call'[x][y] = call[x][y]
  <2> SUFFICES ASSUME NEW x \in Server, NEW y \in Server, call'[x][y].status = "replied"
               PROVE  call'[x][y] = call[x][y]
    OBVIOUS
  <2>1. call'[i][j] = Calling(a) /\ (x # i \/ y # j => call'[x][y] = call[x][y])
    <3>1. call \in [Server -> [Server -> Call]] /\ call' = [call EXCEPT ![i][j] = Calling(a)]
      BY <1>2, Parts DEF TypeOK
    <3> QED
      BY <3>1, SMTT(30)
  <2>2. Calling(a).status # "replied"
    BY SMTT(30) DEF Calling
  <2> QED
    BY <2>1, <2>2
<1>11. MatchIsKept'
  BY <1>1, <1>10, Parts DEF MatchIsKept
<1>12. DeposedByHigherTerm'
  <2>1. state'[m.args.leaderId] = "Leader" /\ currentTerm'[m.args.leaderId] = m.args.term
    BY <1>1, <1>2, <1>m
  <2>2. appendRequests' = appendRequests \cup {m}
    BY <1>2 DEF m
  <2> QED
    BY <2>1, <2>2, <1>1, <1>10, Parts DEF DeposedByHigherTerm
<1>13. Kept(m)'
  <2>1. /\ electionTerm[i] = currentTerm[i] /\ currentTerm[i] > 0
        /\ \A k \in Server \ (restarted \cup {i}) :
              currentTerm[k] >= currentTerm[i] /\ electionTerm[k] # currentTerm[i]
    BY <1>1, Parts, LeaderTerm
  <2>2. \A r \in restarted \ {i} : StillCandidate(r) => ~Granted(i, r)
    BY <1>1, Parts, LeaderDoesNotVote DEF RestartTypeOK
  <2>3. \A r \in restarted \ {i} : StillCandidate(r)' => ~Granted(i, r)'
    BY <2>2, <1>3, Parts DEF Mild, Calm, RestartTypeOK
  <2> QED
    BY <2>1, <2>3, <1>1, <1>2, <1>m DEF Kept
<1>14. Backed(m)'
  <2>1. electionTerm[i] = currentTerm[i] /\ pc[i] = "run" /\ currentTerm[i] \in Nat
    BY <1>1, Parts, LeaderTerm DEF LeaderIsKept
  <2>2. a.term <= electionTerm[i] /\ p + n <= Len(log[i])
    BY <2>1, <1>2, <1>4, <1>l, SMTT(30)
  <2> QED
    BY <2>1, <2>2, <1>1, <1>2, <1>4, <1>m DEF Backed
<1>15. Ordered(m)'
  <2>1. \A k \in 1..n :
          /\ a.entries[k].index = p + k /\ a.entries[k].term <= a.term
          /\ \A l \in k..n : a.entries[k].term <= a.entries[l].term
    <3> SUFFICES ASSUME NEW k \in 1..n
                 PROVE  /\ a.entries[k].index = p + k /\ a.entries[k].term <= a.term
                        /\ \A l \in k..n : a.entries[k].term <= a.entries[l].term
      OBVIOUS
    <3>1. log[i][p + k].index = p + k /\ log[i][p + k].term <= currentTerm[i]
      BY <1>4, Parts DEF IndexIsPlace, TermsAscend
    <3>2. ASSUME NEW l \in k..n PROVE a.entries[k].term <= a.entries[l].term
      <4>1. l \in 1..n /\ p + l \in (p + k)..Len(log[i])
        BY <1>4, <1>l, SMTT(30)
      <4>2. log[i][p + k].term <= log[i][p + l].term
        BY <4>1, <1>4, Parts DEF TermsAscend
      <4> QED
        BY <4>1, <4>2, <1>4
    <3> QED
      BY <3>1, <3>2, <1>2, <1>4
  <2>2. \A k \in 1..n : a.prevLogTerm <= a.entries[k].term
    <3> SUFFICES ASSUME NEW k \in 1..n PROVE a.prevLogTerm <= a.entries[k].term
      OBVIOUS
    <3>1. log[i][p + k].term \in Nat
      BY <1>4, Parts, LogFacts
    <3>2. CASE p = 0
      BY <3>1, <3>2, <1>2, <1>4, SMTT(30) DEF TermAt
    <3>3. CASE p # 0
      <4>1. p \in 1..Len(log[i]) /\ p + k \in p..Len(log[i])
        BY <3>3, <1>4, <1>l, SMTT(30)
      <4>2. log[i][p].term <= log[i][p + k].term
        BY <4>1, Parts DEF TermsAscend
      <4> QED
        BY <4>2, <3>3, <1>2, <1>4 DEF TermAt
    <3> QED
      BY <3>2, <3>3
  <2>3. a.leaderCommit <= p + n /\ a.leaderCommit <= Len(everCommitted)
    BY <1>2, <1>4, Parts DEF CommittedIsKept
  <2> QED
    BY <2>1, <2>2, <2>3, <1>5, <1>m DEF Ordered
<1>16. \A k \in Server : Fits(m, log[k])
  <2> SUFFICES ASSUME NEW k \in Server, NEW q \in 1..n, p + q <= Len(log[k])
               PROVE  log[k][p + q] = a.entries[q]
    BY <1>m DEF Fits
  <2> QED
    BY <1>4, Parts DEF LogsNeverDiverge, Agree
<1>17. Fits(m, everCommitted)
  <2> SUFFICES ASSUME NEW q \in 1..n, p + q <= Len(everCommitted)
               PROVE  everCommitted[p + q] = a.entries[q]
    BY <1>m DEF Fits
  <2>1. Len(everCommitted) \in Nat
    BY Parts, CommitFacts
  <2>2. p + q \in 1..Len(everCommitted) /\ p + q <= Len(log[i])
    BY <2>1, <1>4, <1>l, SMTT(30)
  <2> QED
    BY <2>2, <1>4, Parts DEF CommittedIsKept, Agree
<1>18. ASSUME NEW o \in appendRequests, Live(o) PROVE SameEntries(m, o) /\ SameEntries(o, m)
  <2>1. Fits(o, log[i])
    BY <1>18, Parts DEF LiveRequestsAgree
  <2>2. ASSUME NEW q \in 1..n, NEW l \in 1..Len(o.args.entries), p + q = o.args.prevLogIndex + l
        PROVE  a.entries[q] = o.args.entries[l]
    <3>1. p + q <= Len(log[i]) /\ a.entries[q] = log[i][p + q]
      BY <1>4, <1>l, SMTT(30)
    <3> QED
      BY <3>1, <2>1, <2>2 DEF Fits
  <2> QED
    BY <2>2, <1>m DEF SameEntries
<1>19. SameEntries(m, m)
  <2>1. ASSUME NEW q \in 1..n, NEW l \in 1..n, p + q = p + l PROVE a.entries[q] = a.entries[l]
    BY <2>1, <1>4
  <2> QED
    BY <2>1, <1>m DEF SameEntries
<1>20. appendRequests' = appendRequests \cup {m}
  BY <1>2 DEF m
<1>21. LiveRequestsAgree'
  <2>1. \A o \in appendRequests : Live(o)' => Live(o)
    BY <1>1 DEF Live
  <2> SUFFICES ASSUME NEW x \in appendRequests', Live(x)'
               PROVE  /\ \A k \in Server : Fits(x, log[k])
                      /\ Fits(x, everCommitted)
                      /\ \A y \in appendRequests' : Live(y)' => SameEntries(x, y)
    BY <1>1, <1>5 DEF LiveRequestsAgree
  <2>2. CASE x = m
    BY <2>1, <2>2, <1>16, <1>17, <1>18, <1>19, <1>20
  <2>3. CASE x \in appendRequests
    BY <2>1, <2>3, <1>18, <1>20, Parts DEF LiveRequestsAgree
  <2> QED
    BY <2>2, <2>3, <1>20
<1>22. RequestIsOrdered'
  BY <1>5, <1>15, <1>20, Parts DEF RequestIsOrdered, Ordered
<1>23. RequestIsKept'
  <2>1. \A o \in appendRequests : Traced(o)'
    BY <1>3, <1>7, Parts, MildKeepsTraces
  <2> QED
    BY <2>1, <1>13, <1>14, <1>20 DEF RequestIsKept, Traced
<1> QED
  BY <1>3, <1>6, <1>7, <1>8, <1>9, <1>11, <1>12, <1>21, <1>22, <1>23
  DEF Rest, VoteInv, RequestInv, StoreInv, Local, Elected
=============================================================================
