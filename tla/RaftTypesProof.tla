--------------------------- MODULE RaftTypesProof ---------------------------
(***************************************************************************)
(* Type correctness of Raft, for any number of servers: TypeOK is          *)
(* inductive by itself, and the work is in the messages (the conversions   *)
(* to int32) and in the log that HandleAppendEntries builds.  Further, the *)
(* facts that the proofs about Raft and about RaftRestart share.           *)
(***************************************************************************)
EXTENDS RaftInductive, TLAPS

USE ZenonT(30)

(* On the modelled range the narrowing to int32 loses nothing.             *)
LEMMA Int32Id == \A n \in 0..MaxInt32 : Int32(n) = n
  BY BoundAssumption, SMTT(30) DEF Int32

(* Every term and index the model reaches fits in an int32.                *)
LEMMA TermBound == Term \subseteq 0..MaxInt32 /\ Index \subseteq 0..MaxInt32
  BY BoundAssumption, SMTT(30) DEF Term, Index

(* LogEntryToProto keeps an entry as it is.                                *)
LEMMA EntryProtoId == \A e \in Entry : LogEntryToProto(e) = e
<1> SUFFICES ASSUME NEW e \in Entry PROVE LogEntryToProto(e) = e
  OBVIOUS
<1>1. Int32(e.term) = e.term /\ Int32(e.index) = e.index
  BY Int32Id, TermBound DEF Entry
<1> QED
  BY <1>1 DEF Entry, LogEntryToProto

(* So do the conversions of vote requests and of both replies.             *)
LEMMA VoteProtoId ==
  /\ \A a \in RequestVoteArgs : RequestVoteArgsToProto(a) = a
  /\ \A r \in RequestVoteReply : RequestVoteReplyToProto(r) = r
  /\ \A r \in AppendEntriesReply : AppendEntriesReplyToProto(r) = r
<1>1. ASSUME NEW a \in RequestVoteArgs PROVE RequestVoteArgsToProto(a) = a
  <2>1. /\ Int32(a.term) = a.term /\ Int32(a.lastLogIndex) = a.lastLogIndex
        /\ Int32(a.lastLogTerm) = a.lastLogTerm
    BY Int32Id, TermBound DEF RequestVoteArgs
  <2> QED
    BY <2>1 DEF RequestVoteArgs, RequestVoteArgsToProto
<1>2. ASSUME NEW r \in RequestVoteReply PROVE RequestVoteReplyToProto(r) = r
  <2>1. Int32(r.term) = r.term
    BY Int32Id, TermBound DEF RequestVoteReply
  <2> QED
    BY <2>1 DEF RequestVoteReply, RequestVoteReplyToProto
<1>3. ASSUME NEW r \in AppendEntriesReply PROVE AppendEntriesReplyToProto(r) = r
  <2>1. Int32(r.term) = r.term
    BY Int32Id, TermBound DEF AppendEntriesReply
  <2> QED
    BY <2>1 DEF AppendEntriesReply, AppendEntriesReplyToProto
<1> QED
  BY <1>1, <1>2, <1>3

(* So does the conversion of an AppendEntries request, entry by entry.     *)
LEMMA AppendProtoId == \A a \in AppendEntriesArgs : AppendEntriesArgsToProto(a) = a
<1> SUFFICES ASSUME NEW a \in AppendEntriesArgs PROVE AppendEntriesArgsToProto(a) = a
  OBVIOUS
<1>1. [k \in 1..Len(a.entries) |-> LogEntryToProto(a.entries[k])] = a.entries
  <2>1. \A k \in 1..Len(a.entries) : LogEntryToProto(a.entries[k]) = a.entries[k]
    BY EntryProtoId, SMTT(30) DEF AppendEntriesArgs
  <2> QED
    BY <2>1, SMTT(30) DEF AppendEntriesArgs
<1>2. /\ Int32(a.term) = a.term /\ Int32(a.prevLogIndex) = a.prevLogIndex
      /\ Int32(a.prevLogTerm) = a.prevLogTerm /\ Int32(a.leaderCommit) = a.leaderCommit
  BY Int32Id, TermBound DEF AppendEntriesArgs
<1> QED
  BY <1>1, <1>2 DEF AppendEntriesArgs, AppendEntriesArgsToProto

-----------------------------------------------------------------------------
(* What the library of finite sets says of the naturals and of Server.     *)
(* The lemmas that need it assume it; the modules that state theorems      *)
(* prove it, at their end, so that only a few proofs have the library's    *)
(* many facts in their context.                                            *)
Counting ==
    /\ \A S \in SUBSET Nat : S # {} => \E k \in S : \A l \in S : k <= l
    /\ \A T \in SUBSET Server :
          Cardinality(T) \in Nat /\ \A S \in SUBSET T : S = T \/ Cardinality(S) < Cardinality(T)
    /\ Cardinality({}) = 0 /\ \A i \in Server : Cardinality({i}) = 1

(* A set of naturals has a least element: the first conflict.              *)
LEMMA MinExists ==
  ASSUME Counting, NEW S \in SUBSET Nat, S # {}
  PROVE  \E k \in S : \A l \in S : k <= l
  BY DEF Counting


(* votesNeeded is the whole cluster for one, two and three nodes.          *)
LEMMA SmallIsUnanimous == Cardinality(Server) \in 1..3 => Unanimous
  BY SMTT(30) DEF Unanimous, VotesNeeded

(* Counting every vote that is needed means counting everyone's.           *)
LEMMA UnanimousWin ==
  ASSUME Counting, Unanimous, NEW V \in SUBSET Server, Cardinality(V) >= VotesNeeded
  PROVE  V = Server
<1>1. /\ Cardinality(V) <= Cardinality(Server)
      /\ Cardinality(V) \in Nat /\ Cardinality(Server) \in Nat
      /\ V = Server \/ Cardinality(V) < Cardinality(Server)
  <2>1. /\ Cardinality(V) \in Nat /\ Cardinality(Server) \in Nat
        /\ V = Server \/ Cardinality(V) < Cardinality(Server)
    BY DEF Counting
  <2> QED
    BY <2>1, SMTT(30)
<1>2. VotesNeeded \in Int
  BY <1>1, SMTT(30) DEF VotesNeeded
<1> QED
  BY <1>1, <1>2, SMTT(30) DEF Unanimous

(* What follows the first p entries of a log, and the first p themselves.  *)
LEMMA SuffixFacts ==
  ASSUME NEW lg \in Seq(Entry), NEW p \in 0..Len(lg)
  PROVE  /\ SubSeq(lg, p + 1, Len(lg)) \in Seq(Entry)
         /\ Len(SubSeq(lg, p + 1, Len(lg))) = Len(lg) - p
         /\ \A k \in 1..(Len(lg) - p) : SubSeq(lg, p + 1, Len(lg))[k] = lg[p + k]
<1>1. SubSeq(lg, p + 1, Len(lg)) \in Seq(Entry)
  BY SMTT(30)
<1>2. Len(SubSeq(lg, p + 1, Len(lg))) = Len(lg) - p
  BY SMTT(30)
<1>3. ASSUME NEW k \in 1..(Len(lg) - p) PROVE SubSeq(lg, p + 1, Len(lg))[k] = lg[p + k]
  BY SMTT(30)
<1> QED
  BY <1>1, <1>2, <1>3

(* The elements of a prefix of a log.                                      *)
LEMMA PrefixFacts ==
  ASSUME NEW lg \in Seq(Entry), NEW p \in 0..Len(lg)
  PROVE  Len(SubSeq(lg, 1, p)) = p /\ \A k \in 1..p : SubSeq(lg, 1, p)[k] = lg[k]
<1>1. Len(SubSeq(lg, 1, p)) = p
  BY SMTT(30)
<1>2. ASSUME NEW k \in 1..p PROVE SubSeq(lg, 1, p)[k] = lg[k]
  BY SMTT(30)
<1> QED
  BY <1>1, <1>2

(* The entries loop of HandleAppendEntries keeps the log well formed.      *)
LEMMA AppendNewType ==
  ASSUME Counting, NEW lg \in Log, NEW a \in AppendEntriesArgs, a.prevLogIndex <= Len(lg)
  PROVE  AppendNew(lg, a.prevLogIndex, a.entries) \in Log
<1> DEFINE prev == a.prevLogIndex
           bad == Conflicts(lg, prev, a.entries)
           first == CHOOSE k \in bad : \A l \in bad : k <= l
           kept == IF bad = {} THEN Len(lg) ELSE prev + first - 1
           last == prev + Len(a.entries)
<1>1. lg \in Seq(Entry) /\ Len(lg) \in Nat /\ Len(lg) <= MaxLog
  BY SMTT(30) DEF Log
<1>2. /\ prev \in Nat /\ a.entries \in Seq(Entry) /\ Len(a.entries) \in Nat
      /\ last <= MaxLog
  BY SMTT(30) DEF AppendEntriesArgs, Index
<1>3. kept \in prev..Len(lg) /\ kept \in Nat
  <2>1. CASE bad = {}
    BY <2>1, <1>1, <1>2, SMTT(30)
  <2>2. CASE bad # {}
    <3>1. bad \in SUBSET Nat
      BY <1>2, SMTT(30) DEF Conflicts
    <3>2. first \in bad
      BY <3>1, <2>2, MinExists
    <3> HIDE DEF first
    <3>3. first \in 1..Len(a.entries) /\ prev + first <= Len(lg)
      BY <3>2 DEF Conflicts
    <3> QED
      BY <3>3, <2>2, <1>1, <1>2, SMTT(30)
  <2> QED
    BY <2>1, <2>2
<1> HIDE DEF kept, bad, first
<1> DEFINE n == IF kept > last THEN kept ELSE last
           new == [k \in 1..n |-> IF k <= kept THEN lg[k] ELSE a.entries[k - prev]]
<1>4. n \in Nat /\ n <= MaxLog
  BY <1>1, <1>2, <1>3, BoundAssumption, SMTT(30)
<1>5. ASSUME NEW k \in 1..n PROVE (IF k <= kept THEN lg[k] ELSE a.entries[k - prev]) \in Entry
  <2>1. CASE k <= kept
    BY <2>1, <1>1, <1>3, <1>4, SMTT(30)
  <2>2. CASE ~(k <= kept)
    BY <2>2, <1>2, <1>3, <1>4, SMTT(30)
  <2> QED
    BY <2>1, <2>2
<1>6. new \in Seq(Entry) /\ Len(new) = n
  BY <1>4, <1>5, SMTT(30)
<1>7. new = AppendNew(lg, a.prevLogIndex, a.entries)
  BY DEF AppendNew, kept, bad, first
<1> HIDE DEF new, n
<1> QED
  BY <1>4, <1>6, <1>7 DEF Log

-----------------------------------------------------------------------------
(* NewNode starts well typed.                                              *)
LEMMA InitType == Init => TypeOK
  BY BoundAssumption, SMTT(30)
  DEF Init, NewNode, TypeOK, Term, Index, Log, Call

(* The term at a place of a log, the dummy entry included, is a term.      *)
LEMMA LastTermType == \A lg \in Log : \A k \in 0..Len(lg) : TermAt(lg, k) \in Term
<1> SUFFICES ASSUME NEW lg \in Log, NEW k \in 0..Len(lg) PROVE TermAt(lg, k) \in Term
  OBVIOUS
<1>1. lg \in Seq(Entry)
  BY DEF Log
<1>2. CASE k = 0
  BY <1>2, BoundAssumption, SMTT(30) DEF TermAt, Term
<1>3. CASE k # 0
  <2>1. lg[k] \in Entry
    BY <1>1, <1>3, SMTT(30)
  <2> QED
    BY <2>1, <1>3 DEF TermAt, Entry
<1> QED
  BY <1>2, <1>3

(* The fields of a request, and the index it reaches.                      *)
LEMMA ArgsFacts ==
  \A a \in AppendEntriesArgs :
     /\ a.term \in Term /\ a.leaderId \in Server /\ a.prevLogTerm \in Term
     /\ a.prevLogIndex \in Index /\ a.leaderCommit \in Index
     /\ a.entries \in Seq(Entry) /\ Len(a.entries) \in Nat
     /\ a.prevLogIndex + Len(a.entries) \in Index
  BY BoundAssumption, SMTT(30) DEF AppendEntriesArgs, Index

(* What replicateToFollower puts on the wire.                              *)
LEMMA SentArgs ==
  ASSUME TypeOK, NEW i \in Server, NEW j \in Server, replicateToFollower(i, j)
  PROVE  \E a \in AppendEntriesArgs :
           /\ a.term = currentTerm[i] /\ a.leaderId = i
           /\ a.prevLogIndex \in 0..Len(log[i])
           /\ a.prevLogTerm = TermAt(log[i], a.prevLogIndex)
           /\ a.entries = SubSeq(log[i], a.prevLogIndex + 1, Len(log[i]))
           /\ a.leaderCommit = commitIndex[i]
           /\ call' = [call EXCEPT ![i][j] = Calling(a)]
           /\ appendRequests' = appendRequests \cup {[to |-> j, args |-> a]}
<1> DEFINE prev == nextIndex[i][j] - 1
           es == SubSeq(log[i], prev + 1, Len(log[i]))
           args == [term |-> currentTerm[i], leaderId |-> i, prevLogIndex |-> prev,
                    prevLogTerm |-> TermAt(log[i], prev), entries |-> es,
                    leaderCommit |-> commitIndex[i]]
<1>1. log[i] \in Seq(Entry) /\ prev \in 0..Len(log[i]) /\ Len(log[i]) <= MaxLog
  BY DEF TypeOK, Log, replicateToFollower
<1>2. es \in Seq(Entry) /\ prev + Len(es) = Len(log[i])
  BY <1>1, SMTT(30)
<1>3. prev \in Index /\ TermAt(log[i], prev) \in Term
  BY <1>1, LastTermType, BoundAssumption, SMTT(30) DEF TypeOK, Index
<1>4. args \in AppendEntriesArgs
  <2> HIDE DEF es, prev
  <2> QED
    BY <1>1, <1>2, <1>3 DEF TypeOK, AppendEntriesArgs
<1>5. AppendEntriesArgsToProto(args) = args
  BY <1>4, AppendProtoId
<1>6. /\ call' = [call EXCEPT ![i][j] = Calling(args)]
      /\ appendRequests' = appendRequests \cup {[to |-> j, args |-> args]}
  BY <1>5 DEF replicateToFollower
<1> QED
  BY <1>1, <1>4, <1>6

(* What a call in flight holds, by its status.                             *)
LEMMA CallFacts ==
  ASSUME TypeOK, NEW i \in Server, NEW j \in Server
  PROVE  /\ call[i][j].status \in {"idle", "sent", "replied"}
         /\ call[i][j].status # "idle" => call[i][j].args \in AppendEntriesArgs
         /\ call[i][j].status = "replied" => call[i][j].reply \in AppendEntriesReply
<1>1. call[i][j] \in Call
  BY DEF TypeOK
<1>2. CASE call[i][j] = NoCall
  BY <1>2, SMTT(30) DEF NoCall
<1>3. CASE call[i][j] \in [status : {"sent"}, args : AppendEntriesArgs]
  BY <1>3
<1>4. CASE call[i][j] \in [status : {"replied"}, args : AppendEntriesArgs,
                          reply : AppendEntriesReply]
  BY <1>4
<1> QED
  BY <1>1, <1>2, <1>3, <1>4 DEF Call

(* What runCandidate puts on the wire.                                     *)
LEMMA RequestedVotes ==
  ASSUME TypeOK, NEW i \in Server, runCandidate(i)
  PROVE  LET args == [term |-> currentTerm[i] + 1, candidateId |-> i,
                      lastLogIndex |-> Len(log[i]), lastLogTerm |-> LastTerm(log[i])]
         IN /\ args \in RequestVoteArgs
            /\ voteRequests' = voteRequests \cup {[to |-> j, args |-> args] : j \in Server \ {i}}
<1> DEFINE args == [term |-> currentTerm[i] + 1, candidateId |-> i,
                    lastLogIndex |-> Len(log[i]), lastLogTerm |-> LastTerm(log[i])]
<1>1. log[i] \in Log /\ Len(log[i]) \in Index /\ LastTerm(log[i]) \in Term
  BY LastTermType, SMTT(30) DEF TypeOK, Log, Index, LastTerm
<1>2. currentTerm[i] + 1 \in Term
  BY BoundAssumption, SMTT(30) DEF runCandidate, TypeOK, Term
<1>3. args \in RequestVoteArgs
  BY <1>1, <1>2 DEF RequestVoteArgs
<1>4. RequestVoteArgsToProto(args) = args
  BY <1>3, VoteProtoId
<1> QED
  BY <1>3, <1>4 DEF runCandidate

(* One case for each action of Next.                                       *)
LEMMA NextType == Counting /\ TypeOK /\ [Next]_vars => TypeOK'
<1> SUFFICES ASSUME Counting, TypeOK, [Next]_vars PROVE TypeOK'
  OBVIOUS
<1>1. ASSUME NEW i \in Server, runFollower(i) PROVE TypeOK'
  BY <1>1 DEF TypeOK, runFollower, logVars, leaderVars, runVars, voteVars, appendVars
<1>2. ASSUME NEW i \in Server, run(i) PROVE TypeOK'
  BY <1>2 DEF TypeOK, run, nodeVars, logVars, leaderVars, voteVars, appendVars
<1>3. ASSUME NEW i \in Server, runCandidate(i) PROVE TypeOK'
  <2>1. currentTerm[i] + 1 \in Term
    BY <1>3, BoundAssumption, SMTT(30) DEF runCandidate, TypeOK, Term
  <2>2. voteRequests' \subseteq [to : Server, args : RequestVoteArgs]
    <3>1. PICK a \in RequestVoteArgs :
            voteRequests' = voteRequests \cup {[to |-> j, args |-> a] : j \in Server \ {i}}
      BY <1>3, RequestedVotes
    <3> QED
      BY <3>1, SMTT(30) DEF TypeOK
  <2> QED
    BY <1>3, <2>1, <2>2 DEF TypeOK, runCandidate, logVars, leaderVars, appendVars
<1>4. ASSUME NEW i \in Server, ElectionExpires(i) PROVE TypeOK'
  BY <1>4 DEF TypeOK, ElectionExpires, LeaveElection, nodeVars, logVars, leaderVars, appendVars
<1>5. ASSUME NEW i \in Server, applyCommittedEntries(i) PROVE TypeOK'
  BY <1>5 DEF TypeOK, applyCommittedEntries, nodeVars, leaderVars, runVars, voteVars, appendVars
<1>6. ASSUME NEW i \in Server, NEW r \in voteReplies, CountVote(i, r) PROVE TypeOK'
  <2> DEFINE counted == IF r.reply.voteGranted THEN votes[i] \cup {r.from} ELSE votes[i]
  <2>1. r.reply.term \in Term /\ counted \in SUBSET Server
    BY DEF TypeOK, RequestVoteReply
  <2>2. UNCHANGED <<log, commitIndex, call, appendRequests>>
    BY <1>6 DEF CountVote, logVars, appendVars
  <2>3. CASE becomeFollowerLocked(i, r.reply.term) /\ LeaveElection(i) /\ UNCHANGED leaderVars
    BY <2>1, <2>2, <2>3 DEF TypeOK, becomeFollowerLocked, LeaveElection, leaderVars
  <2>4. CASE becomeLeaderLocked(i) /\ LeaveElection(i)
    <3>0. log[i] \in Seq(Entry) /\ Len(log[i]) <= MaxLog
      BY DEF TypeOK, Log
    <3>1. Len(log[i]) \in Index /\ Len(log[i]) + 1 \in 0..(MaxLog + 1) /\ 0 \in Index
      BY <3>0, BoundAssumption, SMTT(30) DEF Index
    <3> QED
      BY <2>2, <2>4, <3>1 DEF TypeOK, becomeLeaderLocked, LeaveElection
  <2>5. CASE /\ votes' = [votes EXCEPT ![i] = counted]
             /\ voteReplies' = voteReplies \ {r}
             /\ UNCHANGED <<nodeVars, leaderVars, pc, electionTerm, voteRequests>>
    BY <2>1, <2>2, <2>5 DEF TypeOK, nodeVars, leaderVars
  <2> QED
    BY <1>6, <2>3, <2>4, <2>5 DEF CountVote
<1>7. ASSUME NEW i \in Server, NEW cmd \in Command, Submit(i, cmd) PROVE TypeOK'
  <2> DEFINE index == Len(log[i]) + 1
             e == [term |-> currentTerm[i], index |-> index, cmd |-> cmd]
  <2>1. log[i] \in Seq(Entry) /\ index \in Index
    BY <1>7, BoundAssumption, SMTT(30) DEF TypeOK, Log, Index, Submit
  <2>2. e \in Entry
    BY <2>1 DEF TypeOK, Entry
  <2>3. Append(log[i], e) \in Log
    BY <2>1, <2>2, <1>7, BoundAssumption, SMTT(30) DEF Log, Submit
  <2> QED
    BY <2>1, <2>3, <1>7 DEF TypeOK, Submit, nodeVars, runVars, voteVars, appendVars
<1>8. ASSUME NEW i \in Server, NEW j \in Server, replicateToFollower(i, j) PROVE TypeOK'
  <2>1. PICK a \in AppendEntriesArgs :
          /\ call' = [call EXCEPT ![i][j] = Calling(a)]
          /\ appendRequests' = appendRequests \cup {[to |-> j, args |-> a]}
    BY <1>8, SentArgs
  <2>2. call' \in [Server -> [Server -> Call]]
    BY <2>1 DEF TypeOK, Call, Calling
  <2>3. appendRequests' \subseteq [to : Server, args : AppendEntriesArgs]
    BY <2>1, SMTT(30) DEF TypeOK
  <2> QED
    BY <1>8, <2>2, <2>3
    DEF TypeOK, replicateToFollower, nodeVars, logVars, leaderVars, runVars, voteVars
<1>9. ASSUME NEW i \in Server, NEW j \in Server, ReplicationReply(i, j) PROVE TypeOK'
  <2> DEFINE args == call[i][j].args
             reply == call[i][j].reply
             match == args.prevLogIndex + Len(args.entries)
  <2>1. args \in AppendEntriesArgs /\ reply \in AppendEntriesReply
    BY <1>9, CallFacts DEF ReplicationReply
  <2>2. match \in Index /\ match + 1 \in 0..(MaxLog + 1) /\ reply.term \in Term
    <3> HIDE DEF args, reply
    <3> QED
      BY <2>1, ArgsFacts, BoundAssumption, SMTT(30) DEF AppendEntriesReply, Index
  <2>3. /\ UNCHANGED <<log, applied, runVars, voteVars, appendRequests>>
        /\ call' = [call EXCEPT ![i][j] = NoCall]
    BY <1>9 DEF ReplicationReply
  <2>4. call' \in [Server -> [Server -> Call]]
    BY <2>3 DEF TypeOK, Call
  <2>5. CASE /\ becomeFollowerLocked(i, reply.term)
             /\ UNCHANGED <<commitIndex, leaderVars>>
    BY <2>2, <2>3, <2>4, <2>5 DEF TypeOK, becomeFollowerLocked, leaderVars, runVars, voteVars
  <2>6. CASE /\ matchIndex' = [matchIndex EXCEPT ![i][j] = match]
             /\ nextIndex' = [nextIndex EXCEPT ![i][j] = match + 1]
             /\ tryAdvanceCommitIndexLocked(i, [matchIndex[i] EXCEPT ![j] = match])
             /\ UNCHANGED nodeVars
    <3>1. /\ matchIndex' \in [Server -> [Server -> Index]]
          /\ nextIndex' \in [Server -> [Server -> 0..(MaxLog + 1)]]
      BY <2>2, <2>6 DEF TypeOK
    <3>2. commitIndex' \in [Server -> Index]
      <4> DEFINE C == Committable(i, [matchIndex[i] EXCEPT ![j] = match])
      <4>1. C \subseteq Index
        <5>1. log[i] \in Seq(Entry) /\ Len(log[i]) <= MaxLog /\ commitIndex[i] \in Index
          BY DEF TypeOK, Log
        <5> QED
          BY <5>1, BoundAssumption, SMTT(30) DEF Committable, Index
      <4> HIDE DEF C
      <4> QED
        BY <4>1, <2>6 DEF tryAdvanceCommitIndexLocked, TypeOK, C
    <3> QED
      BY <2>3, <2>4, <2>6, <3>1, <3>2 DEF TypeOK, nodeVars, runVars, voteVars
  <2>7. CASE /\ nextIndex[i][j] > 1
             /\ nextIndex' = [nextIndex EXCEPT ![i][j] = @ - 1]
             /\ UNCHANGED <<nodeVars, commitIndex, matchIndex>>
    <3>1. nextIndex[i][j] - 1 \in 0..(MaxLog + 1)
      BY <2>7, BoundAssumption, SMTT(30) DEF TypeOK
    <3> QED
      BY <2>3, <2>4, <2>7, <3>1 DEF TypeOK, nodeVars, runVars, voteVars
  <2>8. CASE UNCHANGED <<nodeVars, commitIndex, leaderVars>>
    BY <2>3, <2>4, <2>8 DEF TypeOK, nodeVars, leaderVars, runVars, voteVars
  <2> QED
    BY <1>9, <2>5, <2>6, <2>7, <2>8 DEF ReplicationReply, MatchedBy
<1>10. ASSUME NEW i \in Server, NEW j \in Server, ReplicationTimeout(i, j) PROVE TypeOK'
  BY <1>10 DEF TypeOK, ReplicationTimeout, Call,
               nodeVars, logVars, leaderVars, runVars, voteVars
<1>11. ASSUME NEW m \in voteRequests, HandleRequestVote(m) PROVE TypeOK'
  <2>1. m.to \in Server /\ m.args \in RequestVoteArgs
    BY DEF TypeOK
  <2>2. m.args.term \in Term /\ m.args.candidateId \in Server
    BY <2>1 DEF RequestVoteArgs
  <2>3. \A g \in BOOLEAN : RequestVoteReplyToProto([term |-> currentTerm[m.to], voteGranted |-> g])
                               \in RequestVoteReply
    BY <2>1, VoteProtoId, SMTT(30) DEF TypeOK, RequestVoteReply
  <2>4. voteReplies' \subseteq [from : Server, to : Server, reply : RequestVoteReply]
    <3>1. \/ UNCHANGED voteReplies
          \/ \E g \in BOOLEAN : voteReplies' = voteReplies \cup
               {[from |-> m.to, to |-> m.args.candidateId,
                 reply |-> RequestVoteReplyToProto([term |-> currentTerm[m.to], voteGranted |-> g])]}
      <4> DEFINE grant == /\ ~(currentTerm[m.to] > m.args.term)
                          /\ \/ m.args.term > currentTerm[m.to]
                             \/ votedFor[m.to] \in {Nil, m.args.candidateId}
                          /\ UpToDate(m.args, log[m.to])
      <4>1. grant \in BOOLEAN
        OBVIOUS
      <4>2. \/ UNCHANGED voteReplies
            \/ voteReplies' = voteReplies \cup
               {[from |-> m.to, to |-> m.args.candidateId,
                 reply |-> RequestVoteReplyToProto([term |-> currentTerm[m.to], voteGranted |-> grant])]}
        BY <1>11 DEF HandleRequestVote
      <4> HIDE DEF grant
      <4> QED
        BY <4>1, <4>2
    <3>2. \/ UNCHANGED voteReplies
          \/ \E x \in RequestVoteReply : voteReplies' = voteReplies \cup
               {[from |-> m.to, to |-> m.args.candidateId, reply |-> x]}
      BY <3>1, <2>3
    <3> QED
      BY <3>2, <2>1, <2>2, SMTT(30) DEF TypeOK
  <2> QED
    BY <1>11, <2>1, <2>2, <2>4
    DEF TypeOK, HandleRequestVote, logVars, leaderVars, runVars, appendVars
<1>12. ASSUME NEW m \in appendRequests, HandleAppendEntries(m) PROVE TypeOK'
  <2> DEFINE i == m.to
             args == m.args
             c == call[args.leaderId][i]
             stale == currentTerm[i] > args.term
             fits == \/ args.prevLogIndex < 0
                     \/ /\ args.prevLogIndex <= Len(log[i])
                        /\ TermAt(log[i], args.prevLogIndex) = args.prevLogTerm
             ok == ~stale /\ fits
             newLog == AppendNew(log[i], args.prevLogIndex, args.entries)
             reply == AppendEntriesReplyToProto([term |-> currentTerm[i], success |-> ok])
  <2>1. i \in Server /\ args \in AppendEntriesArgs /\ currentTerm[i] \in Term
    BY DEF TypeOK
  <2>2. args.term \in Term /\ args.leaderId \in Server /\ args.leaderCommit \in Index
    BY <2>1 DEF AppendEntriesArgs
  <2>3. reply \in AppendEntriesReply
    <3>1. ok \in BOOLEAN
      OBVIOUS
    <3> HIDE DEF ok
    <3> QED
      BY <2>1, <3>1, VoteProtoId, SMTT(30) DEF AppendEntriesReply
  <2>4. ok => newLog \in Log
    BY <2>1, AppendNewType, SMTT(30) DEF AppendEntriesArgs, Index, TypeOK
  <2>5. log' \in [Server -> Log] /\ commitIndex' \in [Server -> Index]
    <3>1. CASE ~ok
      BY <1>12, <3>1 DEF HandleAppendEntries, TypeOK
    <3>2. CASE ok
      <4>1. newLog \in Log /\ Len(newLog) \in Index
        <5>1. newLog \in Log
          BY <2>4, <3>2
        <5> HIDE DEF newLog
        <5> QED
          BY <5>1, BoundAssumption, SMTT(30) DEF Log, Index
      <4>2. log' = [log EXCEPT ![i] = newLog]
        BY <1>12, <3>2 DEF HandleAppendEntries
      <4>3. commitIndex' \in [Server -> Index]
        <5>1. commitIndex' = [commitIndex EXCEPT ![i] =
                IF args.leaderCommit > commitIndex[i]
                THEN IF args.leaderCommit <= Len(newLog) THEN args.leaderCommit ELSE Len(newLog)
                ELSE commitIndex[i]]
          BY <1>12, <3>2 DEF HandleAppendEntries
        <5> HIDE DEF newLog, args
        <5> QED
          BY <5>1, <4>1, <2>1, <2>2 DEF TypeOK
      <4> HIDE DEF newLog
      <4> QED
        BY <4>1, <4>2, <4>3, <2>1 DEF TypeOK
    <3> QED
      BY <3>1, <3>2
  <2>6. call' \in [Server -> [Server -> Call]]
    <3>1. CASE UNCHANGED call
      BY <3>1 DEF TypeOK
    <3>2. CASE c.status = "sent" /\ call' = [call EXCEPT ![args.leaderId][i] = Replied(c.args, reply)]
      <4>1. c.args \in AppendEntriesArgs
        BY <3>2, <2>1, <2>2, CallFacts
      <4> HIDE DEF reply
      <4>2. Replied(c.args, reply) \in Call
        BY <4>1, <2>3 DEF Replied, Call
      <4> QED
        BY <3>2, <4>2, <2>1, <2>2 DEF TypeOK
    <3> QED
      BY <1>12, <3>1, <3>2 DEF HandleAppendEntries
  <2>7. /\ currentTerm' \in [Server -> Term]
        /\ votedFor' \in [Server -> Server \cup {Nil}]
        /\ state' \in [Server -> {"Follower", "Candidate", "Leader"}]
        /\ leaderID' \in [Server -> Server \cup {Nil}]
    BY <1>12, <2>1, <2>2 DEF HandleAppendEntries, TypeOK, nodeVars
  <2>8. UNCHANGED <<applied, leaderVars, runVars, voteVars, appendRequests>>
    BY <1>12 DEF HandleAppendEntries
  <2> QED
    BY <2>5, <2>6, <2>7, <2>8 DEF TypeOK, leaderVars, runVars, voteVars
<1>13. CASE UNCHANGED vars
  BY <1>13 DEF TypeOK, vars, nodeVars, logVars, leaderVars, runVars, voteVars, appendVars
<1> QED
  BY <1>1, <1>2, <1>3, <1>4, <1>5, <1>6, <1>7, <1>8, <1>9, <1>10, <1>11, <1>12, <1>13 DEF Next

-----------------------------------------------------------------------------
(* Logs.                                                                   *)

(* The type of a log, taken apart.                                         *)
LEMMA LogFacts ==
  ASSUME TypeOK, NEW i \in Server
  PROVE  /\ log[i] \in Seq(Entry) /\ Len(log[i]) \in Nat /\ Len(log[i]) <= MaxLog
         /\ \A k \in 1..Len(log[i]) : log[i][k] \in Entry /\ log[i][k].term \in Nat
<1>1. log[i] \in Seq(Entry) /\ Len(log[i]) <= MaxLog
  BY DEF TypeOK, Log
<1>2. \A k \in 1..Len(log[i]) : log[i][k] \in Entry
  BY <1>1, SMTT(30)
<1> QED
  BY <1>1, <1>2, SMTT(30) DEF Entry, Term

(* The vote rule: among logs that never diverge, a log that is at least as *)
(* recent is at least as long.                                             *)
LEMMA RecentIsLonger ==
  ASSUME TypeOK, LogsNeverDiverge, TermsAscend, NEW i \in Server, NEW c \in Server,
         NEW a, a.lastLogIndex = Len(log[c]), a.lastLogTerm = LastTerm(log[c]),
         UpToDate(a, log[i])
  PROVE  Len(log[i]) <= Len(log[c])
<1> SUFFICES ASSUME Len(log[i]) > Len(log[c]) PROVE FALSE
  BY LogFacts, SMTT(30)
<1> DEFINE n == Len(log[c])
           p == Len(log[i])
<1>1. n \in Nat /\ p \in Nat /\ p > n
  BY LogFacts
<1>2. LastTerm(log[i]) = log[i][p].term /\ log[i][p].term \in Nat
  BY <1>1, LogFacts, SMTT(30) DEF LastTerm, TermAt
<1>3. LastTerm(log[c]) <= log[i][p].term /\ LastTerm(log[c]) \in Nat
  <2>1. CASE n = 0
    BY <2>1, <1>2, SMTT(30) DEF LastTerm, TermAt
  <2>2. CASE n # 0
    <3>1. LastTerm(log[c]) = log[c][n].term /\ log[c][n] = log[i][n]
      BY <2>2, <1>1, SMTT(30) DEF LastTerm, TermAt, LogsNeverDiverge, Agree
    <3>2. log[i][n].term <= log[i][p].term
      BY <2>2, <1>1, SMTT(30) DEF TermsAscend
    <3> QED
      BY <3>1, <3>2, <1>1, <2>2, LogFacts, SMTT(30)
  <2> QED
    BY <2>1, <2>2
<1> QED
  BY <1>1, <1>2, <1>3, SMTT(30) DEF UpToDate
=============================================================================
