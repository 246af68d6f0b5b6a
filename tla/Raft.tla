-------------------------------- MODULE Raft --------------------------------
(***************************************************************************)
(* The consensus node of raft/node.go and the messages of raft/rpc.go.     *)
(*                                                                         *)
(* A critical section of Node.mu is one atomic step.  Three kinds of       *)
(* goroutine act on a node i: run (its program counter is pc[i]),          *)
(* applyCommittedEntries, and one replicationWorker per peer j (the call   *)
(* it has in flight is call[i][j]).  RPC handlers run on their own.        *)
(*                                                                         *)
(* Timers, heartbeatCh, voteCh, commitNotifyCh and the replication         *)
(* triggers only decide WHEN a goroutine moves; every timing is allowed    *)
(* here.  The code's log holds a dummy entry of term 0 at index 0; here    *)
(* log[i][k] is the entry the code keeps at index k >= 1, and Len(log[i])  *)
(* is the code's len(n.log)-1.                                             *)
(***************************************************************************)
EXTENDS Integers, Sequences, FiniteSets

CONSTANTS
    Server,     \* the peers list, every node included
    Command,    \* what clients submit
    Nil,        \* the code's -1 for votedFor and leaderID
    MaxInt32,   \* math.MaxInt32: terms and indices are int32 on the wire
    MaxTerm,    \* bound: no election is started beyond this term
    MaxLog,     \* bound: no entry is submitted beyond this index
    MaxRequests,    \* bound: how many different AppendEntries requests are sent
    MaxCandidates   \* bound: how many nodes campaign at the same time

ASSUME ServerAssumption == IsFiniteSet(Server) /\ Nil \notin Server
ASSUME BoundAssumption ==
    /\ MaxInt32 \in Nat /\ MaxTerm \in 1..MaxInt32 /\ MaxLog \in 0..MaxInt32
    /\ MaxRequests \in Nat /\ MaxCandidates \in Nat

VARIABLES
    currentTerm, votedFor, state, leaderID,     \* Node fields, per server
    log, commitIndex, nextIndex, matchIndex,
    applied,        \* the messages put on applyCh; lastApplied is its length
    pc,             \* where the run goroutine is
    electionTerm,   \* runCandidate's local currentTerm (kept when it returns)
    votes,          \* the servers whose votes runCandidate has counted
    call,           \* replicateToFollower's RPC in flight, per pair
    voteRequests,   \* RequestVote calls not handled yet
    voteReplies,    \* replies on runCandidate's local voteCh or on their way
    appendRequests  \* every AppendEntries request sent so far

nodeVars == <<currentTerm, votedFor, state, leaderID>>
logVars == <<log, commitIndex, applied>>
leaderVars == <<nextIndex, matchIndex>>
runVars == <<pc, electionTerm, votes>>
voteVars == <<voteRequests, voteReplies>>
appendVars == <<call, appendRequests>>
vars == <<nodeVars, logVars, leaderVars, runVars, voteVars, appendVars>>

-----------------------------------------------------------------------------
(* Messages.  Go's int goes through protobuf's int32 and back.             *)

Int32(n) == IF n <= MaxInt32 THEN n ELSE n - 2 * (MaxInt32 + 1)

LogEntryToProto(e) == [term |-> Int32(e.term), index |-> Int32(e.index), cmd |-> e.cmd]

RequestVoteArgsToProto(a) ==
    [term |-> Int32(a.term), candidateId |-> a.candidateId,
     lastLogIndex |-> Int32(a.lastLogIndex), lastLogTerm |-> Int32(a.lastLogTerm)]

AppendEntriesArgsToProto(a) ==
    [term |-> Int32(a.term), leaderId |-> a.leaderId,
     prevLogIndex |-> Int32(a.prevLogIndex), prevLogTerm |-> Int32(a.prevLogTerm),
     entries |-> [k \in 1..Len(a.entries) |-> LogEntryToProto(a.entries[k])],
     leaderCommit |-> Int32(a.leaderCommit)]

RequestVoteReplyToProto(r) == [term |-> Int32(r.term), voteGranted |-> r.voteGranted]
AppendEntriesReplyToProto(r) == [term |-> Int32(r.term), success |-> r.success]

NoCall == [status |-> "idle"]
Calling(a) == [status |-> "sent", args |-> a]
Replied(a, r) == [status |-> "replied", args |-> a, reply |-> r]

-----------------------------------------------------------------------------
(* Wrong: a majority of the peers.                                         *)
MajorityNeeded == Cardinality(Server) \div 2 + 1

VotesNeeded == (Cardinality(Server) + 1) \div 2 + 1

TermAt(lg, k) == IF k = 0 THEN 0 ELSE lg[k].term
LastTerm(lg) == TermAt(lg, Len(lg))

(* Wrong: the logs are not compared; their lengths are not compared.       *)
AnyLogWillDo(a, lg) == TRUE
OnlyTermsCompared(a, lg) == a.lastLogTerm >= LastTerm(lg)

(* logOk of HandleRequestVote: the candidate's log is at least as recent.  *)
UpToDate(a, lg) ==
    \/ a.lastLogTerm > LastTerm(lg)
    \/ a.lastLogTerm = LastTerm(lg) /\ a.lastLogIndex >= Len(lg)

(* The replies that runCandidate's local channel can no longer deliver     *)
(* when its election ends.                                                 *)
RepliesTo(i) == {r \in voteReplies : r.to = i}

(* Wrong: the leader's identity is kept.                                   *)
KeepsLeaderID(i, term) ==
    /\ currentTerm' = [currentTerm EXCEPT ![i] = IF term > @ THEN term ELSE @]
    /\ votedFor' = [votedFor EXCEPT ![i] = Nil]
    /\ state' = [state EXCEPT ![i] = "Follower"]
    /\ UNCHANGED leaderID

becomeFollowerLocked(i, term) ==
    /\ currentTerm' = [currentTerm EXCEPT ![i] = IF term > @ THEN term ELSE @]
    /\ votedFor' = [votedFor EXCEPT ![i] = Nil]
    /\ state' = [state EXCEPT ![i] = "Follower"]
    /\ leaderID' = [leaderID EXCEPT ![i] = Nil]

(* Wrong: matchIndex starts at the own log.                                *)
MatchIndexTooHigh(i) ==
    LET lastLogIndex == Len(log[i])
    IN /\ state' = [state EXCEPT ![i] = "Leader"]
       /\ leaderID' = [leaderID EXCEPT ![i] = i]
       /\ matchIndex' = [matchIndex EXCEPT ![i] = [p \in Server |-> lastLogIndex]]
       /\ nextIndex' = [nextIndex EXCEPT ![i] = [p \in Server |-> lastLogIndex + 1]]
       /\ UNCHANGED <<currentTerm, votedFor>>

(* Fresh maps for all peers; the loop starts matchIndex at 0 and the last  *)
(* assignment sets the own one.                                            *)
becomeLeaderLocked(i) ==
    LET lastLogIndex == Len(log[i])
    IN /\ state' = [state EXCEPT ![i] = "Leader"]
       /\ leaderID' = [leaderID EXCEPT ![i] = i]
       /\ matchIndex' = [matchIndex EXCEPT ![i] =
                            [p \in Server |-> IF p = i THEN lastLogIndex ELSE 0]]
       /\ nextIndex' = [nextIndex EXCEPT ![i] = [p \in Server |-> lastLogIndex + 1]]
       /\ UNCHANGED <<currentTerm, votedFor>>

-----------------------------------------------------------------------------
NewNode ==
    /\ currentTerm = [i \in Server |-> 0]
    /\ votedFor = [i \in Server |-> Nil]
    /\ state = [i \in Server |-> "Follower"]
    /\ leaderID = [i \in Server |-> Nil]
    /\ log = [i \in Server |-> <<>>]
    /\ commitIndex = [i \in Server |-> 0]
    /\ applied = [i \in Server |-> <<>>]
    /\ nextIndex = [i \in Server |-> [j \in Server |-> 0]]
    /\ matchIndex = [i \in Server |-> [j \in Server |-> 0]]

Init ==
    /\ NewNode
    /\ pc = [i \in Server |-> "run"]
    /\ electionTerm = [i \in Server |-> 0]
    /\ votes = [i \in Server |-> {}]
    /\ call = [i \in Server |-> [j \in Server |-> NoCall]]
    /\ voteRequests = {}
    /\ voteReplies = {}
    /\ appendRequests = {}

-----------------------------------------------------------------------------
(* The run goroutine.  runFollower and runLeader do not change the node    *)
(* until the election timer fires, so "run" stands for both of them.       *)

runFollower(i) ==
    /\ pc[i] = "run" /\ state[i] = "Follower"
    /\ Cardinality({j \in Server : state[j] = "Candidate" \/ pc[j] # "run"}) < MaxCandidates
    /\ state' = [state EXCEPT ![i] = "Candidate"]
    /\ UNCHANGED <<currentTerm, votedFor, leaderID, logVars, leaderVars,
                   runVars, voteVars, appendVars>>

(* run reads the state under the read lock and acts on it afterwards: a    *)
(* handler may turn the node into a follower before runCandidate locks.    *)
run(i) ==
    /\ pc[i] = "run" /\ state[i] = "Candidate"
    /\ pc' = [pc EXCEPT ![i] = "candidate"]
    /\ UNCHANGED <<nodeVars, logVars, leaderVars, electionTerm, votes,
                   voteVars, appendVars>>

runCandidate(i) ==
    /\ pc[i] = "candidate"
    /\ currentTerm[i] < MaxTerm
    /\ LET term == currentTerm[i] + 1
           args == [term |-> term, candidateId |-> i,
                    lastLogIndex |-> Len(log[i]), lastLogTerm |-> LastTerm(log[i])]
       IN /\ currentTerm' = [currentTerm EXCEPT ![i] = term]
          /\ electionTerm' = [electionTerm EXCEPT ![i] = term]
          /\ voteRequests' = voteRequests \cup
                {[to |-> j, args |-> RequestVoteArgsToProto(args)] : j \in Server \ {i}}
    /\ votedFor' = [votedFor EXCEPT ![i] = i]
    /\ leaderID' = [leaderID EXCEPT ![i] = Nil]
    /\ votes' = [votes EXCEPT ![i] = {i}]
    /\ pc' = [pc EXCEPT ![i] = "election"]
    /\ UNCHANGED <<state, logVars, leaderVars, voteReplies, appendVars>>

(* The election ends: runCandidate returns to run.                         *)
LeaveElection(i) ==
    /\ pc' = [pc EXCEPT ![i] = "run"]
    /\ votes' = [votes EXCEPT ![i] = {}]
    /\ voteReplies' = voteReplies \ RepliesTo(i)
    /\ UNCHANGED <<electionTerm, voteRequests>>

(* runCandidate takes a reply from voteCh.                                 *)
CountVote(i, r) ==
    /\ pc[i] = "election" /\ r.to = i
    /\ LET counted == IF r.reply.voteGranted THEN votes[i] \cup {r.from} ELSE votes[i]
           wins == /\ Cardinality(counted) >= VotesNeeded
                   /\ state[i] = "Candidate" /\ currentTerm[i] = electionTerm[i]
       IN \/ /\ r.reply.term > electionTerm[i]
             /\ becomeFollowerLocked(i, r.reply.term)
             /\ LeaveElection(i)
             /\ UNCHANGED leaderVars
          \/ /\ r.reply.term <= electionTerm[i] /\ wins
             /\ becomeLeaderLocked(i)
             /\ LeaveElection(i)
          \/ /\ r.reply.term <= electionTerm[i] /\ ~wins
             /\ votes' = [votes EXCEPT ![i] = counted]
             /\ voteReplies' = voteReplies \ {r}
             /\ UNCHANGED <<nodeVars, leaderVars, pc, electionTerm, voteRequests>>
    /\ UNCHANGED <<logVars, appendVars>>

(* The election timer fires before enough votes are counted.               *)
ElectionExpires(i) ==
    /\ pc[i] = "election"
    /\ LeaveElection(i)
    /\ UNCHANGED <<nodeVars, logVars, leaderVars, appendVars>>

-----------------------------------------------------------------------------
(* A call is handled at most once.  Its reply reaches the candidate only   *)
(* while the election that sent it is still reading its channel.           *)
HandleRequestVote(m) ==
    LET i == m.to
        args == m.args
        stale == currentTerm[i] > args.term
        newer == args.term > currentTerm[i]
        free == newer \/ votedFor[i] \in {Nil, args.candidateId}
        grant == ~stale /\ free /\ UpToDate(args, log[i])
        reply == RequestVoteReplyToProto(
                    [term |-> currentTerm[i], voteGranted |-> grant])
        awaited == /\ pc[args.candidateId] = "election"
                   /\ electionTerm[args.candidateId] = args.term
    IN /\ currentTerm' = [currentTerm EXCEPT ![i] = IF newer THEN args.term ELSE @]
       /\ state' = [state EXCEPT ![i] = IF newer THEN "Follower" ELSE @]
       /\ leaderID' = [leaderID EXCEPT ![i] = IF newer THEN Nil ELSE @]
       /\ votedFor' = [votedFor EXCEPT ![i] =
                         IF grant THEN args.candidateId ELSE IF newer THEN Nil ELSE @]
       /\ voteRequests' = voteRequests \ {m}
       /\ voteReplies' = IF awaited
                         THEN voteReplies \cup
                                {[from |-> i, to |-> args.candidateId, reply |-> reply]}
                         ELSE voteReplies
       /\ UNCHANGED <<logVars, leaderVars, runVars, appendVars>>

-----------------------------------------------------------------------------
(* replicateToFollower up to its RPC: all entries from nextIndex on.       *)
replicateToFollower(i, j) ==
    /\ j # i
    /\ call[i][j] = NoCall
    /\ state[i] = "Leader"
    /\ LET prev == nextIndex[i][j] - 1
           args == [term |-> currentTerm[i], leaderId |-> i, prevLogIndex |-> prev,
                    prevLogTerm |-> TermAt(log[i], prev),
                    entries |-> SubSeq(log[i], prev + 1, Len(log[i])),
                    leaderCommit |-> commitIndex[i]]
           sent == appendRequests \cup {[to |-> j, args |-> AppendEntriesArgsToProto(args)]}
       IN /\ prev \in 0..Len(log[i])
          /\ Cardinality(sent) <= MaxRequests
          /\ call' = [call EXCEPT ![i][j] = Calling(args)]
          /\ appendRequests' = sent
    /\ UNCHANGED <<nodeVars, logVars, leaderVars, runVars, voteVars>>

(* The entries loop of HandleAppendEntries: entries the log already holds  *)
(* are kept, the first conflicting one cuts the log.                       *)
Conflicts(lg, prev, entries) ==
    {k \in 1..Len(entries) : /\ prev + k <= Len(lg)
                             /\ lg[prev + k].term # entries[k].term}

AppendNew(lg, prev, entries) ==
    LET bad == Conflicts(lg, prev, entries)
        kept == IF bad = {} THEN Len(lg)
                ELSE prev + (CHOOSE k \in bad : \A l \in bad : k <= l) - 1
        last == prev + Len(entries)
    IN [k \in 1..(IF kept > last THEN kept ELSE last) |->
          IF k <= kept THEN lg[k] ELSE entries[k - prev]]

(* HandleAppendEntries at server m.to.  A request stays in appendRequests: *)
(* the leader sends the same one again after a timeout, and an abandoned   *)
(* one may still be handled later.  The reply goes to the call that waits  *)
(* for it; losing it is replicateToFollower's timeout.                     *)
HandleAppendEntries(m) ==
    LET i == m.to
        args == m.args
        stale == currentTerm[i] > args.term
        fits == \/ args.prevLogIndex < 0
                \/ /\ args.prevLogIndex <= Len(log[i])
                   /\ TermAt(log[i], args.prevLogIndex) = args.prevLogTerm
        ok == ~stale /\ fits
        newLog == AppendNew(log[i], args.prevLogIndex, args.entries)
        newCommit == IF args.leaderCommit > commitIndex[i]
                     THEN IF args.leaderCommit <= Len(newLog)
                          THEN args.leaderCommit ELSE Len(newLog)
                     ELSE commitIndex[i]
        reply == AppendEntriesReplyToProto([term |-> currentTerm[i], success |-> ok])
        c == call[args.leaderId][i]
        awaited == c.status = "sent" /\ AppendEntriesArgsToProto(c.args) = args
    IN /\ IF stale
          THEN UNCHANGED nodeVars
          ELSE /\ currentTerm' = [currentTerm EXCEPT ![i] = args.term]
               /\ votedFor' = [votedFor EXCEPT ![i] = Nil]
               /\ state' = [state EXCEPT ![i] = "Follower"]
               /\ leaderID' = [leaderID EXCEPT ![i] = args.leaderId]
       /\ IF ok
          THEN /\ log' = [log EXCEPT ![i] = newLog]
               /\ commitIndex' = [commitIndex EXCEPT ![i] = newCommit]
          ELSE UNCHANGED <<log, commitIndex>>
       /\ \/ UNCHANGED call
          \/ awaited /\ call' = [call EXCEPT ![args.leaderId][i] = Replied(c.args, reply)]
       /\ UNCHANGED <<applied, leaderVars, runVars, voteVars, appendRequests>>

(* The indices tryAdvanceCommitIndexLocked may commit.                     *)
Committable(i, match) ==
    {n \in (commitIndex[i] + 1)..Len(log[i]) :
        /\ log[i][n].term = currentTerm[i]
        /\ Cardinality({j \in Server : j = i \/ match[j] >= n})
             > Cardinality(Server) \div 2}

tryAdvanceCommitIndexLocked(i, match) ==
    \/ Committable(i, match) = {} /\ UNCHANGED commitIndex
    \/ \E n \in Committable(i, match) :
          /\ \A m \in Committable(i, match) : m <= n
          /\ commitIndex' = [commitIndex EXCEPT ![i] = n]

(* Wrong: one entry too many.                                              *)
MatchedTooFar(args) == args.prevLogIndex + Len(args.entries) + 1

(* How far a follower that accepted a request agrees with the leader.      *)
MatchedBy(args) == args.prevLogIndex + Len(args.entries)

(* replicateToFollower after its RPC returned.                             *)
ReplicationReply(i, j) ==
    /\ call[i][j].status = "replied"
    /\ call' = [call EXCEPT ![i][j] = NoCall]
    /\ LET args == call[i][j].args
           reply == call[i][j].reply
           current == state[i] = "Leader" /\ currentTerm[i] = args.term
           match == MatchedBy(args)
       IN \/ /\ reply.term > currentTerm[i]
             /\ becomeFollowerLocked(i, reply.term)
             /\ UNCHANGED <<commitIndex, leaderVars>>
          \/ /\ reply.term <= currentTerm[i] /\ current
             /\ reply.success /\ match > matchIndex[i][j]
             /\ matchIndex' = [matchIndex EXCEPT ![i][j] = match]
             /\ nextIndex' = [nextIndex EXCEPT ![i][j] = match + 1]
             /\ tryAdvanceCommitIndexLocked(i, [matchIndex[i] EXCEPT ![j] = match])
             /\ UNCHANGED nodeVars
          \/ /\ reply.term <= currentTerm[i] /\ current
             /\ ~reply.success /\ nextIndex[i][j] > 1
             /\ nextIndex' = [nextIndex EXCEPT ![i][j] = @ - 1]
             /\ UNCHANGED <<nodeVars, commitIndex, matchIndex>>
          \/ /\ reply.term <= currentTerm[i]
             /\ \/ ~current
                \/ reply.success /\ match <= matchIndex[i][j]
                \/ ~reply.success /\ nextIndex[i][j] <= 1
             /\ UNCHANGED <<nodeVars, commitIndex, leaderVars>>
    /\ UNCHANGED <<log, applied, runVars, voteVars, appendRequests>>

(* The 100 ms timeout, or the connection failing.                          *)
ReplicationTimeout(i, j) ==
    /\ call[i][j].status # "idle"
    /\ call' = [call EXCEPT ![i][j] = NoCall]
    /\ UNCHANGED <<nodeVars, logVars, leaderVars, runVars, voteVars, appendRequests>>

-----------------------------------------------------------------------------
Submit(i, cmd) ==
    /\ state[i] = "Leader"
    /\ Len(log[i]) < MaxLog
    /\ LET index == Len(log[i]) + 1
       IN /\ log' = [log EXCEPT ![i] =
                       Append(@, [term |-> currentTerm[i], index |-> index, cmd |-> cmd])]
          /\ matchIndex' = [matchIndex EXCEPT ![i][i] = index]
    /\ UNCHANGED <<nodeVars, commitIndex, applied, nextIndex, runVars, voteVars, appendVars>>

applyCommittedEntries(i) ==
    /\ Len(applied[i]) < commitIndex[i]
    /\ applied' = [applied EXCEPT ![i] = Append(@, log[i][Len(@) + 1])]
    /\ UNCHANGED <<nodeVars, log, commitIndex, leaderVars, runVars, voteVars, appendVars>>

-----------------------------------------------------------------------------
Next ==
    \/ \E i \in Server :
          \/ runFollower(i) \/ run(i) \/ runCandidate(i) \/ ElectionExpires(i)
          \/ applyCommittedEntries(i)
    \/ \E i \in Server : \E r \in voteReplies : CountVote(i, r)
    \/ \E i \in Server : \E cmd \in Command : Submit(i, cmd)
    \/ \E i \in Server : \E j \in Server :
          \/ replicateToFollower(i, j) \/ ReplicationReply(i, j) \/ ReplicationTimeout(i, j)
    \/ \E m \in voteRequests : HandleRequestVote(m)
    \/ \E m \in appendRequests : HandleAppendEntries(m)

Spec == Init /\ [][Next]_vars

-----------------------------------------------------------------------------
(* Types.                                                                  *)

Term == 0..MaxTerm
Index == 0..MaxLog
Entry == [term : Term, index : Index, cmd : Command]
Log == {lg \in Seq(Entry) : Len(lg) <= MaxLog}

RequestVoteArgs ==
    [term : Term, candidateId : Server, lastLogIndex : Index, lastLogTerm : Term]
RequestVoteReply == [term : Term, voteGranted : BOOLEAN]
AppendEntriesArgs ==
    {a \in [term : Term, leaderId : Server, prevLogIndex : Index, prevLogTerm : Term,
            entries : Seq(Entry), leaderCommit : Index] :
        a.prevLogIndex + Len(a.entries) <= MaxLog}
AppendEntriesReply == [term : Term, success : BOOLEAN]
Call ==
    {NoCall} \cup [status : {"sent"}, args : AppendEntriesArgs]
             \cup [status : {"replied"}, args : AppendEntriesArgs, reply : AppendEntriesReply]

(* Every field holds a value of its Go type; terms and indices, which Go   *)
(* narrows to 32 bits on the wire, stay within the bounds.                 *)
TypeOK ==
    /\ currentTerm \in [Server -> Term]
    /\ votedFor \in [Server -> Server \cup {Nil}]
    /\ state \in [Server -> {"Follower", "Candidate", "Leader"}]
    /\ leaderID \in [Server -> Server \cup {Nil}]
    /\ log \in [Server -> Log]
    /\ commitIndex \in [Server -> Index]
    /\ nextIndex \in [Server -> [Server -> 0..(MaxLog + 1)]]
    /\ matchIndex \in [Server -> [Server -> Index]]
    /\ pc \in [Server -> {"run", "candidate", "election"}]
    /\ electionTerm \in [Server -> Term]
    /\ votes \in [Server -> SUBSET Server]
    /\ call \in [Server -> [Server -> Call]]
    /\ voteRequests \subseteq [to : Server, args : RequestVoteArgs]
    /\ voteReplies \subseteq [from : Server, to : Server, reply : RequestVoteReply]
    /\ appendRequests \subseteq [to : Server, args : AppendEntriesArgs]

-----------------------------------------------------------------------------
IsPrefixOf(s, t) == Len(s) <= Len(t) /\ \A k \in 1..Len(s) : s[k] = t[k]
Agree(s, t) == \A k \in 1..Len(s) : k <= Len(t) => s[k] = t[k]
Committed(i) == SubSeq(log[i], 1, commitIndex[i])

(* The applier reads n.log[n.lastApplied] without a bounds check: no step, *)
(* truncation by HandleAppendEntries included, lets lastApplied or         *)
(* commitIndex point past the log, and what was applied is still there.    *)
AppliedFromLog ==
    \A i \in Server :
        /\ Len(applied[i]) <= commitIndex[i]
        /\ commitIndex[i] <= Len(log[i])
        /\ IsPrefixOf(applied[i], log[i])

(* Election safety (raft/cluster_test.go, "election safety violated"): no  *)
(* term ever has two leaders, although HandleAppendEntries forgets the     *)
(* vote of the current term.                                               *)
ElectionSafety ==
    \A i, j \in Server :
        state[i] = "Leader" /\ state[j] = "Leader" /\ currentTerm[i] = currentTerm[j]
            => i = j

(* State machine safety: what two nodes have put on applyCh agrees, entry  *)
(* by entry, whatever leader each of them followed.                        *)
StateMachineSafety == \A i, j \in Server : Agree(applied[i], applied[j])

(* With votesNeeded = 3 of 3 a leader's log contains every other log, so   *)
(* the conflict branch of HandleAppendEntries is never taken: any two logs *)
(* are prefixes of one another, uncommitted entries included.              *)
LogsNeverDiverge == \A i, j \in Server : Agree(log[i], log[j])

(* Leader completeness: the leader of the highest term holds every entry   *)
(* any node regards as committed.                                          *)
LeaderCompleteness ==
    \A i \in Server :
        state[i] = "Leader" /\ (\A j \in Server : currentTerm[j] <= currentTerm[i])
            => \A j \in Server : IsPrefixOf(Committed(j), log[i])

(* What a node regards as committed is stored by a majority.  A follower   *)
(* takes min(LeaderCommit, len(log)-1) without looking at how far the      *)
(* request reached: this is right only because requests carry the whole    *)
(* suffix of the leader's log.                                             *)
CommittedOnMajority ==
    \A i \in Server :
        Cardinality({j \in Server : IsPrefixOf(Committed(i), log[j])})
            > Cardinality(Server) \div 2

(* A leader's matchIndex never claims more than the follower really has,   *)
(* whatever late, repeated or abandoned calls are still around.            *)
MatchIndexIsTrue ==
    \A i, j \in Server :
        state[i] = "Leader"
            => /\ matchIndex[i][j] <= Len(log[j])
               /\ \A k \in 1..matchIndex[i][j] : log[j][k] = log[i][k]

(* The address a follower redirects clients to is not that of a node that  *)
(* never led: a hinted node in the follower's term is that term's leader.  *)
LeaderHint ==
    \A i, j \in Server :
        leaderID[i] = j /\ currentTerm[j] = currentTerm[i] => state[j] = "Leader"

(* The server files the waiter for a command under the pair (index, term)  *)
(* that Submit returned.  While no node restarts, no two commands in the   *)
(* nodes' logs share a pair, so an applied entry never wakes the waiter of *)
(* another command.                                                        *)
EntryKeyIsUnique ==
    \A i, j \in Server : \A k \in 1..Len(log[i]), l \in 1..Len(log[j]) :
        log[i][k].index = log[j][l].index /\ log[i][k].term = log[j][l].term
            => k = l /\ log[i][k] = log[j][l]

CommittedStep ==
    \A i \in Server :
        IsPrefixOf(Committed(i), Committed(i)') /\ currentTerm'[i] >= currentTerm[i]

(* No step takes back or rewrites an entry a node regards as committed,    *)
(* and no step lowers a term.                                              *)
CommittedIsStable == [][CommittedStep]_vars

LogStep == \A i \in Server : IsPrefixOf(log[i], log'[i])

(* No node, leader or follower, ever loses an entry, not even one that was *)
(* never committed: HandleAppendEntries never gets to cut the log.         *)
LogsOnlyGrow == [][LogStep]_vars
=============================================================================
