---------------------------- MODULE RaftInductive ----------------------------
(***************************************************************************)
(* The inductive invariant behind the safety of Raft when an election      *)
(* needs every vote, which votesNeeded = (len(peers)+1)/2+1 makes so for   *)
(* clusters of up to three nodes.  In larger clusters a heartbeat of the   *)
(* current term makes a voter forget its vote, and these parts fail.       *)
(***************************************************************************)
EXTENDS Raft

Unanimous == VotesNeeded >= Cardinality(Server)

-----------------------------------------------------------------------------
(* Elections.                                                              *)

(* j can neither vote in, nor have started, an election of i's term: it    *)
(* has reached i's election term without campaigning in it.                *)
Supports(j, i) ==
    currentTerm[j] >= electionTerm[i] /\ electionTerm[j] # electionTerm[i]

(* A node never forgets that it campaigned in its current term.            *)
OwnVote ==
    \A i \in Server :
        /\ electionTerm[i] <= currentTerm[i]
        /\ pc[i] = "election" => electionTerm[i] > 0
        /\ electionTerm[i] = currentTerm[i] /\ currentTerm[i] > 0 => votedFor[i] = i

VoteRequestOrigin ==
    \A m \in voteRequests :
        /\ m.to # m.args.candidateId
        /\ 0 < m.args.term /\ m.args.term <= electionTerm[m.args.candidateId]

(* Every granted vote, counted or on its way, is from a supporter.         *)
VotesAreSupport ==
    /\ \A r \in voteReplies :
          /\ pc[r.to] = "election" /\ r.from # r.to
          /\ r.reply.voteGranted => Supports(r.from, r.to)
    /\ \A i \in Server : \A j \in votes[i] :
          pc[i] = "election" /\ (j # i => Supports(j, i))

(* A leader is done with its own election and all others support it.       *)
LeaderIsSupported ==
    \A i \in Server :
        state[i] = "Leader" =>
            /\ pc[i] = "run" /\ electionTerm[i] = currentTerm[i] /\ currentTerm[i] > 0
            /\ \A j \in Server \ {i} : Supports(j, i)

(* The trace of a leader: a request of term t was sent by a node that won  *)
(* an election of term t, so all others passed t without campaigning in it.*)
RequestIsSupported ==
    \A m \in appendRequests :
        LET l == m.args.leaderId
            t == m.args.term
        IN /\ m.to # l /\ t > 0
           /\ t <= electionTerm[l] /\ (t = electionTerm[l] => pc[l] # "election")
           /\ \A j \in Server \ {l} : currentTerm[j] >= t /\ electionTerm[j] # t

ElectionInv ==
    /\ OwnVote
    /\ VoteRequestOrigin
    /\ VotesAreSupport
    /\ LeaderIsSupported
    /\ RequestIsSupported

-----------------------------------------------------------------------------
(* Logs.                                                                   *)

(* i still campaigns in the term it asked votes for.                       *)
StillCandidate(i) ==
    pc[i] = "election" /\ state[i] = "Candidate" /\ currentTerm[i] = electionTerm[i]

TermsAscend ==
    \A i \in Server : \A k \in 1..Len(log[i]) :
        /\ log[i][k].term <= currentTerm[i]
        /\ \A l \in k..Len(log[i]) : log[i][k].term <= log[i][l].term

(* A request is a piece of its sender's log, which never shrinks.          *)
RequestFromLog ==
    \A m \in appendRequests :
        LET lg == log[m.args.leaderId]
            prev == m.args.prevLogIndex
        IN /\ prev + Len(m.args.entries) <= Len(lg)
           /\ \A k \in 1..Len(m.args.entries) :
                 /\ m.args.entries[k] = lg[prev + k]
                 /\ lg[prev + k].term <= m.args.term
           /\ m.args.leaderCommit <= prev + Len(m.args.entries)

(* No log is longer than the log of a leader, nor, among its voters, than  *)
(* the log of a candidate.                                                 *)
LeaderIsLongest ==
    /\ \A i, j \in Server : state[i] = "Leader" => Len(log[j]) <= Len(log[i])
    /\ \A i \in Server : StillCandidate(i) =>
          /\ \A j \in votes[i] : Len(log[j]) <= Len(log[i])
          /\ \A r \in voteReplies :
                r.to = i /\ r.reply.voteGranted => Len(log[r.from]) <= Len(log[i])
          /\ \A m \in voteRequests :
                m.args.candidateId = i /\ m.args.term = electionTerm[i] =>
                    /\ m.args.lastLogIndex = Len(log[i])
                    /\ m.args.lastLogTerm = LastTerm(log[i])

LogInv ==
    /\ LogsNeverDiverge
    /\ TermsAscend
    /\ RequestFromLog
    /\ LeaderIsLongest
    /\ AppliedFromLog
    /\ applied \in [Server -> Seq(Entry)]

(* The invariant that every step preserves.                                *)
SafetyInv == TypeOK /\ ElectionInv /\ LogInv

-----------------------------------------------------------------------------
(* Replication, on top of SafetyInv.                                       *)

IndexIsPlace == \A i \in Server : \A k \in 1..Len(log[i]) : log[i][k].index = k

(* What a reply that is still to be read, or one that has been read, says  *)
(* of a follower's log is true: logs never shrink.                         *)
MatchIsStored ==
    \A i, j \in Server :
        /\ matchIndex[i][j] <= Len(log[j])
        /\ call[i][j].status = "replied" /\ call[i][j].reply.success
              => MatchedBy(call[i][j].args) <= Len(log[j])

StoredByMajority(n) ==
    Cardinality({j \in Server : Len(log[j]) >= n}) > Cardinality(Server) \div 2

(* A majority stores what a node, or a request on its way, calls committed.*)
CommitIsStored ==
    /\ \A i \in Server : StoredByMajority(commitIndex[i])
    /\ \A m \in appendRequests : StoredByMajority(m.args.leaderCommit)

(* Whoever a request or a node names as the leader of a term has reached   *)
(* that term, and leads it unless it has gone beyond.                      *)
Led(l, t) == currentTerm[l] >= t /\ (currentTerm[l] = t => state[l] = "Leader")

LeaderIsNamed ==
    /\ \A m \in appendRequests : Led(m.args.leaderId, m.args.term)
    /\ \A i \in Server : leaderID[i] # Nil => Led(leaderID[i], currentTerm[i])

(* What leaders, followers and requests say of one another is true: the    *)
(* matchIndex a leader commits by, the commit indices that requests carry, *)
(* and the leader that followers redirect clients to.                      *)
ReplicationInv == IndexIsPlace /\ MatchIsStored /\ CommitIsStored /\ LeaderIsNamed

-----------------------------------------------------------------------------
(* The abstract log: what the node that has got furthest has committed.    *)
Furthest == CHOOSE i \in Server : \A j \in Server : commitIndex[j] <= commitIndex[i]

Abstract == INSTANCE CommittedLog WITH committed <- Committed(Furthest)

(* The cluster implements one committed log: commits of old and new        *)
(* leaders, followers catching up and appliers lagging behind are steps of *)
(* CommittedLog or change nothing it shows.                                *)
ImplementsCommittedLog == Abstract!Spec
=============================================================================
