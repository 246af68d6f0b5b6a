------------------------ MODULE RaftRestartInductive ------------------------
(***************************************************************************)
(* The inductive invariant behind RaftRestart when an election needs every *)
(* vote and at most one node restarts.  A restarted node has forgotten     *)
(* what it voted, stored and acknowledged, so each part of SafetyInv is    *)
(* kept for the other nodes only, and what the forgetful one may still do  *)
(* is bounded by what the others remember.                                 *)
(***************************************************************************)
EXTENDS RaftRestart

-----------------------------------------------------------------------------
(* Elections.                                                              *)

(* j's vote in i's election was counted or is on its way.                  *)
Granted(j, i) ==
    \/ j \in votes[i]
    \/ \E r \in voteReplies : r.from = j /\ r.to = i /\ r.reply.voteGranted

(* HandleAppendEntries clears the vote a restarted node gave itself in the *)
(* term of an older leader.                                                *)
OwnVoteKept ==
    \A i \in Server :
        /\ electionTerm[i] <= currentTerm[i]
        /\ pc[i] = "election" => electionTerm[i] > 0
        /\ i \notin restarted /\ electionTerm[i] = currentTerm[i] /\ currentTerm[i] > 0
              => votedFor[i] = i

(* Votes are held, or on their way, only while the election lasts.         *)
VotesInPlay ==
    /\ restarted = {} => orphans = {}
    /\ \A m \in orphans : m.to # m.args.candidateId
    /\ \A r \in voteReplies : pc[r.to] = "election" /\ r.from # r.to
    /\ \A i \in Server : votes[i] # {} => pc[i] = "election"

VotesAreKept ==
    \A i \in Server : \A j \in Server \ (restarted \cup {i}) : Granted(j, i) => Supports(j, i)

LeaderIsKept ==
    \A i \in Server :
        state[i] = "Leader" =>
            /\ pc[i] = "run" /\ electionTerm[i] = currentTerm[i] /\ currentTerm[i] > 0
            /\ \A j \in Server \ (restarted \cup {i}) : Supports(j, i)

(* A node that counts on a vote r gave before it restarted does not vote   *)
(* for r before r has caught up.                                           *)
OldVoteBinds ==
    \A r \in restarted : \A i \in Server \ {r} :
        /\ currentTerm[r] < electionTerm[i]
        /\ state[i] = "Leader" \/ (StillCandidate(i) /\ Granted(r, i))
        => state[r] # "Leader" /\ ~Granted(i, r)

-----------------------------------------------------------------------------
(* Requests.                                                               *)

(* The request is a piece of the log its sender still has.                 *)
Backed(m) ==
    LET l == m.args.leaderId
        prev == m.args.prevLogIndex
    IN /\ m.args.term <= electionTerm[l]
       /\ m.args.term = electionTerm[l] => pc[l] # "election"
       /\ prev + Len(m.args.entries) <= Len(log[l])
       /\ \A k \in 1..Len(m.args.entries) : m.args.entries[k] = log[l][prev + k]

(* The sender has lost that log; someone will not let it win a term that   *)
(* it may have led.                                                        *)
Unbacked(m) ==
    LET l == m.args.leaderId
    IN /\ l \in restarted
       /\ \E k \in Server \ {l} :
             /\ currentTerm[k] > m.args.term
             /\ Granted(k, l) \/ state[l] = "Leader" => electionTerm[l] > m.args.term

Ordered(m) ==
    LET entries == m.args.entries
        prev == m.args.prevLogIndex
    IN /\ \A k \in 1..Len(entries) :
             /\ entries[k].index = prev + k
             /\ m.args.prevLogTerm <= entries[k].term /\ entries[k].term <= m.args.term
             /\ \A l \in k..Len(entries) : entries[k].term <= entries[l].term
       /\ m.args.leaderCommit <= prev + Len(entries)
       /\ m.args.leaderCommit <= Len(everCommitted)

(* The trace of a leader, as far as the others remember; a restarted node  *)
(* that campaigns in the same term again does not get that leader's vote.  *)
Kept(m) ==
    LET l == m.args.leaderId
        t == m.args.term
    IN /\ m.to # l /\ t > 0
       /\ \A j \in Server \ (restarted \cup {l}) : currentTerm[j] >= t /\ electionTerm[j] # t
       /\ \A r \in restarted \ {l} :
             StillCandidate(r) /\ electionTerm[r] <= t => ~Granted(l, r)

RequestIsKept == \A m \in appendRequests : Kept(m) /\ (Backed(m) \/ Unbacked(m))
RequestIsOrdered == \A m \in appendRequests : Ordered(m)

(* Until a node restarts, a leader gives way only to a higher term that    *)
(* another node has reached.                                               *)
DeposedByHigherTerm ==
    restarted = {} =>
        /\ \A m \in appendRequests :
              \/ state[m.args.leaderId] = "Leader" /\ currentTerm[m.args.leaderId] = m.args.term
              \/ \E k \in Server \ {m.args.leaderId} : currentTerm[k] > m.args.term
        /\ \A i, j \in Server :
              call[i][j].status = "replied" => call[i][j].reply.term <= currentTerm[j]

-----------------------------------------------------------------------------
(* Logs.                                                                   *)

(* Its receiver would not find the request stale.                          *)
Live(m) == currentTerm[m.to] <= m.args.term

Fits(m, lg) ==
    \A k \in 1..Len(m.args.entries) :
        m.args.prevLogIndex + k <= Len(lg) => lg[m.args.prevLogIndex + k] = m.args.entries[k]

SameEntries(m, n) ==
    \A k \in 1..Len(m.args.entries), l \in 1..Len(n.args.entries) :
        m.args.prevLogIndex + k = n.args.prevLogIndex + l
            => m.args.entries[k] = n.args.entries[l]

(* Whatever can still be accepted agrees with all that is stored, was ever *)
(* committed, or can be accepted elsewhere.                                *)
LiveRequestsAgree ==
    \A m \in appendRequests : Live(m) =>
        /\ \A i \in Server : Fits(m, log[i])
        /\ Fits(m, everCommitted)
        /\ \A n \in appendRequests : Live(n) => SameEntries(m, n)

(* i cannot win: a node that remembers has passed i's term or campaigned   *)
(* in it.                                                                  *)
Blocked(i) ==
    \E l \in Server \ (restarted \cup {i}) :
        /\ ~Granted(l, i)
        /\ \/ currentTerm[l] > electionTerm[i]
           \/ currentTerm[l] = electionTerm[i] /\ electionTerm[l] = electionTerm[i]

(* The log of i's voter j is covered: by i's, or, when j has restarted     *)
(* since it voted, by that of the node it learns its entries from.         *)
Covered(j, i) ==
    \/ Len(log[j]) <= Len(log[i])
    \/ j \in restarted /\ \E l \in Server \ {j} : Len(log[j]) <= Len(log[l])

LeaderCovers ==
    /\ \A i, j \in Server : state[i] = "Leader" => Len(log[j]) <= Len(log[i])
    /\ \A i \in Server : StillCandidate(i) =>
          /\ \/ i \in restarted /\ Blocked(i)
             \/ \A j \in Server : Granted(j, i) => Covered(j, i)
          /\ \A m \in voteRequests :
                m.args.candidateId = i /\ m.args.term = electionTerm[i] =>
                    /\ m.args.lastLogIndex = Len(log[i])
                    /\ m.args.lastLogTerm = LastTerm(log[i])

-----------------------------------------------------------------------------
(* What was committed.                                                     *)

MatchIsKept ==
    \A i \in Server : \A j \in Server \ restarted :
        /\ matchIndex[i][j] <= Len(log[j])
        /\ call[i][j].status = "replied" /\ call[i][j].reply.success
              => MatchedBy(call[i][j].args) <= Len(log[j])

(* Two nodes store what was committed, or one that will not restart.       *)
CommittedIsKept ==
    /\ everCommitted \in Seq(Entry)
    /\ \A i \in Server : commitIndex[i] <= Len(everCommitted) /\ Agree(everCommitted, log[i])
    /\ Len(everCommitted) > 0 =>
          \A r \in Server : restarted \subseteq {r} =>
              \E j \in Server \ {r} : Len(everCommitted) <= Len(log[j])

-----------------------------------------------------------------------------
RestartTypeOK ==
    /\ TypeOK /\ applied \in [Server -> Seq(Entry)]
    /\ restarted \subseteq Server /\ (\A i, j \in restarted : i = j)
    /\ orphans \subseteq [to : Server, args : RequestVoteArgs]

VoteInv ==
    /\ OwnVoteKept /\ VoteRequestOrigin /\ VotesInPlay /\ VotesAreKept
    /\ LeaderIsKept /\ OldVoteBinds
RequestInv == RequestIsKept /\ RequestIsOrdered /\ DeposedByHigherTerm
StoreInv ==
    /\ LogsNeverDiverge /\ TermsAscend /\ IndexIsPlace /\ AppliedFromLog
    /\ LiveRequestsAgree /\ LeaderCovers /\ MatchIsKept /\ CommittedIsKept

(* The invariant that every step, restarts included, preserves.            *)
RestartInv == RestartTypeOK /\ VoteInv /\ RequestInv /\ StoreInv
=============================================================================
