---------------------------- MODULE MCRaftRestart ----------------------------
(***************************************************************************)
(* Instances of RaftRestart for TLC.  RestartView hides less than View of  *)
(* MCRaft: a request that is older than its receiver's term is read again  *)
(* when the receiver has restarted.                                        *)
(***************************************************************************)
EXTENDS RaftRestartInductive, TLC

Symmetry == Permutations(Server) \cup Permutations(Command)

MayRestart(i) == i \notin restarted /\ Cardinality(restarted) < MaxRestarts

ElectionAwaits(m) ==
    /\ pc[m.args.candidateId] = "election"
    /\ electionTerm[m.args.candidateId] = m.args.term

CallAwaits(m) ==
    LET c == call[m.args.leaderId][m.to]
    IN c.status = "sent" /\ AppendEntriesArgsToProto(c.args) = m.args

MaySendAgain(m) ==
    /\ state[m.args.leaderId] = "Leader"
    /\ currentTerm[m.args.leaderId] = m.args.term

LeaderIndex(f) == [i \in Server |-> IF state[i] = "Leader" THEN f[i] ELSE <<>>]

RestartView ==
    <<nodeVars, logVars, LeaderIndex(nextIndex), LeaderIndex(matchIndex), pc, votes,
      [i \in Server |-> IF pc[i] = "election" THEN electionTerm[i] ELSE 0],
      {m \in voteRequests :
          m.args.term >= currentTerm[m.to] \/ ElectionAwaits(m) \/ MayRestart(m.to)},
      voteReplies, call,
      {m \in appendRequests :
          \/ m.args.term >= currentTerm[m.to] \/ CallAwaits(m)
          \/ MaySendAgain(m) \/ MayRestart(m.to)},
      Cardinality(appendRequests), restarted,
      {m \in orphans : m.args.term >= currentTerm[m.to]}, everCommitted>>
=============================================================================
