------------------------------- MODULE MCRaft -------------------------------
(***************************************************************************)
(* Instances of Raft for TLC.                                              *)
(*                                                                         *)
(* View identifies states that differ only in values no later step reads:  *)
(* requests older than their receiver's term that nobody waits for or will *)
(* send again, a finished election's local term, and the indices of a node *)
(* that does not lead (becomeLeaderLocked overwrites them).                *)
(***************************************************************************)
EXTENDS RaftInductive, TLC

Symmetry == Permutations(Server) \cup Permutations(Command)

ElectionAwaits(m) ==
    /\ pc[m.args.candidateId] = "election"
    /\ electionTerm[m.args.candidateId] = m.args.term

CallAwaits(m) ==
    LET c == call[m.args.leaderId][m.to]
    IN c.status = "sent" /\ AppendEntriesArgsToProto(c.args) = m.args

MaySendAgain(m) ==
    /\ state[m.args.leaderId] = "Leader"
    /\ currentTerm[m.args.leaderId] = m.args.term

LeaderIndex(f) == [i \in Server |-> IF state[i] = "Leader" THEN f[i] ELSE <<>>]

View ==
    <<nodeVars, logVars, LeaderIndex(nextIndex), LeaderIndex(matchIndex), pc, votes,
      [i \in Server |-> IF pc[i] = "election" THEN electionTerm[i] ELSE 0],
      {m \in voteRequests : m.args.term >= currentTerm[m.to] \/ ElectionAwaits(m)},
      voteReplies, call,
      {m \in appendRequests :
          m.args.term >= currentTerm[m.to] \/ CallAwaits(m) \/ MaySendAgain(m)},
      Cardinality(appendRequests)>>
=============================================================================
