----------------------------- MODULE RaftRestart -----------------------------
(***************************************************************************)
(* Raft nodes whose process is restarted.  NewNode starts with an empty    *)
(* memory: term, vote and log are gone (the limitation README.md states),  *)
(* while the store keeps what was applied and gets all of it again from    *)
(* index 1 on.  Calls sent before the restart may still be handled after   *)
(* it.                                                                     *)
(*                                                                         *)
(* Two restrictions are not in the code.  A leader does not restart here:  *)
(* one that does may win its own term again and give its indices to other  *)
(* commands.  And each node restarts at most once, MaxRestarts of them     *)
(* altogether.                                                             *)
(***************************************************************************)
EXTENDS RaftInductive

CONSTANT MaxRestarts    \* bound: how many nodes restart

ASSUME RestartAssumption == MaxRestarts \in Nat

VARIABLES
    restarted,      \* the nodes that lost their memory
    orphans,        \* RequestVote calls of processes that are gone
    everCommitted   \* the longest log any node ever regarded as committed

restartVars == <<vars, restarted, orphans, everCommitted>>

RestartInit == Init /\ restarted = {} /\ orphans = {} /\ everCommitted = <<>>

-----------------------------------------------------------------------------
(* A new process on node i; the calls and the election of the old one are  *)
(* gone.                                                                   *)
NewProcess(i) ==
    /\ Cardinality(restarted) < MaxRestarts
    /\ restarted' = restarted \cup {i}
    /\ currentTerm' = [currentTerm EXCEPT ![i] = 0]
    /\ votedFor' = [votedFor EXCEPT ![i] = Nil]
    /\ state' = [state EXCEPT ![i] = "Follower"]
    /\ leaderID' = [leaderID EXCEPT ![i] = Nil]
    /\ log' = [log EXCEPT ![i] = <<>>]
    /\ commitIndex' = [commitIndex EXCEPT ![i] = 0]
    /\ applied' = [applied EXCEPT ![i] = <<>>]
    /\ nextIndex' = [nextIndex EXCEPT ![i] = [j \in Server |-> 0]]
    /\ matchIndex' = [matchIndex EXCEPT ![i] = [j \in Server |-> 0]]
    /\ pc' = [pc EXCEPT ![i] = "run"]
    /\ electionTerm' = [electionTerm EXCEPT ![i] = 0]
    /\ votes' = [votes EXCEPT ![i] = {}]
    /\ voteReplies' = voteReplies \ RepliesTo(i)
    /\ voteRequests' = {m \in voteRequests : m.args.candidateId # i}
    /\ orphans' = orphans \cup (voteRequests \ voteRequests')
    /\ call' = [call EXCEPT ![i] = [j \in Server |-> NoCall]]
    /\ UNCHANGED appendRequests

Restart(i) == i \notin restarted /\ state[i] # "Leader" /\ NewProcess(i)

(* HandleRequestVote for a candidate that no longer listens.               *)
HandleOrphan(m) ==
    LET i == m.to
        args == m.args
        newer == args.term > currentTerm[i]
        grant == /\ newer \/ (args.term = currentTerm[i] /\ votedFor[i] \in {Nil, args.candidateId})
                 /\ UpToDate(args, log[i])
    IN /\ currentTerm' = [currentTerm EXCEPT ![i] = IF newer THEN args.term ELSE @]
       /\ state' = [state EXCEPT ![i] = IF newer THEN "Follower" ELSE @]
       /\ leaderID' = [leaderID EXCEPT ![i] = IF newer THEN Nil ELSE @]
       /\ votedFor' = [votedFor EXCEPT ![i] =
                         IF grant THEN args.candidateId ELSE IF newer THEN Nil ELSE @]
       /\ orphans' = orphans \ {m}
       /\ UNCHANGED <<restarted, logVars, leaderVars, runVars, voteVars, appendVars>>

LongestCommitted ==
    LET longest == CHOOSE i \in Server : \A j \in Server : commitIndex'[j] <= commitIndex'[i]
    IN SubSeq(log'[longest], 1, commitIndex'[longest])

RestartNext ==
    /\ \/ Next /\ UNCHANGED <<restarted, orphans>>
       \/ \E m \in orphans : HandleOrphan(m)
       \/ \E i \in Server : Restart(i)
    /\ everCommitted' = IF Len(LongestCommitted) > Len(everCommitted)
                        THEN LongestCommitted ELSE everCommitted

RestartSpec == RestartInit /\ [][RestartNext]_restartVars

-----------------------------------------------------------------------------
(* The newest leader holds everything that was ever committed, although a  *)
(* node that helped to commit it has lost its log: votesNeeded makes every *)
(* candidate compare its log with that of every other node.                *)
CommittedSurvives ==
    \A i \in Server :
        state[i] = "Leader" /\ (\A j \in Server : currentTerm[j] <= currentTerm[i])
            => IsPrefixOf(everCommitted, log[i])

(* What a restarted node commits and hands to its store again is what was  *)
(* committed the first time, on whatever node.                             *)
ReplayAgrees ==
    \A i \in Server :
        IsPrefixOf(applied[i], everCommitted) /\ IsPrefixOf(Committed(i), everCommitted)
=============================================================================
