-------------------------- MODULE RaftRestartProof --------------------------
(***************************************************************************)
(* What survives the restart of one node that has lost its memory, in      *)
(* clusters in which an election needs every vote: RestartInv is           *)
(* inductive, and so everything ever committed is in the log of every      *)
(* later leader and is what the restarted node replays.  This module has   *)
(* the steps that change a log or a commit index, and the theorems.        *)
(***************************************************************************)
EXTENDS RaftRestartVotesProof

USE ZenonT(30)

(* A majority of two or more nodes includes another one.                   *)
LEMMA AnotherOne ==
  ASSUME Counting, Cardinality(Server) >= 2, NEW S \in SUBSET Server, NEW i \in Server,
         Cardinality(S) > Cardinality(Server) \div 2
  PROVE  \E k \in S : k # i
<1> SUFFICES ASSUME S \subseteq {i} PROVE FALSE
  OBVIOUS
<1>1. /\ Cardinality(S) \in Nat /\ Cardinality(Server) \in Nat /\ Cardinality({i}) = 1
      /\ S = {i} \/ Cardinality(S) < Cardinality({i})
  BY DEF Counting
<1>2. Cardinality(S) <= 1
  BY <1>1, SMTT(30)
<1> QED
  BY <1>1, <1>2, SMTT(30)

(* A leader commits: a node other than any one that may still restart, or  *)
(* that has restarted, stores what it commits.                             *)
LEMMA CommitStore ==
  ASSUME Counting, Server # {}, Cardinality(Server) >= 2, RestartInv, TypeOK', EverStep,
         UNCHANGED <<log, restarted, currentTerm, appendRequests>>,
         NEW i \in Server, NEW match, NEW n \in Committable(i, match),
         \A k \in Server : match[k] \in Nat,
         \A k \in Server \ restarted : match[k] <= Len(log[k]),
         commitIndex' = [commitIndex EXCEPT ![i] = n]
  PROVE  /\ LogsNeverDiverge' /\ TermsAscend' /\ IndexIsPlace' /\ CommittedIsKept'
         /\ LiveRequestsAgree' /\ RequestIsOrdered'
<1>l. \A k \in Server : log[k] \in Seq(Entry) /\ Len(log[k]) \in Nat
  BY Parts, LogFacts
<1>c. \A k \in Server : /\ commitIndex[k] \in Nat /\ Len(everCommitted) \in Nat
                        /\ commitIndex[k] <= Len(everCommitted) /\ commitIndex[k] <= Len(log[k])
  BY Parts, CommitFacts
<1>t. \A k \in Server : currentTerm'[k] >= currentTerm[k]
  <2>1. currentTerm \in [Server -> Nat]
    BY Parts, TermFacts
  <2> QED
    BY <2>1, SMTT(30)
<1>1. /\ n \in (commitIndex[i] + 1)..Len(log[i])
      /\ Cardinality({j \in Server : j = i \/ match[j] >= n}) > Cardinality(Server) \div 2
  BY DEF Committable
<1>2. n \in Nat /\ n > 0 /\ n <= Len(log[i])
  BY <1>1, <1>c, <1>l, SMTT(30)
<1>3. commitIndex'[i] = n /\ \A k \in Server : k # i => commitIndex'[k] = commitIndex[k]
  BY Parts DEF TypeOK
<1>4. everCommitted \in Seq(Entry)
  BY Parts DEF CommittedIsKept
<1>5. CASE everCommitted' = everCommitted /\ \A k \in Server : commitIndex'[k] <= Len(everCommitted)
  BY <1>5, <1>t, Parts, SameStore
<1>6. ASSUME n > Len(everCommitted), everCommitted' = SubSeq(log[i], 1, n)
      PROVE  /\ LogsNeverDiverge' /\ TermsAscend' /\ IndexIsPlace' /\ CommittedIsKept'
             /\ LiveRequestsAgree' /\ RequestIsOrdered'
  <2>1. LogsNeverDiverge' /\ TermsAscend' /\ IndexIsPlace'
    BY Parts DEF LogsNeverDiverge, TermsAscend, IndexIsPlace
  <2>2. /\ Len(everCommitted') = n /\ \A k \in 1..n : everCommitted'[k] = log[i][k]
        /\ everCommitted' \in Seq(Entry)
    <3>1. n \in 0..Len(log[i])
      BY <1>2, <1>l, SMTT(30)
    <3>2. Len(everCommitted') = n /\ \A k \in 1..n : everCommitted'[k] = log[i][k]
      BY <3>1, <1>6, <1>l, PrefixFacts
    <3>3. SubSeq(log[i], 1, n) \in Seq(Entry)
      BY <3>1, <1>l, SMTT(30)
    <3> QED
      BY <3>2, <3>3, <1>6
  <2>3. \A k \in Server : commitIndex'[k] <= n
    BY <1>2, <1>3, <1>6, <1>c, SMTT(30)
  <2>4. \A k \in 1..n : k \in 1..Len(log[i])
    BY <1>2, <1>l, SMTT(30)
  <2>5. \A k \in Server : Agree(everCommitted', log[k])
    BY <2>2, <2>4, Parts DEF Agree, LogsNeverDiverge
  <2>6. ASSUME NEW r \in Server, restarted \subseteq {r}
        PROVE  \E j \in Server \ {r} : n <= Len(log[j])
    <3>1. CASE i # r
      BY <3>1, <1>2
    <3>2. CASE i = r
      <4>1. PICK k \in {j \in Server : j = i \/ match[j] >= n} : k # i
        BY <1>1, AnotherOne
      <4>2. match[k] >= n /\ match[k] <= Len(log[k])
        BY <4>1, <3>2, <2>6
      <4>3. n <= Len(log[k])
        BY <4>1, <4>2, <1>2, <1>l, SMTT(30)
      <4> QED
        BY <4>1, <4>3, <3>2
    <3> QED
      BY <3>1, <3>2
  <2>7. CommittedIsKept'
    BY <2>2, <2>3, <2>5, <2>6 DEF CommittedIsKept
  <2>8. ASSUME NEW m \in appendRequests, Live(m)' PROVE Live(m) /\ Fits(m, everCommitted')
    <3>1. Live(m) /\ Fits(m, log[i])
      BY <2>8, Parts DEF Live, LiveRequestsAgree
    <3>2. m.args.prevLogIndex \in Nat
      BY Parts, RequestFacts
    <3>3. ASSUME NEW k \in 1..Len(m.args.entries), m.args.prevLogIndex + k <= n
          PROVE  everCommitted'[m.args.prevLogIndex + k] = m.args.entries[k]
      <4>1. m.args.prevLogIndex + k \in 1..n /\ m.args.prevLogIndex + k <= Len(log[i])
        BY <3>2, <3>3, <1>2, <1>l, SMTT(30)
      <4> QED
        BY <4>1, <3>1, <2>2 DEF Fits
    <3> QED
      BY <3>1, <3>3, <2>2 DEF Fits
  <2>9. LiveRequestsAgree'
    BY <2>8, Parts DEF LiveRequestsAgree
  <2>10. RequestIsOrdered'
    <3>1. ASSUME NEW m \in appendRequests PROVE m.args.leaderCommit <= Len(everCommitted')
      <4>1. m.args.leaderCommit <= Len(everCommitted) /\ m.args.leaderCommit \in Nat
        BY Parts, RequestFacts DEF RequestIsOrdered, Ordered
      <4> QED
        BY <4>1, <2>2, <1>2, <1>6, <1>c, SMTT(30)
    <3> QED
      BY <3>1, Parts DEF RequestIsOrdered, Ordered
  <2> QED
    BY <2>1, <2>7, <2>9, <2>10
<1>7. \A k \in Server : commitIndex'[k] <= Len(log'[k])
  BY <1>2, <1>3, <1>c
<1>8. CASE \E k \in Server : /\ commitIndex'[k] > Len(everCommitted)
                             /\ everCommitted' = SubSeq(log'[k], 1, commitIndex'[k])
  <2>1. PICK k \in Server : /\ commitIndex'[k] > Len(everCommitted)
                            /\ everCommitted' = SubSeq(log'[k], 1, commitIndex'[k])
    BY <1>8
  <2>2. k = i
    <3>1. k # i => ~(commitIndex[k] > Len(everCommitted))
      BY <1>c, SMTT(30)
    <3> QED
      BY <2>1, <3>1, <1>3
  <2> QED
    BY <2>1, <2>2, <1>3, <1>6
<1> QED
  BY <1>4, <1>5, <1>7, <1>8, EverChoice

(* A replication worker reads a reply: it follows a higher term, or notes  *)
(* what the follower stores and commits what enough nodes store.           *)
LEMMA ReplyStep ==
  ASSUME Counting, Server # {}, Cardinality(Server) >= 2, RestartInv, TypeOK', EverStep,
         UNCHANGED <<restarted, orphans>>,
         NEW i \in Server, NEW j \in Server, ReplicationReply(i, j)
  PROVE  Rest'
<1> DEFINE args == call[i][j].args
           reply == call[i][j].reply
           match == MatchedBy(args)
<1>1. /\ call[i][j].status = "replied" /\ call' = [call EXCEPT ![i][j] = NoCall]
      /\ UNCHANGED <<log, applied, appendRequests>> /\ UNCHANGED <<runVars, voteVars>>
  BY DEF ReplicationReply
<1>t. /\ currentTerm \in [Server -> Nat] /\ electionTerm \in [Server -> Nat]
      /\ reply.term \in Nat /\ match \in Nat
  <2>1. args \in AppendEntriesArgs /\ reply \in AppendEntriesReply
    BY <1>1, Parts, CallFacts
  <2>2. reply.term \in Nat
    BY <2>1, SMTT(30) DEF AppendEntriesReply, Term
  <2>3. match \in Nat
    BY <2>1, ArgsFacts, SMTT(30) DEF MatchedBy, Index
  <2> QED
    BY <2>2, <2>3, Parts, TermFacts
<1>2. \A a, b \in Server : call'[a][b].status = "replied" => call'[a][b] = call[a][b]
  <2> SUFFICES ASSUME NEW a \in Server, NEW b \in Server, call'[a][b].status = "replied"
               PROVE  call'[a][b] = call[a][b]
    OBVIOUS
  <2>1. call'[i][j] = NoCall /\ (a # i \/ b # j => call'[a][b] = call[a][b])
    <3>1. call \in [Server -> [Server -> Call]] /\ call' = [call EXCEPT ![i][j] = NoCall]
      BY <1>1, Parts DEF TypeOK
    <3> QED
      BY <3>1, SMTT(30)
  <2>2. NoCall.status # "replied"
    BY SMTT(30) DEF NoCall
  <2> QED
    BY <2>1, <2>2
<1>3. ASSUME reply.term > currentTerm[i], becomeFollowerLocked(i, reply.term),
             UNCHANGED <<commitIndex, leaderVars>>
      PROVE  Rest'
  <2>1. /\ currentTerm' = [currentTerm EXCEPT ![i] = reply.term]
        /\ votedFor' = [votedFor EXCEPT ![i] = Nil]
        /\ state' = [state EXCEPT ![i] = "Follower"] /\ matchIndex' = matchIndex
    BY <1>3 DEF becomeFollowerLocked, leaderVars
  <2>2. electionTerm[i] # reply.term /\ reply.term >= currentTerm[i]
    <3>1. electionTerm[i] <= currentTerm[i]
      BY Parts DEF OwnVoteKept
    <3> QED
      BY <3>1, <1>3, <1>t, SMTT(30)
  <2>3. Mild /\ Local'
    BY <2>1, <2>2, <1>1, <1>t, Parts, FollowsIsMild
  <2>4. ASSUME restarted = {} PROVE j # i /\ currentTerm'[j] > currentTerm[i]
    <3>1. reply.term <= currentTerm[j]
      BY <2>4, <1>1, Parts DEF DeposedByHigherTerm
    <3>2. currentTerm[j] > currentTerm[i] /\ j # i
      BY <3>1, <1>3, <1>t, SMTT(30)
    <3> QED
      BY <3>2, <2>1, <1>t
  <2>5. \A l \in Server : l # i => state'[l] = state[l] /\ currentTerm'[l] = currentTerm[l]
    BY <2>1, <1>t, Parts DEF TypeOK
  <2>6. DeposedByHigherTerm'
    <3>1. \A l \in Server : state[l] = "Leader" =>
             \/ state'[l] = "Leader" /\ currentTerm'[l] = currentTerm[l]
             \/ restarted = {} => \E k \in Server \ {l} : currentTerm'[k] > currentTerm[l]
      BY <2>4, <2>5
    <3>2. \A k \in Server : currentTerm'[k] >= currentTerm[k]
      BY <2>3 DEF Mild, Calm
    <3> QED
      BY <3>1, <3>2, <1>1, <1>2, Parts, DeposedStays
  <2>7. AppliedFromLog' /\ MatchIsKept'
    BY <2>1, <1>1, <1>2, <1>3, Parts DEF AppliedFromLog, MatchIsKept
  <2> QED
    BY <2>3, <2>6, <2>7, <1>1, <1>3, MildStep
<1>4. ASSUME UNCHANGED nodeVars PROVE Mild /\ Local' /\ DeposedByHigherTerm'
  <2>1. Mild /\ Local'
    BY <1>1, <1>4, Parts, QuietIsMild
  <2> QED
    BY <2>1, <1>1, <1>2, <1>4, Parts DEF DeposedByHigherTerm, nodeVars
<1>5. ASSUME UNCHANGED <<nodeVars, commitIndex, matchIndex>> PROVE Rest'
  <2>1. AppliedFromLog' /\ MatchIsKept'
    BY <1>1, <1>2, <1>5, Parts DEF AppliedFromLog, MatchIsKept
  <2> QED
    BY <2>1, <1>1, <1>4, <1>5, MildStep
<1>6. ASSUME UNCHANGED nodeVars, reply.success,
             matchIndex' = [matchIndex EXCEPT ![i][j] = match],
             tryAdvanceCommitIndexLocked(i, [matchIndex[i] EXCEPT ![j] = match])
      PROVE  Rest'
  <2>0. /\ matchIndex'[i] = [matchIndex[i] EXCEPT ![j] = match] /\ matchIndex'[i][j] = match
        /\ \A a, b \in Server : a # i \/ b # j => matchIndex'[a][b] = matchIndex[a][b]
    <3>1. matchIndex \in [Server -> [Server -> Index]]
      BY Parts DEF TypeOK
    <3> QED
      BY <3>1, <1>6, SMTT(30)
  <2>1. MatchIsKept'
    <3>1. j \notin restarted => match <= Len(log[j])
      BY <1>1, <1>6, Parts DEF MatchIsKept
    <3>2. \A a \in Server : \A b \in Server \ restarted : matchIndex'[a][b] <= Len(log[b])
      BY <2>0, <3>1, Parts DEF MatchIsKept
    <3> QED
      BY <3>2, <1>1, <1>2, Parts DEF MatchIsKept
  <2>2. CASE commitIndex' = commitIndex
    <3>1. AppliedFromLog'
      BY <2>2, <1>1, Parts, SameApplied
    <3> QED
      BY <2>1, <2>2, <3>1, <1>1, <1>4, <1>6, MildStep
  <2>3. ASSUME NEW n \in Committable(i, matchIndex'[i]), commitIndex' = [commitIndex EXCEPT ![i] = n]
        PROVE  Rest'
    <3>1. /\ \A k \in Server : matchIndex'[i][k] \in Nat
          /\ \A k \in Server \ restarted : matchIndex'[i][k] <= Len(log[k])
      <4>1. \A k \in Server : matchIndex'[i][k] \in Nat
        BY SMTT(30) DEF TypeOK, Index
      <4> QED
        BY <4>1, <2>1, <1>1 DEF MatchIsKept
    <3>2. currentTerm' = currentTerm
      BY <1>6 DEF nodeVars
    <3>3. /\ LogsNeverDiverge' /\ TermsAscend' /\ IndexIsPlace' /\ CommittedIsKept'
          /\ LiveRequestsAgree' /\ RequestIsOrdered'
      BY <2>3, <3>1, <3>2, <1>1, CommitStore
    <3>4. AppliedFromLog'
      <4>1. n \in (commitIndex[i] + 1)..Len(log[i])
        BY <2>3 DEF Committable
      <4>2. /\ commitIndex[i] \in Nat /\ Len(log[i]) \in Nat /\ Len(applied[i]) \in Nat
            /\ Len(applied[i]) <= commitIndex[i]
        <5>1. applied[i] \in Seq(Entry)
          BY Parts DEF RestartTypeOK
        <5>2. Len(applied[i]) \in Nat
          BY <5>1, SMTT(30)
        <5> QED
          BY <5>2, Parts, LogFacts, CommitFacts DEF AppliedFromLog
      <4>3. Len(applied[i]) <= n /\ n <= Len(log[i])
        BY <4>1, <4>2, SMTT(30)
      <4>4. commitIndex'[i] = n /\ \A k \in Server : k # i => commitIndex'[k] = commitIndex[k]
        BY <2>3, Parts DEF TypeOK
      <4> QED
        BY <4>3, <4>4, <1>1, Parts DEF AppliedFromLog
    <3>5. LogStep /\ LeaderCovers'
      BY <1>1, <1>4, <1>6, Parts, QuietKeepsCovers
    <3>6. Elected'
      BY <1>4, <1>6, Parts, MildKeepsVotes
    <3>7. RequestIsKept'
      BY <3>5, <1>1, <1>4, <1>6, Parts, MildKeepsTraces DEF RequestIsKept, Traced
    <3> QED
      BY <2>1, <3>3, <3>4, <3>5, <3>6, <3>7, <1>4, <1>6
      DEF Rest, VoteInv, RequestInv, StoreInv, Local, Elected
  <2> QED
    BY <2>0, <2>2, <2>3, <1>6 DEF tryAdvanceCommitIndexLocked
<1> HIDE DEF match
<1> QED
  BY <1>3, <1>5, <1>6 DEF ReplicationReply, leaderVars, match

-----------------------------------------------------------------------------
(* One log grows.                                                          *)

Grows(j, new) ==
    /\ log' = [log EXCEPT ![j] = new] /\ new \in Seq(Entry) /\ IsPrefixOf(log[j], new)

(* The longer log agrees with all that is stored, was committed or may     *)
(* still be accepted, and is in order.                                     *)
Suits(j, new) ==
    /\ \A k \in Server : Agree(new, log[k])
    /\ Agree(new, everCommitted)
    /\ \A n \in appendRequests : Live(n) => Fits(n, new)
    /\ \A q \in 1..Len(new) :
          /\ new[q].index = q /\ new[q].term <= currentTerm'[j]
          /\ \A l \in q..Len(new) : new[q].term <= new[l].term

(* No log loses an entry by that.                                          *)
LEMMA GrowsLog ==
  ASSUME TypeOK, NEW j \in Server, NEW new, Grows(j, new)
  PROVE  /\ LogStep /\ log'[j] = new /\ Len(new) \in Nat /\ Len(log[j]) <= Len(new)
         /\ \A k \in Server : k # j => log'[k] = log[k]
         /\ \A k \in Server : /\ Len(log[k]) \in Nat /\ Len(log'[k]) \in Nat
                              /\ Len(log[k]) <= Len(log'[k])
<1>1. log \in [Server -> Log] /\ log' = [log EXCEPT ![j] = new]
  BY DEF TypeOK, Grows
<1>2. log'[j] = new /\ \A k \in Server : k # j => log'[k] = log[k]
  BY <1>1
<1>3. new \in Seq(Entry) /\ IsPrefixOf(log[j], new)
  BY DEF Grows
<1>4. Len(new) \in Nat
  BY <1>3, SMTT(30)
<1>5. \A k \in Server : Len(log[k]) \in Nat /\ IsPrefixOf(log[k], log[k])
  <2>1. \A k \in Server : Len(log[k]) \in Nat
    BY LogFacts
  <2>2. \A k \in Server : Len(log[k]) <= Len(log[k])
    BY <2>1, SMTT(30)
  <2> QED
    BY <2>1, <2>2 DEF IsPrefixOf
<1>6. \A k \in Server : IsPrefixOf(log[k], log'[k]) /\ Len(log'[k]) \in Nat
  BY <1>2, <1>3, <1>4, <1>5
<1> QED
  BY <1>2, <1>3, <1>4, <1>5, <1>6 DEF LogStep, IsPrefixOf

(* What a longer log that suits the others keeps.                          *)
LEMMA GrowStep ==
  ASSUME Counting, Server # {}, RestartInv, TypeOK', EverStep, Mild, Local',
         UNCHANGED <<restarted, appendRequests, applied>>,
         NEW j \in Server, NEW new, Grows(j, new), Suits(j, new),
         \A k \in Server : k # j => commitIndex'[k] = commitIndex[k],
         commitIndex'[j] >= commitIndex[j], commitIndex'[j] <= Len(new),
         commitIndex'[j] <= Len(everCommitted),
         LeaderCovers', MatchIsKept', DeposedByHigherTerm'
  PROVE  Rest'
<1>1. /\ LogStep /\ log'[j] = new /\ Len(new) \in Nat /\ Len(log[j]) <= Len(new)
      /\ \A k \in Server : k # j => log'[k] = log[k]
      /\ \A k \in Server : /\ Len(log[k]) \in Nat /\ Len(log'[k]) \in Nat
                           /\ Len(log[k]) <= Len(log'[k])
  BY Parts, GrowsLog
<1>t. currentTerm \in [Server -> Nat] /\ currentTerm' \in [Server -> Nat]
  <2>1. currentTerm' \in [Server -> Nat]
    BY SMTT(30) DEF TypeOK, Term
  <2> QED
    BY <2>1, Parts, TermFacts
<1>2. new \in Seq(Entry) /\ \A q \in 1..Len(log[j]) : new[q] = log[j][q]
  BY DEF Grows, IsPrefixOf
<1>3. /\ \A k \in Server : Agree(new, log[k])
      /\ Agree(new, everCommitted)
      /\ \A n \in appendRequests : Live(n) => Fits(n, new)
      /\ \A q \in 1..Len(new) :
            /\ new[q].index = q /\ new[q].term <= currentTerm'[j]
            /\ \A l \in q..Len(new) : new[q].term <= new[l].term
  BY DEF Suits
<1>4. \A k \in Server : commitIndex'[k] <= Len(everCommitted) /\ commitIndex'[k] <= Len(log'[k])
  BY <1>1, Parts DEF CommittedIsKept
<1>5. everCommitted' = everCommitted
  BY <1>4, Parts, EverStays
<1>6. \A k \in Server : currentTerm'[k] >= currentTerm[k]
  BY DEF Mild, Calm
<1>7. LogsNeverDiverge'
  <2>1. \A k \in Server : Agree(log[k], new)
    <3> SUFFICES ASSUME NEW k \in Server, NEW q \in 1..Len(log[k]), q <= Len(new)
                 PROVE  log[k][q] = new[q]
      BY DEF Agree
    <3>1. q \in 1..Len(new) /\ q <= Len(log[k])
      BY <1>1, SMTT(30)
    <3> QED
      BY <3>1, <1>3 DEF Agree
  <2>2. Agree(new, new)
    BY DEF Agree
  <2> QED
    BY <1>1, <1>3, <2>1, <2>2, Parts DEF LogsNeverDiverge
<1>8. TermsAscend'
  <2> SUFFICES ASSUME NEW k \in Server, NEW q \in 1..Len(log'[k])
               PROVE  /\ log'[k][q].term <= currentTerm'[k]
                      /\ \A l \in q..Len(log'[k]) : log'[k][q].term <= log'[k][l].term
    BY DEF TermsAscend
  <2>1. CASE k = j
    BY <2>1, <1>1, <1>3
  <2>2. CASE k # j
    <3>1. log'[k] = log[k] /\ q \in 1..Len(log[k])
      BY <2>2, <1>1
    <3>2. log[k][q].term \in Nat /\ currentTerm[k] \in Nat /\ currentTerm'[k] \in Nat
      BY <1>t, <3>1, Parts, LogFacts
    <3>3. /\ log[k][q].term <= currentTerm[k]
          /\ \A l \in q..Len(log[k]) : log[k][q].term <= log[k][l].term
      BY <3>1, Parts DEF TermsAscend
    <3>4. log[k][q].term <= currentTerm'[k]
      BY <3>2, <3>3, <1>6, SMTT(30)
    <3> QED
      BY <3>1, <3>3, <3>4
  <2> QED
    BY <2>1, <2>2
<1>9. IndexIsPlace'
  BY <1>1, <1>3, Parts DEF IndexIsPlace
<1>10. AppliedFromLog'
  <2> SUFFICES ASSUME NEW k \in Server
               PROVE  /\ Len(applied[k]) <= commitIndex'[k] /\ commitIndex'[k] <= Len(log'[k])
                      /\ IsPrefixOf(applied[k], log'[k])
    BY DEF AppliedFromLog
  <2>1. /\ Len(applied[k]) \in Nat /\ commitIndex[k] \in Nat /\ commitIndex'[k] \in Nat
        /\ commitIndex'[k] >= commitIndex[k]
    <3>1. applied[k] \in Seq(Entry)
      BY Parts DEF RestartTypeOK
    <3>2. Len(applied[k]) \in Nat
      BY <3>1, SMTT(30)
    <3>3. commitIndex[k] \in Nat
      BY Parts, CommitFacts
    <3>4. commitIndex'[k] \in Nat
      BY SMTT(30) DEF TypeOK, Index
    <3>5. commitIndex[k] >= commitIndex[k]
      BY <3>3, SMTT(30)
    <3> QED
      BY <3>2, <3>3, <3>4, <3>5
  <2>2. /\ Len(applied[k]) <= commitIndex[k] /\ Len(applied[k]) <= Len(log[k])
        /\ \A q \in 1..Len(applied[k]) : applied[k][q] = log[k][q]
    BY Parts DEF AppliedFromLog, IsPrefixOf
  <2>3. \A q \in 1..Len(applied[k]) : log'[k][q] = log[k][q]
    <3>1. \A q \in 1..Len(applied[k]) : q \in 1..Len(log[k])
      BY <2>1, <2>2, <1>1, SMTT(30)
    <3> QED
      BY <3>1, <1>1, <1>2
  <2>4. Len(applied[k]) <= commitIndex'[k] /\ Len(applied[k]) <= Len(log'[k])
    BY <2>1, <2>2, <1>1, SMTT(30)
  <2> QED
    BY <2>2, <2>3, <2>4, <1>4 DEF IsPrefixOf
<1>11. CommittedIsKept'
  <2>1. \A k \in Server : Agree(everCommitted, log'[k])
    <3>1. Agree(everCommitted, new)
      <4>1. Len(everCommitted) \in Nat
        BY Parts, CommitFacts
      <4>2. \A q \in 1..Len(everCommitted) :
              q <= Len(new) => q \in 1..Len(new) /\ q <= Len(everCommitted)
        BY <4>1, <1>1, SMTT(30)
      <4> QED
        BY <4>2, <1>3 DEF Agree
    <3> QED
      BY <3>1, <1>1, Parts DEF CommittedIsKept
  <2>2. ASSUME NEW r \in Server, restarted \subseteq {r}, Len(everCommitted) > 0
        PROVE  \E k \in Server \ {r} : Len(everCommitted) <= Len(log'[k])
    <3>1. PICK k \in Server \ {r} : Len(everCommitted) <= Len(log[k])
      BY <2>2, Parts DEF CommittedIsKept
    <3>2. Len(everCommitted) \in Nat
      BY Parts, CommitFacts
    <3>3. Len(everCommitted) <= Len(log'[k])
      BY <3>1, <3>2, <1>1, SMTT(30)
    <3> QED
      BY <3>3
  <2> QED
    BY <2>1, <2>2, <1>4, <1>5, Parts DEF CommittedIsKept
<1>12. LiveRequestsAgree'
  <2>1. ASSUME NEW m \in appendRequests, Live(m)' PROVE Live(m)
    <3>1. m.to \in Server /\ m.args.term \in Nat
      BY Parts, RequestFacts
    <3> QED
      BY <2>1, <3>1, <1>t, <1>6, SMTT(30) DEF Live
  <2>2. ASSUME NEW m \in appendRequests, Live(m)
        PROVE  /\ \A k \in Server : Fits(m, log'[k])
               /\ Fits(m, everCommitted)
               /\ \A n \in appendRequests : Live(n) => SameEntries(m, n)
    BY <2>2, <1>1, <1>3, Parts DEF LiveRequestsAgree
  <2> QED
    BY <2>1, <2>2, <1>5 DEF LiveRequestsAgree
<1>13. RequestIsOrdered'
  BY <1>5, Parts DEF RequestIsOrdered, Ordered
<1>14. Elected'
  BY Parts, MildKeepsVotes
<1>15. RequestIsKept'
  BY <1>1, Parts, MildKeepsTraces DEF RequestIsKept, Traced
<1> QED
  BY <1>7, <1>8, <1>9, <1>10, <1>11, <1>12, <1>13, <1>14, <1>15
  DEF Rest, VoteInv, RequestInv, StoreInv, Local, Elected

(* A leader's log covers all that was ever committed: some node that has   *)
(* not restarted stores it.                                                *)
LEMMA LeaderHoldsCommitted ==
  ASSUME RestartInv, NEW i \in Server, state[i] = "Leader"
  PROVE  Len(everCommitted) <= Len(log[i])
<1>1. Len(everCommitted) \in Nat /\ Len(log[i]) \in Nat
  BY Parts, CommitFacts, LogFacts
<1>2. CASE ~(Len(everCommitted) > 0)
  BY <1>1, <1>2, SMTT(30)
<1>3. CASE Len(everCommitted) > 0
  <2>1. PICK r \in Server : restarted \subseteq {r}
    BY Parts DEF RestartTypeOK
  <2>2. PICK k \in Server \ {r} : Len(everCommitted) <= Len(log[k])
    BY <1>3, <2>1, Parts DEF CommittedIsKept
  <2>3. Len(log[k]) <= Len(log[i]) /\ Len(log[k]) \in Nat
    BY Parts, LogFacts DEF LeaderCovers
  <2> QED
    BY <2>2, <2>3, <1>1, SMTT(30)
<1> QED
  BY <1>2, <1>3

(* The log grows and each node still stores what it acknowledged.          *)
LEMMA MatchGrows ==
  ASSUME RestartTypeOK, TypeOK', MatchIsKept, LogStep, restarted' = restarted,
         \A i \in Server : \A k \in Server \ restarted :
            /\ \/ matchIndex'[i][k] = matchIndex[i][k] \/ matchIndex'[i][k] <= Len(log'[k])
            /\ call'[i][k].status = "replied" /\ call'[i][k].reply.success =>
                  \/ call'[i][k] = call[i][k]
                  \/ MatchedBy(call'[i][k].args) <= Len(log'[k])
  PROVE  MatchIsKept'
<1> SUFFICES ASSUME NEW i \in Server, NEW k \in Server \ restarted
             PROVE  /\ matchIndex'[i][k] <= Len(log'[k])
                    /\ call'[i][k].status = "replied" /\ call'[i][k].reply.success
                          => MatchedBy(call'[i][k].args) <= Len(log'[k])
  BY DEF MatchIsKept
<1>1. Len(log[k]) <= Len(log'[k]) /\ Len(log[k]) \in Nat /\ Len(log'[k]) \in Nat
  <2>1. log'[k] \in Seq(Entry)
    BY DEF TypeOK, Log
  <2>2. Len(log'[k]) \in Nat
    BY <2>1, SMTT(30)
  <2> QED
    BY <2>2, LogFacts DEF LogStep, IsPrefixOf, RestartTypeOK
<1>2. matchIndex'[i][k] <= Len(log'[k])
  <2>1. matchIndex \in [Server -> [Server -> Index]]
    BY DEF RestartTypeOK, TypeOK
  <2>2. matchIndex[i][k] \in Nat /\ matchIndex[i][k] <= Len(log[k])
    <3>1. matchIndex[i][k] \in Nat
      BY <2>1, SMTT(30) DEF Index
    <3> QED
      BY <3>1 DEF MatchIsKept
  <2>3. matchIndex[i][k] <= Len(log'[k])
    BY <2>2, <1>1, SMTT(30)
  <2> QED
    BY <2>3
<1>3. ASSUME call'[i][k].status = "replied", call'[i][k].reply.success, call'[i][k] = call[i][k]
      PROVE  MatchedBy(call'[i][k].args) <= Len(log'[k])
  <2>1. MatchedBy(call[i][k].args) <= Len(log[k])
    BY <1>3 DEF MatchIsKept
  <2>2. call[i][k].args \in AppendEntriesArgs
    BY <1>3, CallFacts DEF RestartTypeOK
  <2>3. MatchedBy(call[i][k].args) \in Nat
    BY <2>2, ArgsFacts, SMTT(30) DEF MatchedBy, Index
  <2>4. MatchedBy(call[i][k].args) <= Len(log'[k])
    BY <2>1, <2>3, <1>1, SMTT(30)
  <2> QED
    BY <2>4, <1>3
<1> QED
  BY <1>2, <1>3

(* A command is submitted: the only leader's log, which covers all others, *)
(* gets one entry.                                                         *)
LEMMA SubmitStep ==
  ASSUME Counting, Server # {}, RestartInv, TypeOK', EverStep, UNCHANGED <<restarted, orphans>>,
         NEW i \in Server, NEW cmd \in Command, Submit(i, cmd)
  PROVE  Rest'
<1> DEFINE n == Len(log[i])
           e == [term |-> currentTerm[i], index |-> n + 1, cmd |-> cmd]
           new == Append(log[i], e)
<1>1. /\ state[i] = "Leader" /\ log' = [log EXCEPT ![i] = new]
      /\ matchIndex' = [matchIndex EXCEPT ![i][i] = n + 1]
      /\ UNCHANGED <<nodeVars, runVars, voteVars>>
      /\ UNCHANGED <<commitIndex, applied, appendRequests, call, state, currentTerm>>
  <2>1. log \in [Server -> Log]
    BY Parts DEF TypeOK
  <2> QED
    BY <2>1 DEF Submit, nodeVars, appendVars
<1>2. Mild /\ Local'
  BY <1>1, Parts, QuietIsMild
<1>3. /\ log[i] \in Seq(Entry) /\ n \in Nat /\ e \in Entry
      /\ e.term = currentTerm[i] /\ e.index = n + 1
  <2>1. log[i] \in Seq(Entry) /\ n \in Nat
    BY Parts, LogFacts
  <2>2. e \in Entry
    <3>1. log'[i] = new /\ log'[i] \in Seq(Entry)
      <4>1. log \in [Server -> Log]
        BY Parts DEF TypeOK
      <4>2. log'[i] \in Seq(Entry)
        BY DEF TypeOK, Log
      <4> QED
        BY <4>1, <4>2, <1>1
    <3>2. new \in Seq(Entry)
      BY <3>1
    <3> HIDE DEF e
    <3>3. Len(new) = n + 1 /\ new[n + 1] = e
      BY <2>1, SMTT(30)
    <3> HIDE DEF new
    <3>4. n + 1 \in 1..Len(new)
      BY <3>3, <2>1, SMTT(30)
    <3>5. new[n + 1] \in Entry
      BY <3>2, <3>4, SMTT(30)
    <3> QED
      BY <3>3, <3>5
  <2> QED
    BY <2>1, <2>2
<1> HIDE DEF e
<1>4. /\ new \in Seq(Entry) /\ Len(new) = n + 1 /\ new[n + 1] = e
      /\ \A q \in 1..n : new[q] = log[i][q]
  BY <1>3, SMTT(30)
<1> HIDE DEF new
<1>5. Grows(i, new)
  <2>1. n <= n + 1
    BY <1>3, SMTT(30)
  <2> QED
    BY <2>1, <1>1, <1>4 DEF Grows, IsPrefixOf
<1>6. /\ LogStep /\ log'[i] = new
      /\ \A k \in Server : k # i => log'[k] = log[k]
      /\ \A k \in Server : /\ Len(log[k]) \in Nat /\ Len(log'[k]) \in Nat
                           /\ Len(log[k]) <= Len(log'[k])
  BY <1>5, Parts, GrowsLog
<1>7. ASSUME NEW q \in 1..(n + 1), q <= n PROVE q \in 1..n
  BY <1>7, <1>3, SMTT(30)
<1>8. Suits(i, new)
  <2>1. ASSUME NEW k \in Server PROVE Agree(new, log[k])
    <3> SUFFICES ASSUME NEW q \in 1..(n + 1), q <= Len(log[k]) PROVE new[q] = log[k][q]
      BY <1>4 DEF Agree
    <3>1. Len(log[k]) <= n
      BY <1>1, Parts DEF LeaderCovers
    <3>2. q <= n
      BY <3>1, <1>3, <1>6, SMTT(30)
    <3> QED
      BY <3>2, <1>4, <1>7, Parts DEF LogsNeverDiverge, Agree
  <2>2. Agree(new, everCommitted)
    <3> SUFFICES ASSUME NEW q \in 1..(n + 1), q <= Len(everCommitted)
                 PROVE  new[q] = everCommitted[q]
      BY <1>4 DEF Agree
    <3>1. Len(everCommitted) <= n /\ Len(everCommitted) \in Nat
      BY <1>1, Parts, CommitFacts, LeaderHoldsCommitted
    <3>2. q <= n /\ q \in 1..Len(everCommitted)
      BY <3>1, <1>3, SMTT(30)
    <3>3. Agree(everCommitted, log[i])
      BY Parts DEF CommittedIsKept
    <3> QED
      BY <3>2, <3>3, <1>4, <1>7 DEF Agree
  <2>3. ASSUME NEW m \in appendRequests, Live(m) PROVE Fits(m, new)
    <3> SUFFICES ASSUME NEW k \in 1..Len(m.args.entries), m.args.prevLogIndex + k <= n + 1
                 PROVE  new[m.args.prevLogIndex + k] = m.args.entries[k]
      BY <1>4 DEF Fits
    <3>1. m.args.prevLogIndex + Len(m.args.entries) <= n
      BY <2>3, <1>1, Parts, LeaderCoversLive
    <3>2. m.args.prevLogIndex \in Nat /\ Len(m.args.entries) \in Nat
      BY Parts, RequestFacts
    <3>3. m.args.prevLogIndex + k <= n /\ m.args.prevLogIndex + k \in 1..n
      BY <3>1, <3>2, <1>3, SMTT(30)
    <3>4. Fits(m, log[i])
      BY <2>3, Parts DEF LiveRequestsAgree
    <3> QED
      BY <3>3, <3>4, <1>4 DEF Fits
  <2>4. ASSUME NEW q \in 1..(n + 1)
        PROVE  /\ new[q].index = q /\ new[q].term <= currentTerm[i]
               /\ \A l \in q..(n + 1) : new[q].term <= new[l].term
    <3>t. currentTerm[i] \in Nat /\ currentTerm[i] <= currentTerm[i]
      <4>1. currentTerm[i] \in Nat
        BY Parts, TermFacts
      <4> QED
        BY <4>1, SMTT(30)
    <3>1. CASE q <= n
      <4>1. q \in 1..n /\ new[q] = log[i][q]
        BY <3>1, <1>4, <1>7
      <4>2. /\ log[i][q].index = q /\ log[i][q].term <= currentTerm[i]
            /\ \A l \in q..n : log[i][q].term <= log[i][l].term
        BY <4>1, Parts DEF IndexIsPlace, TermsAscend
      <4>3. ASSUME NEW l \in q..(n + 1) PROVE new[q].term <= new[l].term
        <5>1. l = n + 1 \/ (l \in q..n /\ l \in 1..n)
          BY <4>1, <1>3, SMTT(30)
        <5> QED
          BY <5>1, <4>1, <4>2, <1>3, <1>4
      <4> QED
        BY <4>1, <4>2, <4>3
    <3>2. CASE ~(q <= n)
      <4>1. q = n + 1 /\ \A l \in q..(n + 1) : l = q
        BY <3>2, <1>3, SMTT(30)
      <4>2. new[q].index = q /\ new[q].term = currentTerm[i]
        BY <4>1, <1>3, <1>4
      <4> QED
        BY <4>1, <4>2, <3>t
    <3> QED
      BY <3>1, <3>2
  <2> QED
    BY <2>1, <2>2, <2>3, <2>4, <1>1, <1>4 DEF Suits
<1>9. LeaderCovers'
  <2>1. ASSUME NEW a \in Server, NEW b \in Server, state'[a] = "Leader"
        PROVE  Len(log'[b]) <= Len(log'[a])
    <3>1. a = i
      BY <2>1, <1>1, Parts, OneLeader
    <3>2. Len(log[b]) <= Len(log[i])
      BY <1>1, Parts DEF LeaderCovers
    <3>3. Len(log[b]) <= Len(log'[i]) /\ Len(log'[i]) <= Len(log'[i])
      BY <3>2, <1>6, SMTT(30)
    <3> QED
      BY <3>1, <3>3, <1>6
  <2>2. ASSUME NEW k \in Server, StillCandidate(k)'
        PROVE  log'[k] = log[k] /\ \A j \in Server : Granted(j, k) => log'[j] = log[j]
    <3>1. StillCandidate(k)
      BY <2>2, <1>2 DEF Mild, Calm
    <3>2. k # i
      BY <3>1, <1>1 DEF StillCandidate
    <3>3. ~Granted(i, k)
      BY <3>1, <3>2, <1>1, Parts, LeaderDoesNotVote
    <3> QED
      BY <3>2, <3>3, <1>6
  <2> QED
    BY <2>1, <2>2, <1>2, <1>6, Parts, MildKeepsCovers
<1>10. MatchIsKept'
  <2>1. /\ matchIndex'[i][i] = n + 1
        /\ \A a, b \in Server : a # i \/ b # i => matchIndex'[a][b] = matchIndex[a][b]
    <3>1. /\ matchIndex \in [Server -> [Server -> Index]]
          /\ matchIndex' = [matchIndex EXCEPT ![i][i] = n + 1]
      BY <1>1, Parts DEF TypeOK
    <3> QED
      BY <3>1, SMTT(30)
  <2>2. matchIndex'[i][i] <= Len(log'[i])
    <3>1. n + 1 <= n + 1
      BY <1>3, SMTT(30)
    <3> QED
      BY <3>1, <2>1, <1>4, <1>6
  <2>3. \A a \in Server : \A b \in Server \ restarted :
          matchIndex'[a][b] = matchIndex[a][b] \/ matchIndex'[a][b] <= Len(log'[b])
    BY <2>1, <2>2
  <2> QED
    BY <2>3, <1>1, <1>6, Parts, MatchGrows
<1>11. DeposedByHigherTerm'
  BY <1>1, Parts DEF DeposedByHigherTerm
<1>12. /\ commitIndex'[i] >= commitIndex[i] /\ commitIndex'[i] <= Len(new)
       /\ commitIndex'[i] <= Len(everCommitted)
  <2>1. /\ commitIndex[i] \in Nat /\ commitIndex[i] <= Len(everCommitted) /\ commitIndex[i] <= n
    BY Parts, CommitFacts
  <2>2. commitIndex[i] >= commitIndex[i] /\ commitIndex[i] <= n + 1
    BY <2>1, <1>3, SMTT(30)
  <2> QED
    BY <2>1, <2>2, <1>1, <1>4
<1> QED
  BY <1>1, <1>2, <1>5, <1>8, <1>9, <1>10, <1>11, <1>12, GrowStep

-----------------------------------------------------------------------------
(* HandleAppendEntries.                                                    *)

(* A request that fits the receiver's log only adds entries to it.         *)
LEMMA AcceptAdds ==
  ASSUME TypeOK, NEW m \in appendRequests, m.args.prevLogIndex <= Len(log[m.to]),
         Fits(m, log[m.to])
  PROVE  LET lg == log[m.to]
             prev == m.args.prevLogIndex
             es == m.args.entries
             new == AppendNew(lg, prev, es)
         IN /\ new \in Seq(Entry) /\ Len(new) \in Nat
            /\ Len(lg) <= Len(new) /\ prev + Len(es) <= Len(new)
            /\ Len(new) = Len(lg) \/ Len(new) = prev + Len(es)
            /\ \A k \in 1..Len(lg) : new[k] = lg[k]
            /\ \A k \in 1..Len(new) : k > Len(lg) =>
                  k - prev \in 1..Len(es) /\ new[k] = es[k - prev] /\ prev + (k - prev) = k
<1> DEFINE lg == log[m.to]
           prev == m.args.prevLogIndex
           es == m.args.entries
           last == prev + Len(es)
           n == IF Len(lg) > last THEN Len(lg) ELSE last
           new == AppendNew(lg, prev, es)
<1>1. /\ m.to \in Server /\ m.args \in AppendEntriesArgs
      /\ prev \in Nat /\ es \in Seq(Entry) /\ Len(es) \in Nat
  BY RequestFacts
<1>2. /\ lg \in Seq(Entry) /\ Len(lg) \in Nat /\ prev <= Len(lg)
  BY <1>1, LogFacts
<1>3. Conflicts(lg, prev, es) = {}
  BY DEF Conflicts, Fits
<1>4. new = [k \in 1..n |-> IF k <= Len(lg) THEN lg[k] ELSE es[k - prev]]
  BY <1>3 DEF AppendNew
<1>5. n \in Nat /\ Len(lg) <= n /\ last <= n /\ (n = Len(lg) \/ n = last)
  BY <1>1, <1>2, SMTT(30)
<1>6. ASSUME NEW k \in 1..n PROVE (IF k <= Len(lg) THEN lg[k] ELSE es[k - prev]) \in Entry
  <2>1. CASE k <= Len(lg)
    BY <2>1, <1>2, <1>5, SMTT(30)
  <2>2. CASE ~(k <= Len(lg))
    BY <2>2, <1>1, <1>2, <1>5, SMTT(30)
  <2> QED
    BY <2>1, <2>2
<1> HIDE DEF new, lg, prev, es
<1>7. new \in Seq(Entry) /\ Len(new) = n
  <2> HIDE DEF n
  <2> QED
    BY <1>4, <1>5, <1>6, SMTT(30)
<1>8. \A k \in 1..Len(lg) : new[k] = lg[k]
  BY <1>4, <1>1, <1>2, SMTT(30)
<1>9. ASSUME NEW k \in 1..n, k > Len(lg)
      PROVE  k - prev \in 1..Len(es) /\ new[k] = es[k - prev] /\ prev + (k - prev) = k
  <2>1. k - prev \in 1..Len(es) /\ prev + (k - prev) = k
    BY <1>1, <1>2, <1>9, SMTT(30)
  <2>2. new[k] = es[k - prev]
    BY <1>4, <1>9, <1>2, SMTT(30)
  <2> QED
    BY <2>1, <2>2
<1> HIDE DEF n
<1> QED
  BY <1>5, <1>7, <1>8, <1>9 DEF new, lg, prev, es

(* The reply a worker may find answers the very request it sent.           *)
LEMMA AcceptReplies ==
  ASSUME TypeOK, NEW m \in appendRequests, HandleAppendEntries(m),
         NEW a \in Server, NEW b \in Server, call'[a][b].status = "replied"
  PROVE  \/ call'[a][b] = call[a][b]
         \/ /\ b = m.to /\ call'[a][b].args = m.args
            /\ call'[a][b].reply.term = currentTerm[m.to]
            /\ call'[a][b].reply.success =>
                  /\ ~(currentTerm[m.to] > m.args.term)
                  /\ \/ m.args.prevLogIndex < 0
                     \/ /\ m.args.prevLogIndex <= Len(log[m.to])
                        /\ TermAt(log[m.to], m.args.prevLogIndex) = m.args.prevLogTerm
<1> DEFINE i == m.to
           l == m.args.leaderId
           ok == /\ ~(currentTerm[i] > m.args.term)
                 /\ \/ m.args.prevLogIndex < 0
                    \/ /\ m.args.prevLogIndex <= Len(log[i])
                       /\ TermAt(log[i], m.args.prevLogIndex) = m.args.prevLogTerm
           reply == [term |-> currentTerm[i], success |-> ok]
           c == call[l][i]
<1>1. i \in Server /\ l \in Server /\ m.args \in AppendEntriesArgs
  BY RequestFacts
<1>2. AppendEntriesReplyToProto(reply) = reply
  <2>1. currentTerm[i] \in Term /\ ok \in BOOLEAN
    BY <1>1 DEF TypeOK
  <2> HIDE DEF ok
  <2>2. reply \in AppendEntriesReply
    BY <2>1 DEF AppendEntriesReply
  <2> QED
    BY <2>2, VoteProtoId
<1>3. \/ UNCHANGED call
      \/ /\ c.status = "sent" /\ AppendEntriesArgsToProto(c.args) = m.args
         /\ call' = [call EXCEPT ![l][i] = Replied(c.args, reply)]
  BY <1>2 DEF HandleAppendEntries
<1>4. CASE UNCHANGED call
  BY <1>4
<1>5. ASSUME c.status = "sent", AppendEntriesArgsToProto(c.args) = m.args,
             call' = [call EXCEPT ![l][i] = Replied(c.args, reply)]
      PROVE  \/ call'[a][b] = call[a][b]
             \/ b = i /\ call'[a][b] = Replied(m.args, reply)
  <2>1. c.args = m.args
    <3>1. c.args \in AppendEntriesArgs
      BY <1>1, <1>5, CallFacts
    <3> QED
      BY <3>1, <1>5, AppendProtoId
  <2>2. call \in [Server -> [Server -> Call]] /\ call' = [call EXCEPT ![l][i] = Replied(m.args, reply)]
    BY <2>1, <1>5 DEF TypeOK
  <2> HIDE DEF reply, i, l
  <2>3. call'[l][i] = Replied(m.args, reply) /\ (a # l \/ b # i => call'[a][b] = call[a][b])
    BY <2>2, <1>1, SMTT(30)
  <2> QED
    BY <2>3
<1>6. /\ Replied(m.args, reply).args = m.args
      /\ Replied(m.args, reply).reply.term = currentTerm[i]
      /\ Replied(m.args, reply).reply.success = ok
  <2> HIDE DEF ok
  <2>1. Replied(m.args, reply).args = m.args /\ Replied(m.args, reply).reply = reply
    BY SMTT(30) DEF Replied
  <2>2. reply.term = currentTerm[i] /\ reply.success = ok
    OBVIOUS
  <2> QED
    BY <2>1, <2>2
<1> HIDE DEF reply
<1> QED
  BY <1>3, <1>4, <1>5, <1>6

(* What an accepted request adds suits every log.                          *)
LEMMA AcceptSuits ==
  ASSUME RestartInv, NEW m \in appendRequests, Live(m),
         m.args.prevLogIndex <= Len(log[m.to]),
         TermAt(log[m.to], m.args.prevLogIndex) = m.args.prevLogTerm,
         currentTerm'[m.to] = m.args.term
  PROVE  Suits(m.to, AppendNew(log[m.to], m.args.prevLogIndex, m.args.entries))
<1> DEFINE j == m.to
           lg == log[j]
           prev == m.args.prevLogIndex
           es == m.args.entries
           t == m.args.term
           new == AppendNew(lg, prev, es)
<1>1. /\ j \in Server /\ prev \in Nat /\ Len(es) \in Nat /\ t \in Nat /\ es \in Seq(Entry)
      /\ m.args.prevLogTerm \in Nat
  BY Parts, RequestFacts
<1>2. lg \in Seq(Entry) /\ Len(lg) \in Nat
  BY <1>1, Parts, LogFacts
<1>3. /\ \A k \in Server : Fits(m, log[k])
      /\ Fits(m, everCommitted)
      /\ \A n \in appendRequests : Live(n) => SameEntries(n, m)
  BY Parts DEF LiveRequestsAgree
<1>4. /\ new \in Seq(Entry) /\ Len(new) \in Nat
      /\ \A k \in 1..Len(lg) : new[k] = lg[k]
      /\ \A k \in 1..Len(new) : k > Len(lg) =>
            k - prev \in 1..Len(es) /\ new[k] = es[k - prev] /\ prev + (k - prev) = k
  BY <1>1, <1>3, Parts, AcceptAdds
<1> HIDE DEF new
<1>5. ASSUME NEW q \in 1..Len(new)
      PROVE  \/ q \in 1..Len(lg) /\ new[q] = lg[q]
             \/ q > Len(lg) /\ q - prev \in 1..Len(es) /\ new[q] = es[q - prev] /\ prev + (q - prev) = q
  <2>1. q \in 1..Len(lg) \/ q > Len(lg)
    BY <1>2, <1>4, SMTT(30)
  <2> QED
    BY <2>1, <1>4
<1>6. ASSUME NEW k \in Server PROVE Agree(new, log[k])
  <2> SUFFICES ASSUME NEW q \in 1..Len(new), q <= Len(log[k]) PROVE new[q] = log[k][q]
    BY DEF Agree
  <2>1. CASE q \in 1..Len(lg) /\ new[q] = lg[q]
    BY <2>1, <1>1, Parts DEF LogsNeverDiverge, Agree
  <2>2. CASE q - prev \in 1..Len(es) /\ new[q] = es[q - prev] /\ prev + (q - prev) = q
    BY <2>2, <1>3 DEF Fits
  <2> QED
    BY <2>1, <2>2, <1>5
<1>7. Agree(new, everCommitted)
  <2> SUFFICES ASSUME NEW q \in 1..Len(new), q <= Len(everCommitted) PROVE new[q] = everCommitted[q]
    BY DEF Agree
  <2>1. CASE q \in 1..Len(lg) /\ new[q] = lg[q]
    <3>1. Agree(everCommitted, lg) /\ Len(everCommitted) \in Nat
      BY <1>1, Parts, CommitFacts DEF CommittedIsKept
    <3>2. q \in 1..Len(everCommitted) /\ q <= Len(lg)
      BY <2>1, <3>1, <1>2, SMTT(30)
    <3> QED
      BY <2>1, <3>1, <3>2 DEF Agree
  <2>2. CASE q - prev \in 1..Len(es) /\ new[q] = es[q - prev] /\ prev + (q - prev) = q
    BY <2>2, <1>3 DEF Fits
  <2> QED
    BY <2>1, <2>2, <1>5
<1>8. ASSUME NEW n \in appendRequests, Live(n) PROVE Fits(n, new)
  <2> DEFINE p == n.args.prevLogIndex
  <2> SUFFICES ASSUME NEW k \in 1..Len(n.args.entries), p + k <= Len(new)
               PROVE  new[p + k] = n.args.entries[k]
    BY DEF Fits
  <2>1. p \in Nat
    BY Parts, RequestFacts
  <2>2. p + k \in 1..Len(new)
    BY <2>1, <1>4, SMTT(30)
  <2>3. CASE p + k \in 1..Len(lg) /\ new[p + k] = lg[p + k]
    <3>1. Fits(n, lg)
      BY <1>8, <1>1, Parts DEF LiveRequestsAgree
    <3>2. p + k <= Len(lg)
      BY <2>3, <1>2, SMTT(30)
    <3> QED
      BY <3>1, <3>2, <2>3 DEF Fits
  <2>4. CASE /\ (p + k) - prev \in 1..Len(es) /\ new[p + k] = es[(p + k) - prev]
             /\ prev + ((p + k) - prev) = p + k
    <3>1. SameEntries(n, m)
      BY <1>8, <1>3
    <3>2. p + k = prev + ((p + k) - prev)
      BY <2>4
    <3>3. n.args.entries[k] = es[(p + k) - prev]
      BY <2>4, <3>1, <3>2 DEF SameEntries
    <3> QED
      BY <3>3, <2>4
  <2> QED
    BY <2>2, <2>3, <2>4, <1>5
<1>9. ASSUME NEW k \in 1..Len(es)
      PROVE  /\ es[k].index = prev + k /\ es[k].term <= t /\ m.args.prevLogTerm <= es[k].term
             /\ \A l \in k..Len(es) : es[k].term <= es[l].term
             /\ es[k].term \in Nat
  <2>1. es[k] \in Entry
    BY <1>1, SMTT(30)
  <2>2. es[k].term \in Nat
    BY <2>1, SMTT(30) DEF Entry, Term
  <2> QED
    BY <2>2, Parts DEF RequestIsOrdered, Ordered
<1>10. ASSUME NEW k \in 1..Len(lg)
       PROVE  /\ lg[k].index = k /\ lg[k].term <= t
              /\ \A l \in k..Len(lg) : lg[k].term <= lg[l].term
              /\ lg[k].term \in Nat
  <2>1. lg[k].term \in Nat /\ currentTerm[j] \in Nat
    BY <1>1, Parts, LogFacts, TermFacts
  <2>2. /\ lg[k].index = k /\ lg[k].term <= currentTerm[j]
        /\ \A l \in k..Len(lg) : lg[k].term <= lg[l].term
    BY <1>1, Parts DEF IndexIsPlace, TermsAscend
  <2>3. currentTerm[j] <= t
    BY DEF Live
  <2>4. lg[k].term <= t
    BY <2>1, <2>2, <2>3, <1>1, SMTT(30)
  <2> QED
    BY <2>1, <2>2, <2>4
<1>11. ASSUME NEW q \in 1..Len(lg), NEW k \in 1..Len(es), q <= prev + k
       PROVE  lg[q].term <= es[k].term
  <2>1. CASE q <= prev
    <3>1. prev \in 1..Len(lg) /\ prev \in q..Len(lg) /\ prev # 0
      BY <2>1, <1>1, <1>2, SMTT(30)
    <3>2. lg[q].term <= lg[prev].term /\ lg[prev].term = m.args.prevLogTerm
      BY <3>1, <1>10 DEF TermAt
    <3> QED
      BY <3>2, <1>1, <1>9, <1>10, SMTT(30)
  <2>2. CASE ~(q <= prev)
    <3>1. /\ q - prev \in 1..Len(es) /\ prev + (q - prev) = q /\ k \in (q - prev)..Len(es)
          /\ q <= Len(lg)
      BY <2>2, <1>1, <1>2, <1>11, SMTT(30)
    <3>2. lg[q] = es[q - prev]
      BY <3>1, <1>1, <1>3 DEF Fits
    <3> QED
      BY <3>1, <3>2, <1>9
  <2> QED
    BY <2>1, <2>2
<1>12. ASSUME NEW q \in 1..Len(new)
       PROVE  /\ new[q].index = q /\ new[q].term <= t
              /\ \A l \in q..Len(new) : new[q].term <= new[l].term
  <2>1. \A l \in q..Len(new) : l \in 1..Len(new)
    BY <1>4, SMTT(30)
  <2>2. CASE q \in 1..Len(lg) /\ new[q] = lg[q]
    <3>1. ASSUME NEW l \in q..Len(new) PROVE new[q].term <= new[l].term
      <4>1. CASE l \in 1..Len(lg) /\ new[l] = lg[l]
        <5>1. l \in q..Len(lg)
          BY <4>1, <1>2, <1>4, SMTT(30)
        <5> QED
          BY <5>1, <4>1, <2>2, <1>10
      <4>2. CASE l - prev \in 1..Len(es) /\ new[l] = es[l - prev] /\ prev + (l - prev) = l
        <5>1. q <= prev + (l - prev)
          BY <4>2, <1>4, SMTT(30)
        <5> QED
          BY <5>1, <4>2, <2>2, <1>11
      <4> QED
        BY <4>1, <4>2, <2>1, <1>5
    <3> QED
      BY <3>1, <2>2, <1>10
  <2>3. CASE q > Len(lg) /\ q - prev \in 1..Len(es) /\ new[q] = es[q - prev] /\ prev + (q - prev) = q
    <3>1. ASSUME NEW l \in q..Len(new) PROVE new[q].term <= new[l].term
      <4>1. l > Len(lg)
        BY <2>3, <1>2, <1>4, SMTT(30)
      <4>2. l - prev \in 1..Len(es) /\ new[l] = es[l - prev]
        BY <4>1, <2>1, <1>4
      <4>3. l - prev \in (q - prev)..Len(es)
        BY <4>2, <2>3, <1>1, <1>4, SMTT(30)
      <4> QED
        BY <4>2, <4>3, <2>3, <1>9
    <3> QED
      BY <3>1, <2>3, <1>9
  <2> QED
    BY <2>2, <2>3, <1>5
<1> QED
  BY <1>6, <1>7, <1>8, <1>12 DEF Suits, new

(* Every vote the receiver gave to a candidate that may still win stays    *)
(* covered: a restarted receiver only learns what the sender still has.    *)
LEMMA AcceptKeepsCovers ==
  ASSUME RestartInv, TypeOK', Mild, NEW m \in appendRequests, Live(m),
         NEW new, Grows(m.to, new), state'[m.to] = "Follower",
         \/ Len(new) = Len(log[m.to])
         \/ Len(new) = m.args.prevLogIndex + Len(m.args.entries)
  PROVE  LeaderCovers'
<1> DEFINE j == m.to
           l == m.args.leaderId
           last == m.args.prevLogIndex + Len(m.args.entries)
<1>1. j \in Server /\ l \in Server
  BY Parts, RequestFacts
<1>2. /\ LogStep /\ log'[j] = new
      /\ \A k \in Server : k # j => log'[k] = log[k]
  BY <1>1, Parts, GrowsLog
<1>3. Traced(m)
  BY Parts
<1>4. ASSUME NEW a \in Server, NEW b \in Server, state'[a] = "Leader"
      PROVE  Len(log'[b]) <= Len(log'[a])
  <2>1. a # j /\ state[a] = "Leader" /\ log'[a] = log[a]
    BY <1>4, <1>1, <1>2 DEF Mild, Calm
  <2>2. Len(log[b]) <= Len(log[a]) /\ Len(log[j]) <= Len(log[a])
    BY <2>1, <1>1, Parts DEF LeaderCovers
  <2>3. last <= Len(log[a])
    BY <2>1, <1>3, Parts, LeaderCoversLive
  <2> QED
    BY <2>1, <2>2, <2>3, <1>2
<1>5. ASSUME NEW k \in Server, StillCandidate(k)'
      PROVE  /\ log'[k] = log[k]
             /\ \A b \in Server : Granted(b, k) =>
                   \/ log'[b] = log[b]
                   \/ Covered(b, k) => Covered(b, k)'
                   \/ k \in restarted /\ Blocked(k)
  <2>1. StillCandidate(k) /\ k # j /\ log'[k] = log[k]
    <3>1. StillCandidate(k)
      BY <1>5 DEF Mild, Calm
    <3>2. k # j
      BY <1>5 DEF StillCandidate
    <3> QED
      BY <3>1, <3>2, <1>2
  <2>2. ASSUME Granted(j, k), j \notin restarted PROVE k \in restarted /\ Blocked(k)
    BY <2>1, <2>2, <1>3, Parts, VoterAccepts
  <2>3. ASSUME j \in restarted, Covered(j, k) PROVE Covered(j, k)'
    <3>1. l # j /\ l \notin restarted
      BY <2>3, <1>1, <1>3, Parts DEF Traced, Kept, RestartTypeOK
    <3>2. last <= Len(log[l])
      BY <3>1, <1>3 DEF Traced, Backed, Unbacked
    <3>3. restarted' = restarted /\ log'[l] = log[l]
      BY <3>1, <1>1, <1>2 DEF Mild, Calm
    <3>4. CASE Len(new) = Len(log[j])
      BY <3>3, <3>4, <2>1, <2>3, <1>2 DEF Covered
    <3>5. CASE Len(new) = last
      BY <3>1, <3>2, <3>3, <3>5, <2>3, <1>1, <1>2 DEF Covered
    <3> QED
      BY <3>4, <3>5
  <2> QED
    BY <2>1, <2>2, <2>3, <1>2
<1> QED
  BY <1>2, <1>4, <1>5, Parts, MildKeepsCovers

(* A node handles AppendEntries: a stale call changes nothing, another one *)
(* makes it follow and, if the logs meet, adds entries.                    *)
LEMMA AcceptStep ==
  ASSUME Counting, Server # {}, RestartInv, TypeOK', EverStep, UNCHANGED <<restarted, orphans>>,
         NEW m \in appendRequests, HandleAppendEntries(m)
  PROVE  Rest'
<1> DEFINE j == m.to
           l == m.args.leaderId
           t == m.args.term
           prev == m.args.prevLogIndex
           fits == \/ prev < 0
                   \/ prev <= Len(log[j]) /\ TermAt(log[j], prev) = m.args.prevLogTerm
           new == AppendNew(log[j], prev, m.args.entries)
<1>1. /\ j \in Server /\ l \in Server /\ t \in Nat /\ prev \in Nat
      /\ Len(m.args.entries) \in Nat /\ m.args.leaderCommit \in Nat
  BY Parts, RequestFacts
<1>2. /\ UNCHANGED <<applied, matchIndex, appendRequests>> /\ UNCHANGED <<runVars, voteVars>>
  BY DEF HandleAppendEntries, leaderVars
<1>t. /\ currentTerm \in [Server -> Nat] /\ electionTerm \in [Server -> Nat]
  BY Parts, TermFacts
<1>3. Traced(m) /\ j # l
  BY Parts DEF Traced, Kept
<1>4. ASSUME NEW a \in Server, NEW b \in Server, call'[a][b].status = "replied"
      PROVE  \/ call'[a][b] = call[a][b]
             \/ /\ b = j /\ call'[a][b].args = m.args
                /\ call'[a][b].reply.term = currentTerm[j]
                /\ call'[a][b].reply.success => ~(currentTerm[j] > t) /\ fits
  BY <1>4, Parts, AcceptReplies
<1>5. ASSUME UNCHANGED <<log, commitIndex>>, Mild, Local', DeposedByHigherTerm',
             currentTerm[j] > t \/ ~fits
      PROVE  Rest'
  <2>1. MatchIsKept'
    BY <1>2, <1>4, <1>5, Parts DEF MatchIsKept
  <2>2. AppliedFromLog'
    BY <1>2, <1>5, Parts, SameApplied
  <2> QED
    BY <2>1, <2>2, <1>2, <1>5, MildStep
<1>6. ASSUME Mild,
             \A x \in Server : state[x] = "Leader" =>
                \/ state'[x] = "Leader" /\ currentTerm'[x] = currentTerm[x]
                \/ restarted = {} => \E k \in Server \ {x} : currentTerm'[k] > currentTerm[x]
      PROVE  DeposedByHigherTerm'
  <2>1. \A k \in Server : currentTerm'[k] >= currentTerm[k]
    BY <1>6 DEF Mild, Calm
  <2>2. ASSUME NEW a \in Server, NEW b \in Server, call'[a][b].status = "replied"
        PROVE  call'[a][b] = call[a][b] \/ call'[a][b].reply.term <= currentTerm'[b]
    <3>1. currentTerm'[j] \in Term /\ currentTerm[j] \in Nat /\ currentTerm'[j] >= currentTerm[j]
      BY <2>1, <1>1, <1>t DEF TypeOK
    <3>2. currentTerm[j] <= currentTerm'[j]
      BY <3>1, SMTT(30) DEF Term
    <3> QED
      BY <3>2, <2>2, <1>4
  <2> QED
    BY <2>1, <2>2, <1>2, <1>6, Parts, DeposedStays
<1>7. CASE currentTerm[j] > t
  <2>1. UNCHANGED nodeVars /\ UNCHANGED <<log, commitIndex>>
    BY <1>7 DEF HandleAppendEntries
  <2>2. Mild /\ Local'
    BY <2>1, <1>2, Parts, QuietIsMild
  <2>3. DeposedByHigherTerm'
    BY <2>1, <2>2, <1>6 DEF nodeVars
  <2> QED
    BY <2>1, <2>2, <2>3, <1>5, <1>7
<1>8. CASE ~(currentTerm[j] > t)
  <2>1. /\ currentTerm' = [currentTerm EXCEPT ![j] = t]
        /\ votedFor' = [votedFor EXCEPT ![j] = Nil]
        /\ state' = [state EXCEPT ![j] = "Follower"]
    BY <1>8 DEF HandleAppendEntries
  <2>2. t >= currentTerm[j] /\ currentTerm[j] <= t
    BY <1>1, <1>8, <1>t, SMTT(30)
  <2>3. Live(m)
    BY <2>2 DEF Live
  <2>4. j \notin restarted => electionTerm[j] # t
    BY <1>1, <1>3 DEF Traced, Kept
  <2>5. Mild /\ Local'
    BY <2>1, <2>2, <2>4, <1>1, <1>2, Parts, FollowsIsMild
  <2>6. /\ state'[j] = "Follower" /\ currentTerm'[j] = t
        /\ \A k \in Server : k # j => state'[k] = state[k] /\ currentTerm'[k] = currentTerm[k]
    <3>1. state \in [Server -> {"Follower", "Candidate", "Leader"}]
      BY Parts DEF TypeOK
    <3> HIDE DEF j, t
    <3> QED
      BY <3>1, <2>1, <1>1, <1>t
  <2>7. DeposedByHigherTerm'
    <3>1. ASSUME state[j] = "Leader", restarted = {} PROVE currentTerm'[l] > currentTerm[j]
      <4>1. electionTerm[j] = currentTerm[j]
        BY <3>1, <1>1, Parts DEF LeaderIsKept
      <4>2. t <= electionTerm[l]
        BY <3>1, <1>3 DEF Traced, Backed, Unbacked
      <4>3. electionTerm[l] <= currentTerm[l]
        BY <1>1, Parts DEF OwnVoteKept
      <4>4. currentTerm[l] > currentTerm[j]
        BY <4>1, <4>2, <4>3, <2>2, <2>4, <3>1, <1>1, <1>t, SMTT(30)
      <4> QED
        BY <4>4, <2>6, <1>1, <1>3
    <3>2. \A x \in Server : state[x] = "Leader" =>
             \/ state'[x] = "Leader" /\ currentTerm'[x] = currentTerm[x]
             \/ restarted = {} => \E k \in Server \ {x} : currentTerm'[k] > currentTerm[x]
      BY <3>1, <2>6, <1>1, <1>3
    <3> QED
      BY <3>2, <2>5, <1>6
  <2>8. CASE ~fits
    <3>1. UNCHANGED <<log, commitIndex>>
      BY <2>8 DEF HandleAppendEntries
    <3> QED
      BY <3>1, <2>5, <2>7, <2>8, <1>5
  <2>9. CASE fits
    <3>1. prev <= Len(log[j]) /\ TermAt(log[j], prev) = m.args.prevLogTerm
      <4>1. ~(prev < 0)
        BY <1>1, SMTT(30)
      <4> QED
        BY <4>1, <2>9
    <3>2. log' = [log EXCEPT ![j] = new]
      BY <1>8, <2>9 DEF HandleAppendEntries
    <3>3. commitIndex' = [commitIndex EXCEPT ![j] =
             IF m.args.leaderCommit > commitIndex[j]
             THEN IF m.args.leaderCommit <= Len(new) THEN m.args.leaderCommit ELSE Len(new)
             ELSE commitIndex[j]]
      BY <1>8, <2>9 DEF HandleAppendEntries
    <3>4. Fits(m, log[j])
      BY <2>3, <1>1, Parts DEF LiveRequestsAgree
    <3>5. /\ new \in Seq(Entry) /\ Len(new) \in Nat
          /\ Len(log[j]) <= Len(new) /\ prev + Len(m.args.entries) <= Len(new)
          /\ Len(new) = Len(log[j]) \/ Len(new) = prev + Len(m.args.entries)
          /\ \A k \in 1..Len(log[j]) : new[k] = log[j][k]
      BY <3>1, <3>4, Parts, AcceptAdds
    <3>6. Suits(j, new)
      BY <3>1, <2>3, <2>6, AcceptSuits
    <3> HIDE DEF new
    <3>7. Grows(j, new)
      BY <3>2, <3>5 DEF Grows, IsPrefixOf
    <3>8. LogStep /\ log'[j] = new
      BY <3>7, <1>1, Parts, GrowsLog
    <3>9. LeaderCovers'
      BY <3>5, <3>7, <2>3, <2>5, <2>6, AcceptKeepsCovers
    <3>10. MatchIsKept'
      <4>1. ASSUME NEW a \in Server, NEW b \in Server, call'[a][b].status = "replied"
            PROVE  \/ call'[a][b] = call[a][b]
                   \/ MatchedBy(call'[a][b].args) <= Len(log'[b])
        <5>1. MatchedBy(m.args) <= Len(log'[j])
          BY <3>5, <3>8 DEF MatchedBy
        <5> QED
          BY <5>1, <4>1, <1>4
      <4>2. \A a, b \in Server : matchIndex'[a][b] = matchIndex[a][b]
        BY <1>2
      <4> QED
        BY <4>1, <4>2, <3>8, Parts, MatchGrows
    <3>11. /\ \A k \in Server : k # j => commitIndex'[k] = commitIndex[k]
           /\ commitIndex'[j] >= commitIndex[j] /\ commitIndex'[j] <= Len(new)
           /\ commitIndex'[j] <= Len(everCommitted)
      <4>1. commitIndex \in [Server -> Index]
        BY Parts DEF TypeOK
      <4>2. /\ commitIndex'[j] = IF m.args.leaderCommit > commitIndex[j]
                                 THEN IF m.args.leaderCommit <= Len(new)
                                      THEN m.args.leaderCommit ELSE Len(new)
                                 ELSE commitIndex[j]
            /\ \A k \in Server : k # j => commitIndex'[k] = commitIndex[k]
        BY <3>3, <4>1, <1>1
      <4>3. /\ commitIndex[j] \in Nat /\ commitIndex[j] <= Len(everCommitted)
            /\ Len(everCommitted) \in Nat
            /\ commitIndex[j] <= Len(log[j]) /\ Len(log[j]) \in Nat
        BY <1>1, Parts, CommitFacts, LogFacts
      <4>4. m.args.leaderCommit <= Len(everCommitted)
        BY Parts DEF RequestIsOrdered, Ordered
      <4>5. /\ commitIndex'[j] >= commitIndex[j] /\ commitIndex'[j] <= Len(new)
            /\ commitIndex'[j] <= Len(everCommitted)
        BY <4>2, <4>3, <4>4, <3>5, <1>1, SMTT(30)
      <4> QED
        BY <4>2, <4>5
    <3> QED
      BY <3>6, <3>7, <3>9, <3>10, <3>11, <2>5, <2>7, <1>1, <1>2, GrowStep
  <2> QED
    BY <2>8, <2>9
<1> QED
  BY <1>7, <1>8

-----------------------------------------------------------------------------
(* A restart.                                                              *)

(* Before anyone restarts every request is a piece of its sender's log, so *)
(* they all agree, live or not.                                            *)
LEMMA RequestsAgreeBefore ==
  ASSUME RestartInv, restarted = {}, NEW m \in appendRequests
  PROVE  /\ \A k \in Server : Fits(m, log[k])
         /\ Fits(m, everCommitted)
         /\ \A n \in appendRequests : SameEntries(m, n)
<1>1. ASSUME NEW n \in appendRequests
      PROVE  /\ n.args.leaderId \in Server /\ n.args.prevLogIndex \in Nat
             /\ \A k \in 1..Len(n.args.entries) :
                   /\ n.args.prevLogIndex + k \in 1..Len(log[n.args.leaderId])
                   /\ n.args.entries[k] = log[n.args.leaderId][n.args.prevLogIndex + k]
  <2>1. Backed(n)
    BY Parts DEF Traced, Unbacked
  <2>2. /\ n.args.leaderId \in Server /\ n.args.prevLogIndex \in Nat
        /\ Len(n.args.entries) \in Nat /\ Len(log[n.args.leaderId]) \in Nat
    BY Parts, RequestFacts, LogFacts
  <2>3. n.args.prevLogIndex + Len(n.args.entries) <= Len(log[n.args.leaderId])
    BY <2>1 DEF Backed
  <2>4. \A k \in 1..Len(n.args.entries) : n.args.prevLogIndex + k \in 1..Len(log[n.args.leaderId])
    BY <2>2, <2>3, SMTT(30)
  <2> QED
    BY <2>1, <2>2, <2>4 DEF Backed
<1> DEFINE p == m.args.prevLogIndex
           l == m.args.leaderId
<1>2. ASSUME NEW k \in Server PROVE Fits(m, log[k])
  <2> SUFFICES ASSUME NEW q \in 1..Len(m.args.entries), p + q <= Len(log[k])
               PROVE  log[k][p + q] = m.args.entries[q]
    BY DEF Fits
  <2>1. /\ l \in Server /\ p + q \in 1..Len(log[l])
        /\ m.args.entries[q] = log[l][p + q]
    BY <1>1
  <2>2. Agree(log[l], log[k])
    BY <2>1, Parts DEF LogsNeverDiverge
  <2> QED
    BY <2>1, <2>2 DEF Agree
<1>3. Fits(m, everCommitted)
  <2> SUFFICES ASSUME NEW q \in 1..Len(m.args.entries), p + q <= Len(everCommitted)
               PROVE  everCommitted[p + q] = m.args.entries[q]
    BY DEF Fits
  <2>1. Agree(everCommitted, log[l]) /\ Len(everCommitted) \in Nat /\ Len(log[l]) \in Nat
    BY <1>1, Parts, CommitFacts, LogFacts DEF CommittedIsKept
  <2>2. p + q \in 1..Len(log[l]) /\ m.args.entries[q] = log[l][p + q]
    BY <1>1
  <2>3. p + q \in 1..Len(everCommitted) /\ p + q <= Len(log[l])
    BY <2>1, <2>2, <1>1, SMTT(30)
  <2> QED
    BY <2>1, <2>2, <2>3 DEF Agree
<1>4. ASSUME NEW n \in appendRequests PROVE SameEntries(m, n)
  <2> SUFFICES ASSUME NEW k \in 1..Len(m.args.entries), NEW q \in 1..Len(n.args.entries),
                      p + k = n.args.prevLogIndex + q
               PROVE  m.args.entries[k] = n.args.entries[q]
    BY DEF SameEntries
  <2>1. /\ p + k \in 1..Len(log[l]) /\ m.args.entries[k] = log[l][p + k]
        /\ p + k \in 1..Len(log[n.args.leaderId])
        /\ n.args.entries[q] = log[n.args.leaderId][p + k]
        /\ l \in Server /\ n.args.leaderId \in Server
    BY <1>1
  <2>2. Len(log[l]) \in Nat /\ Len(log[n.args.leaderId]) \in Nat
    BY <2>1, Parts, LogFacts
  <2>3. p + k <= Len(log[n.args.leaderId])
    BY <2>1, <2>2, SMTT(30)
  <2> QED
    BY <2>1, <2>3, Parts DEF LogsNeverDiverge, Agree
<1> QED
  BY <1>2, <1>3, <1>4

(* A node restarts with nothing.  What was committed is stored elsewhere.  *)
LEMMA RestartStep ==
  ASSUME Counting, Server # {}, MaxRestarts <= 1, RestartInv, TypeOK', EverStep,
         NEW i \in Server, Restart(i)
  PROVE  Rest'
<1>1. Local' /\ Boots(i)
  BY Parts, RestartEffect
<1>2. /\ restarted = {} /\ restarted' = {i}
      /\ log'[i] = <<>> /\ commitIndex'[i] = 0 /\ applied'[i] = <<>>
      /\ \A j \in Server : matchIndex'[i][j] = 0 /\ call'[i][j] = NoCall
      /\ \A k \in Server : k # i =>
            /\ currentTerm'[k] = currentTerm[k] /\ log'[k] = log[k]
            /\ commitIndex'[k] = commitIndex[k] /\ applied'[k] = applied[k]
            /\ matchIndex'[k] = matchIndex[k] /\ call'[k] = call[k]
      /\ appendRequests' = appendRequests
  BY <1>1 DEF Boots
<1>e. Len(<<>>) = 0 /\ 0 <= 0 /\ 1..Len(<<>>) = {} /\ \A q \in Nat : ~(q + 1 <= Len(<<>>))
  BY SMTT(30)
<1>l. \A k \in Server : log[k] \in Seq(Entry) /\ Len(log[k]) \in Nat
  BY Parts, LogFacts
<1>c. \A k \in Server : /\ commitIndex[k] \in Nat /\ Len(everCommitted) \in Nat
                        /\ commitIndex[k] <= Len(everCommitted) /\ commitIndex[k] <= Len(log[k])
  BY Parts, CommitFacts
<1>3. \A k \in Server : commitIndex'[k] <= Len(everCommitted) /\ commitIndex'[k] <= Len(log'[k])
  <2>1. 0 <= Len(everCommitted)
    BY <1>c, SMTT(30)
  <2> QED
    BY <2>1, <1>2, <1>c, <1>e
<1>4. everCommitted' = everCommitted
  BY <1>3, Parts, EverStays
<1>5. Elected' /\ RequestIsKept'
  BY <1>1, <1>2, Parts, RestartKeepsVotes DEF RequestIsKept, Traced
<1>6. LeaderCovers'
  BY <1>1, Parts, RestartKeepsCovers
<1>7. DeposedByHigherTerm'
  BY <1>2 DEF DeposedByHigherTerm
<1>8. RequestIsOrdered'
  BY <1>2, <1>4, Parts DEF RequestIsOrdered, Ordered
<1>9. ASSUME NEW s \in Seq(Entry) PROVE Agree(<<>>, s) /\ Agree(s, <<>>)
  <2>1. Agree(<<>>, s)
    BY <1>e DEF Agree
  <2>2. \A k \in 1..Len(s) : ~(k <= 0)
    <3>1. Len(s) \in Nat
      BY SMTT(30)
    <3> QED
      BY <3>1, SMTT(30)
  <2> QED
    BY <2>1, <2>2, <1>e DEF Agree
<1>10. LogsNeverDiverge'
  <2>1. \A k \in Server : log'[k] \in Seq(Entry)
    BY DEF TypeOK, Log
  <2> SUFFICES ASSUME NEW a \in Server, NEW b \in Server PROVE Agree(log'[a], log'[b])
    BY DEF LogsNeverDiverge, Agree
  <2>2. CASE a = i
    BY <2>1, <2>2, <1>2, <1>9
  <2>3. CASE b = i
    BY <2>1, <2>3, <1>2, <1>9
  <2>4. CASE a # i /\ b # i
    BY <2>4, <1>2, Parts DEF LogsNeverDiverge
  <2> QED
    BY <2>2, <2>3, <2>4
<1>11. TermsAscend' /\ IndexIsPlace'
  <2>1. 1..Len(log'[i]) = {}
    BY <1>2, <1>e
  <2>2. TermsAscend'
    BY <2>1, <1>2, Parts DEF TermsAscend
  <2>3. IndexIsPlace'
    BY <2>1, <1>2, Parts DEF IndexIsPlace
  <2> QED
    BY <2>2, <2>3
<1>12. AppliedFromLog'
  <2>1. IsPrefixOf(<<>>, <<>>)
    BY <1>e DEF IsPrefixOf
  <2> SUFFICES ASSUME NEW k \in Server
               PROVE  /\ Len(applied'[k]) <= commitIndex'[k] /\ commitIndex'[k] <= Len(log'[k])
                      /\ IsPrefixOf(applied'[k], log'[k])
    BY DEF AppliedFromLog, IsPrefixOf
  <2> QED
    BY <2>1, <1>2, <1>e, Parts DEF AppliedFromLog
<1>13. MatchIsKept'
  <2>1. NoCall.status # "replied"
    BY SMTT(30) DEF NoCall
  <2>2. \A b \in Server : 0 <= Len(log[b])
    BY <1>l, SMTT(30)
  <2>3. ASSUME NEW a \in Server, NEW b \in Server, b # i
        PROVE  /\ matchIndex'[a][b] <= Len(log'[b])
               /\ call'[a][b].status = "replied" /\ call'[a][b].reply.success
                     => MatchedBy(call'[a][b].args) <= Len(log'[b])
    <3>1. CASE a = i
      BY <3>1, <2>1, <2>2, <2>3, <1>2
    <3>2. CASE a # i
      BY <3>2, <2>3, <1>2, Parts DEF MatchIsKept
    <3> QED
      BY <3>1, <3>2
  <2> QED
    BY <2>3, <1>2 DEF MatchIsKept
<1>14. CommittedIsKept'
  <2>1. \A k \in Server : Agree(everCommitted, log'[k])
    BY <1>2, <1>9, Parts DEF CommittedIsKept
  <2>2. ASSUME NEW r \in Server, restarted' \subseteq {r}, Len(everCommitted) > 0
        PROVE  \E k \in Server \ {r} : Len(everCommitted) <= Len(log'[k])
    <3>1. r = i /\ restarted \subseteq {i}
      BY <2>2, <1>2
    <3>2. PICK k \in Server \ {i} : Len(everCommitted) <= Len(log[k])
      BY <3>1, <2>2, Parts DEF CommittedIsKept
    <3> QED
      BY <3>1, <3>2, <1>2
  <2> QED
    BY <2>1, <2>2, <1>3, <1>4, Parts DEF CommittedIsKept
<1>15. LiveRequestsAgree'
  <2>1. ASSUME NEW m \in appendRequests, NEW k \in Server PROVE Fits(m, log'[k])
    <3>1. CASE k # i
      BY <3>1, <1>2, RequestsAgreeBefore
    <3>2. CASE k = i
      <4>1. m.args.prevLogIndex \in Nat /\ Len(m.args.entries) \in Nat
        BY Parts, RequestFacts
      <4>2. \A q \in 1..Len(m.args.entries) : ~(m.args.prevLogIndex + q <= 0)
        BY <4>1, SMTT(30)
      <4> QED
        BY <3>2, <4>2, <1>2, <1>e DEF Fits
    <3> QED
      BY <3>1, <3>2
  <2> QED
    BY <2>1, <1>2, <1>4, RequestsAgreeBefore DEF LiveRequestsAgree
<1> QED
  BY <1>1, <1>5, <1>6, <1>7, <1>8, <1>10, <1>11, <1>12, <1>13, <1>14, <1>15
  DEF Rest, VoteInv, RequestInv, StoreInv, Local, Elected

-----------------------------------------------------------------------------
(* A new cluster.                                                          *)
LEMMA RestartInitInv == RestartInit => RestartInv
<1> SUFFICES ASSUME RestartInit PROVE RestartInv
  OBVIOUS
<1>1. Init /\ restarted = {} /\ orphans = {} /\ everCommitted = <<>>
  BY DEF RestartInit
<1>2. /\ electionTerm = [i \in Server |-> 0] /\ currentTerm = [i \in Server |-> 0]
      /\ state = [i \in Server |-> "Follower"] /\ pc = [i \in Server |-> "run"]
      /\ votes = [i \in Server |-> {}] /\ voteRequests = {} /\ voteReplies = {}
      /\ appendRequests = {} /\ log = [i \in Server |-> <<>>]
      /\ commitIndex = [i \in Server |-> 0] /\ applied = [i \in Server |-> <<>>]
      /\ matchIndex = [i \in Server |-> [j \in Server |-> 0]]
      /\ call = [i \in Server |-> [j \in Server |-> NoCall]]
  BY <1>1 DEF Init, NewNode
<1>3. RestartTypeOK
  <2>1. <<>> \in Seq(Entry)
    BY SMTT(30)
  <2>2. applied \in [Server -> Seq(Entry)]
    BY <2>1, <1>2
  <2> QED
    BY <2>2, <1>1, InitType DEF RestartTypeOK
<1>4. VoteInv
  <2>1. OwnVoteKept
    BY <1>2, SMTT(30) DEF OwnVoteKept
  <2>2. VoteRequestOrigin /\ VotesInPlay /\ LeaderIsKept /\ OldVoteBinds
    BY <1>1, <1>2 DEF VoteRequestOrigin, VotesInPlay, LeaderIsKept, OldVoteBinds
  <2>3. VotesAreKept
    BY <1>2 DEF VotesAreKept, Granted
  <2> QED
    BY <2>1, <2>2, <2>3 DEF VoteInv
<1>5. NoCall.status # "replied"
  BY SMTT(30) DEF NoCall
<1>6. RequestInv
  BY <1>2, <1>5 DEF RequestInv, RequestIsKept, RequestIsOrdered, DeposedByHigherTerm
<1>7. Len(<<>>) = 0 /\ 0 <= 0 /\ 1..0 = {} /\ ~(0 > 0)
  BY SMTT(30)
<1>8. StoreInv
  <2>1. LogsNeverDiverge /\ TermsAscend /\ IndexIsPlace
    BY <1>2, <1>7 DEF LogsNeverDiverge, TermsAscend, IndexIsPlace, Agree
  <2>2. AppliedFromLog /\ LiveRequestsAgree /\ MatchIsKept
    <3>1. IsPrefixOf(<<>>, <<>>)
      BY <1>7 DEF IsPrefixOf
    <3>2. \A i \in Server : log[i] = <<>> /\ applied[i] = <<>> /\ commitIndex[i] = 0
      BY <1>2
    <3>3. AppliedFromLog
      BY <3>1, <3>2, <1>7 DEF AppliedFromLog
    <3>4. \A i, j \in Server : call[i][j] = NoCall /\ matchIndex[i][j] = 0
      BY <1>2
    <3>5. MatchIsKept
      BY <3>2, <3>4, <1>5, <1>7 DEF MatchIsKept
    <3> QED
      BY <3>3, <3>5, <1>2 DEF LiveRequestsAgree
  <2>3. LeaderCovers
    BY <1>2, <1>7 DEF LeaderCovers, StillCandidate
  <2>4. CommittedIsKept
    <3>1. <<>> \in Seq(Entry)
      BY SMTT(30)
    <3> QED
      BY <3>1, <1>1, <1>2, <1>7 DEF CommittedIsKept, Agree
  <2> QED
    BY <2>1, <2>2, <2>3, <2>4 DEF StoreInv
<1> QED
  BY <1>3, <1>4, <1>6, <1>8 DEF RestartInv

(* A step that changes nothing.                                            *)
LEMMA RestartStutter == RestartInv /\ UNCHANGED restartVars => RestartInv'
<1> SUFFICES ASSUME RestartInv, UNCHANGED restartVars PROVE RestartInv'
  OBVIOUS
<1>1. /\ UNCHANGED <<currentTerm, votedFor, state, leaderID, log, commitIndex, applied>>
      /\ UNCHANGED <<nextIndex, matchIndex, pc, electionTerm, votes, call>>
      /\ UNCHANGED <<voteRequests, voteReplies, appendRequests>>
      /\ UNCHANGED <<restarted, orphans, everCommitted>>
  BY DEF restartVars, vars, nodeVars, logVars, leaderVars, runVars, voteVars, appendVars
<1>2. RestartTypeOK'
  BY <1>1 DEF RestartInv, RestartTypeOK, TypeOK
<1>3. UNCHANGED <<nodeVars, runVars, voteVars, restarted, orphans>>
  BY <1>1 DEF nodeVars, runVars, voteVars
<1>4. Mild /\ Local'
  BY <1>3, Parts, QuietIsMild
<1>5. TypeOK'
  BY <1>2 DEF RestartTypeOK
<1>6. LogStep /\ LeaderCovers'
  BY <1>1, <1>4, <1>5, Parts, QuietKeepsCovers
<1>7. Elected'
  BY <1>4, <1>5, Parts, MildKeepsVotes
<1>8. RequestIsKept'
  BY <1>1, <1>4, <1>5, <1>6, Parts, MildKeepsTraces DEF RequestIsKept, Traced
<1>9. RequestIsOrdered' /\ DeposedByHigherTerm'
  BY <1>1, Parts DEF RequestIsOrdered, Ordered, DeposedByHigherTerm
<1>10. /\ LogsNeverDiverge' /\ TermsAscend' /\ IndexIsPlace' /\ AppliedFromLog'
       /\ LiveRequestsAgree' /\ MatchIsKept' /\ CommittedIsKept'
  BY <1>1, Parts DEF LogsNeverDiverge, TermsAscend, IndexIsPlace, AppliedFromLog,
                     LiveRequestsAgree, Live, MatchIsKept, CommittedIsKept
<1> QED
  BY <1>2, <1>4, <1>6, <1>7, <1>8, <1>9, <1>10
  DEF RestartInv, VoteInv, RequestInv, StoreInv, Local, Elected

(* Every step of a cluster in which one node may restart: one case for     *)
(* each action.                                                            *)
LEMMA RestartNextInv ==
  ASSUME Counting, Server # {}, Cardinality(Server) >= 2, Unanimous, MaxRestarts <= 1,
         RestartInv, RestartNext
  PROVE  RestartInv'
<1>1. EverStep
  BY DEF RestartNext, EverStep
<1>2. ASSUME Rest', applied' \in [Server -> Seq(Entry)] PROVE RestartInv'
  <2>1. RestartTypeOK'
    BY <1>2, Parts, RestartType
  <2> QED
    BY <2>1, <1>2 DEF RestartInv, Rest
<1>3. applied \in [Server -> Seq(Entry)]
  BY Parts DEF RestartTypeOK
<1>4. ASSUME Next, UNCHANGED <<restarted, orphans>> PROVE RestartInv'
  <2>1. TypeOK'
    BY <1>4, Parts, NextType
  <2>2. ASSUME NEW i \in Server, runFollower(i) \/ run(i) \/ ElectionExpires(i) PROVE RestartInv'
    <3>1. Rest'
      BY <2>1, <2>2, <1>1, <1>4, RunStep
    <3>2. applied' = applied
      BY <2>2 DEF runFollower, run, ElectionExpires, logVars
    <3> QED
      BY <3>1, <3>2, <1>2, <1>3
  <2>3. ASSUME NEW i \in Server, runCandidate(i) PROVE RestartInv'
    <3>1. Rest'
      BY <2>1, <2>3, <1>1, <1>4, CampaignStep
    <3>2. applied' = applied
      BY <2>3 DEF runCandidate, logVars
    <3> QED
      BY <3>1, <3>2, <1>2, <1>3
  <2>4. ASSUME NEW i \in Server, applyCommittedEntries(i) PROVE RestartInv'
    BY <2>1, <2>4, <1>1, <1>2, <1>4, ApplyStep
  <2>5. ASSUME NEW i \in Server, NEW r \in voteReplies, CountVote(i, r) PROVE RestartInv'
    <3>1. Rest'
      BY <2>1, <2>5, <1>1, <1>4, RunStep, WinStep
    <3>2. applied' = applied
      BY <2>5 DEF CountVote, becomeLeaderLocked, logVars
    <3> QED
      BY <3>1, <3>2, <1>2, <1>3
  <2>6. ASSUME NEW i \in Server, NEW cmd \in Command, Submit(i, cmd) PROVE RestartInv'
    <3>1. Rest'
      BY <2>1, <2>6, <1>1, <1>4, SubmitStep
    <3>2. applied' = applied
      BY <2>6 DEF Submit
    <3> QED
      BY <3>1, <3>2, <1>2, <1>3
  <2>7. ASSUME NEW i \in Server, NEW j \in Server,
               replicateToFollower(i, j) \/ ReplicationReply(i, j) \/ ReplicationTimeout(i, j)
        PROVE  RestartInv'
    <3>1. Rest'
      BY <2>1, <2>7, <1>1, <1>4, SendStep, ReplyStep, TimeoutStep
    <3>2. applied' = applied
      BY <2>7 DEF replicateToFollower, ReplicationReply, ReplicationTimeout, logVars
    <3> QED
      BY <3>1, <3>2, <1>2, <1>3
  <2>8. ASSUME NEW m \in voteRequests, HandleRequestVote(m) PROVE RestartInv'
    <3>1. Rest'
      BY <2>1, <2>8, <1>1, <1>4, VoteStep
    <3>2. applied' = applied
      BY <2>8 DEF HandleRequestVote, logVars
    <3> QED
      BY <3>1, <3>2, <1>2, <1>3
  <2>9. ASSUME NEW m \in appendRequests, HandleAppendEntries(m) PROVE RestartInv'
    <3>1. Rest'
      BY <2>1, <2>9, <1>1, <1>4, AcceptStep
    <3>2. applied' = applied
      BY <2>9 DEF HandleAppendEntries
    <3> QED
      BY <3>1, <3>2, <1>2, <1>3
  <2> QED
    BY <2>2, <2>3, <2>4, <2>5, <2>6, <2>7, <2>8, <2>9, <1>4 DEF Next
<1>5. ASSUME NEW m \in orphans, HandleOrphan(m) PROVE RestartInv'
  <2>1. applied' = applied
    BY <1>5 DEF HandleOrphan, logVars
  <2>2. TypeOK'
    BY <2>1, <1>3, Parts, RestartType DEF RestartTypeOK
  <2>3. Rest'
    BY <2>2, <1>1, <1>5, VoteStep
  <2> QED
    BY <2>1, <2>3, <1>2, <1>3
<1>6. ASSUME NEW i \in Server, Restart(i) PROVE RestartInv'
  <2>1. applied' \in [Server -> Seq(Entry)]
    <3>1. applied' = [applied EXCEPT ![i] = <<>>]
      BY <1>6 DEF Restart, NewProcess
    <3>2. <<>> \in Seq(Entry)
      BY SMTT(30)
    <3> QED
      BY <3>1, <3>2, <1>3
  <2>2. TypeOK'
    BY <2>1, Parts, RestartType DEF RestartTypeOK
  <2>3. Rest'
    BY <2>2, <1>1, <1>6, RestartStep
  <2> QED
    BY <2>1, <2>3, <1>2
<1> QED
  BY <1>4, <1>5, <1>6 DEF RestartNext

(* A leader holds all that was ever committed.                             *)
LEMMA LeadersKeep == RestartInv => CommittedSurvives
<1> SUFFICES ASSUME RestartInv PROVE CommittedSurvives
  OBVIOUS
<1> SUFFICES ASSUME NEW i \in Server, state[i] = "Leader"
             PROVE  IsPrefixOf(everCommitted, log[i])
  BY DEF CommittedSurvives
<1>1. Len(everCommitted) <= Len(log[i])
  BY LeaderHoldsCommitted
<1>2. /\ Agree(everCommitted, log[i]) /\ Len(everCommitted) \in Nat /\ Len(log[i]) \in Nat
  BY Parts, CommitFacts, LogFacts DEF CommittedIsKept
<1>3. \A k \in 1..Len(everCommitted) : k <= Len(log[i])
  BY <1>1, <1>2, SMTT(30)
<1> QED
  BY <1>1, <1>2, <1>3 DEF Agree, IsPrefixOf

(* What a node has applied or committed begins what was ever committed.    *)
LEMMA Replays == RestartInv => ReplayAgrees
<1> SUFFICES ASSUME RestartInv PROVE ReplayAgrees
  OBVIOUS
<1> SUFFICES ASSUME NEW i \in Server
             PROVE  IsPrefixOf(applied[i], everCommitted) /\ IsPrefixOf(Committed(i), everCommitted)
  BY DEF ReplayAgrees
<1> DEFINE c == commitIndex[i]
           n == Len(everCommitted)
<1>1. /\ c \in Nat /\ n \in Nat /\ c <= n /\ c <= Len(log[i]) /\ Len(log[i]) \in Nat
      /\ log[i] \in Seq(Entry) /\ Agree(everCommitted, log[i])
  BY Parts, CommitFacts, LogFacts DEF CommittedIsKept
<1>2. /\ Len(applied[i]) \in Nat /\ Len(applied[i]) <= c
      /\ \A k \in 1..Len(applied[i]) : applied[i][k] = log[i][k]
  <2>1. applied[i] \in Seq(Entry)
    BY Parts DEF RestartTypeOK
  <2>2. Len(applied[i]) \in Nat
    BY <2>1, SMTT(30)
  <2> QED
    BY <2>2, Parts DEF AppliedFromLog, IsPrefixOf
<1>3. \A k \in 1..c : k \in 1..n /\ k <= Len(log[i])
  BY <1>1, SMTT(30)
<1>4. \A k \in 1..c : everCommitted[k] = log[i][k]
  BY <1>1, <1>3 DEF Agree
<1>5. IsPrefixOf(applied[i], everCommitted)
  <2>1. Len(applied[i]) <= n /\ \A k \in 1..Len(applied[i]) : k \in 1..c
    BY <1>1, <1>2, SMTT(30)
  <2> QED
    BY <2>1, <1>2, <1>4 DEF IsPrefixOf
<1>6. IsPrefixOf(Committed(i), everCommitted)
  <2>1. c \in 0..Len(log[i])
    BY <1>1, SMTT(30)
  <2>2. Len(Committed(i)) = c /\ \A k \in 1..c : Committed(i)[k] = log[i][k]
    BY <2>1, <1>1, PrefixFacts DEF Committed
  <2> QED
    BY <2>2, <1>1, <1>4 DEF IsPrefixOf
<1> QED
  BY <1>5, <1>6

-----------------------------------------------------------------------------
(* Theorems.                                                               *)
Finite == INSTANCE FiniteSetTheorems

(* The library's facts are about the Cardinality of FiniteSets.            *)
LEMMA CountsAlike ==
  \A T : (Finite!IsFiniteSet(T) <=> IsFiniteSet(T)) /\ Finite!Cardinality(T) = Cardinality(T)
  BY DEF Finite!IsFiniteSet, IsFiniteSet, Finite!Cardinality, Cardinality

(* The library says what the lemmas assume of finite sets.                 *)
LEMMA Counts == Counting
<1>1. ASSUME NEW S \in SUBSET Nat, S # {} PROVE \E k \in S : \A l \in S : k <= l
  <2>1. PICK k \in S : \A l \in S : ~(<<l, k>> \in Finite!OpToRel(<, Nat))
    BY <1>1, Finite!NatLessThanWellFounded, Finite!WFMin
  <2>2. \A l \in S : ~(l < k)
    BY <2>1 DEF Finite!OpToRel
  <2> QED
    BY <2>2, SMTT(30)
<1>2. ASSUME NEW T \in SUBSET Server
      PROVE  /\ Cardinality(T) \in Nat
             /\ \A S \in SUBSET T : S = T \/ Cardinality(S) < Cardinality(T)
  <2>1. IsFiniteSet(T)
    BY ServerAssumption, CountsAlike, Finite!FS_Subset
  <2>2. Cardinality(T) \in Nat
    BY <2>1, CountsAlike, Finite!FS_CardinalityType
  <2>3. ASSUME NEW S \in SUBSET T, S # T PROVE Cardinality(S) < Cardinality(T)
    <3>1. IsFiniteSet(S) /\ Cardinality(S) <= Cardinality(T) /\ Cardinality(S) # Cardinality(T)
      BY <2>1, <2>3, CountsAlike, Finite!FS_Subset
    <3>2. Cardinality(S) \in Nat
      BY <3>1, CountsAlike, Finite!FS_CardinalityType
    <3> QED
      BY <3>1, <3>2, <2>2, SMTT(30)
  <2> QED
    BY <2>2, <2>3
<1>3. Cardinality({}) = 0
  BY CountsAlike, Finite!FS_EmptySet
<1>4. \A i \in Server : Cardinality({i}) = 1
  BY CountsAlike, Finite!FS_Singleton
<1> QED
  BY <1>1, <1>2, <1>3, <1>4 DEF Counting

(* With two or three nodes, where an election needs every vote, at most    *)
(* one of which restarts, and none while it leads: the invariant holds     *)
(* whatever the bounds on terms, logs and messages.                        *)
THEOREM RestartInvariant ==
  ASSUME Cardinality(Server) \in 2..3, MaxRestarts <= 1
  PROVE  RestartSpec => []RestartInv
<1>1. Unanimous /\ Cardinality(Server) >= 2
  <2>1. Cardinality(Server) \in 1..3 /\ Cardinality(Server) >= 2
    BY SMTT(30)
  <2> QED
    BY <2>1, SmallIsUnanimous
<1>2. Server # {}
  <2>1. Cardinality({}) = 0
    BY Counts DEF Counting
  <2> QED
    BY <2>1, <1>1, SMTT(30)
<1>3. RestartInv /\ [RestartNext]_restartVars => RestartInv'
  BY <1>1, <1>2, Counts, RestartNextInv, RestartStutter
<1> QED
  BY <1>3, RestartInitInv, PTL DEF RestartSpec

(* A node that restarts with an empty memory loses nothing that was ever   *)
(* committed: whoever leads afterwards, the restarted node too, holds it.  *)
THEOREM RestartKeepsCommitted ==
  ASSUME Cardinality(Server) \in 2..3, MaxRestarts <= 1
  PROVE  RestartSpec => []CommittedSurvives
<1> QED
  BY LeadersKeep, RestartInvariant, PTL

(* What a restarted node hands to its store again, from index 1 on, is     *)
(* what was committed the first time.                                      *)
THEOREM RestartReplays ==
  ASSUME Cardinality(Server) \in 2..3, MaxRestarts <= 1
  PROVE  RestartSpec => []ReplayAgrees
<1> QED
  BY Replays, RestartInvariant, PTL

(* Two logs never diverge, those of restarted nodes included, so a node    *)
(* that catches up never has to cut its log.                               *)
THEOREM RestartLogsAgree ==
  ASSUME Cardinality(Server) \in 2..3, MaxRestarts <= 1
  PROVE  RestartSpec => []LogsNeverDiverge
<1>1. RestartInv => LogsNeverDiverge
  BY DEF RestartInv, StoreInv
<1> QED
  BY <1>1, RestartInvariant, PTL

(* A restarted node may vote again in a term it voted in before, and still *)
(* no term has two leaders.                                                *)
THEOREM RestartElectsOne ==
  ASSUME Cardinality(Server) \in 2..3, MaxRestarts <= 1
  PROVE  RestartSpec => []ElectionSafety
<1>1. RestartInv => ElectionSafety
  BY Parts, OneLeader DEF ElectionSafety
<1> QED
  BY <1>1, RestartInvariant, PTL
=============================================================================
