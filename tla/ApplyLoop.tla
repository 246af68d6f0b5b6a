----------------------------- MODULE ApplyLoop -----------------------------
(***************************************************************************)
(* The way of a committed entry out of Raft: applyCommittedEntries of      *)
(* raft/node.go, woken through commitNotifyCh, sends it on applyCh, where  *)
(* the loop of server/server.go receives it.  The two loops stop on two    *)
(* channels: the server's on closedCh, the node's on shutdownCh, which     *)
(* Close closes in this order.                                             *)
(***************************************************************************)
EXTENDS Integers, Sequences

CONSTANTS
    ApplyBuffer,    \* the capacity of applyCh; normalizeConfig makes it > 0
    MaxCommit       \* bound: how far commitIndex advances

ASSUME BufferAssumption == ApplyBuffer \in Nat \ {0} /\ MaxCommit \in Nat

VARIABLES
    commitIndex, lastApplied,
    commitNotifyCh,     \* TRUE: its one place is taken
    pc,                 \* where the node's loop is
    applyCh,
    received,           \* what the server's loop has received
    serving,            \* the server's loop runs
    closed, shutdown    \* closedCh and shutdownCh are closed

commitVars == <<commitIndex, commitNotifyCh>>
nodeVars == <<lastApplied, pc>>
serverVars == <<received, serving>>
stopVars == <<closed, shutdown>>
vars == <<commitVars, nodeVars, applyCh, serverVars, stopVars>>

Init ==
    /\ commitIndex = 0 /\ lastApplied = 0
    /\ commitNotifyCh = FALSE
    /\ pc = "loop"
    /\ applyCh = <<>> /\ received = <<>>
    /\ serving = TRUE /\ closed = FALSE /\ shutdown = FALSE

-----------------------------------------------------------------------------
(* Wrong: the loop is not told of the new commitIndex.                     *)
NotNotified == UNCHANGED commitNotifyCh

(* Never blocks: one signal is kept for a loop that is busy.               *)
notifyCommitAdvance == commitNotifyCh' = TRUE

AdvanceCommit ==
    /\ commitIndex < MaxCommit
    /\ commitIndex' = commitIndex + 1
    /\ notifyCommitAdvance
    /\ UNCHANGED <<nodeVars, applyCh, serverVars, stopVars>>

CheckShutdown ==
    /\ pc = "loop"
    /\ pc' = IF shutdown THEN "stopped" ELSE "check"
    /\ UNCHANGED <<commitVars, lastApplied, applyCh, serverVars, stopVars>>

(* Wrong: the entry after the last committed one is taken too.             *)
TakesOneMore ==
    /\ pc = "check"
    /\ \/ /\ lastApplied <= commitIndex
          /\ lastApplied' = lastApplied + 1 /\ pc' = "send"
       \/ /\ lastApplied > commitIndex
          /\ pc' = "wait" /\ UNCHANGED lastApplied
    /\ UNCHANGED <<commitVars, applyCh, serverVars, stopVars>>

(* The critical section of the loop.                                       *)
CheckCommit ==
    /\ pc = "check"
    /\ \/ /\ lastApplied < commitIndex
          /\ lastApplied' = lastApplied + 1 /\ pc' = "send"
       \/ /\ lastApplied >= commitIndex
          /\ pc' = "wait" /\ UNCHANGED lastApplied
    /\ UNCHANGED <<commitVars, applyCh, serverVars, stopVars>>

(* Wrong: an entry that finds the channel full is skipped.                 *)
SkipsWhenFull ==
    /\ pc = "send"
    /\ applyCh' = IF Len(applyCh) < ApplyBuffer THEN Append(applyCh, lastApplied) ELSE applyCh
    /\ pc' = "loop"
    /\ UNCHANGED <<commitVars, lastApplied, serverVars, stopVars>>

(* Wrong: the loop waits for a signal after each entry.                    *)
WaitsAfterSend ==
    /\ pc = "send" /\ Len(applyCh) < ApplyBuffer
    /\ applyCh' = Append(applyCh, lastApplied)
    /\ pc' = "wait"
    /\ UNCHANGED <<commitVars, lastApplied, serverVars, stopVars>>

(* Blocks while the channel is full, whatever shutdownCh says.             *)
Send ==
    /\ pc = "send" /\ Len(applyCh) < ApplyBuffer
    /\ applyCh' = Append(applyCh, lastApplied)
    /\ pc' = "loop"
    /\ UNCHANGED <<commitVars, lastApplied, serverVars, stopVars>>

Wait ==
    /\ pc = "wait"
    /\ \/ shutdown /\ pc' = "stopped" /\ UNCHANGED commitNotifyCh
       \/ commitNotifyCh /\ pc' = "loop" /\ commitNotifyCh' = FALSE
    /\ UNCHANGED <<commitIndex, lastApplied, applyCh, serverVars, stopVars>>

-----------------------------------------------------------------------------
(* The select of the server's loop.                                        *)
Receive ==
    /\ serving /\ applyCh # <<>>
    /\ received' = Append(received, Head(applyCh))
    /\ applyCh' = Tail(applyCh)
    /\ UNCHANGED <<commitVars, nodeVars, serving, stopVars>>

StopServing ==
    /\ serving /\ closed
    /\ serving' = FALSE
    /\ UNCHANGED <<commitVars, nodeVars, applyCh, received, stopVars>>

Close ==
    /\ ~closed /\ closed' = TRUE
    /\ UNCHANGED <<commitVars, nodeVars, applyCh, serverVars, shutdown>>

Shutdown ==
    /\ closed /\ ~shutdown /\ shutdown' = TRUE
    /\ UNCHANGED <<commitVars, nodeVars, applyCh, serverVars, closed>>

-----------------------------------------------------------------------------
NodeLoop == CheckShutdown \/ CheckCommit \/ Send \/ Wait
ServerLoop == Receive \/ StopServing

Next == AdvanceCommit \/ NodeLoop \/ ServerLoop \/ Close \/ Shutdown

(* Both loops run when they can and Close goes on once it has begun; that  *)
(* select picks among its ready cases at random is the fairness of         *)
(* StopServing.                                                            *)
Spec ==
    /\ Init /\ [][Next]_vars
    /\ WF_vars(NodeLoop) /\ WF_vars(ServerLoop) /\ WF_vars(StopServing) /\ WF_vars(Shutdown)

-----------------------------------------------------------------------------
(* The applier never takes an entry beyond commitIndex, however the sends  *)
(* and the advances interleave.                                            *)
TypeOK ==
    /\ commitIndex \in 0..MaxCommit /\ lastApplied \in 0..commitIndex
    /\ commitNotifyCh \in BOOLEAN
    /\ pc \in {"loop", "check", "send", "wait", "stopped"}
    /\ Len(applyCh) <= ApplyBuffer

(* Every entry the node has taken is received once and in order: what was  *)
(* received, what is on the channel and what is about to be sent are the   *)
(* entries 1..lastApplied.                                                 *)
ReceivedInOrder ==
    LET inHand == IF pc = "send" THEN <<lastApplied>> ELSE <<>>
    IN received \o applyCh \o inHand = [n \in 1..lastApplied |-> n]

(* A loop that waits although there is something to apply has a signal to  *)
(* wake it: the signals it had not taken when it looked at commitIndex, or *)
(* that came since, became one and not none.                               *)
SignalIsKept == pc = "wait" /\ lastApplied < commitIndex => commitNotifyCh

(* No wake-up is lost: whatever commitIndex reaches is received, although  *)
(* many signals become one and the loop may be anywhere when they come.    *)
CommittedIsReceived ==
    \A n \in 1..MaxCommit : commitIndex >= n ~> (Len(received) >= n \/ closed)

(* raft/cluster_test.go fails with "apply loop did not stop on shutdown":  *)
(* after Shutdown the node's loop stops.                                   *)
LoopStopsOnShutdown == shutdown ~> pc = "stopped"
=============================================================================
