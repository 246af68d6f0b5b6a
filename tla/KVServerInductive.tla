------------------------- MODULE KVServerInductive -------------------------
(***************************************************************************)
(* The inductive invariant behind the safety properties of KVServer.  It   *)
(* says what a pair (index, term) stands for while leaders come and go,    *)
(* what the notes and waiters of a server know, and where in the log each  *)
(* call takes effect.                                                      *)
(***************************************************************************)
EXTENDS KVServer

Entry == [term : Nat, req : Request]
PendingKey == [index : Nat \ {0}, term : Nat]
Call == [pc : {"idle", "submitted", "waiting", "leaving", "reading", "done"},
         server : {Nil} \cup Server, key : {Nil} \cup PendingKey,
         ch : {Nil, "ok", "error", "closed"},
         result : {Nil, "ok", "error", "closed", "timeout", "notLeader"},
         before : Nat, at : Nat, value : {Nil} \cup Request]

StateTypes ==
    /\ term \in Nat /\ committed \in Nat /\ leader \in {Nil} \cup Server
    /\ log \in [Server -> Seq(Entry)]
    /\ leads \in [Server -> Nat] /\ commitIndex \in [Server -> Nat] /\ applied \in [Server -> Nat]
    /\ loop \in [Server -> [pc : {"select", "notify", "exited"}, err : {Nil, "ok", "error"}]]
    /\ store \in [Server -> {Nil} \cup Request] /\ refused \in [Server -> SUBSET Nat]
    /\ pending \in [Server -> SUBSET [key : PendingKey, req : Request]]
    /\ completed \in [Server -> SUBSET [key : PendingKey, err : {"ok", "error"}]]
    /\ completionQ \in [Server -> Seq(PendingKey)]
    /\ closing \in [Server -> {"open", "closed", "drained", "stopping", "stopped", "returned"}]
    /\ req \in [Request -> Call]

(* Appliers stay behind commits, and commits within the leader's log.      *)
CommitInv ==
    /\ leader = Nil => committed = 0
    /\ leader # Nil => committed <= Len(log[leader])
    /\ \A s \in Server :
          /\ applied[s] <= commitIndex[s] /\ commitIndex[s] <= committed
          /\ loop[s].pc = "notify" => applied[s] > 0 /\ loop[s].err # Nil

-----------------------------------------------------------------------------
HasKey(r) == req[r].key # Nil
InProgress(r) == req[r].pc \in {"submitted", "waiting", "leaving", "reading"}

(* A pair (index, term) is given to one call, which is in the log at that  *)
(* place in that term if it is there at all: the leader of a term, even a  *)
(* deposed one, has all entries of its term.                               *)
KeyInv ==
    /\ \A s \in Server : \A k \in 1..Len(log[s]) :
          req[log[s][k].req].key = pendingKey(k, log[s][k].term)
    /\ \A q, r \in Request : HasKey(r) /\ req[q].key = req[r].key => q = r
    /\ \A r \in Request : HasKey(r) => req[r].key.term <= term
    /\ \A s \in Server : leads[s] # 0 =>
          /\ leads[s] <= term
          /\ \A t \in Server : leads[t] = leads[s] => t = s
          /\ \A r \in Request :
                HasKey(r) /\ req[r].key.term = leads[s] => req[r].key.index <= Len(log[s])
    /\ \A r \in Request :
          /\ req[r].pc = "idle" => ~HasKey(r)
          /\ InProgress(r) => HasKey(r) /\ req[r].server \in Server

-----------------------------------------------------------------------------
(* The loop of the call's server has applied the call's own entry.         *)
OwnApplied(r) ==
    /\ HasKey(r) /\ req[r].server \in Server
    /\ req[r].key.index <= applied[req[r].server]
    /\ log[leader][req[r].key.index].req = r

(* Notes and answers are of entries that are applied, and the channel of a *)
(* registered waiter is empty.                                             *)
AnswerInv ==
    /\ \A s \in Server : \A c \in completed[s] :
          /\ c.key.index <= applied[s]
          /\ log[leader][c.key.index].term = c.key.term
    /\ \A s \in Server : \A p \in pending[s] :
          /\ req[p.req].pc \in {"waiting", "leaving"} /\ req[p.req].ch = Nil
          /\ req[p.req].server = s /\ req[p.req].key = p.key
    /\ \A r \in Request :
          /\ req[r].ch # Nil => req[r].pc \in {"waiting", "leaving"}
          /\ req[r].pc = "leaving" => req[r].result \in {"timeout", "closed"}
          /\ \/ req[r].ch \in {"ok", "error"}
             \/ req[r].pc = "reading"
             \/ req[r].pc = "done" /\ req[r].result \in {"ok", "error"}
             => OwnApplied(r)

-----------------------------------------------------------------------------
(* Each note has its place in the queue, and each place is as old as the   *)
(* places behind it are many.                                              *)
NotesInv ==
    \A s \in Server :
        /\ Len(completionQ[s]) <= maxCompletedNotifications
        /\ \A c \in completed[s] : \E n \in 1..Len(completionQ[s]) : completionQ[s][n] = c.key
        /\ \A c, d \in completed[s] : c.key = d.key => c = d
        /\ \A n \in 1..Len(completionQ[s]) :
              LET notified == IF loop[s].pc = "notify" THEN applied[s] - 1 ELSE applied[s]
              IN completionQ[s][n].index + (Len(completionQ[s]) - n) <= notified

(* The loop is done with the call's own entry.                             *)
Notified(r) ==
    LET s == req[r].server
    IN /\ OwnApplied(r)
       /\ req[r].key.index = applied[s] => loop[s].pc # "notify"
Evictable(r) == applied[req[r].server] >= req[r].key.index + maxCompletedNotifications

(* A call finds a note when it registers, or has a waiter from then on.    *)
WaiterInv ==
    \A r \in Request :
        /\ req[r].pc = "submitted" /\ Notified(r) =>
              Evictable(r) \/ \E c \in completed[req[r].server] : c.key = req[r].key
        /\ req[r].pc = "waiting" /\ req[r].ch = Nil =>
              /\ [key |-> req[r].key, req |-> r] \in pending[req[r].server]
              /\ Notified(r) => Evictable(r)

-----------------------------------------------------------------------------
(* As long as calls use it, the store is what the applied writes leave     *)
(* behind that it did not refuse; a call that began when others had been   *)
(* answered is not in the log before them.                                 *)
OrderInv ==
    /\ \A s \in Server :
          /\ StoreIsOpen(s) => store[s] = ValueAfter(applied[s], refused[s])
          /\ \A n \in refused[s] : n <= applied[s]
    /\ \A r \in Request :
          /\ InProgress(r) => StoreIsOpen(req[r].server)
          /\ HasKey(r) =>
                /\ req[r].before <= committed
                /\ req[r].key.index <= req[r].before => log[leader][req[r].key.index].req # r
          /\ r \in Succeeded => req[r].server \in Server /\ req[r].at <= applied[req[r].server]
    /\ ReadsAreInOrder

(* All of it.  What the apply loop does to the notes and the waiters of    *)
(* one server, and what leaders do to the logs of all, preserves it.       *)
ServerInv ==
    StateTypes /\ CommitInv /\ KeyInv /\ AnswerInv /\ NotesInv /\ WaiterInv /\ OrderInv
=============================================================================
