------------------------------ MODULE KVServer ------------------------------
(***************************************************************************)
(* The server of server/server.go: requests that go through Raft and wait  *)
(* for their entry to be applied, the apply loop that answers them, the    *)
(* notes it keeps for requests that register late, and Close.              *)
(*                                                                         *)
(* Raft appears as the servers see it: Submit on whoever takes itself for  *)
(* the leader, commits, and changes of leader that keep what is committed  *)
(* (the properties the Raft module checks and its proofs establish).       *)
(* There is one key; a Put writes its own request, so every value tells    *)
(* which request wrote it.                                                 *)
(***************************************************************************)
EXTENDS Integers, Sequences, FiniteSets

CONSTANTS
    Server, Request,
    Nil,            \* no leader, an empty channel, no value, no result
    Kind,           \* what a request asks: "put", "reserved", "delete", "get"
    maxCompletedNotifications,
    Closers,        \* bound: the servers that may be closed
    Failing,        \* bound: the servers whose store may fail to read or write
    Impatient,      \* bound: the calls that may time out
    MaxTerm,        \* bound: how many leaders there are
    MaxLog          \* bound: how many entries a log holds

ASSUME RequestAssumption ==
    /\ Kind \in [Request -> {"put", "reserved", "delete", "get"}]
    /\ Nil \notin Server \cup Request \cup {"ok", "error", "closed"}
    /\ Nil \notin [index : Nat \ {0}, term : Nat]
    /\ maxCompletedNotifications \in Nat \ {0}
    /\ Closers \subseteq Server /\ Failing \subseteq Server /\ Impatient \subseteq Request
    /\ MaxTerm \in Nat /\ MaxLog \in Nat

VARIABLES
    term, leader, committed,    \* Raft as a whole
    log, leads, commitIndex,    \* Raft on a server: leads[s] is the term in
                                \* which s takes itself for the leader, or 0
    loop, applied, store,       \* applyCommittedEntries and what it did
    refused,                    \* the entries that an open store failed to write
    pending, completed, completionQ,
    closing,                    \* how far Close is
    req                         \* what each call is doing

raftVars == <<term, leader, committed, log, leads, commitIndex>>
loopVars == <<loop, applied, store, refused>>
noteVars == <<pending, completed, completionQ>>
vars == <<raftVars, loopVars, noteVars, closing, req>>

Idle == [pc |-> "idle", server |-> Nil, key |-> Nil, ch |-> Nil, result |-> Nil,
         before |-> 0, at |-> 0, value |-> Nil]

Init ==
    /\ term = 0 /\ leader = Nil /\ committed = 0
    /\ log = [s \in Server |-> <<>>]
    /\ leads = [s \in Server |-> 0]
    /\ commitIndex = [s \in Server |-> 0]
    /\ loop = [s \in Server |-> [pc |-> "select", err |-> Nil]]
    /\ applied = [s \in Server |-> 0]
    /\ store = [s \in Server |-> Nil]
    /\ refused = [s \in Server |-> {}]
    /\ pending = [s \in Server |-> {}]
    /\ completed = [s \in Server |-> {}]
    /\ completionQ = [s \in Server |-> <<>>]
    /\ closing = [s \in Server |-> "open"]
    /\ req = [r \in Request |-> Idle]

-----------------------------------------------------------------------------
(* Raft.                                                                   *)

CommittedEntries == IF leader = Nil THEN <<>> ELSE SubSeq(log[leader], 1, committed)

(* The new leader has what the last one had, up to some point, or its own  *)
(* log; in both cases all that is committed.                               *)
NewLeader(s) ==
    /\ term < MaxTerm
    /\ \E lg \in {log[s]} \cup
                 (IF leader = Nil THEN {} ELSE {SubSeq(log[leader], 1, n) : n \in 0..Len(log[leader])}) :
          /\ Len(lg) >= committed /\ SubSeq(lg, 1, committed) = CommittedEntries
          /\ log' = [log EXCEPT ![s] = lg]
    /\ term' = term + 1 /\ leader' = s
    /\ leads' = [leads EXCEPT ![s] = term + 1]
    /\ UNCHANGED <<committed, commitIndex, loopVars, noteVars, closing, req>>

StepDown(s) ==
    /\ leads[s] # 0 /\ leads[s] < term
    /\ leads' = [leads EXCEPT ![s] = 0]
    /\ UNCHANGED <<term, leader, committed, log, commitIndex, loopVars, noteVars, closing, req>>

Commit(n) ==
    /\ leader # Nil /\ n > committed /\ n <= Len(log[leader])
    /\ log[leader][n].term = term
    /\ committed' = n
    /\ commitIndex' = [commitIndex EXCEPT ![leader] = n]
    /\ UNCHANGED <<term, leader, log, leads, loopVars, noteVars, closing, req>>

(* An AppendEntries of the leader: s follows it up to entry n.             *)
Follow(s, n) ==
    /\ leader \notin {Nil, s} /\ commitIndex[s] < n /\ n <= committed
    /\ commitIndex' = [commitIndex EXCEPT ![s] = n]
    /\ log' = [log EXCEPT ![s] = SubSeq(log[leader], 1, n)]
    /\ leads' = [leads EXCEPT ![s] = 0]
    /\ UNCHANGED <<term, leader, committed, loopVars, noteVars, closing, req>>

-----------------------------------------------------------------------------
(* submitAndWait, in the order of its critical sections.                   *)

(* Wrong: waiters are found by the index alone.                            *)
KeyedByIndex(index, t) == [index |-> index, term |-> 0]

pendingKey(index, t) == [index |-> index, term |-> t]

Succeeded == {r \in Request : req[r].pc = "done" /\ req[r].result = "ok"}

(* The latest point of the log that a finished call has shown to a client. *)
Seen == LET points == {0} \cup {req[r].at : r \in Succeeded}
        IN CHOOSE p \in points : \A q \in points : q <= p

Submit(r, s) ==
    /\ req[r].pc = "idle"
    /\ closing[s] \in {"open", "closed", "drained"}
    /\ \/ /\ leads[s] = 0
          /\ req' = [req EXCEPT ![r].pc = "done", ![r].server = s, ![r].result = "notLeader"]
          /\ UNCHANGED log
       \/ /\ leads[s] # 0 /\ Len(log[s]) < MaxLog
          /\ log' = [log EXCEPT ![s] = Append(@, [term |-> leads[s], req |-> r])]
          /\ req' = [req EXCEPT ![r].pc = "submitted", ![r].server = s, ![r].before = Seen,
                                ![r].key = pendingKey(Len(log[s]) + 1, leads[s])]
    /\ UNCHANGED <<term, leader, committed, leads, commitIndex, loopVars, noteVars, closing>>

(* Where a call goes when it has its answer: Get still has to read.        *)
Answered(r, answer) ==
    IF answer = "ok" /\ Kind[r] = "get"
    THEN [req EXCEPT ![r].pc = "reading", ![r].ch = Nil]
    ELSE [req EXCEPT ![r].pc = "done", ![r].ch = Nil, ![r].result = answer,
                     ![r].at = req[r].key.index]

(* Wrong: the notes of what is applied already are not looked at.          *)
RegistersBlindly(r) ==
    LET s == req[r].server
    IN /\ req[r].pc = "submitted"
       /\ pending' = [pending EXCEPT ![s] = @ \cup {[key |-> req[r].key, req |-> r]}]
       /\ req' = [req EXCEPT ![r].pc = "waiting"]
       /\ UNCHANGED <<raftVars, loopVars, completed, completionQ, closing>>

(* Closed, answered by a note of the apply loop (which stays in            *)
(* completionQ), or registered.                                            *)
Register(r) ==
    LET s == req[r].server
        notes == {c \in completed[s] : c.key = req[r].key}
        others == {p \in pending[s] : p.key # req[r].key}
    IN /\ req[r].pc = "submitted"
       /\ \/ /\ closing[s] # "open"
             /\ req' = Answered(r, "closed")
             /\ UNCHANGED <<pending, completed>>
          \/ /\ closing[s] = "open" /\ notes # {}
             /\ \E c \in notes : req' = Answered(r, c.err)
             /\ completed' = [completed EXCEPT ![s] = @ \ notes]
             /\ UNCHANGED pending
          \/ /\ closing[s] = "open" /\ notes = {}
             /\ pending' = [pending EXCEPT ![s] = others \cup {[key |-> req[r].key, req |-> r]}]
             /\ req' = [req EXCEPT ![r].pc = "waiting"]
             /\ UNCHANGED completed
       /\ UNCHANGED <<raftVars, loopVars, completionQ, closing>>

TakeAnswer(r) ==
    /\ req[r].pc = "waiting" /\ req[r].ch # Nil
    /\ req' = Answered(r, req[r].ch)
    /\ UNCHANGED <<raftVars, loopVars, noteVars, closing>>

(* ctx.Done() or closedCh is chosen; pending is cleaned up afterwards.     *)
TimeOut(r) ==
    /\ req[r].pc = "waiting" /\ r \in Impatient
    /\ req' = [req EXCEPT ![r].pc = "leaving", ![r].result = "timeout"]
    /\ UNCHANGED <<raftVars, loopVars, noteVars, closing>>

SeeClosed(r) ==
    /\ req[r].pc = "waiting" /\ closing[req[r].server] # "open"
    /\ req' = [req EXCEPT ![r].pc = "leaving", ![r].result = "closed"]
    /\ UNCHANGED <<raftVars, loopVars, noteVars, closing>>

Leave(r) ==
    LET s == req[r].server
    IN /\ req[r].pc = "leaving"
       /\ pending' = [pending EXCEPT ![s] = {p \in @ : p.key # req[r].key}]
       /\ req' = [req EXCEPT ![r].pc = "done", ![r].ch = Nil]
       /\ UNCHANGED <<raftVars, loopVars, completed, completionQ, closing>>

(* Wrong: a read does not wait for its barrier.                            *)
ReadsAtOnce(r) ==
    LET s == req[r].server
    IN /\ Kind[r] = "get" /\ req[r].pc \in {"waiting", "reading"}
       /\ req' = [req EXCEPT ![r].pc = "done", ![r].result = "ok",
                             ![r].value = store[s], ![r].at = applied[s]]
       /\ UNCHANGED <<raftVars, loopVars, noteVars, closing>>

(* Get reads the store once its barrier is applied; the read may fail.     *)
Get(r) ==
    LET s == req[r].server
    IN /\ req[r].pc = "reading"
       /\ \/ req' = [req EXCEPT ![r].pc = "done", ![r].result = "ok",
                                ![r].value = store[s], ![r].at = applied[s]]
          \/ /\ s \in Failing
             /\ req' = [req EXCEPT ![r].pc = "done", ![r].result = "error"]
       /\ UNCHANGED <<raftVars, loopVars, noteVars, closing>>

-----------------------------------------------------------------------------
(* applyCommittedEntries: the store first, then the waiter, or a note.     *)

StoreIsOpen(s) == closing[s] \notin {"stopped", "returned"}

(* The store rejects the reserved tombstone value, and all writes once it  *)
(* is closed; an open one may fail to write (kvstore/write.go).  The error *)
(* goes to the caller if there is one, and the loop goes on.               *)
ApplyStore(s) ==
    LET n == applied[s] + 1
        r == CommittedEntries[n].req
        rejected == Kind[r] = "reserved" \/ (Kind[r] # "get" /\ ~StoreIsOpen(s))
        Done(err) == loop' = [loop EXCEPT ![s] = [pc |-> "notify", err |-> err]]
    IN /\ loop[s].pc = "select" /\ applied[s] < commitIndex[s]
       /\ applied' = [applied EXCEPT ![s] = n]
       /\ \/ /\ ~rejected /\ Done("ok")
             /\ store' = [store EXCEPT ![s] = CASE Kind[r] = "put" -> r
                                                [] Kind[r] = "delete" -> Nil
                                                [] OTHER -> @]
             /\ UNCHANGED refused
          \/ /\ rejected /\ Done("error")
             /\ UNCHANGED <<store, refused>>
          \/ /\ ~rejected /\ Kind[r] # "get" /\ s \in Failing /\ Done("error")
             /\ refused' = [refused EXCEPT ![s] = @ \cup {n}]
             /\ UNCHANGED store
       /\ UNCHANGED <<raftVars, noteVars, closing, req>>

(* Wrong: the waiter stays registered.                                     *)
KeepsWaiter(s, key, waiters) ==
    /\ \A p \in waiters : req[p.req].ch = Nil
    /\ req' = [r \in Request |-> IF \E p \in waiters : p.req = r
                                 THEN [req[r] EXCEPT !.ch = loop[s].err] ELSE req[r]]
    /\ UNCHANGED noteVars

(* The send on the waiter's channel, which holds one answer.               *)
WakeWaiter(s, key, waiters) ==
    /\ \A p \in waiters : req[p.req].ch = Nil
    /\ req' = [r \in Request |-> IF \E p \in waiters : p.req = r
                                 THEN [req[r] EXCEPT !.ch = loop[s].err] ELSE req[r]]
    /\ pending' = [pending EXCEPT ![s] = @ \ waiters]
    /\ UNCHANGED <<completed, completionQ>>

(* Wrong: nothing is evicted; a note is evicted while there is room.       *)
NothingEvicted(q) == <<>>
EvictedEarly(q) == IF Len(q) + 1 >= maxCompletedNotifications THEN <<q[1]>> ELSE <<>>

(* The note that makes room for another one.                               *)
Evicted(q) == IF Len(q) >= maxCompletedNotifications THEN <<q[1]>> ELSE <<>>

LeaveNote(s, key) ==
    LET q == completionQ[s]
        out == Evicted(q)
        kept == {c \in completed[s] : c.key # key /\ \A n \in 1..Len(out) : c.key # out[n]}
    IN /\ completionQ' = [completionQ EXCEPT ![s] = SubSeq(Append(q, key), 1 + Len(out), Len(q) + 1)]
       /\ completed' = [completed EXCEPT ![s] = kept \cup {[key |-> key, err |-> loop[s].err]}]
       /\ UNCHANGED <<pending, req>>

Notify(s) ==
    LET key == pendingKey(applied[s], CommittedEntries[applied[s]].term)
        waiters == {p \in pending[s] : p.key = key}
    IN /\ loop[s].pc = "notify"
       /\ \/ waiters # {} /\ WakeWaiter(s, key, waiters)
          \/ waiters = {} /\ LeaveNote(s, key)
       /\ loop' = [loop EXCEPT ![s].pc = "select"]
       /\ UNCHANGED <<raftVars, applied, store, refused, closing>>

(* Wrong: the loop waits for Close to return, and Close for the loop.      *)
ExitsAfterClose(s) ==
    /\ loop[s].pc = "select" /\ closing[s] = "returned"
    /\ loop' = [loop EXCEPT ![s].pc = "exited"]
    /\ UNCHANGED <<raftVars, applied, store, refused, noteVars, closing, req>>

LoopExits(s) ==
    /\ loop[s].pc = "select" /\ closing[s] # "open"
    /\ loop' = [loop EXCEPT ![s].pc = "exited"]
    /\ UNCHANGED <<raftVars, applied, store, refused, noteVars, closing, req>>

-----------------------------------------------------------------------------
(* Close: closedCh, the waiters, Shutdown and GracefulStop (no new calls), *)
(* the store once the calls in progress have returned, and applyWg.        *)

AtServer(s) == {r \in Request : req[r].server = s /\ req[r].pc # "done"}

CloseStep(s, from, to) ==
    /\ closing[s] = from
    /\ closing' = [closing EXCEPT ![s] = to]

Close(s) ==
    /\ s \in Closers
    /\ CloseStep(s, "open", "closed")
    /\ UNCHANGED <<raftVars, loopVars, noteVars, req>>

AnswerWaiters(s) ==
    /\ CloseStep(s, "closed", "drained")
    /\ \A p \in pending[s] : req[p.req].ch = Nil
    /\ req' = [r \in Request |-> IF \E p \in pending[s] : p.req = r
                                 THEN [req[r] EXCEPT !.ch = "closed"] ELSE req[r]]
    /\ pending' = [pending EXCEPT ![s] = {}]
    /\ UNCHANGED <<raftVars, loopVars, completed, completionQ>>

StopServing(s) ==
    /\ \/ CloseStep(s, "drained", "stopping")
       \/ CloseStep(s, "stopping", "stopped") /\ AtServer(s) = {}
       \/ CloseStep(s, "stopped", "returned") /\ loop[s].pc = "exited"
    /\ UNCHANGED <<raftVars, loopVars, noteVars, req>>

-----------------------------------------------------------------------------
CallStep(r) ==
    Register(r) \/ TakeAnswer(r) \/ SeeClosed(r) \/ Leave(r) \/ Get(r)
ServerStep(s) ==
    ApplyStore(s) \/ Notify(s) \/ LoopExits(s)
CloseProceeds(s) == AnswerWaiters(s) \/ StopServing(s)

(* Requests come at any time and to any server, which is what all of       *)
(* kv-client, kv-test and the retrying writer of kv-bench do between them: *)
(* an attempt that a client has given up on is a request like any other.   *)
Next ==
    \/ \E s \in Server : NewLeader(s) \/ StepDown(s) \/ Close(s)
    \/ \E n \in 1..MaxLog : Commit(n) \/ \E s \in Server : Follow(s, n)
    \/ \E r \in Request : TimeOut(r) \/ CallStep(r) \/ \E s \in Server : Submit(r, s)
    \/ \E s \in Server : ServerStep(s) \/ CloseProceeds(s)

Spec == Init /\ [][Next]_vars

(* Goroutines that can run do run.  Nothing is assumed of Raft, of clients *)
(* or of timeouts.                                                         *)
FairSpec ==
    /\ Spec
    /\ \A r \in Request : WF_vars(CallStep(r))
    /\ \A s \in Server : WF_vars(ServerStep(s)) /\ WF_vars(LoopExits(s)) /\ WF_vars(CloseProceeds(s))

-----------------------------------------------------------------------------
(* README.md: writes are acknowledged "after quorum replication and        *)
(* state-machine apply".  A call that succeeds, or reports an error of the *)
(* store, speaks of its own entry, which is committed and applied on its   *)
(* server, whatever became of the leader meanwhile.                        *)
AnswerIsOwn ==
    \A r \in Request : req[r].pc = "done" /\ req[r].result \in {"ok", "error"} =>
        /\ req[r].key.index <= applied[req[r].server]
        /\ CommittedEntries[req[r].key.index].req = r

(* The value that the first n committed writes leave behind, those in      *)
(* dropped excepted.                                                       *)
ValueAfter(n, dropped) ==
    LET writes(k) == k \notin dropped /\ Kind[CommittedEntries[k].req] \in {"put", "delete"}
        lastPut == {m \in 1..n : /\ writes(m) /\ Kind[CommittedEntries[m].req] = "put"
                                 /\ \A k \in (m + 1)..n : ~writes(k)}
    IN IF lastPut = {} THEN Nil ELSE CommittedEntries[CHOOSE m \in lastPut : TRUE].req

(* Calls take effect in the order of the log: a call comes after all that  *)
(* had been answered when it began, and a read returns what the writes up  *)
(* to its point leave behind, those dropped from its server excepted.      *)
InLogOrder(dropped) ==
    \A r \in Succeeded :
        IF Kind[r] = "get"
        THEN /\ req[r].at >= req[r].before
             /\ req[r].value = ValueAfter(req[r].at, dropped[req[r].server])
        ELSE req[r].at > req[r].before

(* README.md: "linearizable reads are served by the leader after a         *)
(* replicated read barrier commits".  No read is stale, whatever the       *)
(* stores of the servers did.                                              *)
Linearizable == InLogOrder([s \in Server |-> {}])

(* What applyCommittedEntries and the read barrier do give: a read sees    *)
(* every write up to its point, and nothing else, except the writes that   *)
(* the store of its own server failed to make.                             *)
ReadsAreInOrder == InLogOrder(refused)

(* A call whose entry the loop has dealt with is not left waiting, unless  *)
(* maxCompletedNotifications later entries have pushed its note out before *)
(* the call registered.                                                    *)
WaiterIsNotForgotten ==
    \A r \in Request :
        LET s == req[r].server
            n == req[r].key.index
        IN req[r].pc = "waiting" /\ req[r].ch = Nil /\ n <= committed =>
            \/ CommittedEntries[n].req # r
            \/ applied[s] < n \/ (applied[s] = n /\ loop[s].pc = "notify")
            \/ applied[s] >= n + maxCompletedNotifications

(* The notes are bounded, and eviction can reach every one of them although *)
(* Register takes notes and leaves their keys in the queue.                *)
NotesAreBounded ==
    \A s \in Server :
        /\ Cardinality(completed[s]) <= maxCompletedNotifications
        /\ \A c \in completed[s] : \E n \in 1..Len(completionQ[s]) : completionQ[s][n] = c.key

(* The loop and Close send on a waiter's channel while they hold the lock: *)
(* the channel of a registered waiter is empty, so neither ever blocks.    *)
SendNeverBlocks == \A s \in Server : \A p \in pending[s] : req[p.req].ch = Nil

(* A call whose entry its server knows to be committed is answered without *)
(* the help of a timeout, unless the server is closed, or the call         *)
(* registered after its note had been evicted.                             *)
Due(r) ==
    /\ req[r].pc \in {"submitted", "waiting"}
    /\ req[r].key.index <= commitIndex[req[r].server]
    /\ CommittedEntries[req[r].key.index].req = r

Forgotten(r) ==
    /\ req[r].pc = "waiting" /\ req[r].ch = Nil
    /\ applied[req[r].server] >= req[r].key.index + maxCompletedNotifications

AppliedIsAnswered ==
    \A r \in Request :
        Due(r) ~> \/ req[r].pc = "done" \/ Forgotten(r)
                  \/ \E s \in Server : req[r].server = s /\ closing[s] # "open"

(* Close returns: GracefulStop waits for the calls in progress and applyWg *)
(* for the loop, and all of them see that the server is closed.            *)
CloseReturns == \A s \in Closers : closing[s] = "closed" ~> closing[s] = "returned"
=============================================================================
