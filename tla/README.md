# Verification of kvraft

TLA+ models of the replicated key-value store in `src/`, TLC configurations that
check them on small instances, and TLAPS proofs of the safety of the consensus
layer, the apply path, the server and the store for every instance. `PROJECT.json`
maps each definition to the lines it models, and lists runs, mutants, hazards,
findings and theorems.

## 1. The system

| Part | Code | State | Operations | What it must guarantee |
| --- | --- | --- | --- | --- |
| Raft node | `raft/node.go`, `raft/rpc.go` | `currentTerm`, `votedFor`, `state`, `log`, `commitIndex`, `lastApplied`, `nextIndex`, `matchIndex`, `leaderID` | elections (`runFollower`, `runCandidate`, `HandleRequestVote`), replication (`replicateToFollower`, `HandleAppendEntries`, `tryAdvanceCommitIndexLocked`), `Submit`, `applyCommittedEntries` | one leader per term; committed entries are never lost; all nodes apply the same sequence |
| Apply path | `raft/node.go`, `server/server.go` | `commitNotifyCh`, `applyCh`, two loops, `closedCh`, `shutdownCh` | notify, send, receive, stop | every committed entry arrives once, in order; the loops stop |
| Key-value server | `server/server.go` | `pending`, `completed`, `completionQ`, `closedCh` | `Put`/`Delete`/`Get` through `submitAndWait`, the apply loop, `Close` | an answer concerns the call's own entry; reads are linearizable, as long as the stores write; no call waits for ever; `Close` returns |
| Bitcask store | `kvstore/*.go` | data and hint files, keydir, active file, readers | `Put`, `Delete`, `Get`, `Sync`, `Close`, rotation, `OpenWithOptions`, `Merge` | the keydir names the latest record of each key, across crashes, restarts and merges |
| Transport | gRPC, `server/server.go` | connections | two Raft RPCs, three client RPCs | none: calls may be lost, late or repeated |
| Clients, commands, benchmarks | `common/`, `cmd/`, `internal/bench/` | per call or per process | | |

`Put`, `Delete` and `Get` call `Submit` on the Raft node. The leader replicates
the entry; every node's applier sends it on `applyCh`; the server's loop applies
it to the store and wakes the call that waits under `(index, term)`. A `Get`
replicates a barrier first and reads the local store afterwards.

What is hard here:

* three kinds of goroutine and the RPC handlers interleave on one node, and `run`
  acts on a state it read before taking the lock again;
* calls are abandoned after 100 ms and may still be handled later;
* a heartbeat clears the vote of the current term, so the usual argument for
  election safety does not apply;
* an entry may be applied before the call that submitted it has registered, and
  the notes left for such calls are bounded;
* `Close` runs concurrently with calls, the apply loop and the Raft goroutines;
* the store must recover from records cut anywhere, and merges with writes,
  reads, failures and crashes in between.

## 2. Modules

| Module | Models |
| --- | --- |
| `Raft` | the consensus nodes and their messages; the Raft properties |
| `CommittedLog` | what the cluster promises: one log that grows, applied by each server in order |
| `RaftInductive` | the inductive invariants and the refinement mapping to `CommittedLog` |
| `RaftRestart`, `RaftRestartInductive` | `Raft` with nodes that restart without their memory; the inductive invariant |
| `MCRaft`, `MCRaftRestart` | symmetry and views for TLC |
| `RaftTypesProof`, `RaftSafetyProof` | the Raft proofs: types; elections, logs, commitment and replication |
| `RaftRestartVotesProof`, `RaftRestartProof` | the proofs about restarts: elections; requests, logs and the theorems |
| `ApplyLoop` | the way of a committed entry from Raft to the server, the stop channels |
| `KVServer`, `MCKVServer` | calls, apply loop, notes and `Close`, over an abstract Raft |
| `KVServerInductive`, `KVServerProof` | the inductive invariant of the server; proofs about Raft's steps, calls, the apply loop and `Close`, and the theorems |
| `PeerAddresses` | the addresses a server redirects clients to |
| `ServerPartsProof` | proofs about `ApplyLoop` and `PeerAddresses` |
| `Bitcask`, `MCBitcask` | the storage engine on a disk that keeps what was synced |
| `DurableMap` | what the engine promises: a map that loses at most the last unsynced writes |
| `BitcaskInductive` | the two inductive invariants of the store and the conditions under which they hold |
| `BitcaskSessionProof` | proofs about one run of the process: writes, merges, `Get`, `Fold`, `Close` |
| `BitcaskRecoveryProof` | proofs about crashes, recovery and restarts; the refinement of `DurableMap` |

Definitions marked "Wrong:" are plausible bugs. They occur in no specification;
each is a mutant of the definition that follows it, and shows that a property
fails when the code is changed in that way.

### Raft

A critical section of `Node.mu` is one step. `pc[i]` is the position of the `run`
goroutine: `run` covers `runFollower` and `runLeader`, `candidate` is the gap
between reading the state and taking the lock in `runCandidate`, `election` is
the wait for votes. Each replication worker has at most one call in flight
(`call[i][j]`). Timers and wake-up channels only decide when a goroutine moves,
so any moment is allowed. The dummy entry at index 0 is left out: `log[i][k]` is
the code's `n.log[k]`.

Messages pass through the `int32` conversions of `rpc.go`. A vote request is
handled at most once; its reply is seen only by the election that asked.
An `AppendEntries` request stays available for ever, because the leader may send
the same one again and an abandoned one may be handled at any later time; its
reply reaches only the call that still waits. Lost messages are those never
handled, and timeouts.

`replicateToFollower` carries the bound `MaxRequests`, and `runCandidate` and
`Submit` the bounds `MaxTerm` and `MaxLog`. `MaxCandidates` limits simultaneous
campaigns.

`RaftRestart` adds restarts. `NewNode` starts with term 0, no vote and an empty log
(the limitation the repository's `README.md` states), while the store keeps what
was applied and gets it all again from index 1. Vote requests of the old process
may still be handled (`HandleOrphan`), and so may its `AppendEntries` requests. Two
restrictions are the model's and not the code's: the leader is not restarted, and
each node restarts at most once. A leader that restarts can win its own term again and
give an `(index, term)` to another command, so what `raft_restart` and the theorems about
restarts say does not extend to it, and `EntryKeyIsUnique` is checked and proved for
nodes that do not restart at all.

### ApplyLoop

The two loops statement by statement, `applyCh` with its capacity, and the one
place of `commitNotifyCh`. `Close` closes `closedCh` before `shutdownCh`.

### KVServer

Raft appears as its clients see it: a node that takes itself for the leader
accepts commands, also after a newer leader has been elected; commits never go
back; a new leader has all that is committed. The theorems `LeadersComplete`,
`CommittedStable` and `ImplementsLog` below justify this. Calls move through the
critical sections of `submitAndWait` one at a time, so that commits, applies,
timeouts and `Close` come between any two. The apply loop changes the store in one
step and notifies in another, as in the code. The store of a server in `Failing` may
return an error for any entry and any read: the loop passes a write's error on to the
waiter, or to a note, and goes on, as the code does, and `refused` keeps the entries that
are missing from the store of that server. The calls in `Impatient` may time out. There is one key, and a `Put` writes
its own identity, so each value shows which call wrote it. `Kind` gives each call
its operation; `reserved` is a `Put` of the value that the store refuses. Nothing is
assumed of the clients: calls begin at any moment on any server, which includes
what `kv-client`, `kv-test` and `kv-bench` do.

### PeerAddresses

Addresses are pairs of host and port. The operators are `normalizeConfig`,
`deriveClientPeerAddresses`, `addressesByID` and `leaderAddress`, and the
configuration `kv-server` makes of its flags.

### Bitcask

Files are sequences of records of equal size. A write cut short leaves a
fragment: `torn` inside a field, or `stub` exactly between two fields, because
`io.ReadFull` reports the two differently and recovery treats them differently. A
hint file is the number of records it lists. A crash keeps what `fsync` has made
durable and any prefix of the rest. Merge has a step for its first critical
section, one for each copied record and one for publication; it may fail or
crash between any two renames or removals, and two calls of it may overlap. `Get`
looks the key up in one step, opens or finds a reader in the next and reads in a
third; `Fold` is a walk of such reads over a copy of the keys. `Close` closes the
readers before it marks the store closed. `history` records what was written and
not lost, and is what the properties compare the keydir with; `Map` is the mapping
to `DurableMap`.

## 3. Runs

Sizes are distinct states. Every passing run covers all reachable states of its
instance.

| Run | Instance | Checks |
| --- | --- | --- |
| `raft_leaders` | 3 nodes, 2 campaigning at a time, 2 terms, 2 commands competing for one index; 427 K | `SafetyInv` (with `TypeOK`), `ReplicationInv`, `ElectionSafety`, `LeaderHint`, `StateMachineSafety`, `LeaderCompleteness`, `CommittedOnMajority`, `MatchIndexIsTrue`, `EntryKeyIsUnique`, refinement of `CommittedLog`, `CommittedIsStable`, `LogsOnlyGrow` |
| `raft_restart` | 2 nodes, 2 terms, 2 entries, 2 requests late or repeated, a restart at any moment; 242 K | `RestartInv`, `CommittedSurvives`, `ReplayAgrees`, `LogsNeverDiverge` |
| `apply_delivery` | channel of 2, 5 commits, `Close` at any time; 1.7 K | `TypeOK`, `ReceivedInOrder`, `SignalIsKept`, `CommittedIsReceived` (liveness) |
| `server_reads` | 2 servers whose stores may fail, a write that may time out and 2 reads, 2 leaders, room for 2 notes; 2.8 M | `AnswerIsOwn`, `ReadsAreInOrder`, `WaiterIsNotForgotten`, `NotesAreBounded` |
| `server_progress` | 2 servers, a delete and a rejected put that may time out, room for 1 note, a store that may fail and `Close` of the same server; 145 K | `ServerInv`, `SendNeverBlocks`, `AppliedIsAnswered`, `CloseReturns` (liveness) |
| `store_recovery` | 1 key, 4 writes, files of 2 records, unsynced writes, torn tails, failed writes and rotations, 3 restarts; 483 K | `RecoveryInv`, `PutIsKept`, `DeletedStaysDeleted`, refinement of `DurableMap` |
| `store_merge` | 2 keys, 5 writes, a merge that may fail or crash, 2 restarts; 1.5 M | `PutIsKept`, `OnlyPutRevives` |
| `store_readers` | 2 keys, 3 writes of one value, a caller that gets and folds, 2 merges at a time, `Close`; 840 K | `SessionInv`, `GetReturnsItsValue`, `GetFailsForAReason`, `FoldIsComplete`, `ReadersAreOfFiles` |

Why the bounds are enough. Elections conflict between two candidates of one term,
or between a candidate and the leader of the term before: two terms and three
nodes have both. Two commands compete for one index; a right cluster stores one of them
there, and a wrong one, such as the mutant `MajorityNeeded`, both. A restart
matters between a commit and the next election, which two terms contain. Two larger
instances of the same run were checked once, with the same result: three requests
(720 K states), and three nodes with one entry (14.9 M states, an hour). With one value
`store_readers` tells a `Get` that reads a tombstone, another key's record (`SessionInv`)
or nothing from a right one, but not one that reads an older put of its key; the instance with two values (2.2 M states)
was checked once too, and `GetsItsValue` is proved for any number of them. A file of two
records makes every third write rotate; two restarts let the damage of the first
recovery show in the second; eviction needs one more entry than there is room for:
`server_progress` has room for one note and two entries, so that a note is evicted before
its call registers, the one case in which `AppliedIsAnswered` promises nothing.
The Raft safety properties are also proved without bounds on nodes' histories (section
4).

`server_progress` has one leader only, which keeps the liveness check small; across
a change of leader `server_reads` shows the safety half of the same claim, that a
waiter whose entry has been dealt with has its answer.

`MCRaft` and `MCRaftRestart` hide values that no later step reads (`View`,
`RestartView`). The properties, apart from `SafetyInv`, `ReplicationInv` and
`RestartInv`, do not depend on hidden values. Those three do: TLC evaluates them on one
representative of each class of states, and the proofs cover the rest.

Deadlock is not checked: all instances run out of their bounds. The liveness runs
show that what must happen does.

### Fairness

`ApplyLoop!Spec` and `KVServer!FairSpec` assume that goroutines that can run do run
(the Go scheduler), that `select` does not ignore a ready case for ever (it picks
at random), and that `Close` goes on once called. Nothing is assumed of clients,
of timeouts, of elections or of commits; in particular `AppliedIsAnswered` does not
use the timeout of a call.

### Findings

Four runs end in a violation of something a document, comment or test of the
repository says.

| Run | What TLC shows |
| --- | --- |
| `raft_four` | with four nodes one term gets two leaders, because a heartbeat clears the vote of the current term (`node.go:255`) |
| `apply_stop` | the applier blocks for ever in its send on a full `applyCh` after `Close` (`node.go:415`) |
| `store_undelete` | a key deleted after a merge is back after a restart (`open.go:231`) |
| `store_stub` | the rest of a record that a crash cut between two fields is not trimmed (`open.go:181`); a `Put` after the restart is written behind it, acknowledged, and lost at the next one |

In `store_stub` the second recovery trims the file in front of the lost `Put`. On a real
disk the bytes may instead make up a record with a wrong checksum, and `Open` then fails; the
`Put` is out of reach in both cases.

One divergence needs no run: `votesNeeded` is 3 of 3 nodes (and 2 of 1), so a candidate
with a majority does not become leader (`node.go:181`), although `README.md` promises to
go on "as long as a majority of nodes is available".

Three more are in reach of the same modules with other constants, and are listed
among the hazards. With stores that fail to write (`Failing`), `Linearizable` is violated
(`server.go:238`): a committed write is missing from one store, nobody repairs it, and a
read on that server returns the value before it. With `MaxMerges = 2` and `MaxOpens = 2`, a merged
file that a restart made the active one is appended to, and read through its old
hint after the next merge and restart (`open.go:82`). With
`WriteFragments = {"torn"}`, a write that fails half-way shifts the offsets of later
ones (`write.go:76`).

The passing store runs therefore leave out these inputs: `stub` fragments, writes
that fail half-way, a second merge before a restart, and `DeletedStaysDeleted`
across a merge and a restart (`OnlyPutRevives` is what a merge does guarantee). `store_merge` also lets
the clock advance between writes: with equal timestamps a merged copy of an old
record wins over the newer record, since it has the higher file id.

## 4. Proofs

TLAPS checks every step. The assumptions are those on the constants
(`ServerAssumption` and `BoundAssumption` in `Raft`, `RestartAssumption` in
`RaftRestart`, `BufferAssumption` in
`ApplyLoop`, `RequestAssumption` in `KVServer`, `StoreAssumption` in `Bitcask`), which
TLC evaluates in each run; for Raft, from `ElectionSafe` on, that the cluster has one
to three nodes; for `RaftRestart` that it has two or three nodes and that at most one of
them restarts; and for the store the two conditions `NeverMerged` and `OneSession`
explained below. The bounds are arbitrary numbers, so the theorems hold for histories
of any length (within `int32` for Raft).

| Module | Theorem | States |
| --- | --- | --- |
| `RaftSafetyProof` | `TypeCorrect` | `Spec => []TypeOK`, for any number of nodes |
| | `ElectionSafe` | no term has two leaders |
| | `SafetyInvariant` | the inductive invariant `SafetyInv` |
| | `LogsAgree` | any two logs are prefixes of one another |
| | `AppliedSafe` | `lastApplied <= commitIndex <= len(log)-1`, and applied entries stay |
| | `StateMachinesAgree` | all nodes apply the same sequence |
| | `LeadersComplete` | the newest leader has all that is committed |
| | `CommittedStable`, `NoEntryLost` | no step takes back a committed entry, or any entry |
| | `ImplementsLog` | `Raft` implements `CommittedLog` |
| | `ReplicationInvariant` | the inductive invariant `ReplicationInv` |
| | `EntryKeysUnique` | `(index, term)` names one entry, while no node restarts |
| | `MatchIndexTrue` | `matchIndex` never exceeds what the follower shares with the leader |
| | `CommittedStored` | what is committed is stored on a majority |
| | `LeaderHinted` | the node named as leader leads that term |
| `RaftRestartProof` | `RestartInvariant` | the inductive invariant `RestartInv` |
| | `RestartKeepsCommitted` | the newest leader has all that was ever committed, whoever lost it |
| | `RestartReplays` | a restarted node commits and applies again what was committed before |
| | `RestartLogsAgree`, `RestartElectsOne` | logs that agree and one leader per term, across a restart |
| `ServerPartsProof` | `TypeCorrect` | `applyCh` stays within its capacity, the applier behind `commitIndex` |
| | `DeliveredInOrder` | every entry is received once and in order |
| | `NoSignalLost` | the applier never waits with work to do and no signal |
| | `GivenPeersNameLeader`, `DerivedPeersNameLeader` | the redirect address is the leader's; without `-client-peers`, if all nodes have their two ports equally far apart |
| `KVServerProof` | `ServerInvariant` | the inductive invariant `ServerInv` |
| | `AnswersAreOwn` | an answer is for the call's own, applied entry |
| | `CallsAreInOrder` | calls take effect in the order of their answers; a read sees all writes up to its point but those its own store failed to make |
| | `LinearizableIfStoresWrite` | reads and writes are linearizable if no store fails |
| | `SendsNeverBlock` | no send blocks under the lock |
| | `WaitersAreNotForgotten`, `NotesBounded` | the notes are enough, and bounded |
| `BitcaskSessionProof` | `SessionInvariant` | the inductive invariant `SessionInv`, with any number of merges and reads at a time |
| | `PutKeptInSession`, `DeletedInSession` | in a running store every key has its latest value, deleted keys stay deleted |
| | `RevivedByPutOnly` | only a `Put` brings a key into the keydir |
| | `GetsItsValue`, `GetsFailForAReason` | a `Get` returns the value at its lookup, or fails because the file or the store went away |
| | `FoldsAreComplete` | a `Fold` misses no key that was there throughout |
| | `ReadersOfFiles` | the reader cache holds no removed file; no condition, restarts and merges included |
| `BitcaskRecoveryProof` | `RecoveryInvariant` | the inductive invariant `RecoveryInv`, with any number of crashes and restarts |
| | `PutKept`, `DeletedKept` | the same two properties across crashes and restarts |
| | `ImplementsMap` | `Bitcask` implements `DurableMap`: a crash loses at most the last unsynced writes |

### Elections and logs

The textbook proof rests on votes that are remembered for a whole
term; this code forgets them at the next heartbeat. What saves clusters of up to
three nodes is that `votesNeeded` is then the whole cluster. So the invariant
speaks of *support*: `j` supports `i`'s election when it has reached that term
without campaigning in it, which, unlike a vote, no later step undoes. A node that
campaigned in a term has voted for itself and cannot lose that vote while nobody
else can lead the term (`OwnVote`); a granted vote implies support
(`VotesAreSupport`); a leader is supported by all others (`LeaderIsSupported`); and
every request of a term is evidence of the same (`RequestIsSupported`). Two leaders
of a term would have to support each other. `ElectionInv` is the conjunction.

For the logs, a leader asked everybody, so its log is at least as long as every
other (`LeaderIsLongest`), terms ascend along a log (`TermsAscend`), and a request is
a piece of its sender's log (`RequestFromLog`). Together with `LogsNeverDiverge`
itself these are preserved by every step: a follower only ever extends its log
towards the leader's, the truncating branch of `HandleAppendEntries` is dead, and
`CommittedLog` is the log of the node that has committed most. None of it holds for
four or more nodes, where `raft_four` finds a counterexample.

### Replication

`ReplicationInv` is proved on top of `SafetyInv`. Since logs never shrink, a reply
stays true however late it is read: `matchIndex`, and what an unread reply says, are
within the follower's log (`MatchIsStored`). A leader commits what a majority of
`matchIndex` covers, and requests carry only such indices (`CommitIsStored`). A node
named as the leader of a term, by a request or by `leaderID`, has reached that term
and leads it unless it has gone beyond (`LeaderIsNamed`). `EntryKeyIsUnique` follows
from `IndexIsPlace` and the agreement of the logs.

### Restarts

A restarted node has forgotten its term, its vote, its log and what it acknowledged, so
hardly a part of `SafetyInv` is left as it was: supporters of an election may vanish,
requests may outlive the log they were cut from, `matchIndex` may name entries that the
follower has lost, and a restarted node may vote twice in a term, or campaign again in a
term in which it campaigned before. `RestartInv` keeps each part for the nodes that
remember, and bounds what the forgetful one may do by what they remember.

* Elections (`VoteInv`). Everybody else still supports a leader (`LeaderIsKept`), which
  is enough for one leader per term unless the two rivals are the restarted node and a
  node it voted for earlier. `OldVoteBinds` covers that pair: a node that counts on the
  old vote does not vote for the restarted one before that has caught up.
* Requests (`RequestInv`). A request is a piece of its sender's log (`Backed`), or its
  sender has restarted and somebody has passed the request's term and will not let the
  sender win it again (`Unbacked`). This is where it matters that a leader does not
  restart: until the restart a node gives up leading only to a higher term that another
  node has reached (`DeposedByHigherTerm`).
* Logs (`StoreInv`). Whatever can still be accepted agrees with all that is stored or was
  ever committed (`LiveRequestsAgree`). A leader's log is still the longest: a voter that
  restarted after its vote can only have learnt entries from a node that has them
  (`LeaderCovers`). What was committed is stored by some node that will not restart
  (`CommittedIsKept`): a majority of two or three nodes is two, of which one restart takes
  one.

The hypotheses are needed. With two restarts both holders of a committed entry can lose
it, one after the other; a leader that restarts can win its term again; a single node
has nobody to remember for it. The code enforces none of them.

### Apply path

`DeliveryInv` states `ReceivedInOrder` entry by entry: what was received is
`1..Len(received)` and the channel continues it up to the last entry sent. `LoopInv`
adds the types and `SignalIsKept`, which is the safety half of `CommittedIsReceived`:
the applier looks at `commitIndex` and begins to wait in one critical section, and
each later advance leaves a signal.

### Server

`ServerInv` has six parts besides the types. `KeyInv` says what `(index, term)` stands
for: it is given to one call, and whoever led the term has all entries of the term,
so no deposed leader gives it out again. `CommitInv` keeps appliers behind commits.
`AnswerInv` says that every note, and every answer in a channel, is of an entry that
the server has applied, and that a registered waiter's channel is empty, so that a
send never blocks. `NotesInv` gives each note a place in `completionQ` and each place
an age; hence a note is evicted only `maxCompletedNotifications` entries after its
own, and `WaiterInv` can say that a call which registers late finds its note unless
that many have passed. `OrderInv` says that an open store holds what the applied
writes that it did not refuse leave behind, and that no call is in the log before one
that was answered when it began; `ReadsAreInOrder` needs both. `Linearizable` is the same
statement without the refused writes; it follows when there are none
(`LinearizableIfStoresWrite`). Leaders that come and go change the logs of
all servers, a call touches one server's waiters, and the loop one server's notes:
the lemmas are cut along these lines (`RaftKeeps`, `SubmitKeeps`, `CallMovesKeep`,
the loop's lemmas in `KVServerProof`).

### Store

The store keeps its promises under crashes, and under merges, but not under both:
`store_undelete`, the reused file of `open.go:82` and the equal timestamps of
`open.go:245` are stores that were merged *and* restarted. The theorems follow that
line.

`NeverMerged` describes a store without merges whose crashes cut records inside a
field, if at all, and whose failing writes leave nothing behind (the two other kinds of
damage are hazards, see section 3). Its files are its history: all but the newest are
full, so that write number `(id - 1) * MaxRecords + o` is the record at offset `o` of file
`id` (`FilesHold`). A hint exists only for a full file and lists all of it
(`HintsInv`), timestamps do not descend (`HistoryInv`), and the keydir names the last
write of each key (`Represents`). Writes and rotations preserve this record by record.
A crash shortens the history by what was not synced. For `Open`, the lemmas follow the
recovery through the files in the order of their ids: after the first `n` records the
keydir being built represents the first `n` writes. `Recovered` and `Replay` are
recursive functions over the files and over the records of each. That they are well
defined, and the statement about `n`, is proved by taking the least number for which it
fails (`Least`, `Induction`). The order of the files gives `shouldReplace` what it needs:
of two records of a key, the later one has a timestamp that is not smaller and, if the
timestamps are equal, the higher place (`LaterReplaces`). For `ImplementsMap` the
durable writes of the abstract map are those in the part of the files that `fsync` has
covered (`DurableWrites`).

`OneSession` describes a store up to its first restart, with any number of merges, even at
the same time, any number of `Get`s and `Fold`s, and merges that fail at any rename or
removal. `SessionInv` rests on one fact of the code: a file id is never used twice, since
merges and rotations take theirs from `nextFileID`. So an entry cannot come to mean
another record: a keydir entry that leads into a file being merged is the snapshot's
own (`CopyInv`), the merge's copy of it is the record the keydir names, and the
comparison in the last critical section of `Merge` moves precisely the keys that nobody
wrote in between. Two merges never write to a file that the other one reads or writes
(`MergesInv`). A `Get` between its steps finds its record as long as the file exists, and is
marked as disturbed when it ceases to (`CallInv`). A `Fold` still has each key of its
copy before it, has visited it, or finds its deletion in the history (`FoldInv`).

### Layout

Leaves are checked by Zenon, and those that need arithmetic or sequences by the SMT
solver, which they cite. The facts about least elements and cardinalities come from the
library of finite sets. Lemmas assume them (`Counting`); the modules that state theorems
instantiate the library at their end, prove `Counting` there (`Counts`) and cite it, so
that the theorems have no such hypothesis.

### Model-checked only

* `PutIsKept` and `OnlyPutRevives` for a store that is merged and restarted
  (`store_merge`): they hold only for few merges and a clock that moves on, and need
  an invariant about files that a crash left between two renames;
* `ImplementsDurableMap` for a store that is merged;
* liveness (`CommittedIsReceived`, `AppliedIsAnswered`, `CloseReturns`), since the
  prover handles neither fairness nor `ENABLED`.

## 5. Not modelled

* a restart of the leader, a second restart of a node, overflow beyond `int32`;
* listeners, connection cache, generated protobuf code, text of addresses;
* bit rot in the store, a failing `Sync` after a successful write, and an orphaned
  hint file after a crash between the removal of a data file and of its hint;
* command-line programs and benchmarks beyond the calls they make.

## 6. Plan

Still open, most important first:

1. an invariant for one merge followed by restarts, to prove `PutIsKept` as
   `store_merge` checks it;
2. restarts of a leader, and of several nodes one after the other: what has to happen
   between two of them for `CommittedSurvives` to hold;
3. the transport's connection cache, and the client's redirect and retry: what a
   repeated `Put` after a timeout may do.
