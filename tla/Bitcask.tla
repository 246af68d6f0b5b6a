------------------------------ MODULE Bitcask ------------------------------
(***************************************************************************)
(* The storage engine of kvstore/: append-only data files, hint files, the *)
(* in-memory keydir, recovery after a crash, merges, and reads with their  *)
(* cache of open files.                                                    *)
(*                                                                         *)
(* A data file is the sequence of its records, all of the same size; the   *)
(* offset of a record is its place in the sequence.  A write cut short     *)
(* leaves a fragment: a "torn" one ends inside a field, a "stub" exactly   *)
(* between two fields of the record (open.go and codec.go tell the two     *)
(* apart by the error io.ReadFull returns).  The hint of a file stands for *)
(* its first hint[id] records: it is always copied from them.              *)
(*                                                                         *)
(* One read-write opener, which flock enforces; fsync makes a file and its *)
(* directory entry durable.  A critical section of DB.mu is one step, but  *)
(* for Close, which lets reads pass before it sets closed.                 *)
(***************************************************************************)
EXTENDS Integers, Sequences, FiniteSets

CONSTANTS
    Key, Value,
    Caller, Merger, \* who calls Get and Fold, and who calls Merge
    Nil,            \* no keydir entry, no hint, no operation in progress
    Tombstone,      \* tombstoneValue; Put rejects it
    SyncOnPut,      \* OpenOptions.SyncOnPut
    MaxRecords,     \* OpenOptions.MaxDataFileSizeBytes, in records
    ClockSteps,     \* by how much time.Now() may advance between two writes
    CrashFragments, \* what a crash may leave behind the last whole record
    WriteFragments, \* what a failing write may leave there
    MaxWrites,      \* bound: how many records Put and Delete write
    MaxOpens,       \* bound: how many times the directory is reopened
    MaxMerges       \* bound: how many times Merge is called

Entry == [file : Nat \ {0}, off : Nat \ {0}, ts : Nat]
Call ==
    [key : Key, entry : Entry, handle : {"none", "open", "closed"}, want : Value,
     disturbed : BOOLEAN]

ASSUME StoreAssumption ==
    /\ Tombstone \notin Value /\ Nil \notin Value /\ Nil # Tombstone
    /\ Nil \notin Entry /\ Nil \notin Call
    /\ SyncOnPut \in BOOLEAN /\ MaxRecords \in Nat \ {0}
    /\ MaxWrites \in Nat /\ MaxOpens \in Nat /\ MaxMerges \in Nat
    /\ ClockSteps \subseteq Nat
    /\ CrashFragments \subseteq {"none", "torn", "stub"}
    /\ WriteFragments \subseteq {"none", "torn", "stub"}

VARIABLES
    data,           \* the data files: id -> records and fragments
    hint,           \* the hint files: id -> how many records it lists, or Nil
    synced,         \* how much of the active file fsync has made durable
    open,           \* the DB is open (in a process that lives)
    writable,       \* db.activeFile # nil
    keydir, activeFileID, activeOffset, nextFileID,
    closing,        \* Close holds mu and has closed the readers
    merge,          \* the Merge each merger is in, or Nil
    readers,        \* db.readers: the files with a cached handle
    call,           \* the Get each caller is in between its lookup and its read
    fold,           \* the Fold each caller is in, or Nil
    returned,       \* the result of the Get or Fold that has just returned
    clock,          \* time.Now() of the last write
    history,        \* every record written and not lost in a crash, in order
    opens, merges   \* what the bounds count

diskVars == <<data, hint, synced>>
memVars == <<open, closing, writable, keydir, activeFileID, activeOffset, nextFileID>>
readVars == <<readers, call, fold>>
opVars == <<merge, readVars>>
boundVars == <<opens, merges>>
restVars == <<clock, history, boundVars>>
vars == <<diskVars, memVars, opVars, returned, restVars>>

-----------------------------------------------------------------------------
Fragments == [cut : {"torn", "stub"}]
Fragment(f) == IF f = "none" THEN <<>> ELSE <<[cut |-> f]>>
NoFile == [id \in {} |-> <<>>]
With(f, id, x) == [j \in DOMAIN f \cup {id} |-> IF j = id THEN x ELSE f[j]]

(* How many whole records a file starts with.                              *)
Good(file) ==
    LET bad == {n \in 1..Len(file) : file[n] \in Fragments}
    IN IF bad = {} THEN Len(file) ELSE (CHOOSE n \in bad : \A m \in bad : n <= m) - 1

Init ==
    /\ data = With(NoFile, 1, <<>>) /\ hint = With(NoFile, 1, Nil) /\ synced = 0
    /\ open = TRUE /\ closing = FALSE /\ writable = TRUE
    /\ keydir = [k \in Key |-> Nil]
    /\ activeFileID = 1 /\ activeOffset = 0 /\ nextFileID = 2
    /\ merge = [m \in Merger |-> Nil]
    /\ readers = {} /\ call = [c \in Caller |-> Nil] /\ fold = [c \in Caller |-> Nil]
    /\ returned = Nil
    /\ clock = 0 /\ history = <<>>
    /\ opens = 0 /\ merges = 0

-----------------------------------------------------------------------------
(* Writing.                                                                *)

(* DB.mu is free and the DB is not closed.                                 *)
Unlocked == open /\ ~closing

(* The next record does not fit: rotateActiveFileLocked runs first.        *)
Full == activeOffset + 1 > MaxRecords /\ activeOffset > 0

(* A scan reaches the end of the file: a stub there looks like the end     *)
(* (io.EOF), any other fragment is an error.                               *)
Scannable(file) ==
    \/ Good(file) = Len(file)
    \/ Good(file) = Len(file) - 1 /\ file[Len(file)].cut = "stub"

(* Wrong: one hint more than there are records.                            *)
HintOneTooMany(id) == [hint EXCEPT ![id] = Good(data[id]) + 1]

writeHintForDataFile(id) == [hint EXCEPT ![id] = Good(data[id])]

(* The active file a record goes to, and what it holds already             *)
(* (createNewActiveFile opens an existing file as it is).                  *)
createNewActiveFile(id) == IF id \in DOMAIN data THEN data[id] ELSE <<>>

appendRecordLocked(r) ==
    LET id == IF Full THEN nextFileID ELSE activeFileID
        file == IF Full THEN createNewActiveFile(id) ELSE data[id]
        size == IF Full THEN Len(file) ELSE activeOffset
    IN /\ writable
       /\ Full => Scannable(data[activeFileID])
       /\ data' = With(data, id, Append(file, r))
       /\ hint' = IF Full THEN With(writeHintForDataFile(activeFileID), id, Nil) ELSE hint
       /\ activeFileID' = id
       /\ activeOffset' = size + 1
       /\ nextFileID' = IF Full THEN id + 1 ELSE nextFileID
       /\ synced' = IF SyncOnPut THEN Len(file) + 1 ELSE IF Full THEN 0 ELSE synced

Write(k, v, t, entry) ==
    /\ Unlocked /\ Len(history) < MaxWrites
    /\ LET r == [ts |-> t, key |-> k, value |-> v]
       IN appendRecordLocked(r) /\ history' = Append(history, r)
    /\ clock' = t
    /\ keydir' = [keydir EXCEPT ![k] = entry]
    /\ UNCHANGED <<open, closing, writable, opVars, boundVars>>

Put(k, v) ==
    \E d \in ClockSteps :
        Write(k, v, clock + d, [file |-> activeFileID', off |-> activeOffset', ts |-> clock + d])

Delete(k) == \E d \in ClockSteps : Write(k, Tombstone, clock + d, Nil)

(* The write of a record fails after some of its bytes: the call returns   *)
(* the error and activeOffset stays where it was.                          *)
WriteFails(f) ==
    /\ Unlocked /\ writable /\ ~Full /\ Len(history) < MaxWrites
    /\ Good(data[activeFileID]) = Len(data[activeFileID])
    /\ data' = [data EXCEPT ![activeFileID] = @ \o Fragment(f)]
    /\ UNCHANGED <<hint, synced, memVars, opVars, restVars>>

(* The same when the active file was full: it has been rotated already.    *)
WriteFailsAfterRotation(f) ==
    LET file == createNewActiveFile(nextFileID)
    IN /\ Unlocked /\ writable /\ Full /\ Len(history) < MaxWrites
       /\ Scannable(data[activeFileID])
       /\ data' = With(data, nextFileID, file \o Fragment(f))
       /\ hint' = With(writeHintForDataFile(activeFileID), nextFileID, Nil)
       /\ activeFileID' = nextFileID /\ activeOffset' = Len(file)
       /\ nextFileID' = nextFileID + 1
       /\ synced' = 0
       /\ UNCHANGED <<open, closing, writable, keydir, opVars, restVars>>

(* rotateActiveFileLocked fails once the old file is closed, before or     *)
(* after its hint is in place: there is no active file any more.           *)
RotationFails ==
    /\ Unlocked /\ writable /\ Full
    /\ writable' = FALSE
    /\ synced' = Len(data[activeFileID])
    /\ \/ hint' = hint
       \/ Scannable(data[activeFileID]) /\ hint' = writeHintForDataFile(activeFileID)
    /\ UNCHANGED <<data, open, closing, keydir, activeFileID, activeOffset, nextFileID,
                   opVars, restVars>>

Sync ==
    /\ Unlocked /\ writable
    /\ synced' = Len(data[activeFileID])
    /\ UNCHANGED <<data, hint, memVars, opVars, restVars>>

-----------------------------------------------------------------------------
(* Stopping and recovering.                                                *)

(* The calls in progress end with the process or with the DB.              *)
ForgetCalls ==
    /\ merge' = [m \in Merger |-> Nil]
    /\ readers' = {} /\ call' = [c \in Caller |-> Nil] /\ fold' = [c \in Caller |-> Nil]

(* closeReaderLocked for the files ids.  A Get that has a handle already   *)
(* fails when it reads; ids may also be gone before it has one.            *)
closeReaders(ids) ==
    /\ readers' = readers \ ids
    /\ call' = [c \in Caller |->
                  IF call[c] = Nil \/ call[c].entry.file \notin ids THEN call[c]
                  ELSE [call[c] EXCEPT !.handle = IF @ = "open" THEN "closed" ELSE @,
                                       !.disturbed = TRUE]]

(* Close up to its release of readersMu ...                                *)
Close ==
    /\ Unlocked
    /\ closing' = TRUE /\ writable' = FALSE
    /\ synced' = IF writable THEN Len(data[activeFileID]) ELSE synced
    /\ closeReaders(DOMAIN data)
    /\ UNCHANGED <<data, hint, open, keydir, activeFileID, activeOffset, nextFileID,
                   merge, fold, restVars>>

(* ... and the rest: the lock file, then closed.  A Merge in progress can  *)
(* only fail now.                                                          *)
CloseEnds ==
    /\ closing
    /\ closing' = FALSE /\ open' = FALSE
    /\ merge' = [m \in Merger |-> Nil]
    /\ UNCHANGED <<diskVars, writable, keydir, activeFileID, activeOffset, nextFileID,
                   readVars, restVars>>

(* A crash keeps what fsync made durable and the first of what follows it, *)
(* the record after that (lost, or being written) in part.                 *)
Crash(n, f) ==
    /\ open /\ n \in synced..Len(data[activeFileID])
    /\ f = "none" \/ n < Len(data[activeFileID]) \/ (writable /\ ~Full)
    /\ LET file == data[activeFileID]
           lost == Cardinality({m \in (n + 1)..Len(file) : file[m] \notin Fragments})
       IN /\ data' = [data EXCEPT ![activeFileID] = SubSeq(@, 1, n) \o Fragment(f)]
          /\ history' = SubSeq(history, 1, Len(history) - lost)
    /\ open' = FALSE /\ closing' = FALSE /\ writable' = FALSE
    /\ ForgetCalls
    /\ UNCHANGED <<hint, synced, keydir, activeFileID, activeOffset, nextFileID,
                   clock, boundVars>>

(* A crash in rotateActiveFileLocked or in the write that follows it: the  *)
(* hint of the old file is in place, the new file is not there, or holds   *)
(* no whole record.                                                        *)
CrashInRotation(f) ==
    /\ Unlocked /\ writable /\ Full /\ Scannable(data[activeFileID])
    /\ LET old == writeHintForDataFile(activeFileID)
       IN \/ data' = data /\ hint' = old
          \/ /\ data' = With(data, nextFileID, Fragment(f))
             /\ hint' = With(old, nextFileID, Nil)
    /\ synced' = Len(data[activeFileID])
    /\ open' = FALSE /\ closing' = FALSE /\ writable' = FALSE
    /\ ForgetCalls
    /\ UNCHANGED <<keydir, activeFileID, activeOffset, nextFileID,
                   clock, history, boundVars>>

(* Wrong: of two records with one timestamp in one file, keeps the first.  *)
OffsetsIgnored(current, incoming) ==
    \/ incoming.ts > current.ts
    \/ incoming.ts = current.ts /\ incoming.file > current.file

shouldReplace(current, incoming) ==
    \/ incoming.ts > current.ts
    \/ incoming.ts = current.ts /\ incoming.file > current.file
    \/ /\ incoming.ts = current.ts /\ incoming.file = current.file
       /\ incoming.off > current.off

(* Wrong: a tombstone is recovered as if it were a value.                  *)
TombstoneIsAValue(kd, u) ==
    IF kd[u.key] # Nil /\ ~shouldReplace(kd[u.key], u.entry) THEN kd
    ELSE [kd EXCEPT ![u.key] = u.entry]

applyKeydirUpdate(kd, u) ==
    IF kd[u.key] # Nil /\ ~shouldReplace(kd[u.key], u.entry) THEN kd
    ELSE [kd EXCEPT ![u.key] = IF u.tombstone THEN Nil ELSE u.entry]

(* What a scan of the first n records of a file, or of their hints, yields.*)
Updates(id, n) ==
    [o \in 1..n |-> LET r == data[id][o]
                    IN [key |-> r.key, tombstone |-> r.value = Tombstone,
                        entry |-> [file |-> id, off |-> o, ts |-> r.ts]]]

(* The data file with the highest id is the active one.                    *)
LastFileID == CHOOSE id \in DOMAIN data : \A j \in DOMAIN data : j <= id

(* Open prefers the hint of a file, except for the active one.             *)
Scan(id) ==
    IF id # LastFileID /\ hint[id] # Nil THEN Updates(id, hint[id])
    ELSE Updates(id, Good(data[id]))

(* Otherwise the scan of an older file is ErrCorruptData and Open fails.   *)
OlderFilesAreWhole ==
    \A id \in DOMAIN data \ {LastFileID} : hint[id] # Nil \/ Scannable(data[id])

(* Wrong: the record before a torn tail goes as well.                      *)
CutsOneMore(file) ==
    IF Scannable(file) \/ Good(file) = 0 THEN file ELSE SubSeq(file, 1, Good(file) - 1)

(* The scan of the active file cuts it before the first fragment, unless   *)
(* that is a stub at the end.  (Records behind a fragment may also make    *)
(* the scan fail; Open then changes nothing.)                              *)
scanDataFile(file) == IF Scannable(file) THEN file ELSE SubSeq(file, 1, Good(file))

(* The keydir kd after the updates us.                                     *)
Replay(kd, us) ==
    LET after[n \in 0..Len(us)] ==
            IF n = 0 THEN kd ELSE applyKeydirUpdate(after[n - 1], us[n])
    IN after[Len(us)]

(* The files are scanned in ascending order.                               *)
Recovered ==
    LET upTo[id \in 0..LastFileID] ==
            IF id = 0 THEN [k \in Key |-> Nil]
            ELSE IF id \in DOMAIN data THEN Replay(upTo[id - 1], Scan(id)) ELSE upTo[id - 1]
    IN upTo[LastFileID]

OpenWithOptions ==
    /\ ~open /\ opens < MaxOpens
    /\ OlderFilesAreWhole
    /\ open' = TRUE /\ writable' = TRUE
    /\ keydir' = Recovered
    /\ data' = [data EXCEPT ![LastFileID] = scanDataFile(@)]
    /\ activeFileID' = LastFileID
    /\ activeOffset' = Len(data'[LastFileID])
    /\ nextFileID' = LastFileID + 1
    /\ synced' = IF LastFileID = activeFileID /\ data' = data THEN synced ELSE activeOffset'
    /\ opens' = opens + 1
    /\ ForgetCalls
    /\ UNCHANGED <<hint, closing, clock, history, merges>>

-----------------------------------------------------------------------------
(* Merge: the first and the last critical section, and in between one step *)
(* for each live record copied to a temporary file.                        *)

MergeStart(m) ==
    LET ids == DOMAIN data \ {activeFileID}
        snapshot == [k \in Key |-> IF keydir[k] # Nil /\ keydir[k].file \in ids
                                   THEN keydir[k] ELSE Nil]
    IN /\ Unlocked /\ merge[m] = Nil /\ ids # {} /\ merges < MaxMerges
       /\ merges' = merges + 1
       /\ merge' = [merge EXCEPT ![m] =
                       [ids |-> ids, snapshot |-> snapshot,
                        todo |-> {k \in Key : snapshot[k] # Nil},
                        files |-> NoFile, current |-> 0,
                        entries |-> [k \in Key |-> Nil]]]
       /\ UNCHANGED <<diskVars, memVars, readVars, clock, history, opens>>

MergeRecord(m, k) ==
    /\ Unlocked /\ merge[m] # Nil /\ k \in merge[m].todo
    /\ LET job == merge[m]
           e == job.snapshot[k]
           fits == job.current # 0 /\ Len(job.files[job.current]) < MaxRecords
           id == IF fits THEN job.current ELSE nextFileID
           file == IF fits THEN job.files[id] ELSE <<>>
       IN /\ e.file \in DOMAIN data /\ data[e.file][e.off] \notin Fragments
          /\ readers' = readers \cup {e.file}
          /\ merge' = [merge EXCEPT ![m] =
                [job EXCEPT !.todo = @ \ {k}, !.current = id,
                            !.files = With(@, id, Append(file, data[e.file][e.off])),
                            !.entries[k] = [file |-> id, off |-> Len(file) + 1, ts |-> e.ts]]]
          /\ nextFileID' = IF fits THEN nextFileID ELSE nextFileID + 1
    /\ UNCHANGED <<diskVars, open, closing, writable, keydir, activeFileID, activeOffset,
                   call, fold, restVars>>

(* The files job.files[id] of new in place, those of bare without their    *)
(* hint, and the old files of gone removed.                                *)
MergedFiles(job, new, bare, gone) ==
    LET all == (DOMAIN data \cup new) \ gone
    IN /\ data' = [id \in all |-> IF id \in new THEN job.files[id] ELSE data[id]]
       /\ hint' = [id \in all |-> IF id \in bare THEN Nil
                                 ELSE IF id \in new THEN Len(job.files[id]) ELSE hint[id]]

(* Wrong: an entry newer than the snapshot is replaced as well, even that  *)
(* of a key deleted since.                                                 *)
EntriesOverwritten(job) ==
    [k \in Key |-> IF job.entries[k] # Nil THEN job.entries[k] ELSE keydir[k]]

(* Wrong: the keydir goes on pointing at the removed files.                *)
EntriesKept(job) == keydir

(* sameEntry: only entries that are still those of the snapshot move.      *)
MergedEntries(job) ==
    [k \in Key |-> IF job.entries[k] # Nil /\ keydir[k] = job.snapshot[k]
                   THEN job.entries[k] ELSE keydir[k]]

(* Wrong: the cached handles of the removed files stay.                    *)
ReadersKept(m) ==
    /\ Unlocked /\ merge[m] # Nil /\ merge[m].todo = {}
    /\ MergedFiles(merge[m], DOMAIN merge[m].files, {}, merge[m].ids)
    /\ keydir' = MergedEntries(merge[m])
    /\ merge' = [merge EXCEPT ![m] = Nil]
    /\ UNCHANGED <<synced, open, closing, writable, activeFileID, activeOffset,
                   nextFileID, readVars, restVars>>

(* The removal holds readersMu: no reader is opened in between.            *)
MergePublish(m) ==
    /\ Unlocked /\ merge[m] # Nil /\ merge[m].todo = {}
    /\ MergedFiles(merge[m], DOMAIN merge[m].files, {}, merge[m].ids)
    /\ keydir' = MergedEntries(merge[m])
    /\ closeReaders(merge[m].ids)
    /\ merge' = [merge EXCEPT ![m] = Nil]
    /\ UNCHANGED <<synced, open, closing, writable, activeFileID, activeOffset,
                   nextFileID, fold, restVars>>

(* The renames and the removals go file by file, in ascending order.       *)
FirstOf(ids) == {{}} \cup {{j \in ids : j <= id} : id \in ids}
LastOf(ids) == {id \in ids : \A j \in ids : j <= id}

(* Merge fails: while it copies, which leaves nothing behind, or at a      *)
(* rename, which leaves the files renamed so far (cleanupMergeFiles only   *)
(* removes the temporary names).                                           *)
MergeFails(m) ==
    /\ merge[m] # Nil
    /\ \E new \in IF merge[m].todo = {} THEN FirstOf(DOMAIN merge[m].files) ELSE {{}} :
          \E bare \in {{}, LastOf(new)} : MergedFiles(merge[m], new, bare, {})
    /\ merge' = [merge EXCEPT ![m] = Nil]
    /\ UNCHANGED <<synced, memVars, readVars, restVars>>

(* Wrong: the old files are removed before the new ones are in place.      *)
OldFilesFirst(m) ==
    /\ Unlocked /\ merge[m] # Nil /\ merge[m].todo = {}
    /\ \E new \in FirstOf(DOMAIN merge[m].files) :
          MergedFiles(merge[m], new, {}, merge[m].ids)
    /\ open' = FALSE /\ writable' = FALSE
    /\ ForgetCalls
    /\ UNCHANGED <<synced, closing, keydir, activeFileID, activeOffset, nextFileID, restVars>>

(* A crash while MergePublish renames or removes files.                    *)
CrashInMerge(m) ==
    /\ Unlocked /\ merge[m] # Nil /\ merge[m].todo = {}
    /\ \/ \E new \in FirstOf(DOMAIN merge[m].files) :
             \E bare \in {{}, LastOf(new)} : MergedFiles(merge[m], new, bare, {})
       \/ \E gone \in FirstOf(merge[m].ids) :
             MergedFiles(merge[m], DOMAIN merge[m].files, {}, gone)
    /\ open' = FALSE /\ writable' = FALSE
    /\ ForgetCalls
    /\ UNCHANGED <<synced, closing, keydir, activeFileID, activeOffset, nextFileID, restVars>>

-----------------------------------------------------------------------------
(* The value a sequence of operations leaves under a key.                  *)
Latest(ops, k) ==
    LET at == {n \in 1..Len(ops) : ops[n].key = k}
    IN IF at = {} THEN Tombstone ELSE ops[CHOOSE n \in at : \A m \in at : m <= n].value

(* What an entry's location holds.                                          *)
Readable(e) ==
    /\ e.file \in DOMAIN data /\ e.off <= Len(data[e.file])
    /\ data[e.file][e.off] \notin Fragments

ValueAt(e) == IF Readable(e) THEN data[e.file][e.off].value ELSE Nil

(* Get takes its entry under the lock and reads the file without it; want  *)
(* is the value the key has at that moment.                                *)
Lookup(c, k) ==
    /\ Unlocked /\ call[c] = Nil /\ keydir[k] # Nil
    /\ call' = [call EXCEPT ![c] = [key |-> k, entry |-> keydir[k], handle |-> "none",
                                    want |-> Latest(history, k), disturbed |-> FALSE]]

Get(c, k) ==
    /\ fold[c] = Nil
    /\ Lookup(c, k)
    /\ UNCHANGED <<diskVars, memVars, merge, readers, fold, restVars>>

(* What follows a Get that returns: Fold goes on to its next key unless    *)
(* the Get has failed.                                                     *)
GetReturns(c, out, value) ==
    /\ call' = [call EXCEPT ![c] = Nil]
    /\ returned' = [op |-> "get", out |-> out, value |-> value,
                    want |-> call[c].want, disturbed |-> call[c].disturbed]
    /\ fold' = [fold EXCEPT ![c] =
                   IF fold[c] = Nil \/ out = "error" THEN Nil
                   ELSE [fold[c] EXCEPT !.visited =
                            @ \cup (IF out = "found" THEN {call[c].key} ELSE {})]]

(* closed is read without mu: a Get may still see it unset after Close.    *)
openReader(c) ==
    /\ call[c] # Nil /\ call[c].handle = "none"
    /\ LET id == call[c].entry.file
       IN \/ /\ id \in DOMAIN data
             /\ readers' = readers \cup {id}
             /\ call' = [call EXCEPT ![c].handle = "open"]
             /\ returned' = Nil /\ UNCHANGED fold
          \/ /\ ~open \/ id \notin DOMAIN data
             /\ GetReturns(c, "error", Nil)
             /\ UNCHANGED readers
    /\ UNCHANGED <<diskVars, memVars, merge, restVars>>

readRecordAtEntry(c) ==
    /\ call[c] # Nil /\ call[c].handle # "none"
    /\ LET e == call[c].entry
           ok == /\ call[c].handle = "open" /\ Readable(e)
                 /\ data[e.file][e.off].key = call[c].key
       IN IF ok
          THEN GetReturns(c, IF ValueAt(e) = Tombstone THEN "absent" ELSE "found", ValueAt(e))
          ELSE GetReturns(c, "error", Nil)
    /\ UNCHANGED <<diskVars, memVars, merge, readers, restVars>>

(* Fold: the keys, then one Get for each; a key that is gone is skipped.   *)
Fold(c) ==
    /\ Unlocked /\ call[c] = Nil /\ fold[c] = Nil
    /\ LET keys == {k \in Key : keydir[k] # Nil}
       IN fold' = [fold EXCEPT ![c] = [keys |-> keys, todo |-> keys, visited |-> {},
                                       from |-> Len(history)]]
    /\ UNCHANGED <<diskVars, memVars, merge, readers, call, restVars>>

(* Wrong: a key that is gone ends the iteration.                           *)
StopsAtMissing(c, k) ==
    /\ fold[c] # Nil /\ call[c] = Nil /\ k \in fold[c].todo
    /\ fold' = [fold EXCEPT ![c].todo = IF keydir[k] = Nil THEN {} ELSE @ \ {k}]
    /\ \/ Lookup(c, k)
       \/ Unlocked /\ keydir[k] = Nil /\ UNCHANGED call
    /\ UNCHANGED <<diskVars, memVars, merge, readers, restVars>>

FoldKey(c, k) ==
    /\ fold[c] # Nil /\ call[c] = Nil /\ k \in fold[c].todo
    /\ fold' = [fold EXCEPT ![c].todo = @ \ {k}]
    /\ \/ Lookup(c, k)
       \/ Unlocked /\ keydir[k] = Nil /\ UNCHANGED call
    /\ UNCHANGED <<diskVars, memVars, merge, readers, restVars>>

(* Fold returns: all keys are done, or the DB is closed.                   *)
FoldReturns(c) ==
    /\ fold[c] # Nil /\ call[c] = Nil
    /\ \/ fold[c].todo = {} /\ returned' = [op |-> "fold", fold |-> fold[c]]
       \/ ~open /\ returned' = Nil
    /\ fold' = [fold EXCEPT ![c] = Nil]
    /\ UNCHANGED <<diskVars, memVars, merge, readers, call, restVars>>

-----------------------------------------------------------------------------
WriteNext ==
    \/ \E k \in Key : \E v \in Value : Put(k, v)
    \/ \E k \in Key : Delete(k)
    \/ \E f \in WriteFragments : WriteFails(f) \/ WriteFailsAfterRotation(f)
    \/ RotationFails \/ Sync \/ Close \/ CloseEnds \/ OpenWithOptions

CrashNext ==
    \/ \E f \in CrashFragments : \E n \in 0..MaxRecords : Crash(n, f)
    \/ \E f \in CrashFragments : CrashInRotation(f)

MergeNext ==
    \E m \in Merger :
        \/ MergeStart(m) \/ MergePublish(m) \/ MergeFails(m) \/ CrashInMerge(m)
        \/ \E k \in Key : MergeRecord(m, k)

ReadNext ==
    \E c \in Caller : Fold(c) \/ \E k \in Key : Get(c, k) \/ FoldKey(c, k)

ReturnNext == \E c \in Caller : openReader(c) \/ readRecordAtEntry(c) \/ FoldReturns(c)

Next ==
    \/ ReturnNext
    \/ returned' = Nil /\ (WriteNext \/ CrashNext \/ MergeNext \/ ReadNext)

Spec == Init /\ [][Next]_vars

-----------------------------------------------------------------------------
Record == [ts : Nat, key : Key, value : Value \cup {Tombstone}]

Holds(e, k, v) == Readable(e) /\ data[e.file][e.off].key = k /\ ValueAt(e) = v

(* README.md: the keydir "maps each key to its latest on-disk location".   *)
(* A key put and not deleted since is in the keydir, and its entry points  *)
(* at a record that holds the value last put, whatever rotation, recovery  *)
(* or merge has moved.                                                     *)
PutIsKept ==
    open => \A k \in Key : Latest(history, k) # Tombstone =>
                /\ keydir[k] # Nil
                /\ Holds(keydir[k], k, Latest(history, k))

(* A deleted key stays deleted, before and after a restart, although the   *)
(* recovery forgets a tombstone as soon as it has applied it.              *)
DeletedStaysDeleted ==
    open => \A k \in Key : Latest(history, k) = Tombstone => keydir[k] = Nil

(* How many of the writes lie in the part of the files fsync has covered.  *)
DurableWrites ==
    Len(history) - Cardinality({n \in (synced + 1)..Len(data[activeFileID]) :
                                  data[activeFileID][n] \notin Fragments})

Map == INSTANCE DurableMap WITH
    up <- open,
    writes <- [n \in 1..Len(history) |-> [key |-> history[n].key, value |-> history[n].value]],
    durable <- DurableWrites,
    content <- [k \in Key |-> IF open /\ keydir[k] # Nil THEN ValueAt(keydir[k]) ELSE Tombstone]

(* A store that never merges is a durable map: every step, rotations that  *)
(* fail, torn tails and recoveries included, is a step of DurableMap: only *)
(* a write changes what is read, and a crash takes back only the last of   *)
(* the writes that were not synced.                                        *)
ImplementsDurableMap == Map!Spec

ReviveStep ==
    open /\ open' => \A k \in Key : keydir[k] = Nil /\ keydir'[k] # Nil =>
        Len(history') > Len(history) /\ history'[Len(history')].key = k

(* While the store is open only a Put brings a key into the keydir: the    *)
(* end of a Merge does not bring back a key deleted while it was copying.  *)
OnlyPutRevives == [][ReviveStep]_vars

(* A Get that writes, rotations or merges overtake returns the value its   *)
(* key had when it was looked up, or an error: never another value, and    *)
(* never "not found".                                                      *)
GetReturnsItsValue ==
    returned # Nil /\ returned.op = "get" =>
        returned.out = "error" \/ (returned.out = "found" /\ returned.value = returned.want)

(* A Get fails only when the DB was closed, or a merge removed the very    *)
(* file it was about to read, after its lookup; a key that nobody moves    *)
(* can always be read, two merges at a time included.                      *)
GetFailsForAReason ==
    returned # Nil /\ returned.op = "get" /\ returned.out = "error" => returned.disturbed

(* A Fold that returns no error has visited every key that was there when  *)
(* it began and that was not deleted meanwhile, whatever was put or merged.*)
FoldIsComplete ==
    returned # Nil /\ returned.op = "fold" =>
        \A k \in returned.fold.keys :
            \/ k \in returned.fold.visited
            \/ \E n \in (returned.fold.from + 1)..Len(history) :
                  history[n].key = k /\ history[n].value = Tombstone

(* The cache never keeps a file open that a merge has removed, whatever    *)
(* Get opened it in the meantime: its space is given back.                 *)
ReadersAreOfFiles == readers \subseteq DOMAIN data
=============================================================================
