-------------------------- MODULE BitcaskInductive --------------------------
(***************************************************************************)
(* The inductive invariants of Bitcask.                                    *)
(***************************************************************************)
EXTENDS Bitcask

(* A store that is never merged, whose crashes cut a record inside a field *)
(* if at all, and whose failing writes leave nothing behind.               *)
NeverMerged ==
    /\ MaxMerges = 0
    /\ CrashFragments \subseteq {"none", "torn"}
    /\ WriteFragments \subseteq {"none"}

(* The newest data file.  A crash in a rotation may leave one that the     *)
(* process did not get to use.                                             *)
NewestFile == IF activeFileID + 1 \in DOMAIN data THEN activeFileID + 1 ELSE activeFileID

(* All files but the newest are full: where in the history a record is.    *)
Place(id, o) == (id - 1) * MaxRecords + o

(* The files 1..last hold the writes of h, in their order.                 *)
FilesHold(files, h, last) ==
    /\ h \in Seq(Record) /\ Len(h) = Place(last, Good(files[last]))
    /\ DOMAIN files = 1..last
    /\ \A id \in 1..last : files[id] \in Seq(Record \cup Fragments)
    /\ \A id \in 1..last : id # last =>
          Good(files[id]) = MaxRecords /\ Len(files[id]) = MaxRecords
    /\ Good(files[last]) <= MaxRecords
    /\ \A id \in 1..last : \A o \in 1..Good(files[id]) : files[id][o] = h[Place(id, o)]

(* Only a crash leaves a fragment, and only at the very end.               *)
FilesInv ==
    /\ activeFileID \in Nat \ {0}
    /\ FilesHold(data, history, NewestFile)
    /\ NewestFile # activeFileID => ~open /\ Good(data[NewestFile]) = 0
    /\ Len(data[NewestFile]) > Good(data[NewestFile]) =>
          /\ ~open /\ Len(data[NewestFile]) = Good(data[NewestFile]) + 1
          /\ data[NewestFile][Len(data[NewestFile])].cut = "torn"

(* Only a full file has a hint, and it lists all of its records.           *)
HintsInv ==
    /\ DOMAIN hint = DOMAIN data
    /\ \A id \in DOMAIN data :
          hint[id] # Nil => hint[id] = MaxRecords /\ Good(data[id]) = MaxRecords
    /\ hint[activeFileID] # Nil => synced = MaxRecords
    /\ NewestFile # activeFileID => hint[NewestFile] = Nil

(* The writes are in the order of time.                                    *)
HistoryInv ==
    /\ clock \in Nat
    /\ \A n \in 1..Len(history) : history[n].ts <= clock
    /\ \A n \in 1..Len(history) : \A m \in 1..n : history[m].ts <= history[n].ts

ProcessInv ==
    /\ open \in BOOLEAN /\ closing \in BOOLEAN /\ writable \in BOOLEAN
    /\ closing \/ writable => open
    /\ open => activeOffset = Len(data[activeFileID]) /\ nextFileID = activeFileID + 1
    /\ activeOffset \in Nat /\ nextFileID \in Nat
    /\ synced \in 0..Good(data[activeFileID])
    /\ open /\ ~writable => synced = Len(data[activeFileID])
    /\ closing => ~writable
    /\ merge = [m \in Merger |-> Nil] /\ merges = 0

(* Of the first n writes of h, the last of key k is number p.              *)
LastOfKey(h, p, k, n) ==
    /\ p \in 1..n /\ h[p].key = k
    /\ \A q \in 1..n : q > p => h[q].key # k

(* Entry e names the record that write number p of h has left.             *)
Names(h, e, p) ==
    /\ e \in Entry /\ e.off <= MaxRecords
    /\ Place(e.file, e.off) = p /\ e.ts = h[p].ts

(* The keydir kd names for each key the last of the first n writes of h.   *)
Represents(h, kd, n) ==
    /\ kd \in [Key -> Entry \cup {Nil}]
    /\ \A k \in Key :
          \/ kd[k] = Nil /\ \A p \in 1..n : h[p].key # k
          \/ \E p \in 1..n :
                /\ LastOfKey(h, p, k, n)
                /\ IF h[p].value = Tombstone THEN kd[k] = Nil ELSE Names(h, kd[k], p)

(* The state of a store that is never merged: the files are its history,   *)
(* and a keydir names the latest record of each key.                       *)
RecoveryInv ==
    /\ FilesInv /\ HintsInv /\ HistoryInv /\ ProcessInv
    /\ keydir \in [Key -> Entry \cup {Nil}]
    /\ open => Represents(history, keydir, Len(history))

-----------------------------------------------------------------------------
(* One session of a store, from its first Open to its Close or a crash,    *)
(* with any merges and reads in it; failing writes leave nothing behind.   *)
OneSession == MaxOpens = 0 /\ WriteFragments \subseteq {"none"}

IsFiles(f) ==
    /\ f = [id \in DOMAIN f |-> f[id]] /\ DOMAIN f \subseteq Nat \ {0}
    /\ \A id \in DOMAIN f : f[id] \in Seq(Record)

IsJob(job) ==
    /\ job = [ids |-> job.ids, snapshot |-> job.snapshot, todo |-> job.todo,
              files |-> job.files, current |-> job.current, entries |-> job.entries]
    /\ job.ids \subseteq Nat /\ job.todo \subseteq Key
    /\ IsFiles(job.files) /\ job.current \in {0} \cup DOMAIN job.files
    /\ job.snapshot \in [Key -> Entry \cup {Nil}] /\ job.entries \in [Key -> Entry \cup {Nil}]

Iteration ==
    [keys : SUBSET Key, todo : SUBSET Key, visited : SUBSET Key, from : Nat]

(* Entry e leads to record r.                                              *)
Found(e, r) ==
    /\ e \in Entry /\ e.file \in DOMAIN data
    /\ e.off \in 1..Len(data[e.file]) /\ data[e.file][e.off] = r

KeyInv(k) ==
    \/ keydir[k] = Nil /\ \A p \in 1..Len(history) : history[p].key # k
    \/ \E p \in 1..Len(history) :
          /\ LastOfKey(history, p, k, Len(history))
          /\ IF history[p].value = Tombstone THEN keydir[k] = Nil
             ELSE Found(keydir[k], history[p])

(* The files of an open store: ids are never used twice.                   *)
OpenInv ==
    /\ history \in Seq(Record) /\ clock \in Nat /\ nextFileID \in Nat \ {0}
    /\ IsFiles(data) /\ \A id \in DOMAIN data : id < nextFileID
    /\ activeFileID \in DOMAIN data /\ activeOffset = Len(data[activeFileID])
    /\ keydir \in [Key -> Entry \cup {Nil}] /\ \A k \in Key : KeyInv(k)

(* What a Merge has found and copied of a key: while the keydir has the    *)
(* entry of the snapshot the copy is that of its record, and no other      *)
(* entry leads into the files it will remove.                              *)
CopyInv(job, k) ==
    /\ keydir[k] # Nil /\ keydir[k].file \in job.ids => keydir[k] = job.snapshot[k]
    /\ job.snapshot[k] # Nil =>
          /\ job.snapshot[k].file \in job.ids
          /\ job.snapshot[k].file \in DOMAIN data =>
                job.snapshot[k].off \in 1..Len(data[job.snapshot[k].file])
          /\ k \in job.todo \/ job.entries[k] # Nil
    /\ k \in job.todo => job.snapshot[k] # Nil
    /\ job.entries[k] # Nil =>
          /\ job.snapshot[k] # Nil /\ job.entries[k].file \in DOMAIN job.files
          /\ job.entries[k].off \in 1..Len(job.files[job.entries[k].file])
          /\ keydir[k] = job.snapshot[k] =>
                job.files[job.entries[k].file][job.entries[k].off]
                  = data[keydir[k].file][keydir[k].off]

JobInv(job) ==
    /\ IsJob(job)
    /\ \A id \in DOMAIN job.files : id < nextFileID /\ id \notin DOMAIN data
    /\ \A id \in job.ids : id < nextFileID /\ id # activeFileID
    /\ \A k \in Key : CopyInv(job, k)

(* Merges in progress do not touch one another's new files.                *)
MergesInv ==
    /\ \A m \in Merger : merge[m] # Nil => JobInv(merge[m])
    /\ \A m, n \in Merger : merge[m] # Nil /\ merge[n] # Nil =>
          /\ DOMAIN merge[m].files \cap merge[n].ids = {}
          /\ m # n => DOMAIN merge[m].files \cap DOMAIN merge[n].files = {}

(* A Get finds its record as long as the file is there, and the file does  *)
(* not go unnoticed.                                                       *)
CallInv(r) ==
    /\ r.entry.file \in DOMAIN data => Holds(r.entry, r.key, r.want)
    /\ r.entry.file \notin DOMAIN data \/ r.handle = "closed" \/ ~open \/ closing => r.disturbed
    /\ open => /\ r.entry.file < nextFileID
               /\ \A m \in Merger : merge[m] # Nil => r.entry.file \notin DOMAIN merge[m].files

(* Of the first n writes the last of key k has put it.                     *)
PutBy(k, n) == \E p \in 1..n : LastOfKey(history, p, k, n) /\ history[p].value # Tombstone

DeletedSince(k, n) ==
    \E p \in (n + 1)..Len(history) : history[p].key = k /\ history[p].value = Tombstone

FoldInv(c) ==
    /\ fold[c].from <= Len(history)
    /\ \A k \in fold[c].keys :
          /\ PutBy(k, fold[c].from)
          /\ \/ k \in fold[c].todo \/ k \in fold[c].visited \/ DeletedSince(k, fold[c].from)
             \/ call[c] # Nil /\ call[c].key = k

(* The state of a session; nothing is said of a store that has crashed.    *)
SessionInv ==
    /\ opens \in Nat /\ (closing => open)
    /\ merge = [m \in Merger |-> merge[m]] /\ \A m \in Merger : merge[m] # Nil => open
    /\ call \in [Caller -> Call \cup {Nil}] /\ fold \in [Caller -> Iteration \cup {Nil}]
    /\ open => OpenInv /\ MergesInv
    /\ \A c \in Caller : call[c] # Nil => CallInv(call[c])
    /\ \A c \in Caller : fold[c] # Nil => FoldInv(c)
    /\ GetReturnsItsValue /\ GetFailsForAReason /\ FoldIsComplete
=============================================================================
