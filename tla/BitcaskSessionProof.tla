------------------------ MODULE BitcaskSessionProof ------------------------
(***************************************************************************)
(* Writes, merges, Gets and Folds in one session of a store, any number of *)
(* them at a time: each step preserves SessionInv.                         *)
(***************************************************************************)
EXTENDS BitcaskInductive, TLAPS

USE ZenonT(30)

-----------------------------------------------------------------------------
(* Records and the value of a key.                                         *)

(* No whole record is a fragment.                                          *)
LEMMA RecordsAreWhole == \A r \in Record : r \notin Fragments
<1> SUFFICES ASSUME NEW r \in Record, r \in Fragments PROVE FALSE
  OBVIOUS
<1>1. DOMAIN r = {"ts", "key", "value"}
  BY SMTT(30) DEF Record
<1>2. DOMAIN r = {"cut"}
  BY SMTT(30) DEF Fragments
<1> QED BY <1>1, <1>2, SMTT(30)

(* The value of a key is that of its last write.                           *)
LEMMA LatestIs ==
  ASSUME NEW h \in Seq(Record), NEW k, NEW p, LastOfKey(h, p, k, Len(h))
  PROVE  Latest(h, k) = h[p].value
<1> DEFINE at == {n \in 1..Len(h) : h[n].key = k}
<1>1. Len(h) \in Nat
  BY SMTT(30)
<1>2. p \in at
  BY DEF LastOfKey
<1>3. \A m \in at : m <= p
  <2> SUFFICES ASSUME NEW m \in at PROVE m <= p
    OBVIOUS
  <2>1. m \in 1..Len(h) /\ p \in 1..Len(h) /\ ~(m > p)
    BY DEF LastOfKey
  <2> QED BY <1>1, <2>1, SMTT(30)
<1>4. \A n \in at : (\A m \in at : m <= n) => n = p
  <2> SUFFICES ASSUME NEW n \in at, \A m \in at : m <= n PROVE n = p
    OBVIOUS
  <2>1. p <= n /\ n <= p /\ n \in 1..Len(h) /\ p \in 1..Len(h)
    BY <1>2, <1>3
  <2> QED BY <1>1, <2>1, SMTT(30)
<1>5. (CHOOSE n \in at : \A m \in at : m <= n) = p
  BY <1>2, <1>3, <1>4
<1>6. at # {}
  BY <1>2
<1> QED BY <1>5, <1>6 DEF Latest

(* A key that was never written has no value.                              *)
LEMMA LatestOfNone ==
  ASSUME NEW h, NEW k, \A p \in 1..Len(h) : h[p].key # k
  PROVE  Latest(h, k) = Tombstone
BY DEF Latest

-----------------------------------------------------------------------------
(* What a step leaves of the files and of the history.                     *)

(* Data file id is still there, with its records.                          *)
Kept(id) ==
    /\ id \in DOMAIN data'
    /\ \A o \in 1..Len(data[id]) : o \in 1..Len(data'[id]) /\ data'[id][o] = data[id][o]

HistoryKept ==
    /\ history' \in Seq(Record) /\ Len(history) <= Len(history')
    /\ \A p \in 1..Len(history) : history'[p] = history[p]

SameStore == UNCHANGED <<data, keydir, activeFileID, activeOffset, nextFileID, clock, history>>

(* An entry of the keydir leads to the last record put.                    *)
LEMMA KeyFacts ==
  ASSUME OpenInv, NEW k \in Key
  PROVE  /\ Latest(history, k) = Tombstone <=> keydir[k] = Nil
         /\ keydir[k] # Nil =>
               /\ keydir[k] \in Entry /\ keydir[k].file \in DOMAIN data
               /\ keydir[k].off \in 1..Len(data[keydir[k].file])
               /\ Latest(history, k) \in Value
               /\ Holds(keydir[k], k, Latest(history, k))
               /\ PutBy(k, Len(history))
<1>1. KeyInv(k) /\ history \in Seq(Record) /\ Nil \notin Entry /\ Tombstone \notin Value
  BY StoreAssumption DEF OpenInv, Entry
<1>2. CASE keydir[k] = Nil /\ \A p \in 1..Len(history) : history[p].key # k
  BY <1>2, LatestOfNone
<1>3. ASSUME NEW p \in 1..Len(history), LastOfKey(history, p, k, Len(history)),
             IF history[p].value = Tombstone THEN keydir[k] = Nil
             ELSE Found(keydir[k], history[p])
      PROVE  /\ Latest(history, k) = Tombstone <=> keydir[k] = Nil
             /\ keydir[k] # Nil =>
                   /\ keydir[k] \in Entry /\ keydir[k].file \in DOMAIN data
                   /\ keydir[k].off \in 1..Len(data[keydir[k].file])
                   /\ Latest(history, k) \in Value
                   /\ Holds(keydir[k], k, Latest(history, k))
                   /\ PutBy(k, Len(history))
  <2>1. Latest(history, k) = history[p].value /\ history[p].key = k
    BY <1>1, <1>3, LatestIs DEF LastOfKey
  <2>2. history[p] \in Record
    BY <1>1, SMTT(30)
  <2>3. history[p].value \in Value \cup {Tombstone} /\ history[p] \notin Fragments
    BY <2>2, RecordsAreWhole DEF Record
  <2>4. CASE history[p].value = Tombstone
    BY <1>3, <2>1, <2>4
  <2>5. CASE history[p].value # Tombstone
    <3>1. /\ keydir[k] \in Entry /\ keydir[k].file \in DOMAIN data
          /\ keydir[k].off \in 1..Len(data[keydir[k].file])
          /\ data[keydir[k].file][keydir[k].off] = history[p]
      BY <1>3, <2>5 DEF Found
    <3>2. keydir[k].off <= Len(data[keydir[k].file])
      BY <3>1, SMTT(30)
    <3>3. Holds(keydir[k], k, history[p].value)
      BY <2>1, <2>3, <3>1, <3>2 DEF Holds, Readable, ValueAt
    <3>4. PutBy(k, Len(history))
      BY <1>3, <2>5 DEF PutBy
    <3> QED BY <1>1, <2>1, <2>3, <2>5, <3>1, <3>3, <3>4
  <2> QED BY <2>4, <2>5
<1> QED BY <1>1, <1>2, <1>3 DEF KeyInv

(* A key stays represented when its record is still found, or has moved    *)
(* with the entry, and it was not written.                                 *)
LEMMA KeyStep ==
  ASSUME NEW k \in Key, KeyInv(k), history \in Seq(Record), HistoryKept,
         \A p \in (Len(history) + 1)..Len(history') : history'[p].key # k,
         keydir[k] = Nil => keydir'[k] = Nil,
         \A r \in Record : Found(keydir[k], r) => Found(keydir[k], r)'
  PROVE  KeyInv(k)'
<1>1. Len(history) \in Nat /\ Len(history') \in Nat
  BY SMTT(30) DEF HistoryKept
<1>2. \A q \in 1..Len(history') :
          q \in 1..Len(history) \/ q \in (Len(history) + 1)..Len(history')
  BY <1>1, SMTT(30)
<1>3. \A q \in 1..Len(history) : q \in 1..Len(history')
  BY <1>1, SMTT(30) DEF HistoryKept
<1>4. CASE keydir[k] = Nil /\ \A p \in 1..Len(history) : history[p].key # k
  BY <1>2, <1>4 DEF KeyInv, HistoryKept
<1>5. ASSUME NEW p \in 1..Len(history), LastOfKey(history, p, k, Len(history)),
             IF history[p].value = Tombstone THEN keydir[k] = Nil
             ELSE Found(keydir[k], history[p])
      PROVE  KeyInv(k)'
  <2>1. history'[p] = history[p] /\ p \in 1..Len(history')
    BY <1>3, <1>5 DEF HistoryKept
  <2>2. LastOfKey(history', p, k, Len(history'))
    BY <1>2, <1>5, <2>1 DEF LastOfKey, HistoryKept
  <2>3. history[p] \in Record
    BY SMTT(30)
  <2>4. CASE history[p].value = Tombstone
    BY <1>5, <2>1, <2>2, <2>4 DEF KeyInv
  <2>5. CASE history[p].value # Tombstone
    <3>1. Found(keydir[k], history[p])'
      BY <1>5, <2>1, <2>3, <2>5
    <3> QED BY <2>1, <2>2, <2>5, <3>1 DEF KeyInv
  <2> QED BY <2>4, <2>5
<1> QED BY <1>4, <1>5 DEF KeyInv

(* What a Get knows stays true as long as its file is kept and no file     *)
(* takes its id.                                                           *)
LEMMA CallStep ==
  ASSUME NEW r \in Call, CallInv(r), open' = open, closing' = closing,
         r.entry.file \in DOMAIN data => Kept(r.entry.file),
         r.entry.file \in DOMAIN data' => r.entry.file \in DOMAIN data,
         open => nextFileID \in Nat /\ nextFileID' \in Nat /\ nextFileID <= nextFileID',
         open => \A m \in Merger : merge'[m] # Nil => r.entry.file \notin DOMAIN merge'[m].files
  PROVE  CallInv(r)'
<1>1. r.entry \in Entry /\ r.entry.file \in Nat /\ r.entry.off \in Nat \ {0}
  BY SMTT(30) DEF Call, Entry
<1>2. r.entry.file \in DOMAIN data' => Holds(r.entry, r.key, r.want)'
  <2> SUFFICES ASSUME r.entry.file \in DOMAIN data' PROVE Holds(r.entry, r.key, r.want)'
    OBVIOUS
  <2>1. /\ Holds(r.entry, r.key, r.want) /\ Kept(r.entry.file)
        /\ r.entry.off <= Len(data[r.entry.file])
    BY DEF CallInv, Holds, Readable
  <2>2. r.entry.off \in 1..Len(data[r.entry.file])
    BY <1>1, <2>1, SMTT(30)
  <2>3. /\ data'[r.entry.file][r.entry.off] = data[r.entry.file][r.entry.off]
        /\ r.entry.off \in 1..Len(data'[r.entry.file])
    BY <2>1, <2>2 DEF Kept
  <2>4. r.entry.off <= Len(data'[r.entry.file])
    BY <2>3, SMTT(30)
  <2> QED BY <2>1, <2>3, <2>4 DEF Holds, Readable, ValueAt
<1>3. r.entry.file \notin DOMAIN data' => r.entry.file \notin DOMAIN data
  BY DEF Kept
<1>4. open => r.entry.file < nextFileID'
  <2> SUFFICES ASSUME open PROVE r.entry.file < nextFileID'
    OBVIOUS
  <2>1. r.entry.file < nextFileID
    BY DEF CallInv
  <2> QED BY <1>1, <2>1, SMTT(30)
<1> QED BY <1>2, <1>3, <1>4 DEF CallInv

(* A Fold goes on when nothing but later writes is added to the history.   *)
LEMMA FoldStep ==
  ASSUME NEW c \in Caller, FoldInv(c), fold[c] \in Iteration, HistoryKept,
         history \in Seq(Record), fold'[c] = fold[c],
         call[c] # Nil => call'[c] # Nil /\ call'[c].key = call[c].key
  PROVE  FoldInv(c)'
<1> DEFINE n == fold[c].from
<1>1. n \in Nat /\ n <= Len(history) /\ Len(history) \in Nat /\ Len(history') \in Nat
  BY SMTT(30) DEF Iteration, FoldInv, HistoryKept
<1>2. n <= Len(history')
  BY <1>1, SMTT(30) DEF HistoryKept
<1>3. \A q \in 1..n : history'[q] = history[q]
  <2>1. \A q \in 1..n : q \in 1..Len(history)
    BY <1>1, SMTT(30)
  <2> QED BY <2>1 DEF HistoryKept
<1>4. \A k : PutBy(k, n) => PutBy(k, n)'
  BY <1>3 DEF PutBy, LastOfKey
<1>5. \A k : DeletedSince(k, n) => DeletedSince(k, n)'
  <2>1. \A q \in (n + 1)..Len(history) :
            /\ q \in (n + 1)..Len(history') /\ q \in 1..Len(history)
    BY <1>1, SMTT(30) DEF HistoryKept
  <2> QED BY <2>1 DEF DeletedSince, HistoryKept
<1> HIDE DEF n
<1>6. \A k \in fold[c].keys :
          /\ PutBy(k, n)
          /\ \/ k \in fold[c].todo \/ k \in fold[c].visited \/ DeletedSince(k, n)
             \/ call[c] # Nil /\ call[c].key = k
  BY DEF FoldInv, n
<1>7. \A k \in fold[c].keys :
          /\ PutBy(k, n)'
          /\ \/ k \in fold[c].todo \/ k \in fold[c].visited \/ DeletedSince(k, n)'
             \/ call'[c] # Nil /\ call'[c].key = k
  <2> SUFFICES ASSUME NEW k \in fold[c].keys
               PROVE  /\ PutBy(k, n)'
                      /\ \/ k \in fold[c].todo \/ k \in fold[c].visited \/ DeletedSince(k, n)'
                         \/ call'[c] # Nil /\ call'[c].key = k
    OBVIOUS
  <2> QED BY <1>4, <1>5, <1>6
<1>8. n' = n
  BY DEF n
<1> QED BY <1>2, <1>7, <1>8 DEF FoldInv, n

(* A copy stays good when the files of the merge are kept as long as they  *)
(* are there, and the entry of the key stays, goes, or leads elsewhere.    *)
LEMMA CopyStep ==
  ASSUME NEW job, JobInv(job), NEW k \in Key, OpenInv,
         \A id \in job.ids : id \in DOMAIN data' => id \in DOMAIN data /\ Kept(id),
         \/ keydir'[k] = Nil
         \/ keydir'[k] # Nil /\ keydir'[k].file \notin job.ids
         \/ keydir'[k] = keydir[k] /\ (keydir[k] # Nil => Kept(keydir[k].file))
  PROVE  CopyInv(job, k)'
<1>1. CopyInv(job, k)
  BY DEF JobInv
<1>2. job.snapshot[k] # Nil /\ job.snapshot[k].file \in DOMAIN data' =>
          job.snapshot[k].off \in 1..Len(data'[job.snapshot[k].file])
  BY <1>1 DEF CopyInv, Kept
<1>3. CASE keydir'[k] = Nil
  BY <1>1, <1>2, <1>3 DEF CopyInv
<1>4. CASE keydir'[k] # Nil /\ keydir'[k].file \notin job.ids
  <2>1. job.snapshot[k] # Nil => keydir'[k] # job.snapshot[k]
    BY <1>1, <1>4 DEF CopyInv
  <2> QED BY <1>1, <1>2, <1>4, <2>1 DEF CopyInv
<1>5. CASE keydir'[k] = keydir[k] /\ keydir[k] # Nil /\ Kept(keydir[k].file)
  <2>1. data'[keydir[k].file][keydir[k].off] = data[keydir[k].file][keydir[k].off]
    BY <1>5, KeyFacts DEF Kept
  <2>2. keydir[k] = job.snapshot[k] /\ job.entries[k] # Nil =>
            job.files[job.entries[k].file][job.entries[k].off]
              = data'[keydir'[k].file][keydir'[k].off]
    BY <1>1, <1>5, <2>1 DEF CopyInv
  <2> QED BY <1>1, <1>2, <1>5, <2>2 DEF CopyInv
<1> QED BY <1>3, <1>4, <1>5

(* What the merge has gathered stays good when its copies do and neither   *)
(* the active file nor a published file is one of its own.                 *)
LEMMA JobStep ==
  ASSUME NEW job, JobInv(job), nextFileID \in Nat, nextFileID' \in Nat, nextFileID <= nextFileID',
         activeFileID' \notin job.ids,
         \A id \in DOMAIN job.files : id \notin DOMAIN data',
         \A k \in Key : CopyInv(job, k)'
  PROVE  JobInv(job)'
<1>1. DOMAIN job.files \subseteq Nat /\ job.ids \subseteq Nat
  BY DEF JobInv, IsJob, IsFiles
<1>2. \A id \in Nat : id < nextFileID => id < nextFileID'
  BY SMTT(30)
<1> QED BY <1>1, <1>2 DEF JobInv

(* Nothing happens to the files and the keydir.                            *)
LEMMA SameStoreKeeps ==
  ASSUME SessionInv, open, SameStore
  PROVE  /\ OpenInv' /\ HistoryKept
         /\ nextFileID \in Nat /\ nextFileID' \in Nat /\ nextFileID <= nextFileID'
         /\ DOMAIN data' = DOMAIN data
         /\ \A id \in DOMAIN data : Kept(id)
         /\ \A job : JobInv(job) => JobInv(job)'
<1>1. OpenInv /\ history \in Seq(Record) /\ nextFileID \in Nat
  BY DEF SessionInv, OpenInv
<1>2. HistoryKept
  BY <1>1, SMTT(30) DEF HistoryKept, SameStore
<1>3. \A k \in Key : KeyInv(k) => KeyInv(k)'
  BY DEF SameStore, KeyInv, Found, LastOfKey
<1>4. OpenInv'
  BY <1>1, <1>3 DEF SameStore, OpenInv
<1>5. nextFileID' \in Nat /\ nextFileID <= nextFileID'
  BY <1>1, SMTT(30) DEF SameStore
<1>6. \A id \in DOMAIN data : Kept(id)
  BY DEF Kept, SameStore
<1>7. ASSUME NEW job, JobInv(job) PROVE JobInv(job)'
  BY <1>7 DEF SameStore, JobInv, CopyInv
<1> QED BY <1>1, <1>2, <1>4, <1>5, <1>6, <1>7 DEF SameStore

(* A step that changes nothing but what SessionInv does not speak of.      *)
LEMMA NothingKeeps ==
  ASSUME SessionInv, SameStore, returned' = Nil \/ returned' = returned,
         UNCHANGED <<open, closing, opens, merge, call, fold>>
  PROVE  SessionInv'
<1>1. open => OpenInv' /\ MergesInv'
  <2> SUFFICES ASSUME open PROVE OpenInv' /\ MergesInv'
    OBVIOUS
  <2>1. OpenInv' /\ \A job : JobInv(job) => JobInv(job)'
    BY SameStoreKeeps
  <2> QED BY <2>1 DEF SessionInv, MergesInv
<1>2. \A r : CallInv(r) => CallInv(r)'
  BY DEF SameStore, CallInv, Holds, Readable, ValueAt
<1>3. ASSUME NEW c \in Caller, FoldInv(c) PROVE FoldInv(c)'
  <2>1. \A k, n : (PutBy(k, n) => PutBy(k, n)') /\ (DeletedSince(k, n) => DeletedSince(k, n)')
    BY DEF SameStore, PutBy, DeletedSince
  <2> QED BY <1>3, <2>1 DEF SameStore, FoldInv
<1>4. CASE returned' = Nil
  <2>1. GetReturnsItsValue' /\ GetFailsForAReason' /\ FoldIsComplete'
    BY <1>4 DEF GetReturnsItsValue, GetFailsForAReason, FoldIsComplete
  <2> QED BY <1>1, <1>2, <1>3, <2>1 DEF SessionInv
<1>5. CASE returned' = returned
  <2>1. GetReturnsItsValue' /\ GetFailsForAReason' /\ FoldIsComplete'
    BY <1>5 DEF SessionInv, GetReturnsItsValue, GetFailsForAReason, FoldIsComplete, SameStore
  <2> QED BY <1>1, <1>2, <1>3, <2>1 DEF SessionInv
<1> QED BY <1>4, <1>5

(* A step that returns nothing breaks no promise about what is returned.   *)
LEMMA NothingReturned ==
  ASSUME returned' = Nil
  PROVE  GetReturnsItsValue' /\ GetFailsForAReason' /\ FoldIsComplete'
BY DEF GetReturnsItsValue, GetFailsForAReason, FoldIsComplete

(* A new store.                                                            *)
LEMMA InitSession == Init => SessionInv
<1> SUFFICES ASSUME Init PROVE SessionInv
  OBVIOUS
<1>1. /\ history = <<>> /\ clock = 0 /\ nextFileID = 2 /\ activeFileID = 1 /\ activeOffset = 0
      /\ keydir = [k \in Key |-> Nil] /\ merge = [m \in Merger |-> Nil] /\ open /\ ~closing
      /\ call = [c \in Caller |-> Nil] /\ fold = [c \in Caller |-> Nil] /\ returned = Nil
      /\ opens = 0
  BY DEF Init
<1>2. DOMAIN data = {1} /\ data[1] = <<>> /\ data = [id \in DOMAIN data |-> data[id]]
  BY DEF Init, With, NoFile
<1>3. <<>> \in Seq(Record) /\ Len(<<>>) = 0 /\ 0 \in Nat /\ 2 \in Nat \ {0} /\ 1 \in Nat \ {0} /\ 1 < 2
      /\ \A p : p \notin 1..0
  BY SMTT(30)
<1>4. IsFiles(data) /\ \A id \in DOMAIN data : id < nextFileID
  BY <1>1, <1>2, <1>3 DEF IsFiles
<1>5. \A k \in Key : KeyInv(k)
  BY <1>1, <1>3 DEF KeyInv
<1>6. OpenInv
  BY <1>1, <1>2, <1>3, <1>4, <1>5 DEF OpenInv
<1>7. MergesInv
  BY <1>1 DEF MergesInv
<1>8. GetReturnsItsValue /\ GetFailsForAReason /\ FoldIsComplete
  BY <1>1 DEF GetReturnsItsValue, GetFailsForAReason, FoldIsComplete
<1> QED BY <1>1, <1>3, <1>6, <1>7, <1>8 DEF SessionInv

(* A crash ends the session.                                               *)
LEMMA StopKeeps ==
  ASSUME SessionInv, ForgetCalls, ~open', ~closing', opens' = opens, returned' = Nil
  PROVE  SessionInv'
<1>1. /\ merge' = [m \in Merger |-> merge'[m]]
      /\ call' \in [Caller -> Call \cup {Nil}] /\ fold' \in [Caller -> Iteration \cup {Nil}]
      /\ \A c \in Caller : call'[c] = Nil /\ fold'[c] = Nil
      /\ \A m \in Merger : merge'[m] = Nil
  BY DEF ForgetCalls
<1> QED BY <1>1, NothingReturned DEF SessionInv

(* Steps that write no record.                                             *)
LEMMA QuietKeeps ==
  ASSUME OneSession, SessionInv, returned' = Nil,
         Sync \/ RotationFails \/ \E f \in WriteFragments : WriteFails(f)
  PROVE  SessionInv'
<1>1. CASE Sync
  <2>1. SameStore /\ UNCHANGED <<open, closing, opens, merge, call, fold>>
    BY <1>1 DEF Sync, SameStore, memVars, opVars, readVars, restVars, boundVars
  <2> QED BY <2>1, NothingKeeps
<1>2. CASE RotationFails
  <2>1. SameStore /\ UNCHANGED <<open, closing, opens, merge, call, fold>>
    BY <1>2 DEF RotationFails, SameStore, opVars, readVars, restVars, boundVars
  <2> QED BY <2>1, NothingKeeps
<1>3. ASSUME NEW f \in WriteFragments, WriteFails(f) PROVE SessionInv'
  <2>1. f = "none" /\ open
    BY <1>3 DEF OneSession, WriteFails, Unlocked
  <2>2. data[activeFileID] \in Seq(Record) /\ data = [id \in DOMAIN data |-> data[id]]
    BY <2>1 DEF SessionInv, OpenInv, IsFiles
  <2>3. data[activeFileID] \o Fragment(f) = data[activeFileID]
    BY <2>1, <2>2, SMTT(30) DEF Fragment
  <2>4. data' = [data EXCEPT ![activeFileID] = data[activeFileID]]
    BY <1>3, <2>3 DEF WriteFails
  <2>5. data' = data
    BY <2>2, <2>4
  <2>6. SameStore /\ UNCHANGED <<open, closing, opens, merge, call, fold>>
    BY <1>3, <2>5 DEF WriteFails, SameStore, memVars, opVars, readVars, restVars, boundVars
  <2> QED BY <2>6, NothingKeeps
<1> QED BY <1>1, <1>2, <1>3

-----------------------------------------------------------------------------
(* Put and Delete.                                                         *)

(* A record goes to the end of the active file, or starts a file that has  *)
(* an id of its own.                                                       *)
LEMMA AppendFacts ==
  ASSUME SessionInv, open, NEW r \in Record, appendRecordLocked(r)
  PROVE  /\ IsFiles(data') /\ \A id \in DOMAIN data : Kept(id)
         /\ nextFileID \in Nat /\ nextFileID' \in Nat \ {0} /\ nextFileID <= nextFileID'
         /\ \A id \in DOMAIN data' : id < nextFileID'
         /\ DOMAIN data' = DOMAIN data \cup {activeFileID'}
         /\ activeFileID' = activeFileID \/ (activeFileID' = nextFileID /\ nextFileID \notin DOMAIN data)
         /\ activeFileID' \in Nat \ {0} /\ activeOffset' \in Nat \ {0}
         /\ activeOffset' = Len(data'[activeFileID'])
         /\ activeOffset' \in 1..Len(data'[activeFileID'])
         /\ data'[activeFileID'][activeOffset'] = r
<1> DEFINE id == IF Full THEN nextFileID ELSE activeFileID
           file == IF Full THEN createNewActiveFile(id) ELSE data[id]
<1>1. /\ IsFiles(data) /\ DOMAIN data \subseteq Nat \ {0} /\ nextFileID \in Nat \ {0}
      /\ \A j \in DOMAIN data : j < nextFileID
      /\ activeFileID \in DOMAIN data /\ activeOffset = Len(data[activeFileID])
  BY DEF SessionInv, OpenInv, IsFiles
<1>2. nextFileID \notin DOMAIN data
  <2>1. ~(nextFileID < nextFileID)
    BY <1>1, SMTT(30)
  <2> QED BY <1>1, <2>1
<1>3. /\ file \in Seq(Record) /\ id \in Nat \ {0}
      /\ id \in DOMAIN data => file = data[id]
      /\ (IF Full THEN Len(file) ELSE activeOffset) = Len(file)
  <2>1. <<>> \in Seq(Record)
    BY SMTT(30)
  <2>2. CASE Full
    BY <1>1, <1>2, <2>1, <2>2 DEF createNewActiveFile
  <2>3. CASE ~Full
    BY <1>1, <2>3 DEF IsFiles
  <2> QED BY <2>2, <2>3
<1>4. /\ data' = With(data, id, Append(file, r)) /\ activeFileID' = id
      /\ activeOffset' = Len(file) + 1
  <2>1. activeOffset' = (IF Full THEN Len(file) ELSE activeOffset) + 1
    BY DEF appendRecordLocked
  <2> QED BY <1>3, <2>1 DEF appendRecordLocked
<1>5. nextFileID' = (IF Full THEN id + 1 ELSE nextFileID)
  BY DEF appendRecordLocked
<1>6. /\ Full => id = nextFileID /\ nextFileID' = nextFileID + 1
      /\ ~Full => id = activeFileID /\ nextFileID' = nextFileID
  BY <1>5
<1> HIDE DEF id, file
<1>7. nextFileID' \in Nat \ {0} /\ nextFileID <= nextFileID' /\ id < nextFileID'
  <2>1. CASE Full
    <3>1. id = nextFileID /\ nextFileID' = nextFileID + 1
      BY <1>6, <2>1
    <3> QED BY <1>1, <3>1, SMTT(30)
  <2>2. CASE ~Full
    <3>1. id = activeFileID /\ nextFileID' = nextFileID /\ id < nextFileID
      BY <1>1, <1>6, <2>2
    <3> QED BY <1>1, <3>1, SMTT(30)
  <2> QED BY <2>1, <2>2
<1>8. /\ DOMAIN data' = DOMAIN data \cup {id} /\ data'[id] = Append(file, r)
      /\ \A j \in DOMAIN data : j # id => data'[j] = data[j]
      /\ data' = [j \in DOMAIN data' |-> data'[j]]
  BY <1>4 DEF With
<1>9. /\ Append(file, r) \in Seq(Record) /\ Len(file) \in Nat /\ Len(Append(file, r)) = Len(file) + 1
      /\ \A n \in 1..Len(file) : n \in 1..Len(Append(file, r)) /\ Append(file, r)[n] = file[n]
      /\ Append(file, r)[Len(file) + 1] = r
      /\ Len(file) + 1 \in Nat \ {0} /\ Len(file) + 1 \in 1..Len(Append(file, r))
  BY <1>3, SMTT(30)
<1>10. IsFiles(data')
  <2>1. \A j \in DOMAIN data : j \in Nat \ {0} /\ data[j] \in Seq(Record)
    BY <1>1 DEF IsFiles
  <2>2. \A j \in DOMAIN data' : j \in Nat \ {0} /\ data'[j] \in Seq(Record)
    BY <1>3, <1>8, <1>9, <2>1
  <2> QED BY <1>8, <2>2 DEF IsFiles
<1>11. ASSUME NEW j \in DOMAIN data PROVE Kept(j)
  <2>1. CASE j = id
    <3>1. data[j] = file /\ data'[j] = Append(file, r) /\ j \in DOMAIN data'
      BY <1>3, <1>8, <1>11, <2>1
    <3> QED BY <1>9, <3>1 DEF Kept
  <2>2. CASE j # id
    BY <1>8, <2>2, <1>11 DEF Kept
  <2> QED BY <2>1, <2>2
<1>12. \A j \in DOMAIN data' : j < nextFileID'
  <2>1. \A j \in Nat : j < nextFileID => j < nextFileID'
    BY <1>1, <1>7, SMTT(30)
  <2> QED BY <1>1, <1>7, <1>8, <2>1
<1> QED BY <1>1, <1>2, <1>3, <1>4, <1>6, <1>7, <1>8, <1>9, <1>10, <1>11, <1>12

(* A write leaves merges, Gets and Folds in order.                         *)
LEMMA WriteInSession ==
  ASSUME SessionInv, NEW k \in Key, NEW v \in Value \cup {Tombstone}, NEW t \in Nat, NEW entry,
         Write(k, v, t, entry), returned' = Nil,
         IF v = Tombstone THEN entry = Nil
         ELSE entry = [file |-> activeFileID', off |-> activeOffset', ts |-> t]
  PROVE  SessionInv'
<1> DEFINE r == [ts |-> t, key |-> k, value |-> v]
<1>1. /\ open /\ ~closing /\ appendRecordLocked(r) /\ history' = Append(history, r) /\ clock' = t
      /\ keydir' = [keydir EXCEPT ![k] = entry]
      /\ open' = open /\ closing' = closing /\ merge' = merge /\ call' = call /\ fold' = fold
      /\ opens' = opens
  BY DEF Write, Unlocked, opVars, readVars, boundVars
<1>2. r \in Record /\ r.key = k /\ r.value = v
  BY SMTT(30) DEF Record
<1> HIDE DEF r
<1>3. /\ OpenInv /\ MergesInv /\ history \in Seq(Record) /\ keydir \in [Key -> Entry \cup {Nil}]
      /\ \A j \in Key : KeyInv(j)
  BY <1>1 DEF SessionInv, OpenInv
<1>4. /\ IsFiles(data') /\ \A id \in DOMAIN data : Kept(id)
      /\ nextFileID \in Nat /\ nextFileID' \in Nat \ {0} /\ nextFileID <= nextFileID'
      /\ \A id \in DOMAIN data' : id < nextFileID'
      /\ DOMAIN data' = DOMAIN data \cup {activeFileID'}
      /\ activeFileID' = activeFileID \/ (activeFileID' = nextFileID /\ nextFileID \notin DOMAIN data)
      /\ activeFileID' \in Nat \ {0} /\ activeOffset' \in Nat \ {0}
      /\ activeOffset' = Len(data'[activeFileID'])
      /\ activeOffset' \in 1..Len(data'[activeFileID'])
      /\ data'[activeFileID'][activeOffset'] = r
  BY <1>1, <1>2, AppendFacts
<1>5. /\ history' \in Seq(Record) /\ Len(history) \in Nat /\ Len(history') = Len(history) + 1
      /\ \A n \in 1..Len(history) : history'[n] = history[n]
      /\ history'[Len(history) + 1] = r
  BY <1>1, <1>2, <1>3, SMTT(30)
<1>6. HistoryKept
  <2>1. Len(history) <= Len(history')
    BY <1>5, SMTT(30)
  <2> QED BY <1>5, <2>1 DEF HistoryKept
<1>7. entry \in Entry \cup {Nil} /\ keydir' \in [Key -> Entry \cup {Nil}]
  <2>1. v # Tombstone => entry \in Entry
    BY <1>4, SMTT(30) DEF Entry
  <2> QED BY <1>1, <1>3, <2>1
<1>8. v # Tombstone => entry # Nil /\ entry.file = activeFileID' /\ entry.off = activeOffset'
  <2>1. v # Tombstone => entry \in Entry /\ entry.file = activeFileID' /\ entry.off = activeOffset'
    BY <1>4, SMTT(30) DEF Entry
  <2> QED BY <2>1, StoreAssumption DEF Entry
<1>9. ASSUME NEW j \in Key PROVE KeyInv(j)'
  <2>1. CASE j = k
    <3> DEFINE p == Len(history) + 1
    <3>1. p \in 1..Len(history') /\ p = Len(history') /\ \A q \in 1..Len(history') : ~(q > p)
      BY <1>5, SMTT(30)
    <3>2. LastOfKey(history', p, j, Len(history'))
      BY <1>2, <1>5, <2>1, <3>1 DEF LastOfKey
    <3>3. keydir'[j] = entry
      BY <1>1, <1>3, <2>1
    <3>4. v # Tombstone => Found(entry, r)'
      <4>1. v # Tombstone => entry \in Entry /\ entry' = entry
        BY <1>7, <1>8
      <4> QED BY <1>4, <1>8, <4>1 DEF Found
    <3> HIDE DEF p
    <3>5. history'[p] = r
      BY <1>5 DEF p
    <3>6. CASE v = Tombstone
      <4>1. history'[p].value = Tombstone /\ keydir'[j] = Nil
        BY <1>2, <3>3, <3>5, <3>6
      <4> QED BY <3>1, <3>2, <4>1 DEF KeyInv
    <3>7. CASE v # Tombstone
      <4>1. history'[p].value # Tombstone /\ Found(keydir[j], r)'
        BY <1>2, <3>3, <3>4, <3>5, <3>7 DEF Found
      <4> QED BY <3>1, <3>2, <3>5, <4>1 DEF KeyInv
    <3> QED BY <3>6, <3>7
  <2>2. CASE j # k
    <3>1. keydir'[j] = keydir[j] /\ KeyInv(j)
      BY <1>1, <1>3, <2>2
    <3>2. \A q \in (Len(history) + 1)..Len(history') : history'[q].key # j
      <4>1. \A q \in (Len(history) + 1)..Len(history') : q = Len(history) + 1
        BY <1>5, SMTT(30)
      <4> QED BY <1>2, <1>5, <2>2, <4>1
    <3>3. \A x \in Record : Found(keydir[j], x) => Found(keydir[j], x)'
      <4>1. keydir[j].file \in DOMAIN data => Kept(keydir[j].file)
        BY <1>4
      <4> QED BY <3>1, <4>1 DEF Found, Kept
    <3> QED BY <1>3, <1>6, <3>1, <3>2, <3>3, KeyStep
  <2> QED BY <2>1, <2>2
<1>10. OpenInv'
  BY <1>1, <1>4, <1>5, <1>7, <1>9 DEF OpenInv
<1>11. ASSUME NEW m \in Merger, merge[m] # Nil PROVE JobInv(merge[m])'
  <2> DEFINE job == merge[m]
  <2>1. JobInv(job) /\ merge'[m] = job
    BY <1>1, <1>3, <1>11 DEF MergesInv
  <2>2. /\ \A id \in job.ids : id < nextFileID /\ id # activeFileID
        /\ \A id \in DOMAIN job.files : id < nextFileID /\ id \notin DOMAIN data
    BY <2>1 DEF JobInv
  <2>3. activeFileID' \notin job.ids /\ (activeFileID' \in DOMAIN data \/ activeFileID' \notin DOMAIN job.files)
    <3>1. ~(nextFileID < nextFileID)
      BY <1>4, SMTT(30)
    <3>2. activeFileID \in DOMAIN data
      BY <1>3 DEF OpenInv
    <3> QED BY <1>4, <2>2, <3>1, <3>2
  <2> HIDE DEF job
  <2>4. \A id \in DOMAIN job.files : id \notin DOMAIN data'
    BY <1>4, <2>2, <2>3
  <2>5. \A id \in job.ids : id \in DOMAIN data' => id \in DOMAIN data /\ Kept(id)
    BY <1>4, <2>3
  <2>6. ASSUME NEW j \in Key PROVE CopyInv(job, j)'
    <3>1. \/ keydir'[j] = Nil
          \/ keydir'[j] # Nil /\ keydir'[j].file \notin job.ids
          \/ keydir'[j] = keydir[j] /\ (keydir[j] # Nil => Kept(keydir[j].file))
      <4>1. CASE j = k
        BY <1>1, <1>3, <1>8, <2>3, <4>1
      <4>2. CASE j # k
        BY <1>1, <1>3, <1>4, <4>2, KeyFacts
      <4> QED BY <4>1, <4>2
    <3>2. job' = job
      BY <1>1 DEF job
    <3> QED BY <1>3, <2>1, <2>5, <3>1, <3>2, CopyStep
  <2>7. job' = job
    BY <1>1 DEF job
  <2>8. JobInv(job)'
    BY <1>4, <2>1, <2>3, <2>4, <2>6, <2>7, JobStep
  <2> QED BY <2>8 DEF job
<1>12. MergesInv'
  BY <1>1, <1>3, <1>11 DEF MergesInv
<1>13. ASSUME NEW c \in Caller, call[c] # Nil PROVE CallInv(call[c])'
  <2> DEFINE x == call[c]
  <2>1. x \in Call /\ CallInv(x) /\ x' = x
    BY <1>1, <1>13 DEF SessionInv
  <2>2. /\ x.entry.file < nextFileID
        /\ \A m \in Merger : merge[m] # Nil => x.entry.file \notin DOMAIN merge[m].files
    BY <1>1, <2>1 DEF CallInv
  <2>3. x.entry.file \in DOMAIN data' => x.entry.file \in DOMAIN data
    <3>1. ~(nextFileID < nextFileID)
      BY <1>4, SMTT(30)
    <3>2. activeFileID \in DOMAIN data
      BY <1>3 DEF OpenInv
    <3> QED BY <1>4, <2>2, <3>1, <3>2
  <2> HIDE DEF x
  <2>4. CallInv(x)'
    BY <1>1, <1>4, <2>1, <2>2, <2>3, CallStep
  <2> QED BY <2>4 DEF x
<1>14. ASSUME NEW c \in Caller, fold[c] # Nil PROVE FoldInv(c)'
  <2>1. FoldInv(c) /\ fold[c] \in Iteration
    BY <1>14 DEF SessionInv
  <2> QED BY <1>1, <1>3, <1>6, <2>1, FoldStep
<1> QED BY <1>1, <1>10, <1>12, <1>13, <1>14, NothingReturned DEF SessionInv

(* A rotation whose first write fails starts a file with an id of its own. *)
LEMMA FailureAfterRotationInSession ==
  ASSUME SessionInv, returned' = Nil, WriteFailsAfterRotation("none")
  PROVE  SessionInv'
<1> DEFINE N == nextFileID
<1>1. /\ open /\ ~closing /\ data' = With(data, N, createNewActiveFile(N) \o <<>>)
      /\ activeFileID' = N /\ activeOffset' = Len(createNewActiveFile(N)) /\ nextFileID' = N + 1
      /\ UNCHANGED <<open, closing, keydir, merge, call, fold, opens, clock, history>>
  BY DEF WriteFailsAfterRotation, Unlocked, Fragment, opVars, readVars, restVars, boundVars
<1>2. /\ OpenInv /\ MergesInv /\ IsFiles(data) /\ N \in Nat \ {0}
      /\ history \in Seq(Record) /\ \A id \in DOMAIN data : id < N
  BY <1>1 DEF SessionInv, OpenInv
<1>3. /\ <<>> \o <<>> = <<>> /\ Len(<<>>) = 0 /\ <<>> \in Seq(Record)
      /\ ~(N < N) /\ N <= N + 1 /\ N < N + 1 /\ N + 1 \in Nat \ {0}
      /\ \A id \in Nat : id < N => id < N + 1
  BY <1>2, SMTT(30)
<1>4. N \notin DOMAIN data /\ createNewActiveFile(N) = <<>>
  BY <1>2, <1>3 DEF createNewActiveFile
<1>5. /\ DOMAIN data' = DOMAIN data \cup {N} /\ data'[N] = <<>> /\ activeOffset' = Len(data'[N])
      /\ \A id \in DOMAIN data : data'[id] = data[id]
      /\ data' = [id \in DOMAIN data' |-> data'[id]]
  BY <1>1, <1>3, <1>4 DEF With
<1> HIDE DEF N
<1>6. /\ IsFiles(data') /\ \A id \in DOMAIN data' : id < nextFileID'
      /\ \A id \in DOMAIN data : Kept(id)
  <2>1. \A id \in DOMAIN data' : id \in Nat \ {0} /\ data'[id] \in Seq(Record)
    BY <1>2, <1>3, <1>5 DEF IsFiles
  <2>3. IsFiles(data')
    BY <1>5, <2>1 DEF IsFiles
  <2>4. \A id \in DOMAIN data : Kept(id)
    BY <1>5 DEF Kept
  <2>2. \A id \in DOMAIN data' : id < nextFileID'
    BY <1>1, <1>2, <1>3, <1>5, <2>1
  <2> QED BY <2>2, <2>3, <2>4
<1>7. HistoryKept
  <2>1. Len(history) <= Len(history)
    BY <1>2, SMTT(30)
  <2> QED BY <1>1, <1>2, <2>1 DEF HistoryKept
<1>8. ASSUME NEW j \in Key PROVE KeyInv(j)'
  <2>1. KeyInv(j)
    BY <1>2 DEF OpenInv
  <2>2. \A x \in Record : Found(keydir[j], x) => Found(keydir[j], x)'
    BY <1>1, <1>5 DEF Found
  <2>3. \A p \in 1..Len(history) : history[p] \in Record
    BY <1>2, SMTT(30)
  <2> QED BY <1>1, <2>1, <2>2, <2>3 DEF KeyInv
<1>9. OpenInv'
  BY <1>1, <1>2, <1>3, <1>5, <1>6, <1>8 DEF OpenInv, N
<1>10. ASSUME NEW m \in Merger, merge[m] # Nil PROVE JobInv(merge[m])'
  <2> DEFINE job == merge[m]
  <2>1. JobInv(job) /\ job' = job
    BY <1>1, <1>2, <1>10 DEF MergesInv
  <2>2. N \notin job.ids /\ N \notin DOMAIN job.files
    BY <1>3, <2>1 DEF JobInv, N
  <2> HIDE DEF job
  <2>3. \A id \in DOMAIN job.files : id \notin DOMAIN data'
    BY <1>5, <2>1, <2>2 DEF JobInv
  <2>4. \A id \in job.ids : id \in DOMAIN data' => id \in DOMAIN data /\ Kept(id)
    BY <1>5, <1>6, <2>2
  <2>5. ASSUME NEW j \in Key PROVE CopyInv(job, j)'
    <3>1. \/ keydir'[j] = Nil
          \/ keydir'[j] # Nil /\ keydir'[j].file \notin job.ids
          \/ keydir'[j] = keydir[j] /\ (keydir[j] # Nil => Kept(keydir[j].file))
      BY <1>1, <1>2, <1>6, KeyFacts
    <3> QED BY <1>2, <2>1, <2>4, <3>1, CopyStep
  <2>6. activeFileID' \notin job.ids /\ nextFileID \in Nat /\ nextFileID' \in Nat /\ nextFileID <= nextFileID'
    BY <1>1, <1>2, <1>3, <2>2 DEF N
  <2>7. JobInv(job)'
    BY <2>1, <2>3, <2>5, <2>6, JobStep
  <2> QED BY <2>7 DEF job
<1>11. MergesInv'
  BY <1>1, <1>2, <1>10 DEF MergesInv
<1>12. ASSUME NEW c \in Caller, call[c] # Nil PROVE CallInv(call[c])'
  <2> DEFINE x == call[c]
  <2>1. x \in Call /\ CallInv(x) /\ x' = x
    BY <1>1, <1>12 DEF SessionInv
  <2>2. /\ x.entry.file < nextFileID
        /\ \A m \in Merger : merge[m] # Nil => x.entry.file \notin DOMAIN merge[m].files
    BY <1>1, <2>1 DEF CallInv
  <2>3. x.entry.file \in DOMAIN data' => x.entry.file \in DOMAIN data
    BY <1>3, <1>5, <2>2 DEF N
  <2>4. nextFileID \in Nat /\ nextFileID' \in Nat /\ nextFileID <= nextFileID'
    BY <1>1, <1>2, <1>3 DEF N
  <2> HIDE DEF x
  <2>5. CallInv(x)'
    BY <1>1, <1>6, <2>1, <2>2, <2>3, <2>4, CallStep
  <2> QED BY <2>5 DEF x
<1>13. ASSUME NEW c \in Caller, fold[c] # Nil PROVE FoldInv(c)'
  <2>1. FoldInv(c) /\ fold[c] \in Iteration
    BY <1>13 DEF SessionInv
  <2> QED BY <1>1, <1>2, <1>7, <2>1, FoldStep
<1> QED BY <1>1, <1>9, <1>11, <1>12, <1>13, NothingReturned DEF SessionInv

-----------------------------------------------------------------------------
(* Close.                                                                  *)

(* The Gets of the files ids know that they are hit, and the others are as *)
(* before.                                                                 *)
Hit(ids) ==
    /\ call' \in [Caller -> Call \cup {Nil}]
    /\ \A c \in Caller :
          /\ call[c] = Nil <=> call'[c] = Nil
          /\ call[c] # Nil => /\ call'[c].key = call[c].key /\ call'[c].entry = call[c].entry
                              /\ call'[c].want = call[c].want
          /\ call[c] # Nil /\ call[c].entry.file \in ids => call'[c].disturbed
          /\ call[c] # Nil /\ call[c].entry.file \notin ids => call'[c] = call[c]

(* closeReaderLocked, for several files.                                   *)
LEMMA ClosedReaders ==
  ASSUME SessionInv, NEW ids, closeReaders(ids)
  PROVE  Hit(ids)
<1>1. ASSUME NEW c \in Caller
      PROVE  /\ call'[c] \in Call \cup {Nil}
             /\ call[c] = Nil <=> call'[c] = Nil
             /\ call[c] # Nil => /\ call'[c].key = call[c].key /\ call'[c].entry = call[c].entry
                                 /\ call'[c].want = call[c].want
             /\ call[c] # Nil /\ call[c].entry.file \in ids => call'[c].disturbed
             /\ call[c] # Nil /\ call[c].entry.file \notin ids => call'[c] = call[c]
  <2>1. call'[c] = IF call[c] = Nil \/ call[c].entry.file \notin ids THEN call[c]
                   ELSE [call[c] EXCEPT !.handle = IF @ = "open" THEN "closed" ELSE @,
                                        !.disturbed = TRUE]
    BY <1>1 DEF closeReaders
  <2>2. call[c] \in Call \cup {Nil}
    BY <1>1 DEF SessionInv
  <2>3. CASE call[c] = Nil \/ call[c].entry.file \notin ids
    BY <2>1, <2>2, <2>3
  <2>4. CASE call[c] # Nil /\ call[c].entry.file \in ids
    <3> DEFINE x == call[c]
               h == IF x.handle = "open" THEN "closed" ELSE x.handle
    <3>1. call'[c] = [x EXCEPT !.handle = h, !.disturbed = TRUE]
      BY <2>1, <2>4
    <3>2. x \in Call
      BY <2>2, <2>4
    <3>3. h \in {"none", "open", "closed"}
      BY <3>2 DEF Call
    <3> HIDE DEF h
    <3>4. /\ [x EXCEPT !.handle = h, !.disturbed = TRUE] \in Call
          /\ [x EXCEPT !.handle = h, !.disturbed = TRUE].disturbed = TRUE
          /\ [x EXCEPT !.handle = h, !.disturbed = TRUE].key = x.key
          /\ [x EXCEPT !.handle = h, !.disturbed = TRUE].entry = x.entry
          /\ [x EXCEPT !.handle = h, !.disturbed = TRUE].want = x.want
      BY <3>2, <3>3 DEF Call
    <3>5. call'[c] # Nil
      BY <3>1, <3>4, StoreAssumption
    <3> QED BY <2>4, <3>1, <3>4, <3>5
  <2> QED BY <2>3, <2>4
<1>2. call' \in [Caller -> Call \cup {Nil}]
  BY <1>1 DEF closeReaders
<1> QED BY <1>1, <1>2 DEF Hit

(* Close up to its release of readersMu: every Get in progress is hit.     *)
LEMMA CloseInSession ==
  ASSUME SessionInv, Close, returned' = Nil
  PROVE  SessionInv'
<1>1. /\ open /\ ~closing /\ closing' /\ SameStore
      /\ open' = open /\ merge' = merge /\ fold' = fold /\ opens' = opens
      /\ closeReaders(DOMAIN data)
  BY DEF Close, Unlocked, SameStore, restVars, boundVars
<1>2. OpenInv' /\ MergesInv'
  <2>1. OpenInv' /\ \A job : JobInv(job) => JobInv(job)'
    BY <1>1, SameStoreKeeps
  <2> QED BY <1>1, <2>1 DEF SessionInv, MergesInv
<1>3. /\ call' \in [Caller -> Call \cup {Nil}]
      /\ \A c \in Caller :
            /\ call[c] = Nil <=> call'[c] = Nil
            /\ call[c] # Nil => /\ call'[c].key = call[c].key /\ call'[c].entry = call[c].entry
                                /\ call'[c].want = call[c].want
            /\ call[c] # Nil /\ call[c].entry.file \in DOMAIN data => call'[c].disturbed
            /\ call[c] # Nil /\ call[c].entry.file \notin DOMAIN data => call'[c] = call[c]
  BY <1>1, ClosedReaders DEF Hit
<1>4. ASSUME NEW c \in Caller, call'[c] # Nil PROVE CallInv(call[c])'
  <2>1. /\ call[c] # Nil /\ call'[c].key = call[c].key /\ call'[c].entry = call[c].entry
        /\ call'[c].want = call[c].want /\ CallInv(call[c])
    BY <1>4, <1>3 DEF SessionInv
  <2>2. call'[c].disturbed
    <3>1. CASE call[c].entry.file \in DOMAIN data
      BY <1>3, <2>1, <3>1
    <3>2. CASE call[c].entry.file \notin DOMAIN data
      BY <1>3, <2>1, <3>2 DEF CallInv
    <3> QED BY <3>1, <3>2
  <2>3. call'[c].entry.file \in DOMAIN data' => Holds(call[c].entry, call[c].key, call[c].want)'
    BY <1>1, <2>1 DEF SameStore, CallInv, Holds, Readable, ValueAt
  <2>4. /\ call'[c].entry.file < nextFileID'
        /\ \A m \in Merger : merge'[m] # Nil => call'[c].entry.file \notin DOMAIN merge'[m].files
    BY <1>1, <2>1 DEF SameStore, CallInv
  <2> QED BY <2>2, <2>3, <2>4 DEF CallInv
<1>5. HistoryKept
  BY <1>1, SameStoreKeeps
<1>6. ASSUME NEW c \in Caller, fold[c] # Nil PROVE FoldInv(c)'
  <2>1. FoldInv(c) /\ fold[c] \in Iteration /\ history \in Seq(Record)
    BY <1>1, <1>6 DEF SessionInv, OpenInv
  <2> QED BY <1>1, <1>3, <1>5, <2>1, FoldStep
<1> QED BY <1>1, <1>2, <1>4, <1>3, <1>6, NothingReturned DEF SessionInv

(* The end of Close, once the merges are over, keeps SessionInv.           *)
LEMMA CloseEndsInSession ==
  ASSUME SessionInv, CloseEnds, returned' = Nil
  PROVE  SessionInv'
<1>1. /\ closing /\ open /\ ~closing' /\ ~open' /\ merge' = [m \in Merger |-> Nil]
      /\ SameStore /\ call' = call /\ fold' = fold /\ opens' = opens
  BY DEF SessionInv, CloseEnds, SameStore, diskVars, readVars, restVars, boundVars
<1>2. ASSUME NEW c \in Caller, call[c] # Nil PROVE CallInv(call[c])'
  <2>1. CallInv(call[c]) /\ call[c].disturbed
    BY <1>1, <1>2 DEF SessionInv, CallInv
  <2> QED BY <1>1, <2>1 DEF CallInv, SameStore, Holds, Readable, ValueAt
<1>3. ASSUME NEW c \in Caller, fold[c] # Nil PROVE FoldInv(c)'
  <2>1. FoldInv(c) /\ fold[c] \in Iteration /\ history \in Seq(Record)
    BY <1>1, <1>3 DEF SessionInv, OpenInv
  <2>2. HistoryKept
    BY <1>1, SameStoreKeeps
  <2> QED BY <1>1, <2>1, <2>2, FoldStep
<1>4. merge' = [m \in Merger |-> merge'[m]]
  BY <1>1
<1> QED BY <1>1, <1>2, <1>3, <1>4, NothingReturned DEF SessionInv

-----------------------------------------------------------------------------
(* Get and Fold.                                                           *)

(* A Get in progress is not affected by a step that leaves the store and   *)
(* the merges alone.                                                       *)
LEMMA SameCalls ==
  ASSUME SameStore, UNCHANGED <<open, closing, merge>>
  PROVE  \A r : CallInv(r) => CallInv(r)'
BY DEF SameStore, CallInv, Holds, Readable, ValueAt

(* What was put or deleted when is a matter of the history alone.          *)
LEMMA SameWrites ==
  ASSUME history' = history
  PROVE  \A k, n : (PutBy(k, n) => PutBy(k, n)') /\ (DeletedSince(k, n) => DeletedSince(k, n)')
BY DEF PutBy, DeletedSince

(* A step of a reader leaves the store and the other readers alone.        *)
LEMMA ReadStep ==
  ASSUME SessionInv, SameStore, UNCHANGED <<open, closing, opens, merge>>, NEW c \in Caller,
         call' \in [Caller -> Call \cup {Nil}], fold' \in [Caller -> Iteration \cup {Nil}],
         \A d \in Caller : d # c => call'[d] = call[d] /\ fold'[d] = fold[d],
         call'[c] # Nil => CallInv(call[c])',
         fold'[c] # Nil => FoldInv(c)',
         GetReturnsItsValue', GetFailsForAReason', FoldIsComplete'
  PROVE  SessionInv'
<1>1. open => OpenInv' /\ MergesInv'
  <2> SUFFICES ASSUME open PROVE OpenInv' /\ MergesInv'
    OBVIOUS
  <2>1. OpenInv' /\ \A job : JobInv(job) => JobInv(job)'
    BY SameStoreKeeps
  <2> QED BY <2>1 DEF SessionInv, MergesInv
<1>2. ASSUME NEW d \in Caller, call'[d] # Nil PROVE CallInv(call[d])'
  <2>1. CASE d = c
    BY <1>2, <2>1
  <2>2. CASE d # c
    <3>1. call'[d] = call[d] /\ CallInv(call[d])
      BY <1>2, <2>2 DEF SessionInv
    <3>2. \A r : CallInv(r) => CallInv(r)'
      BY SameCalls
    <3> QED BY <3>1, <3>2
  <2> QED BY <2>1, <2>2
<1>3. ASSUME NEW d \in Caller, fold'[d] # Nil PROVE FoldInv(d)'
  <2>1. CASE d = c
    BY <1>3, <2>1
  <2>2. CASE d # c
    <3>1. call'[d] = call[d] /\ fold'[d] = fold[d] /\ FoldInv(d)
      BY <1>3, <2>2 DEF SessionInv
    <3>2. history' = history
      BY DEF SameStore
    <3>3. \A k, n : (PutBy(k, n) => PutBy(k, n)') /\ (DeletedSince(k, n) => DeletedSince(k, n)')
      BY <3>2, SameWrites
    <3> QED BY <3>1, <3>2, <3>3 DEF FoldInv
  <2> QED BY <2>1, <2>2
<1>4. opens' \in Nat /\ (closing' => open') /\ merge' = [m \in Merger |-> merge'[m]]
  <2>1. opens \in Nat /\ (closing => open) /\ merge = [m \in Merger |-> merge[m]]
    BY DEF SessionInv
  <2> QED BY <2>1
<1> QED BY <1>1, <1>2, <1>3, <1>4 DEF SessionInv

(* The lookup of a Get finds its record, and no merge is about to use the  *)
(* id of its file.                                                         *)
LEMMA LookedUp ==
  ASSUME SessionInv, SameStore, UNCHANGED <<open, closing, merge>>,
         NEW c \in Caller, NEW k \in Key, Lookup(c, k)
  PROVE  /\ call' \in [Caller -> Call \cup {Nil}]
         /\ \A d \in Caller : d # c => call'[d] = call[d]
         /\ call'[c] # Nil /\ call'[c].key = k /\ CallInv(call[c])'
<1> DEFINE x == [key |-> k, entry |-> keydir[k], handle |-> "none",
                 want |-> Latest(history, k), disturbed |-> FALSE]
<1>1. /\ open /\ ~closing /\ call[c] = Nil /\ keydir[k] # Nil
      /\ call' = [call EXCEPT ![c] = x] /\ call \in [Caller -> Call \cup {Nil}]
      /\ OpenInv /\ MergesInv
  BY DEF Lookup, Unlocked, SessionInv
<1>2. /\ keydir[k] \in Entry /\ keydir[k].file \in DOMAIN data
      /\ Latest(history, k) \in Value /\ Holds(keydir[k], k, Latest(history, k))
  BY <1>1, KeyFacts
<1>3. x \in Call
  BY <1>2 DEF Call
<1>4. /\ x.key = k /\ x.entry = keydir[k] /\ x.handle = "none" /\ x.want = Latest(history, k)
      /\ x.disturbed = FALSE
  OBVIOUS
<1> HIDE DEF x
<1>5. call'[c] = x /\ x # Nil
  BY <1>1, <1>3, StoreAssumption
<1>6. keydir[k].file < nextFileID /\ 
      \A m \in Merger : merge[m] # Nil => keydir[k].file \notin DOMAIN merge[m].files
  BY <1>1, <1>2 DEF OpenInv, MergesInv, JobInv
<1>7. CallInv(x)
  BY <1>1, <1>2, <1>4, <1>6 DEF CallInv
<1>8. \A r : CallInv(r) => CallInv(r)'
  BY SameCalls
<1>9. CallInv(call[c])'
  BY <1>5, <1>7, <1>8
<1> QED BY <1>1, <1>3, <1>4, <1>5, <1>9

(* A key that was there and is gone has been deleted.                      *)
LEMMA GoneIsDeleted ==
  ASSUME OpenInv, NEW k \in Key, keydir[k] = Nil, NEW n \in Nat, n <= Len(history), PutBy(k, n)
  PROVE  DeletedSince(k, n)
<1>1. KeyInv(k) /\ Len(history) \in Nat /\ Nil \notin Entry
  BY StoreAssumption, SMTT(30) DEF OpenInv
<1>2. PICK q \in 1..n : LastOfKey(history, q, k, n) /\ history[q].value # Tombstone
  BY DEF PutBy
<1>3. q \in 1..Len(history) /\ history[q].key = k
  <2>1. q \in 1..Len(history)
    BY <1>1, SMTT(30)
  <2> QED BY <1>2, <2>1 DEF LastOfKey
<1>4. PICK p \in 1..Len(history) :
          LastOfKey(history, p, k, Len(history)) /\ history[p].value = Tombstone
  BY <1>1, <1>3 DEF KeyInv, Found
<1>5. p \in 1..n => p = q
  <2> SUFFICES ASSUME p \in 1..n PROVE p = q
    OBVIOUS
  <2>1. ~(p > q) /\ ~(q > p)
    BY <1>2, <1>3, <1>4 DEF LastOfKey
  <2> QED BY <1>1, <2>1, SMTT(30)
<1>6. p \in (n + 1)..Len(history)
  <2>1. p \notin 1..n
    BY <1>2, <1>4, <1>5
  <2> QED BY <1>1, <2>1, SMTT(30)
<1> QED BY <1>4, <1>6 DEF DeletedSince, LastOfKey

(* The start of a Get or a Fold, and the next key of a Fold, keep          *)
(* SessionInv.                                                             *)
LEMMA ReadsKeep ==
  ASSUME SessionInv, NEW c \in Caller, returned' = Nil,
         Fold(c) \/ \E k \in Key : Get(c, k) \/ FoldKey(c, k)
  PROVE  SessionInv'
<1>0. call \in [Caller -> Call \cup {Nil}] /\ fold \in [Caller -> Iteration \cup {Nil}]
  BY DEF SessionInv
<1>1. CASE Fold(c)
  <2> DEFINE keys == {k \in Key : keydir[k] # Nil}
             x == [keys |-> keys, todo |-> keys, visited |-> {}, from |-> Len(history)]
  <2>1. /\ SameStore /\ UNCHANGED <<open, closing, opens, merge, call>> /\ open
        /\ call[c] = Nil /\ fold' = [fold EXCEPT ![c] = x]
    BY <1>1 DEF Fold, Unlocked, SameStore, diskVars, memVars, restVars, boundVars
  <2>2. OpenInv /\ history \in Seq(Record) /\ Len(history) \in Nat
    <3>1. OpenInv /\ history \in Seq(Record)
      BY <2>1 DEF SessionInv, OpenInv
    <3> QED BY <3>1, SMTT(30)
  <2>3. x \in Iteration
    BY <2>2 DEF Iteration
  <2>4. x.keys = keys /\ x.todo = keys /\ x.from = Len(history)
    OBVIOUS
  <2>5. \A k \in keys : PutBy(k, Len(history))
    BY <2>2, KeyFacts
  <2> HIDE DEF x, keys
  <2>6. fold'[c] = x /\ fold' \in [Caller -> Iteration \cup {Nil}]
        /\ \A d \in Caller : d # c => fold'[d] = fold[d]
    BY <1>0, <2>1, <2>3
  <2>7. history' = history
    BY <2>1 DEF SameStore
  <2>8. \A k, n : PutBy(k, n) => PutBy(k, n)'
    BY <2>7, SameWrites
  <2>9. Len(history) <= Len(history)
    BY <2>2, SMTT(30)
  <2>10. FoldInv(c)'
    BY <2>4, <2>5, <2>6, <2>7, <2>8, <2>9 DEF FoldInv
  <2> QED BY <1>0, <2>1, <2>6, <2>10, ReadStep, NothingReturned
<1>2. ASSUME NEW k \in Key, Get(c, k) PROVE SessionInv'
  <2>1. /\ SameStore /\ UNCHANGED <<open, closing, opens, merge, fold>> /\ fold[c] = Nil
        /\ Lookup(c, k)
    BY <1>2 DEF Get, SameStore, diskVars, memVars, restVars, boundVars
  <2>2. /\ call' \in [Caller -> Call \cup {Nil}]
        /\ \A d \in Caller : d # c => call'[d] = call[d]
        /\ CallInv(call[c])'
    BY <2>1, LookedUp
  <2> QED BY <1>0, <2>1, <2>2, ReadStep, NothingReturned
<1>3. ASSUME NEW k \in Key, FoldKey(c, k) PROVE SessionInv'
  <2> DEFINE x == fold[c]
             y == [fold[c] EXCEPT !.todo = @ \ {k}]
  <2>1. /\ SameStore /\ UNCHANGED <<open, closing, opens, merge>> /\ fold[c] # Nil
        /\ fold' = [fold EXCEPT ![c].todo = @ \ {k}] /\ history' = history
        /\ call[c] = Nil /\ open
        /\ Lookup(c, k) \/ (keydir[k] = Nil /\ call' = call)
    BY <1>3 DEF FoldKey, Lookup, Unlocked, SameStore, diskVars, memVars, restVars, boundVars
  <2>2. x \in Iteration /\ FoldInv(c) /\ OpenInv
    BY <1>0, <2>1 DEF SessionInv
  <2>3. y \in Iteration /\ y.keys = x.keys /\ y.todo = x.todo \ {k} /\ y.visited = x.visited
        /\ y.from = x.from
    BY <2>2, SMTT(30) DEF Iteration
  <2>4. fold' = [fold EXCEPT ![c] = y]
    BY <2>1
  <2> HIDE DEF y
  <2>5. fold'[c] = y /\ fold' \in [Caller -> Iteration \cup {Nil}]
        /\ \A d \in Caller : d # c => fold'[d] = fold[d]
    BY <1>0, <2>3, <2>4
  <2>6. \A j, n : (PutBy(j, n) => PutBy(j, n)') /\ (DeletedSince(j, n) => DeletedSince(j, n)')
    BY <2>1, SameWrites
  <2>7. /\ call' \in [Caller -> Call \cup {Nil}] /\ \A d \in Caller : d # c => call'[d] = call[d]
        /\ call'[c] # Nil => CallInv(call[c])'
        /\ k \in x.keys => DeletedSince(k, x.from) \/ (call'[c] # Nil /\ call'[c].key = k)
    <3>1. CASE Lookup(c, k)
      BY <2>1, <3>1, LookedUp
    <3>2. CASE keydir[k] = Nil /\ call' = call
      <4>1. x.from \in Nat /\ x.from <= Len(history) /\ (k \in x.keys => PutBy(k, x.from))
        BY <2>2 DEF Iteration, FoldInv
      <4>2. k \in x.keys => DeletedSince(k, x.from)
        BY <2>2, <3>2, <4>1, GoneIsDeleted
      <4> QED BY <1>0, <2>1, <3>2, <4>2
    <3> QED BY <2>1, <3>1, <3>2
  <2>8. \A j \in x.keys :
            /\ PutBy(j, x.from)'
            /\ \/ j \in y.todo \/ j \in y.visited \/ DeletedSince(j, x.from)
               \/ call'[c] # Nil /\ call'[c].key = j
    <3> SUFFICES ASSUME NEW j \in x.keys
                 PROVE  /\ PutBy(j, x.from)'
                        /\ \/ j \in y.todo \/ j \in y.visited \/ DeletedSince(j, x.from)
                           \/ call'[c] # Nil /\ call'[c].key = j
      OBVIOUS
    <3>1. /\ PutBy(j, x.from)
          /\ j \in x.todo \/ j \in x.visited \/ DeletedSince(j, x.from)
      BY <2>1, <2>2 DEF FoldInv
    <3>2. x.from = x.from'
      BY <2>3, <2>5
    <3> QED BY <2>3, <2>6, <2>7, <3>1, <3>2
  <2>9. FoldInv(c)'
    <3>1. fold'[c].from <= Len(history') /\ fold'[c].keys = x.keys /\ fold'[c].from = x.from
      BY <2>1, <2>2, <2>3, <2>5 DEF FoldInv
    <3>2. \A j \in fold'[c].keys : PutBy(j, fold[c].from)'
      BY <2>8, <3>1
    <3>3. \A j \in fold'[c].keys :
             \/ j \in fold'[c].todo \/ j \in fold'[c].visited \/ DeletedSince(j, fold[c].from)'
             \/ call'[c] # Nil /\ call'[c].key = j
      BY <2>5, <2>6, <2>8, <3>1
    <3> QED BY <3>1, <3>2, <3>3 DEF FoldInv
  <2> QED BY <2>1, <2>5, <2>7, <2>9, ReadStep, NothingReturned
<1> QED BY <1>1, <1>2, <1>3

(* A Get returns what it was looking for, or an error because it was hit.  *)
LEMMA ReturnKeeps ==
  ASSUME SessionInv, SameStore, UNCHANGED <<open, closing, opens, merge>>,
         NEW c \in Caller, call[c] # Nil, NEW out, NEW value, GetReturns(c, out, value),
         \/ out = "error" /\ call[c].disturbed
         \/ out = "found" /\ value = call[c].want
  PROVE  SessionInv'
<1>1. /\ call \in [Caller -> Call \cup {Nil}] /\ fold \in [Caller -> Iteration \cup {Nil}]
      /\ call[c] \in Call /\ history' = history
  BY DEF SessionInv, SameStore
<1>2. /\ call' \in [Caller -> Call \cup {Nil}] /\ call'[c] = Nil
      /\ \A d \in Caller : d # c => call'[d] = call[d] /\ fold'[d] = fold[d]
  BY <1>1 DEF GetReturns
<1>3. /\ returned'.op = "get" /\ returned'.out = out /\ returned'.value = value
      /\ returned'.want = call[c].want
      /\ returned'.disturbed = call[c].disturbed
  BY DEF GetReturns
<1>4. GetReturnsItsValue' /\ GetFailsForAReason' /\ FoldIsComplete'
  <2>1. GetReturnsItsValue'
    BY <1>3 DEF GetReturnsItsValue
  <2>2. GetFailsForAReason'
    BY <1>3 DEF GetFailsForAReason
  <2>3. FoldIsComplete'
    BY <1>3 DEF FoldIsComplete
  <2> QED BY <2>1, <2>2, <2>3
<1>5. CASE fold[c] = Nil \/ out = "error"
  <2>1. fold'[c] = Nil
    BY <1>1, <1>5 DEF GetReturns
  <2>2. fold' \in [Caller -> Iteration \cup {Nil}]
    <3>1. fold' = [fold EXCEPT ![c] = Nil]
      BY <1>5 DEF GetReturns
    <3> QED BY <1>1, <3>1
  <2> QED BY <1>2, <1>4, <2>1, <2>2, ReadStep
<1>6. CASE fold[c] # Nil /\ out = "found"
  <2> DEFINE x == fold[c]
             y == [fold[c] EXCEPT !.visited = @ \cup {call[c].key}]
  <2>1. fold' = [fold EXCEPT ![c] = y]
    <3> DEFINE v == IF out = "found" THEN {call[c].key} ELSE {}
               z == IF fold[c] = Nil \/ out = "error" THEN Nil
                    ELSE [fold[c] EXCEPT !.visited = @ \cup v]
    <3>1. fold' = [fold EXCEPT ![c] = z]
      BY DEF GetReturns
    <3>2. v = {call[c].key} /\ out # "error"
      BY <1>6
    <3> HIDE DEF v
    <3>3. z = [fold[c] EXCEPT !.visited = @ \cup v]
      BY <1>6, <3>2
    <3> QED BY <3>1, <3>2, <3>3
  <2>2. x \in Iteration /\ FoldInv(c) /\ call[c].key \in Key
    BY <1>1, <1>6 DEF SessionInv, Call
  <2>3. y \in Iteration /\ y.keys = x.keys /\ y.todo = x.todo
        /\ y.visited = x.visited \cup {call[c].key} /\ y.from = x.from
    BY <2>2, SMTT(30) DEF Iteration
  <2> HIDE DEF y
  <2>4. fold'[c] = y /\ fold' \in [Caller -> Iteration \cup {Nil}]
    BY <1>1, <2>1, <2>3
  <2>5. \A j, n : (PutBy(j, n) => PutBy(j, n)') /\ (DeletedSince(j, n) => DeletedSince(j, n)')
    BY <1>1, SameWrites
  <2>6. FoldInv(c)'
    <3>1. fold'[c].from <= Len(history') /\ fold'[c].keys = x.keys /\ fold'[c].from = x.from
      BY <1>1, <2>2, <2>3, <2>4 DEF FoldInv
    <3>2. \A j \in x.keys :
             /\ PutBy(j, x.from)
             /\ j \in y.todo \/ j \in y.visited \/ DeletedSince(j, x.from)
      BY <2>2, <2>3 DEF FoldInv
    <3>3. \A j \in fold'[c].keys : PutBy(j, fold[c].from)'
      BY <2>5, <3>1, <3>2
    <3>4. \A j \in fold'[c].keys :
             j \in fold'[c].todo \/ j \in fold'[c].visited \/ DeletedSince(j, fold[c].from)'
      BY <2>4, <2>5, <3>1, <3>2
    <3> QED BY <3>1, <3>3, <3>4 DEF FoldInv
  <2> QED BY <1>2, <1>4, <2>4, <2>6, ReadStep
<1> QED BY <1>5, <1>6

(* The later steps of a Get, and the return of a Fold, keep SessionInv.    *)
LEMMA ReturnsKeep ==
  ASSUME SessionInv, NEW c \in Caller, openReader(c) \/ readRecordAtEntry(c) \/ FoldReturns(c)
  PROVE  SessionInv'
<1>0. call \in [Caller -> Call \cup {Nil}] /\ fold \in [Caller -> Iteration \cup {Nil}]
  BY DEF SessionInv
<1>1. CASE openReader(c)
  <2>1. /\ SameStore /\ UNCHANGED <<open, closing, opens, merge>>
        /\ call[c] # Nil /\ call[c].handle = "none"
    BY <1>1 DEF openReader, SameStore, diskVars, memVars, restVars, boundVars
  <2>2. call[c] \in Call /\ CallInv(call[c])
    BY <1>0, <2>1 DEF SessionInv
  <2>3. CASE call' = [call EXCEPT ![c].handle = "open"] /\ returned' = Nil /\ fold' = fold
    <3> DEFINE x == call[c]
               y == [call[c] EXCEPT !.handle = "open"]
    <3>1. y \in Call /\ y.key = x.key /\ y.entry = x.entry /\ y.want = x.want /\ y.handle = "open"
      BY <2>2 DEF Call
    <3>2. y.disturbed = x.disturbed
      BY <2>2 DEF Call
    <3> HIDE DEF y
    <3>3. call' = [call EXCEPT ![c] = y]
      BY <2>3 DEF y
    <3>4. call'[c] = y /\ y # Nil /\ call' \in [Caller -> Call \cup {Nil}]
          /\ \A d \in Caller : d # c => call'[d] = call[d]
      BY <1>0, <3>1, <3>3, StoreAssumption
    <3>5. CallInv(y)
      BY <2>2, <3>1, <3>2 DEF CallInv
    <3>6. CallInv(call[c])'
      <4>1. \A r : CallInv(r) => CallInv(r)'
        BY <2>1, SameCalls
      <4> QED BY <3>4, <3>5, <4>1
    <3>7. fold'[c] # Nil => FoldInv(c)'
      <4>1. history' = history
        BY <2>1 DEF SameStore
      <4>2. \A j, n : (PutBy(j, n) => PutBy(j, n)') /\ (DeletedSince(j, n) => DeletedSince(j, n)')
        BY <4>1, SameWrites
      <4>3. call'[c] # Nil /\ call'[c].key = call[c].key
        BY <3>1, <3>4
      <4> QED BY <2>3, <4>1, <4>2, <4>3 DEF SessionInv, FoldInv
    <3> QED BY <1>0, <2>1, <2>3, <3>4, <3>6, <3>7, ReadStep, NothingReturned
  <2>4. CASE (~open \/ call[c].entry.file \notin DOMAIN data) /\ GetReturns(c, "error", Nil)
    <3>1. call[c].disturbed
      BY <2>2, <2>4 DEF CallInv
    <3> QED BY <2>1, <2>4, <3>1, ReturnKeeps
  <2> QED BY <1>1, <2>3, <2>4 DEF openReader
<1>2. CASE readRecordAtEntry(c)
  <2> DEFINE e == call[c].entry
             ok == /\ call[c].handle = "open" /\ Readable(e)
                   /\ data[e.file][e.off].key = call[c].key
  <2>1. /\ SameStore /\ UNCHANGED <<open, closing, opens, merge>>
        /\ call[c] # Nil /\ call[c].handle # "none"
        /\ IF ok
           THEN GetReturns(c, IF ValueAt(e) = Tombstone THEN "absent" ELSE "found", ValueAt(e))
           ELSE GetReturns(c, "error", Nil)
    BY <1>2 DEF readRecordAtEntry, SameStore, diskVars, memVars, restVars, boundVars
  <2>2. call[c] \in Call /\ CallInv(call[c])
    BY <1>0, <2>1 DEF SessionInv
  <2>3. call[c].want \in Value /\ call[c].handle \in {"none", "open", "closed"}
    BY <2>2 DEF Call
  <2>4. CASE ok
    <3>1. ValueAt(e) = call[c].want
      BY <2>2, <2>4 DEF CallInv, Holds, Readable
    <3>2. ValueAt(e) # Tombstone
      BY <2>3, <3>1, StoreAssumption
    <3>3. GetReturns(c, "found", ValueAt(e))
      BY <2>1, <2>4, <3>2
    <3> QED BY <2>1, <3>1, <3>3, ReturnKeeps
  <2>5. CASE ~ok
    <3>1. call[c].disturbed
      BY <2>1, <2>2, <2>3, <2>5 DEF CallInv, Holds
    <3> QED BY <2>1, <2>5, <3>1, ReturnKeeps
  <2> QED BY <2>4, <2>5
<1>3. CASE FoldReturns(c)
  <2>1. /\ SameStore /\ UNCHANGED <<open, closing, opens, merge, call>>
        /\ fold[c] # Nil /\ call[c] = Nil /\ fold' = [fold EXCEPT ![c] = Nil]
        /\ history' = history
    BY <1>3 DEF FoldReturns, SameStore, diskVars, memVars, restVars, boundVars
  <2>2. fold'[c] = Nil /\ fold' \in [Caller -> Iteration \cup {Nil}]
        /\ \A d \in Caller : d # c => fold'[d] = fold[d]
    BY <1>0, <2>1
  <2>3. GetReturnsItsValue' /\ GetFailsForAReason' /\ FoldIsComplete'
    <3>1. CASE returned' = Nil
      BY <3>1, NothingReturned
    <3>2. CASE fold[c].todo = {} /\ returned' = [op |-> "fold", fold |-> fold[c]]
      <4>1. returned'.op = "fold" /\ returned'.fold = fold[c]
        BY <3>2
      <4>2. \A k \in fold[c].keys : k \in fold[c].visited \/ DeletedSince(k, fold[c].from)
        BY <2>1, <3>2 DEF SessionInv, FoldInv
      <4>3. FoldIsComplete'
        BY <2>1, <4>1, <4>2 DEF FoldIsComplete, DeletedSince
      <4>4. GetReturnsItsValue' /\ GetFailsForAReason'
        BY <4>1 DEF GetReturnsItsValue, GetFailsForAReason
      <4> QED BY <4>3, <4>4
    <3> QED BY <1>3, <3>1, <3>2 DEF FoldReturns
  <2> QED BY <1>0, <2>1, <2>2, <2>3, ReadStep
<1> QED BY <1>1, <1>2, <1>3

-----------------------------------------------------------------------------
(* Merge.                                                                  *)

(* Two merges are out of each other's way.                                 *)
Apart(a, b) ==
    /\ DOMAIN a.files \cap b.ids = {} /\ DOMAIN b.files \cap a.ids = {}
    /\ DOMAIN a.files \cap DOMAIN b.files = {}

(* A step of one merge: what it must not do to the others.                 *)
LEMMA MergeStep ==
  ASSUME SessionInv, open, returned' = Nil, UNCHANGED <<open, closing, opens, fold, history>>,
         NEW m \in Merger, NEW job, merge' = [merge EXCEPT ![m] = job],
         OpenInv',
         call' \in [Caller -> Call \cup {Nil}],
         \A c \in Caller : call'[c] # Nil => CallInv(call[c])',
         \A c \in Caller : call[c] # Nil => call'[c] # Nil /\ call'[c].key = call[c].key,
         job # Nil => JobInv(job)' /\ DOMAIN job.files \cap job.ids = {},
         \A n \in Merger : n # m /\ merge[n] # Nil => JobInv(merge[n])',
         \A n \in Merger : n # m /\ merge[n] # Nil /\ job # Nil => Apart(job, merge[n])
  PROVE  SessionInv'
<1>1. merge = [n \in Merger |-> merge[n]] /\ MergesInv /\ opens \in Nat /\ (closing => open)
      /\ fold \in [Caller -> Iteration \cup {Nil}]
  BY DEF SessionInv
<1>2. merge'[m] = job /\ \A n \in Merger : n # m => merge'[n] = merge[n]
  BY <1>1
<1>3. merge' = [n \in Merger |-> merge'[n]]
  BY <1>1
<1>4. ASSUME NEW n \in Merger, merge'[n] # Nil PROVE JobInv(merge[n])'
  <2>1. CASE n = m
    BY <1>2, <1>4, <2>1
  <2>2. CASE n # m
    BY <1>2, <1>4, <2>2
  <2> QED BY <2>1, <2>2
<1>5. ASSUME NEW a \in Merger, NEW b \in Merger, merge'[a] # Nil, merge'[b] # Nil
      PROVE  /\ DOMAIN merge'[a].files \cap merge'[b].ids = {}
             /\ a # b => DOMAIN merge'[a].files \cap DOMAIN merge'[b].files = {}
  <2>1. CASE a # m /\ b # m
    <3>1. merge'[a] = merge[a] /\ merge'[b] = merge[b]
      BY <1>2, <2>1
    <3> QED BY <1>1, <1>5, <3>1 DEF MergesInv
  <2>2. CASE a = m /\ b = m
    BY <1>2, <1>5, <2>2
  <2>3. CASE a = m /\ b # m
    <3>1. merge'[a] = job /\ merge'[b] = merge[b]
      BY <1>2, <2>3
    <3>2. Apart(job, merge[b])
      BY <1>5, <2>3, <3>1
    <3> QED BY <3>1, <3>2 DEF Apart
  <2>4. CASE a # m /\ b = m
    <3>1. merge'[b] = job /\ merge'[a] = merge[a]
      BY <1>2, <2>4
    <3>2. Apart(job, merge[a])
      BY <1>5, <2>4, <3>1
    <3> QED BY <3>1, <3>2 DEF Apart
  <2> QED BY <2>1, <2>2, <2>3, <2>4
<1>6. MergesInv'
  BY <1>4, <1>5 DEF MergesInv
<1>7. ASSUME NEW c \in Caller, fold'[c] # Nil PROVE FoldInv(c)'
  <2>1. FoldInv(c) /\ fold'[c] = fold[c]
    BY <1>7 DEF SessionInv
  <2>2. \A j, n : (PutBy(j, n) => PutBy(j, n)') /\ (DeletedSince(j, n) => DeletedSince(j, n)')
    BY SameWrites
  <2>3. call[c] # Nil => call'[c] # Nil /\ call'[c].key = call[c].key
    BY <1>7
  <2> QED BY <2>1, <2>2, <2>3 DEF FoldInv
<1> QED BY <1>1, <1>3, <1>6, <1>7, NothingReturned DEF SessionInv

(* The first critical section of Merge.                                    *)
LEMMA MergeStartInSession ==
  ASSUME SessionInv, NEW m \in Merger, MergeStart(m), returned' = Nil
  PROVE  SessionInv'
<1> DEFINE ids == DOMAIN data \ {activeFileID}
           snapshot == [k \in Key |-> IF keydir[k] # Nil /\ keydir[k].file \in ids
                                      THEN keydir[k] ELSE Nil]
           new == [ids |-> ids, snapshot |-> snapshot, todo |-> {k \in Key : snapshot[k] # Nil},
                   files |-> NoFile, current |-> 0, entries |-> [k \in Key |-> Nil]]
<1>0. PICK job : job = new
  OBVIOUS
<1>1. /\ open /\ SameStore /\ UNCHANGED <<open, closing, opens, fold, history, call>>
      /\ merge' = [merge EXCEPT ![m] = job]
  BY <1>0 DEF MergeStart, Unlocked, SameStore, diskVars, memVars, readVars
<1>2. /\ OpenInv' /\ DOMAIN data' = DOMAIN data /\ \A id \in DOMAIN data : Kept(id)
      /\ nextFileID \in Nat /\ nextFileID' \in Nat /\ nextFileID <= nextFileID'
      /\ \A j : JobInv(j) => JobInv(j)'
  BY <1>1, SameStoreKeeps
<1>3. /\ OpenInv /\ MergesInv /\ call \in [Caller -> Call \cup {Nil}]
      /\ keydir \in [Key -> Entry \cup {Nil}] /\ DOMAIN data \subseteq Nat
      /\ \A id \in DOMAIN data : id < nextFileID
      /\ \A n \in Merger : merge[n] # Nil => \A id \in DOMAIN merge[n].files : id \notin DOMAIN data
  BY <1>1 DEF SessionInv, OpenInv, IsFiles, MergesInv, JobInv
<1>4. /\ snapshot \in [Key -> Entry \cup {Nil}]
      /\ \A k \in Key : snapshot[k] # Nil => keydir[k] # Nil /\ snapshot[k] = keydir[k]
                                             /\ keydir[k].file \in ids
      /\ \A k \in Key : keydir[k] # Nil /\ keydir[k].file \in ids => snapshot[k] = keydir[k]
  BY <1>3
<1> HIDE DEF snapshot
<1>5. /\ job.ids = ids /\ job.snapshot = snapshot /\ job.todo = {k \in Key : snapshot[k] # Nil}
      /\ job.files = NoFile /\ job.current = 0 /\ job.entries = [k \in Key |-> Nil]
      /\ job = [ids |-> job.ids, snapshot |-> job.snapshot, todo |-> job.todo,
                files |-> job.files, current |-> job.current, entries |-> job.entries]
  BY <1>0
<1>6. DOMAIN NoFile = {} /\ IsFiles(NoFile)
  BY DEF NoFile, IsFiles
<1>7. IsJob(job)
  BY <1>3, <1>4, <1>5, <1>6 DEF IsJob
<1>8. \A k \in Key : CopyInv(job, k)
  <2> SUFFICES ASSUME NEW k \in Key PROVE CopyInv(job, k)
    OBVIOUS
  <2>1. keydir[k] # Nil => keydir[k].off \in 1..Len(data[keydir[k].file])
    BY <1>3, KeyFacts
  <2> QED BY <1>4, <1>5, <2>1 DEF CopyInv
<1>9. JobInv(job)
  BY <1>3, <1>5, <1>6, <1>7, <1>8 DEF JobInv
<1>10. ASSUME NEW n \in Merger, n # m, merge[n] # Nil
       PROVE  JobInv(merge[n])' /\ Apart(job, merge[n])
  <2>1. JobInv(merge[n]) /\ merge'[n] = merge[n]
    BY <1>1, <1>3, <1>10 DEF MergesInv, SessionInv
  <2> QED BY <1>2, <1>3, <1>5, <1>6, <1>10, <2>1 DEF Apart
<1>11. merge'[m] = job /\ \A n \in Merger : n # m => merge'[n] = merge[n]
  <2>1. merge = [n \in Merger |-> merge[n]]
    BY DEF SessionInv
  <2> QED BY <1>1, <2>1
<1>12. ASSUME NEW c \in Caller, call[c] # Nil PROVE CallInv(call[c])'
  <2> DEFINE x == call[c]
  <2>1. x \in Call /\ CallInv(x) /\ x' = x
    BY <1>1, <1>3, <1>12 DEF SessionInv
  <2> HIDE DEF x
  <2>2. \A n \in Merger : merge'[n] # Nil => x.entry.file \notin DOMAIN merge'[n].files
    <3> SUFFICES ASSUME NEW n \in Merger, merge'[n] # Nil
                 PROVE  x.entry.file \notin DOMAIN merge'[n].files
      OBVIOUS
    <3>1. CASE n = m
      BY <1>5, <1>6, <1>11, <3>1
    <3>2. CASE n # m
      <4>1. merge'[n] = merge[n] /\ merge[n] # Nil
        BY <1>11, <3>2
      <4> QED BY <1>1, <2>1, <4>1 DEF CallInv
    <3> QED BY <3>1, <3>2
  <2>3. CallInv(x)'
    BY <1>1, <1>2, <2>1, <2>2, CallStep
  <2> QED BY <2>3 DEF x
<1>13. job # Nil => JobInv(job)' /\ DOMAIN job.files \cap job.ids = {}
  BY <1>2, <1>5, <1>6, <1>9
<1> QED BY <1>1, <1>2, <1>3, <1>10, <1>12, <1>13, MergeStep

(* A copied record goes to the end of a file of the merge: the last one,   *)
(* or one with an id of its own.                                           *)
LEMMA MergeRecordInSession ==
  ASSUME SessionInv, NEW m \in Merger, NEW k \in Key, MergeRecord(m, k), returned' = Nil
  PROVE  SessionInv'
<1> DEFINE e == merge[m].snapshot[k]
           fits == merge[m].current # 0 /\ Len(merge[m].files[merge[m].current]) < MaxRecords
<1>1. PICK old : old = merge[m]
  OBVIOUS
<1>2. PICK id : id = IF fits THEN old.current ELSE nextFileID
  OBVIOUS
<1>3. PICK file : file = IF fits THEN old.files[id] ELSE <<>>
  OBVIOUS
<1>4. PICK r : r = data[e.file][e.off]
  OBVIOUS
<1>5. PICK job : job = [old EXCEPT !.todo = @ \ {k}, !.current = id,
                            !.files = With(@, id, Append(file, r)),
                            !.entries[k] = [file |-> id, off |-> Len(file) + 1, ts |-> e.ts]]
  OBVIOUS
<1>6. /\ open /\ ~closing /\ merge[m] # Nil /\ k \in old.todo /\ e.file \in DOMAIN data
      /\ nextFileID' = IF fits THEN nextFileID ELSE nextFileID + 1
      /\ UNCHANGED <<open, closing, opens, fold, history, call, data, keydir, activeFileID,
                     activeOffset, clock>>
  BY <1>1 DEF MergeRecord, Unlocked, diskVars, restVars, boundVars
<1>7. merge' = [merge EXCEPT ![m] = job]
  BY <1>1, <1>2, <1>3, <1>4, <1>5 DEF MergeRecord
<1>8. /\ OpenInv /\ MergesInv /\ JobInv(old) /\ IsJob(old) /\ CopyInv(old, k)
      /\ call \in [Caller -> Call \cup {Nil}] /\ nextFileID \in Nat \ {0}
  BY <1>1, <1>6 DEF SessionInv, OpenInv, MergesInv, JobInv
<1>9. /\ old.snapshot[k] # Nil /\ e.file \in old.ids /\ e \in Entry /\ r \in Record
      /\ e.off \in 1..Len(data[e.file])
  <2>1. old.snapshot[k] # Nil /\ e.file \in old.ids /\ e.off \in 1..Len(data[e.file])
    BY <1>1, <1>6, <1>8 DEF CopyInv
  <2>2. e \in Entry
    BY <1>1, <1>8, <2>1 DEF IsJob
  <2>3. data[e.file] \in Seq(Record)
    BY <1>6, <1>8 DEF OpenInv, IsFiles
  <2>4. data[e.file][e.off] \in Record
    BY <2>1, <2>3, SMTT(30)
  <2> QED BY <1>4, <2>1, <2>2, <2>4
<1>10. /\ id \in Nat \ {0} /\ file \in Seq(Record)
       /\ id \in DOMAIN old.files => file = old.files[id]
       /\ id \in DOMAIN old.files \/ id = nextFileID
       /\ nextFileID' \in Nat \ {0} /\ nextFileID <= nextFileID' /\ id < nextFileID'
  <2>1. /\ DOMAIN old.files \subseteq Nat \ {0} /\ old.current \in {0} \cup DOMAIN old.files
        /\ \A j \in DOMAIN old.files : old.files[j] \in Seq(Record) /\ j < nextFileID
    BY <1>8 DEF IsJob, IsFiles, JobInv
  <2>2. CASE fits
    <3>1. /\ id = old.current /\ id \in DOMAIN old.files /\ file = old.files[id]
          /\ nextFileID' = nextFileID
      BY <1>1, <1>2, <1>3, <1>6, <2>1, <2>2
    <3>2. nextFileID <= nextFileID'
      BY <1>8, <3>1, SMTT(30)
    <3> QED BY <1>8, <2>1, <3>1, <3>2
  <2>3. CASE ~fits
    <3>1. id = nextFileID /\ file = <<>> /\ nextFileID' = nextFileID + 1
      BY <1>2, <1>3, <1>6, <2>3
    <3>2. /\ nextFileID' \in Nat \ {0} /\ nextFileID <= nextFileID' /\ id < nextFileID'
          /\ ~(nextFileID < nextFileID) /\ <<>> \in Seq(Record)
      BY <1>8, <3>1, SMTT(30)
    <3> QED BY <1>8, <2>1, <3>1, <3>2
  <2> QED BY <2>2, <2>3
<1>11. PICK x : x = [file |-> id, off |-> Len(file) + 1, ts |-> e.ts]
  OBVIOUS
<1>12. /\ x \in Entry /\ x.file = id /\ x.off = Len(file) + 1
       /\ Append(file, r) \in Seq(Record)
       /\ Len(file) + 1 \in 1..Len(Append(file, r)) /\ Append(file, r)[Len(file) + 1] = r
       /\ \A o \in 1..Len(file) : o \in 1..Len(Append(file, r)) /\ Append(file, r)[o] = file[o]
  <2>1. /\ Append(file, r) \in Seq(Record) /\ Len(file) + 1 \in Nat \ {0}
        /\ Len(file) + 1 \in 1..Len(Append(file, r)) /\ Append(file, r)[Len(file) + 1] = r
        /\ \A o \in 1..Len(file) : o \in 1..Len(Append(file, r)) /\ Append(file, r)[o] = file[o]
    BY <1>9, <1>10, SMTT(30)
  <2>2. e.ts \in Nat
    BY <1>9 DEF Entry
  <2> QED BY <1>10, <1>11, <2>1, <2>2 DEF Entry
<1>13. /\ job.ids = old.ids /\ job.snapshot = old.snapshot /\ job.todo = old.todo \ {k}
       /\ job.current = id /\ job.files = With(old.files, id, Append(file, r))
       /\ job.entries = [old.entries EXCEPT ![k] = x]
       /\ job = [ids |-> job.ids, snapshot |-> job.snapshot, todo |-> job.todo,
                 files |-> job.files, current |-> job.current, entries |-> job.entries]
  <2>1. old = [ids |-> old.ids, snapshot |-> old.snapshot, todo |-> old.todo,
               files |-> old.files, current |-> old.current, entries |-> old.entries]
    BY <1>8 DEF IsJob
  <2>2. job = [old EXCEPT !.todo = old.todo \ {k}, !.current = id,
                          !.files = With(old.files, id, Append(file, r)),
                          !.entries = [old.entries EXCEPT ![k] = x]]
    BY <1>5, <1>11, <2>1
  <2> QED BY <2>1, <2>2
<1>14. /\ DOMAIN job.files = DOMAIN old.files \cup {id} /\ job.files[id] = Append(file, r)
       /\ \A j \in DOMAIN old.files : j # id => job.files[j] = old.files[j]
       /\ IsFiles(job.files)
  <2>1. /\ DOMAIN job.files = DOMAIN old.files \cup {id} /\ job.files[id] = Append(file, r)
        /\ \A j \in DOMAIN old.files : j # id => job.files[j] = old.files[j]
        /\ job.files = [j \in DOMAIN job.files |-> job.files[j]]
    BY <1>13 DEF With
  <2>2. \A j \in DOMAIN old.files : j \in Nat \ {0} /\ old.files[j] \in Seq(Record)
    BY <1>8 DEF IsJob, IsFiles
  <2>3. \A j \in DOMAIN job.files : j \in Nat \ {0} /\ job.files[j] \in Seq(Record)
    BY <1>10, <1>12, <2>1, <2>2
  <2>4. IsFiles(job.files)
    BY <2>1, <2>3 DEF IsFiles
  <2> QED BY <2>1, <2>4
<1>15. /\ job.entries \in [Key -> Entry \cup {Nil}] /\ job.entries[k] = x /\ IsJob(job)
       /\ \A j \in Key : j # k => job.entries[j] = old.entries[j]
  <2>1. /\ old.entries \in [Key -> Entry \cup {Nil}] /\ old.snapshot \in [Key -> Entry \cup {Nil}]
        /\ old.ids \subseteq Nat /\ old.todo \subseteq Key
    BY <1>8 DEF IsJob
  <2>2. /\ job.entries \in [Key -> Entry \cup {Nil}] /\ job.entries[k] = x
        /\ \A j \in Key : j # k => job.entries[j] = old.entries[j]
    BY <1>12, <1>13, <2>1
  <2>3. IsJob(job)
    BY <1>13, <1>14, <2>1, <2>2 DEF IsJob
  <2> QED BY <2>2, <2>3
<1>16. \A i, j : CopyInv(i, j) => CopyInv(i, j)'
  <2>1. data' = data /\ keydir' = keydir
    BY <1>6
  <2>2. ASSUME NEW i, NEW j, CopyInv(i, j) PROVE CopyInv(i, j)'
    BY <2>1, <2>2 DEF CopyInv
  <2> QED BY <2>2
<1>17. ASSUME NEW j \in Key PROVE CopyInv(job, j)
  <2>1. CopyInv(old, j)
    BY <1>8 DEF JobInv
  <2>2. CASE j = k
    <3>1. x # Nil
      BY <1>12, StoreAssumption
    <3>2. keydir[k] = old.snapshot[k] => r = data[keydir[k].file][keydir[k].off]
      BY <1>1, <1>4
    <3> QED BY <1>9, <1>12, <1>13, <1>14, <1>15, <2>1, <2>2, <3>1, <3>2 DEF CopyInv
  <2>3. CASE j # k
    <3>1. job.entries[j] = old.entries[j] /\ (j \in job.todo <=> j \in old.todo)
      BY <1>13, <1>15, <2>3
    <3>2. old.entries[j] # Nil =>
             /\ old.entries[j].file \in DOMAIN job.files
             /\ old.entries[j].off \in 1..Len(job.files[old.entries[j].file])
             /\ job.files[old.entries[j].file][old.entries[j].off]
                  = old.files[old.entries[j].file][old.entries[j].off]
      <4> SUFFICES ASSUME old.entries[j] # Nil
                   PROVE  /\ old.entries[j].file \in DOMAIN job.files
                          /\ old.entries[j].off \in 1..Len(job.files[old.entries[j].file])
                          /\ job.files[old.entries[j].file][old.entries[j].off]
                               = old.files[old.entries[j].file][old.entries[j].off]
        OBVIOUS
      <4>1. /\ old.entries[j].file \in DOMAIN old.files
            /\ old.entries[j].off \in 1..Len(old.files[old.entries[j].file])
        BY <2>1 DEF CopyInv
      <4>2. CASE old.entries[j].file = id
        BY <1>10, <1>12, <1>14, <4>1, <4>2
      <4>3. CASE old.entries[j].file # id
        BY <1>14, <4>1, <4>3
      <4> QED BY <4>2, <4>3
    <3> QED BY <1>13, <2>1, <3>1, <3>2 DEF CopyInv
  <2> QED BY <2>2, <2>3
<1>18. \A i \in Nat : i < nextFileID => i < nextFileID'
  BY <1>8, <1>10, SMTT(30)
<1>19. nextFileID \notin DOMAIN data /\ ~(nextFileID < nextFileID)
  <2>1. ~(nextFileID < nextFileID)
    BY <1>8, SMTT(30)
  <2> QED BY <1>8, <2>1 DEF OpenInv
<1>20. JobInv(job)'
  <2>1. /\ DOMAIN old.files \subseteq Nat /\ old.ids \subseteq Nat
        /\ \A i \in DOMAIN old.files : i < nextFileID /\ i \notin DOMAIN data
        /\ \A i \in old.ids : i < nextFileID /\ i # activeFileID
    BY <1>8 DEF JobInv, IsJob, IsFiles
  <2>2. \A i \in DOMAIN job.files : i < nextFileID' /\ i \notin DOMAIN data
    BY <1>10, <1>14, <1>18, <1>19, <2>1
  <2>3. \A i \in job.ids : i < nextFileID' /\ i # activeFileID
    BY <1>13, <1>18, <2>1
  <2>4. \A j \in Key : CopyInv(job, j)'
    BY <1>16, <1>17
  <2> QED BY <1>6, <1>15, <2>2, <2>3, <2>4 DEF JobInv
<1>21. merge'[m] = job /\ \A n \in Merger : n # m => merge'[n] = merge[n]
  <2>1. merge = [n \in Merger |-> merge[n]]
    BY DEF SessionInv
  <2> QED BY <1>7, <2>1
<1>22. ASSUME NEW n \in Merger, n # m, merge[n] # Nil
       PROVE  JobInv(merge[n])' /\ Apart(job, merge[n])
  <2>1. PICK i : i = merge[n]
    OBVIOUS
  <2>2. JobInv(i) /\ merge'[n] = i
    BY <1>8, <1>21, <1>22, <2>1 DEF MergesInv
  <2>3. /\ \A d \in i.ids : d < nextFileID /\ d # activeFileID
        /\ \A d \in DOMAIN i.files : d < nextFileID /\ d \notin DOMAIN data
    BY <2>2 DEF JobInv
  <2>4. \A j \in Key : CopyInv(i, j)'
    BY <1>16, <2>2 DEF JobInv
  <2>5. JobInv(i)'
    BY <1>6, <1>8, <1>10, <2>2, <2>3, <2>4, JobStep
  <2>6. Apart(old, i)
    BY <1>1, <1>6, <1>8, <1>22, <2>1 DEF MergesInv, Apart
  <2>7. id \in DOMAIN old.files \/ (id \notin i.ids /\ id \notin DOMAIN i.files)
    BY <1>10, <1>19, <2>3
  <2>8. Apart(job, i)
    BY <1>13, <1>14, <2>6, <2>7 DEF Apart
  <2> QED BY <2>1, <2>2, <2>5, <2>8
<1>23. DOMAIN job.files \cap job.ids = {}
  <2>1. DOMAIN old.files \cap old.ids = {} /\ \A d \in old.ids : d < nextFileID
    BY <1>1, <1>6, <1>8 DEF MergesInv, JobInv
  <2> QED BY <1>10, <1>13, <1>14, <1>19, <2>1
<1>24. OpenInv'
  <2>1. \A j \in Key : KeyInv(j) => KeyInv(j)'
    BY <1>6 DEF KeyInv, Found
  <2>2. \A i \in DOMAIN data : i < nextFileID'
    BY <1>8, <1>18 DEF OpenInv, IsFiles
  <2> QED BY <1>6, <1>8, <1>10, <2>1, <2>2 DEF OpenInv
<1>25. ASSUME NEW c \in Caller, call[c] # Nil PROVE CallInv(call[c])'
  <2>1. PICK y : y = call[c]
    OBVIOUS
  <2>2. y \in Call /\ CallInv(y)
    BY <1>8, <1>25, <2>1 DEF SessionInv
  <2>3. /\ y.entry.file < nextFileID
        /\ \A n \in Merger : merge[n] # Nil => y.entry.file \notin DOMAIN merge[n].files
    BY <1>6, <2>2 DEF CallInv
  <2>4. \A n \in Merger : merge'[n] # Nil => y.entry.file \notin DOMAIN merge'[n].files
    <3>1. y.entry.file \notin DOMAIN job.files
      BY <1>1, <1>6, <1>10, <1>14, <1>19, <2>3
    <3> QED BY <1>21, <2>3, <3>1
  <2>5. y.entry.file \in DOMAIN data => Kept(y.entry.file)
    BY <1>6 DEF Kept
  <2>6. CallInv(y)'
    BY <1>6, <1>8, <1>10, <2>2, <2>4, <2>5, CallStep
  <2> QED BY <1>6, <2>1, <2>6
<1> QED BY <1>6, <1>7, <1>8, <1>20, <1>22, <1>23, <1>24, <1>25, MergeStep

(* Merged files appear under ids of their own, old ones go.                *)
Published(job, new, gone) ==
    /\ DOMAIN data' = (DOMAIN data \cup new) \ gone /\ IsFiles(data')
    /\ new \cap DOMAIN data = {} /\ new \cap gone = {}
    /\ \A id \in DOMAIN data \ gone : data'[id] = data[id] /\ Kept(id)
    /\ \A id \in new : data'[id] = job.files[id]
    /\ \A id \in DOMAIN data' : id < nextFileID
    /\ activeFileID \in DOMAIN data \ gone

(* What renaming the new files and removing the old ones comes to.         *)
LEMMA MergedFilesFacts ==
  ASSUME SessionInv, open, NEW m \in Merger, merge[m] # Nil, NEW job, job = merge[m],
         NEW new, new \subseteq DOMAIN job.files, NEW gone, gone \subseteq job.ids,
         NEW bare, MergedFiles(job, new, bare, gone)
  PROVE  Published(job, new, gone)
<1>1. /\ OpenInv /\ MergesInv /\ JobInv(job) /\ IsFiles(job.files) /\ IsFiles(data)
      /\ activeFileID \in DOMAIN data /\ \A id \in DOMAIN data : id < nextFileID
  BY DEF SessionInv, OpenInv, MergesInv, JobInv, IsJob
<1>2. /\ \A id \in DOMAIN job.files : id < nextFileID /\ id \notin DOMAIN data
      /\ activeFileID \notin job.ids /\ DOMAIN job.files \cap job.ids = {}
  BY <1>1 DEF JobInv, MergesInv
<1>3. /\ DOMAIN data' = (DOMAIN data \cup new) \ gone
      /\ data' = [id \in DOMAIN data' |-> IF id \in new THEN job.files[id] ELSE data[id]]
  BY DEF MergedFiles
<1>4. new \cap DOMAIN data = {} /\ new \cap gone = {} /\ activeFileID \in DOMAIN data \ gone
  BY <1>1, <1>2
<1>5. \A id \in DOMAIN data \ gone : data'[id] = data[id] /\ id \in DOMAIN data'
  BY <1>3, <1>4
<1>6. \A id \in new : data'[id] = job.files[id]
  BY <1>3, <1>4
<1>7. \A id \in DOMAIN data \ gone : Kept(id)
  BY <1>5 DEF Kept
<1>8. \A id \in DOMAIN data' : id < nextFileID
  BY <1>1, <1>2, <1>3
<1>9. IsFiles(data')
  <2>1. /\ \A id \in DOMAIN data : id \in Nat \ {0} /\ data[id] \in Seq(Record)
        /\ \A id \in DOMAIN job.files : id \in Nat \ {0} /\ job.files[id] \in Seq(Record)
    BY <1>1 DEF IsFiles
  <2>2. \A id \in DOMAIN data' : id \in Nat \ {0} /\ data'[id] \in Seq(Record)
    BY <1>3, <1>5, <1>6, <2>1
  <2>3. data' = [id \in DOMAIN data' |-> data'[id]]
    BY <1>3
  <2> QED BY <2>2, <2>3 DEF IsFiles
<1> QED BY <1>3, <1>4, <1>5, <1>6, <1>7, <1>8, <1>9 DEF Published

(* Entries move to copies of their records, or do not lead into the files  *)
(* that go.                                                                *)
EntriesFollow(job, new, gone) ==
    \A k \in Key :
       \/ keydir'[k] = keydir[k] /\ (keydir[k] # Nil => keydir[k].file \notin gone)
       \/ /\ keydir[k] # Nil /\ keydir[k] = job.snapshot[k] /\ job.entries[k] # Nil
          /\ keydir'[k] = job.entries[k] /\ new = DOMAIN job.files

(* The end of a merge.                                                     *)
LEMMA MergeEnds ==
  ASSUME SessionInv, open, returned' = Nil, NEW m \in Merger, merge[m] # Nil,
         NEW job, job = merge[m],
         NEW new, new \subseteq DOMAIN job.files, NEW gone, gone \subseteq job.ids,
         NEW bare, MergedFiles(job, new, bare, gone),
         merge' = [merge EXCEPT ![m] = Nil],
         UNCHANGED <<open, closing, opens, fold, history, clock, activeFileID, activeOffset,
                     nextFileID>>,
         keydir' \in [Key -> Entry \cup {Nil}],
         EntriesFollow(job, new, gone), Hit(gone)
  PROVE  SessionInv'
<1> USE DEF EntriesFollow, Hit
<1>1. /\ DOMAIN data' = (DOMAIN data \cup new) \ gone /\ IsFiles(data')
      /\ new \cap DOMAIN data = {} /\ new \cap gone = {}
      /\ \A id \in DOMAIN data \ gone : data'[id] = data[id] /\ Kept(id)
      /\ \A id \in new : data'[id] = job.files[id]
      /\ \A id \in DOMAIN data' : id < nextFileID
      /\ activeFileID \in DOMAIN data \ gone
  <2>1. Published(job, new, gone)
    BY MergedFilesFacts
  <2> QED BY <2>1 DEF Published
<1>2. /\ OpenInv /\ MergesInv /\ JobInv(job) /\ IsJob(job) /\ \A k \in Key : CopyInv(job, k)
      /\ history \in Seq(Record) /\ nextFileID \in Nat /\ nextFileID' \in Nat
  BY DEF SessionInv, OpenInv, MergesInv, JobInv
<1>3. nextFileID <= nextFileID' /\ HistoryKept /\ Len(history) \in Nat
      /\ \A p : p \notin (Len(history) + 1)..Len(history')
  <2>1. nextFileID <= nextFileID'
    BY <1>2, SMTT(30)
  <2>2. Len(history) \in Nat /\ Len(history) <= Len(history)
    BY <1>2, SMTT(30)
  <2>3. \A p : p \notin (Len(history) + 1)..Len(history)
    BY <2>2, SMTT(30)
  <2> QED BY <1>2, <2>1, <2>2, <2>3 DEF HistoryKept
<1>4. ASSUME NEW k \in Key PROVE KeyInv(k)'
  <2>1. KeyInv(k) /\ CopyInv(job, k)
    BY <1>2 DEF OpenInv
  <2>2. CASE keydir'[k] = keydir[k] /\ (keydir[k] # Nil => keydir[k].file \notin gone)
    <3>1. ASSUME NEW r \in Record, Found(keydir[k], r) PROVE Found(keydir[k], r)'
      <4>1. keydir[k] \in Entry /\ keydir[k] # Nil /\ keydir[k].file \in DOMAIN data
        BY <3>1, StoreAssumption DEF Found
      <4>2. /\ data'[keydir[k].file] = data[keydir[k].file] /\ keydir[k].file \in DOMAIN data'
        BY <1>1, <2>2, <4>1
      <4> QED BY <2>2, <3>1, <4>1, <4>2 DEF Found
    <3> QED BY <1>2, <1>3, <2>1, <2>2, <3>1, KeyStep
  <2>3. CASE /\ keydir[k] # Nil /\ keydir[k] = job.snapshot[k] /\ job.entries[k] # Nil
             /\ keydir'[k] = job.entries[k] /\ new = DOMAIN job.files
    <3>1. /\ job.entries[k] \in Entry /\ job.entries[k].file \in new
          /\ job.entries[k].off \in 1..Len(job.files[job.entries[k].file])
          /\ job.files[job.entries[k].file][job.entries[k].off]
               = data[keydir[k].file][keydir[k].off]
      BY <1>2, <2>1, <2>3 DEF CopyInv, IsJob
    <3>2. /\ job.entries[k].file \in DOMAIN data'
          /\ data'[job.entries[k].file] = job.files[job.entries[k].file]
      BY <1>1, <3>1
    <3>3. ASSUME NEW r \in Record, Found(keydir[k], r) PROVE Found(keydir[k], r)'
      <4>1. data[keydir[k].file][keydir[k].off] = r
        BY <3>3 DEF Found
      <4> QED BY <2>3, <3>1, <3>2, <4>1 DEF Found
    <3> QED BY <1>2, <1>3, <2>1, <2>3, <3>3, KeyStep
  <2> QED BY <2>2, <2>3
<1>5. OpenInv'
  <2>1. nextFileID' \in Nat \ {0} /\ clock' \in Nat /\ activeOffset' = Len(data[activeFileID])
    BY <1>2 DEF OpenInv
  <2>2. activeFileID' \in DOMAIN data' /\ activeOffset' = Len(data'[activeFileID'])
    BY <1>1, <2>1
  <2>3. \A id \in DOMAIN data' : id < nextFileID'
    BY <1>1
  <2>4. history' \in Seq(Record)
    BY <1>2
  <2> QED BY <1>1, <1>4, <2>1, <2>2, <2>3, <2>4 DEF OpenInv
<1>6. ASSUME NEW n \in Merger, n # m, merge[n] # Nil PROVE JobInv(merge[n])'
  <2>1. PICK i : i = merge[n]
    OBVIOUS
  <2>2. JobInv(i) /\ merge'[n] = i
    <3>1. merge = [d \in Merger |-> merge[d]]
      BY DEF SessionInv
    <3>2. merge'[n] = merge[n]
      BY <1>6, <3>1
    <3> QED BY <1>2, <1>6, <2>1, <3>2 DEF MergesInv
  <2>3. /\ DOMAIN job.files \cap i.ids = {} /\ DOMAIN job.files \cap DOMAIN i.files = {}
    BY <1>2, <1>6, <2>1 DEF MergesInv
  <2>4. \A id \in i.ids : id \in DOMAIN data' => id \in DOMAIN data /\ Kept(id)
    BY <1>1, <2>3
  <2>5. ASSUME NEW k \in Key PROVE CopyInv(i, k)'
    <3>1. CASE keydir'[k] = keydir[k] /\ (keydir[k] # Nil => keydir[k].file \notin gone)
      <4>1. keydir[k] # Nil => keydir[k].file \in DOMAIN data
        BY <1>2, KeyFacts
      <4>2. keydir[k] # Nil => Kept(keydir[k].file)
        BY <1>1, <3>1, <4>1
      <4> QED BY <1>2, <2>2, <2>4, <3>1, <4>2, CopyStep
    <3>2. CASE /\ keydir[k] # Nil /\ keydir[k] = job.snapshot[k] /\ job.entries[k] # Nil
               /\ keydir'[k] = job.entries[k] /\ new = DOMAIN job.files
      <4>1. keydir'[k] # Nil /\ keydir'[k].file \notin i.ids
        BY <1>2, <2>3, <3>2 DEF CopyInv
      <4> QED BY <1>2, <2>2, <2>4, <4>1, CopyStep
    <3> QED BY <3>1, <3>2
  <2>6. \A id \in DOMAIN i.files : id \notin DOMAIN data'
    BY <1>1, <2>2, <2>3 DEF JobInv
  <2>7. activeFileID' \notin i.ids
    BY <2>2 DEF JobInv
  <2>8. JobInv(i)'
    BY <1>2, <1>3, <2>2, <2>5, <2>6, <2>7, JobStep
  <2> QED BY <2>2, <2>8
<1>7. ASSUME NEW c \in Caller, call'[c] # Nil PROVE CallInv(call[c])'
  <2>1. PICK y : y = call[c]
    OBVIOUS
  <2>2. /\ y \in Call /\ CallInv(y) /\ y # Nil
        /\ call'[c].key = y.key /\ call'[c].entry = y.entry /\ call'[c].want = y.want
    BY <1>7, <2>1 DEF SessionInv
  <2>3. /\ y.entry.file < nextFileID
        /\ \A n \in Merger : merge[n] # Nil => y.entry.file \notin DOMAIN merge[n].files
    BY <2>2 DEF CallInv
  <2>4. \A n \in Merger : merge'[n] # Nil => merge[n] # Nil /\ merge'[n] = merge[n]
    <3>1. merge = [d \in Merger |-> merge[d]]
      BY DEF SessionInv
    <3> QED BY <3>1
  <2>5. \A n \in Merger : merge'[n] # Nil => y.entry.file \notin DOMAIN merge'[n].files
    BY <2>3, <2>4
  <2>6. CASE y.entry.file \in gone
    <3>1. call'[c].disturbed /\ y.entry.file \notin DOMAIN data'
      BY <1>1, <2>1, <2>2, <2>6
    <3>2. y.entry.file < nextFileID'
      BY <2>3
    <3> QED BY <2>2, <2>5, <3>1, <3>2 DEF CallInv
  <2>7. CASE y.entry.file \notin gone
    <3>1. call'[c] = y
      BY <2>1, <2>2, <2>7
    <3>2. y.entry.file \notin new
      BY <2>3
    <3>3. /\ y.entry.file \in DOMAIN data' => y.entry.file \in DOMAIN data
          /\ y.entry.file \in DOMAIN data => Kept(y.entry.file)
      BY <1>1, <2>7, <3>2
    <3>4. CallInv(y)'
      BY <1>2, <1>3, <2>2, <2>5, <3>3, CallStep
    <3> QED BY <3>1, <3>4
  <2> QED BY <2>6, <2>7
<1> QED BY <1>5, <1>6, <1>7, MergeStep

(* The last critical section: no entry that is left leads into the files   *)
(* that are removed.                                                       *)
LEMMA MergePublishInSession ==
  ASSUME SessionInv, NEW m \in Merger, MergePublish(m), returned' = Nil
  PROVE  SessionInv'
<1>1. PICK job : job = merge[m]
  OBVIOUS
<1>2. /\ open /\ merge[m] # Nil /\ job.todo = {} /\ merge' = [merge EXCEPT ![m] = Nil]
      /\ MergedFiles(job, DOMAIN job.files, {}, job.ids)
      /\ keydir' = MergedEntries(job) /\ closeReaders(job.ids)
      /\ UNCHANGED <<open, closing, opens, fold, history, clock, activeFileID, activeOffset,
                     nextFileID>>
  BY <1>1 DEF MergePublish, Unlocked, restVars, boundVars
<1>3. /\ keydir \in [Key -> Entry \cup {Nil}] /\ IsJob(job) /\ \A k \in Key : CopyInv(job, k)
  BY <1>1, <1>2 DEF SessionInv, OpenInv, MergesInv, JobInv
<1>4. ASSUME NEW k \in Key
      PROVE  \/ keydir'[k] = keydir[k] /\ (keydir[k] # Nil => keydir[k].file \notin job.ids)
             \/ /\ keydir[k] # Nil /\ keydir[k] = job.snapshot[k] /\ job.entries[k] # Nil
                /\ keydir'[k] = job.entries[k]
  <2>1. CASE job.entries[k] # Nil /\ keydir[k] = job.snapshot[k]
    <3>1. keydir'[k] = job.entries[k]
      BY <1>2, <2>1 DEF MergedEntries
    <3> QED BY <1>3, <2>1, <3>1 DEF CopyInv
  <2>2. CASE ~(job.entries[k] # Nil /\ keydir[k] = job.snapshot[k])
    <3>1. keydir'[k] = keydir[k]
      BY <1>2, <2>2 DEF MergedEntries
    <3>2. keydir[k] # Nil => keydir[k].file \notin job.ids
      BY <1>2, <1>3, <2>2 DEF CopyInv
    <3> QED BY <3>1, <3>2
  <2> QED BY <2>1, <2>2
<1>5. keydir' \in [Key -> Entry \cup {Nil}]
  <2>1. job.entries \in [Key -> Entry \cup {Nil}]
    BY <1>3 DEF IsJob
  <2>2. \A k \in Key : keydir'[k] \in Entry \cup {Nil}
    BY <1>3, <1>4, <2>1
  <2>3. keydir' = [k \in Key |-> keydir'[k]]
    BY <1>2 DEF MergedEntries
  <2> QED BY <2>2, <2>3
<1>6. Hit(job.ids)
  BY <1>2, ClosedReaders
<1>7. EntriesFollow(job, DOMAIN job.files, job.ids)
  BY <1>4 DEF EntriesFollow
<1> QED BY <1>1, <1>2, <1>5, <1>6, <1>7, MergeEnds

(* A failing Merge leaves at most copies behind.                           *)
LEMMA MergeFailsInSession ==
  ASSUME SessionInv, NEW m \in Merger, MergeFails(m), returned' = Nil
  PROVE  SessionInv'
<1>1. PICK job : job = merge[m]
  OBVIOUS
<1>2. PICK new, bare : MergedFiles(job, new, bare, {}) /\ new \subseteq DOMAIN job.files
  BY <1>1 DEF MergeFails, FirstOf
<1>3. /\ merge[m] # Nil /\ merge' = [merge EXCEPT ![m] = Nil]
      /\ UNCHANGED <<open, closing, opens, fold, history, clock, activeFileID, activeOffset,
                     nextFileID, keydir, call>>
  BY DEF MergeFails, memVars, readVars, restVars, boundVars
<1>4. /\ open /\ keydir \in [Key -> Entry \cup {Nil}] /\ call \in [Caller -> Call \cup {Nil}]
  BY <1>3 DEF SessionInv, OpenInv
<1>5. EntriesFollow(job, new, {}) /\ Hit({})
  BY <1>3, <1>4 DEF EntriesFollow, Hit
<1> QED BY <1>1, <1>2, <1>3, <1>4, <1>5, MergeEnds

-----------------------------------------------------------------------------
(* The theorems.                                                           *)

(* Every step keeps SessionInv.                                            *)
LEMMA SessionStep ==
  ASSUME OneSession, SessionInv, Next
  PROVE  SessionInv'
<1>1. CASE ReturnNext
  BY <1>1, ReturnsKeep DEF ReturnNext
<1>2. CASE returned' = Nil /\ WriteNext
  <2>1. ASSUME NEW k \in Key, NEW v \in Value \cup {Tombstone}, NEW d \in ClockSteps, NEW entry,
               Write(k, v, clock + d, entry),
               IF v = Tombstone THEN entry = Nil
               ELSE entry = [file |-> activeFileID', off |-> activeOffset', ts |-> clock + d]
        PROVE  SessionInv'
    <3>1. clock \in Nat
      BY <2>1 DEF Write, Unlocked, SessionInv, OpenInv
    <3>2. clock + d \in Nat
      BY <2>1, <3>1, StoreAssumption, SMTT(30)
    <3> QED BY <1>2, <2>1, <3>2, WriteInSession
  <2>2. ASSUME NEW k \in Key, NEW v \in Value, Put(k, v) PROVE SessionInv'
    <3>1. PICK d \in ClockSteps :
             Write(k, v, clock + d, [file |-> activeFileID', off |-> activeOffset', ts |-> clock + d])
      BY <2>2 DEF Put
    <3>2. v # Tombstone
      BY StoreAssumption
    <3> QED BY <2>1, <3>1, <3>2
  <2>3. ASSUME NEW k \in Key, Delete(k) PROVE SessionInv'
    BY <2>1, <2>3 DEF Delete
  <2>4. CASE OpenWithOptions
    <3>1. opens < 0 /\ opens \in Nat
      BY <2>4 DEF OpenWithOptions, OneSession, SessionInv
    <3> QED BY <3>1, SMTT(30)
  <2>5. ASSUME NEW f \in WriteFragments, WriteFailsAfterRotation(f) PROVE SessionInv'
    <3>1. f = "none"
      BY DEF OneSession
    <3> QED BY <1>2, <2>5, <3>1, FailureAfterRotationInSession
  <2> QED BY <1>2, <2>2, <2>3, <2>4, <2>5, QuietKeeps, CloseInSession, CloseEndsInSession DEF WriteNext
<1>3. CASE returned' = Nil /\ CrashNext
  <2>1. /\ ForgetCalls /\ ~open' /\ ~closing' /\ opens' = opens
    BY <1>3 DEF CrashNext, Crash, CrashInRotation, boundVars
  <2> QED BY <1>3, <2>1, StopKeeps
<1>4. CASE returned' = Nil /\ MergeNext
  <2>1. ASSUME NEW m \in Merger, CrashInMerge(m) PROVE SessionInv'
    <3>1. /\ ForgetCalls /\ ~open' /\ ~closing' /\ opens' = opens
      BY <2>1 DEF CrashInMerge, Unlocked, restVars, boundVars
    <3> QED BY <1>4, <3>1, StopKeeps
  <2> QED BY <1>4, <2>1, MergeStartInSession, MergePublishInSession, MergeFailsInSession,
             MergeRecordInSession DEF MergeNext
<1>5. CASE returned' = Nil /\ ReadNext
  BY <1>5, ReadsKeep DEF ReadNext
<1> QED BY <1>1, <1>2, <1>3, <1>4, <1>5 DEF Next

(* A stuttering step keeps SessionInv.                                     *)
LEMMA SessionStutter ==
  ASSUME SessionInv, UNCHANGED vars
  PROVE  SessionInv'
<1>1. SameStore /\ UNCHANGED <<open, closing, opens, merge, call, fold>> /\ returned' = returned
  BY DEF vars, SameStore, diskVars, memVars, opVars, readVars, restVars, boundVars
<1> QED BY <1>1, NothingKeeps

(* In a session, from Open to Close or a crash, writes, rotations, merges  *)
(* and reads of any number of callers preserve SessionInv.                 *)
THEOREM SessionInvariant ==
  ASSUME OneSession
  PROVE  Spec => []SessionInv
<1>1. Init => SessionInv
  BY InitSession
<1>2. SessionInv /\ [Next]_vars => SessionInv'
  BY SessionStep, SessionStutter
<1> QED BY <1>1, <1>2, PTL DEF Spec

(* README.md: the keydir "maps each key to its latest on-disk location":   *)
(* in a session that holds whatever merges, of any number of mergers at a  *)
(* time, have moved and removed.                                           *)
THEOREM PutKeptInSession ==
  ASSUME OneSession
  PROVE  Spec => []PutIsKept
<1>1. SessionInv => PutIsKept
  BY KeyFacts DEF SessionInv, PutIsKept
<1> QED BY <1>1, SessionInvariant, PTL

(* A key deleted while merges copy its record stays deleted when they      *)
(* publish.                                                                *)
THEOREM DeletedInSession ==
  ASSUME OneSession
  PROVE  Spec => []DeletedStaysDeleted
<1>1. SessionInv => DeletedStaysDeleted
  BY KeyFacts DEF SessionInv, DeletedStaysDeleted
<1> QED BY <1>1, SessionInvariant, PTL

(* A Get that writes, rotations or merges overtake after its lookup        *)
(* returns the value its key had then, or an error.                        *)
THEOREM GetsItsValue ==
  ASSUME OneSession
  PROVE  Spec => []GetReturnsItsValue
<1>1. SessionInv => GetReturnsItsValue
  BY DEF SessionInv
<1> QED BY <1>1, SessionInvariant, PTL

(* A Get fails only because of a Close, or of a merge that removed the     *)
(* file it was about to read.                                              *)
THEOREM GetsFailForAReason ==
  ASSUME OneSession
  PROVE  Spec => []GetFailsForAReason
<1>1. SessionInv => GetFailsForAReason
  BY DEF SessionInv
<1> QED BY <1>1, SessionInvariant, PTL

(* A Fold visits every key that was there when it began and was not        *)
(* deleted meanwhile.                                                      *)
THEOREM FoldsAreComplete ==
  ASSUME OneSession
  PROVE  Spec => []FoldIsComplete
<1>1. SessionInv => FoldIsComplete
  BY DEF SessionInv
<1> QED BY <1>1, SessionInvariant, PTL

(* Only Put and the end of a merge change the keydir of an open store, and *)
(* the latter brings no key back.                                          *)
LEMMA RevivesByPut ==
  ASSUME OneSession, SessionInv, [Next]_vars
  PROVE  ReviveStep
<1>1. CASE keydir' = keydir
  BY <1>1 DEF ReviveStep
<1>2. ASSUME NEW k \in Key, NEW v, NEW t, NEW entry, Write(k, v, t, entry) PROVE ReviveStep
  <2> DEFINE r == [ts |-> t, key |-> k, value |-> v]
  <2>1. /\ keydir' = [keydir EXCEPT ![k] = entry] /\ history' = Append(history, r)
        /\ history \in Seq(Record) /\ keydir \in [Key -> Entry \cup {Nil}] /\ r.key = k
    BY <1>2 DEF Write, Unlocked, SessionInv, OpenInv
  <2> HIDE DEF r
  <2>2. Len(history') > Len(history) /\ history'[Len(history')] = r
    BY <2>1, SMTT(30)
  <2>3. \A j \in Key : keydir[j] = Nil /\ keydir'[j] # Nil => j = k
    BY <2>1
  <2> QED BY <2>1, <2>2, <2>3 DEF ReviveStep
<1>3. ASSUME NEW m \in Merger, MergePublish(m) PROVE ReviveStep
  <2>1. open /\ merge[m] # Nil /\ keydir' = MergedEntries(merge[m])
    BY <1>3 DEF MergePublish, Unlocked
  <2>2. \A k \in Key : CopyInv(merge[m], k)
    BY <2>1 DEF SessionInv, MergesInv, JobInv
  <2>3. \A k \in Key : keydir[k] = Nil => keydir'[k] = Nil
    BY <2>1, <2>2 DEF MergedEntries, CopyInv
  <2> QED BY <2>3 DEF ReviveStep
<1>4. CASE OpenWithOptions
  <2>1. opens < 0 /\ opens \in Nat
    BY <1>4 DEF OpenWithOptions, OneSession, SessionInv
  <2> QED BY <2>1, SMTT(30)
<1>5. CASE UNCHANGED vars
  BY <1>1, <1>5 DEF vars, memVars
<1>6. CASE ReturnNext
  BY <1>1, <1>6 DEF ReturnNext, openReader, readRecordAtEntry, FoldReturns, memVars
<1>7. CASE WriteNext
  <2>1. CASE \E f \in WriteFragments : WriteFails(f) \/ WriteFailsAfterRotation(f)
    BY <1>1, <2>1 DEF WriteFails, WriteFailsAfterRotation, memVars
  <2>2. CASE RotationFails \/ Sync \/ Close \/ CloseEnds
    BY <1>1, <2>2 DEF RotationFails, Sync, Close, CloseEnds, memVars
  <2>3. CASE \E k \in Key : Delete(k) \/ \E v \in Value : Put(k, v)
    BY <1>2, <2>3 DEF Put, Delete
  <2> QED BY <1>4, <1>7, <2>1, <2>2, <2>3 DEF WriteNext
<1>8. CASE CrashNext
  BY <1>1, <1>8 DEF CrashNext, Crash, CrashInRotation
<1>9. CASE MergeNext
  <2>1. ASSUME NEW m \in Merger, MergeStart(m) \/ MergeFails(m) \/ CrashInMerge(m) PROVE ReviveStep
    BY <1>1, <2>1 DEF MergeStart, MergeFails, CrashInMerge, memVars
  <2>2. ASSUME NEW m \in Merger, NEW k \in Key, MergeRecord(m, k) PROVE ReviveStep
    BY <1>1, <2>2 DEF MergeRecord
  <2> QED BY <1>3, <1>9, <2>1, <2>2 DEF MergeNext
<1>10. CASE ReadNext
  BY <1>1, <1>10 DEF ReadNext, Fold, Get, FoldKey, memVars
<1> QED BY <1>5, <1>6, <1>7, <1>8, <1>9, <1>10 DEF Next

(* While the store is open only a Put brings a key into the keydir: the    *)
(* end of a Merge does not bring back a key deleted while it was copying.  *)
THEOREM RevivedByPutOnly ==
  ASSUME OneSession
  PROVE  Spec => OnlyPutRevives
<1>1. SessionInv /\ [Next]_vars => [ReviveStep]_vars
  BY RevivesByPut
<1> QED BY <1>1, SessionInvariant, PTL DEF Spec, OnlyPutRevives

(* The cache of readers never keeps a file open that a merge has removed,  *)
(* restarts and crashes included, whatever the constants.                  *)
THEOREM ReadersOfFiles == Spec => []ReadersAreOfFiles
<1>1. Init => ReadersAreOfFiles
  BY DEF Init, ReadersAreOfFiles
<1>2. ASSUME ReadersAreOfFiles, [Next]_vars PROVE ReadersAreOfFiles'
  <2>1. CASE readers' = readers /\ DOMAIN data \subseteq DOMAIN data'
    BY <1>2, <2>1 DEF ReadersAreOfFiles
  <2>2. CASE readers' = {}
    BY <2>2 DEF ReadersAreOfFiles
  <2>3. CASE UNCHANGED vars
    BY <2>1, <2>3 DEF vars, diskVars, opVars, readVars
  <2>4. CASE ReturnNext
    <3>1. ASSUME NEW c \in Caller, readRecordAtEntry(c) \/ FoldReturns(c) PROVE ReadersAreOfFiles'
      BY <2>1, <3>1 DEF readRecordAtEntry, FoldReturns, diskVars
    <3>2. ASSUME NEW c \in Caller, openReader(c) PROVE ReadersAreOfFiles'
      BY <1>2, <3>2 DEF openReader, ReadersAreOfFiles, diskVars
    <3> QED BY <2>4, <3>1, <3>2 DEF ReturnNext
  <2>5. CASE WriteNext
    <3>1. ASSUME NEW k, NEW v, NEW t, NEW entry, Write(k, v, t, entry) PROVE ReadersAreOfFiles'
      BY <2>1, <3>1 DEF Write, appendRecordLocked, With, opVars, readVars
    <3>2. ASSUME NEW f, WriteFails(f) PROVE ReadersAreOfFiles'
      BY <2>1, <3>2 DEF WriteFails, opVars, readVars
    <3>6. ASSUME NEW f, WriteFailsAfterRotation(f) PROVE ReadersAreOfFiles'
      BY <2>1, <3>6 DEF WriteFailsAfterRotation, With, opVars, readVars
    <3>3. CASE RotationFails \/ Sync \/ CloseEnds
      BY <2>1, <3>3 DEF RotationFails, Sync, CloseEnds, diskVars, opVars, readVars
    <3>4. CASE Close
      BY <1>2, <3>4 DEF Close, closeReaders, ReadersAreOfFiles
    <3>5. CASE OpenWithOptions
      BY <2>2, <3>5 DEF OpenWithOptions, ForgetCalls
    <3> QED BY <2>5, <3>1, <3>2, <3>3, <3>4, <3>5, <3>6 DEF WriteNext, Put, Delete
  <2>6. CASE CrashNext
    BY <2>2, <2>6 DEF CrashNext, Crash, CrashInRotation, ForgetCalls
  <2>7. CASE MergeNext
    <3>1. ASSUME NEW m \in Merger, MergeStart(m) PROVE ReadersAreOfFiles'
      BY <2>1, <3>1 DEF MergeStart, diskVars, readVars
    <3>2. ASSUME NEW m \in Merger, NEW k \in Key, MergeRecord(m, k) PROVE ReadersAreOfFiles'
      BY <1>2, <3>2 DEF MergeRecord, ReadersAreOfFiles, diskVars
    <3>3. ASSUME NEW m \in Merger, MergePublish(m) PROVE ReadersAreOfFiles'
      BY <1>2, <3>3 DEF MergePublish, MergedFiles, closeReaders, ReadersAreOfFiles
    <3>4. ASSUME NEW m \in Merger, MergeFails(m) PROVE ReadersAreOfFiles'
      BY <2>1, <3>4 DEF MergeFails, MergedFiles, readVars
    <3>5. ASSUME NEW m \in Merger, CrashInMerge(m) PROVE ReadersAreOfFiles'
      BY <2>2, <3>5 DEF CrashInMerge, ForgetCalls
    <3> QED BY <2>7, <3>1, <3>2, <3>3, <3>4, <3>5 DEF MergeNext
  <2>8. CASE ReadNext
    BY <2>1, <2>8 DEF ReadNext, Fold, Get, FoldKey, diskVars
  <2> QED BY <1>2, <2>3, <2>4, <2>5, <2>6, <2>7, <2>8 DEF Next
<1> QED BY <1>1, <1>2, PTL DEF Spec
=============================================================================
