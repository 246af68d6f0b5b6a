------------------------ MODULE BitcaskRecoveryProof ------------------------
(***************************************************************************)
(* What writes, rotations, crashes and the recovery of Open do to the      *)
(* files and the keydir of a store that is never merged: each of them      *)
(* preserves RecoveryInv, so that the store loses and changes nothing in a *)
(* crash or a restart, and Bitcask implements DurableMap.                  *)
(***************************************************************************)
EXTENDS BitcaskSessionProof

USE ZenonT(30)

-----------------------------------------------------------------------------
(* What the libraries of well-founded orders and finite sets say of        *)
(* numbers.  The lemmas that need it assume it, and Counts proves it       *)
(* before the theorems, so that few proofs have the libraries' many facts  *)
(* in their context.                                                       *)
Counting ==
    /\ \A S \in SUBSET Nat : S # {} => \E n \in S : \A m \in S : n <= m
    /\ \A a, b \in Int : Cardinality(a..b) = IF a > b THEN 0 ELSE b - a + 1

(* Numbers.                                                                *)

(* Every nonempty set of natural numbers has a least element.              *)
LEMMA Least ==
  ASSUME Counting, NEW S, S \subseteq Nat, S # {}
  PROVE  \E n \in S : \A m \in S : n <= m
<1>1. S \in SUBSET Nat
  OBVIOUS
<1> QED BY <1>1 DEF Counting

(* Induction, for a set of numbers.                                        *)
LEMMA Induction ==
  ASSUME Counting, NEW N \in Nat, NEW S, 0 \in S, \A n \in 0..N : n \in S /\ n < N => n + 1 \in S
  PROVE  \A n \in 0..N : n \in S
<1> SUFFICES ASSUME ~ \A n \in 0..N : n \in S PROVE FALSE
  OBVIOUS
<1> DEFINE T == {n \in 0..N : n \notin S}
<1>1. T \subseteq Nat /\ T # {}
  BY SMTT(30)
<1>2. PICK n \in T : \A m \in T : n <= m
  BY <1>1, Least
<1>3. n \in 0..N /\ n \notin S /\ n # 0
  BY <1>2
<1>4. n - 1 \in 0..N /\ n - 1 < N /\ (n - 1) + 1 = n /\ ~(n <= n - 1)
  BY <1>3, SMTT(30)
<1>5. n - 1 \in S
  BY <1>2, <1>4
<1> QED BY <1>3, <1>4, <1>5

(* Places are ordered as files, and within a file as offsets.              *)
LEMMA PlaceOrder ==
  ASSUME NEW f \in Nat \ {0}, NEW g \in Nat \ {0}, NEW o \in Nat \ {0}, NEW p \in Nat \ {0},
         o <= MaxRecords, p <= MaxRecords, MaxRecords \in Nat \ {0}
  PROVE  /\ Place(f, o) \in Nat \ {0}
         /\ Place(f, o) < Place(g, p) => f < g \/ (f = g /\ o < p)
         /\ Place(f, o) <= Place(g, p) => f <= g
         /\ Place(f, o) = Place(g, p) => f = g /\ o = p
<1> DEFINE M == MaxRecords
<1>1. (f - 1) * M \in Nat /\ (g - 1) * M \in Nat
  BY SMTT(30)
<1>2. f < g => (f - 1) * M + M <= (g - 1) * M
  <2> SUFFICES ASSUME f < g PROVE (f - 1) * M + M <= (g - 1) * M
    OBVIOUS
  <2>1. (f - 1) * M + M = f * M
    BY SMTT(30)
  <2>2. f * M <= (g - 1) * M
    BY SMTT(30)
  <2> QED BY <2>1, <2>2
<1>3. g < f => (g - 1) * M + M <= (f - 1) * M
  <2> SUFFICES ASSUME g < f PROVE (g - 1) * M + M <= (f - 1) * M
    OBVIOUS
  <2>1. (g - 1) * M + M = g * M
    BY SMTT(30)
  <2>2. g * M <= (f - 1) * M
    BY SMTT(30)
  <2> QED BY <2>1, <2>2
<1> HIDE DEF M
<1>4. \A a, b \in Nat : M \in Nat /\ o <= M /\ p <= M
        /\ (f < g => a + M <= b) /\ (g < f => b + M <= a) /\ (f = g => a = b) =>
           /\ a + o < b + p => f < g \/ (f = g /\ o < p)
           /\ a + o <= b + p => f <= g
           /\ a + o = b + p => f = g /\ o = p
           /\ a + o \in Nat \ {0}
  BY SMTT(30)
<1> QED BY <1>1, <1>2, <1>3, <1>4 DEF Place, M

-----------------------------------------------------------------------------
(* Files.                                                                  *)

(* What Good counts.                                                       *)
LEMMA GoodFacts ==
  ASSUME Counting, NEW S, NEW file \in Seq(S)
  PROVE  /\ Good(file) \in Nat /\ Good(file) <= Len(file)
         /\ \A n \in 1..Good(file) : file[n] \notin Fragments
         /\ Good(file) < Len(file) => file[Good(file) + 1] \in Fragments
<1> DEFINE bad == {n \in 1..Len(file) : file[n] \in Fragments}
<1>0. Len(file) \in Nat
  BY SMTT(30)
<1>1. CASE bad = {}
  BY <1>0, <1>1, SMTT(30) DEF Good
<1>2. CASE bad # {}
  <2>1. bad \subseteq Nat
    BY <1>0, SMTT(30)
  <2>2. \E n \in bad : \A m \in bad : n <= m
    BY <1>2, <2>1, Least
  <2> DEFINE first == CHOOSE n \in bad : \A m \in bad : n <= m
  <2>3. first \in bad /\ \A m \in bad : first <= m
    BY <2>2
  <2>4. Good(file) = first - 1
    BY <1>2 DEF Good
  <2> HIDE DEF first
  <2>5. first \in 1..Len(file) /\ file[first] \in Fragments
    BY <2>3
  <2>6. \A n \in 1..Len(file) : n < first => file[n] \notin Fragments
    <3> SUFFICES ASSUME NEW n \in 1..Len(file), n < first, file[n] \in Fragments PROVE FALSE
      OBVIOUS
    <3>1. first <= n
      BY <2>3
    <3> QED BY <1>0, <2>5, <3>1, SMTT(30)
  <2> QED BY <1>0, <2>4, <2>5, <2>6, SMTT(30)
<1> QED BY <1>1, <1>2

(* Good is the length of the longest prefix without a fragment.            *)
LEMMA GoodIs ==
  ASSUME Counting, NEW S, NEW file \in Seq(S), NEW n \in Nat, n <= Len(file),
         \A m \in 1..n : file[m] \notin Fragments,
         n < Len(file) => file[n + 1] \in Fragments
  PROVE  Good(file) = n
<1>1. /\ Good(file) \in Nat /\ Good(file) <= Len(file) /\ Len(file) \in Nat
      /\ \A m \in 1..Good(file) : file[m] \notin Fragments
      /\ Good(file) < Len(file) => file[Good(file) + 1] \in Fragments
  BY GoodFacts, SMTT(30)
<1> DEFINE g == Good(file)
<1> HIDE DEF g
<1>2. ~(g < n)
  <2> SUFFICES ASSUME g < n PROVE FALSE
    OBVIOUS
  <2>1. g + 1 \in 1..n /\ g < Len(file)
    BY <1>1, SMTT(30) DEF g
  <2> QED BY <1>1, <2>1 DEF g
<1>3. ~(n < g)
  <2> SUFFICES ASSUME n < g PROVE FALSE
    OBVIOUS
  <2>1. n + 1 \in 1..g /\ n < Len(file)
    BY <1>1, SMTT(30) DEF g
  <2> QED BY <1>1, <2>1 DEF g
<1> QED BY <1>1, <1>2, <1>3, SMTT(30) DEF g

-----------------------------------------------------------------------------
(* Keydirs.                                                                *)

(* An entry is not Nil, and the constants have their types.                *)
LEMMA Constants ==
  /\ Nil \notin Entry /\ MaxRecords \in Nat \ {0} /\ Tombstone \notin Value
  /\ ClockSteps \subseteq Nat
  BY StoreAssumption DEF Entry

(* Writes behind the n-th do not matter.                                   *)
LEMMA RepresentsAgrees ==
  ASSUME NEW h, NEW g, NEW kd, NEW n, Represents(h, kd, n), \A m \in 1..n : h[m] = g[m]
  PROVE  Represents(g, kd, n)
<1> SUFFICES ASSUME NEW k \in Key
             PROVE  \/ kd[k] = Nil /\ \A p \in 1..n : g[p].key # k
                    \/ \E p \in 1..n :
                        /\ LastOfKey(g, p, k, n)
                        /\ IF g[p].value = Tombstone THEN kd[k] = Nil ELSE Names(g, kd[k], p)
  BY DEF Represents
<1>1. CASE kd[k] = Nil /\ \A p \in 1..n : h[p].key # k
  BY <1>1
<1>2. ASSUME NEW p \in 1..n, LastOfKey(h, p, k, n),
             IF h[p].value = Tombstone THEN kd[k] = Nil ELSE Names(h, kd[k], p)
      PROVE  /\ LastOfKey(g, p, k, n)
             /\ IF g[p].value = Tombstone THEN kd[k] = Nil ELSE Names(g, kd[k], p)
  BY <1>2 DEF LastOfKey, Names
<1> QED BY <1>1, <1>2 DEF Represents

(* One more write of key k, which leaves the entry e, or none.             *)
LEMMA RepresentsNext ==
  ASSUME NEW n \in Nat, NEW h \in Seq(Record), n < Len(h), NEW kd, Represents(h, kd, n),
         NEW e, IF h[n + 1].value = Tombstone THEN e = Nil ELSE Names(h, e, n + 1)
  PROVE  Represents(h, [kd EXCEPT ![h[n + 1].key] = e], n + 1)
<1> DEFINE k0 == h[n + 1].key
           kd1 == [kd EXCEPT ![k0] = e]
<1>1. h[n + 1] \in Record /\ n + 1 \in 1..(n + 1)
  BY SMTT(30)
<1>2. k0 \in Key
  BY <1>1 DEF Record
<1>3. e \in Entry \cup {Nil}
  BY DEF Names
<1>4. kd \in [Key -> Entry \cup {Nil}]
  BY DEF Represents
<1>5. kd1 \in [Key -> Entry \cup {Nil}] /\ kd1[k0] = e /\ \A k \in Key : k # k0 => kd1[k] = kd[k]
  BY <1>2, <1>3, <1>4
<1>6. \A q \in 1..(n + 1) : q \in 1..n \/ q = n + 1
  BY SMTT(30)
<1>7. \A q \in 1..n : q \in 1..(n + 1)
  BY SMTT(30)
<1>8. \A q \in 1..(n + 1) : ~(q > n + 1)
  BY SMTT(30)
<1> SUFFICES ASSUME NEW k \in Key
             PROVE  \/ kd1[k] = Nil /\ \A p \in 1..(n + 1) : h[p].key # k
                    \/ \E p \in 1..(n + 1) :
                        /\ LastOfKey(h, p, k, n + 1)
                        /\ IF h[p].value = Tombstone THEN kd1[k] = Nil ELSE Names(h, kd1[k], p)
  BY <1>5 DEF Represents
<1> HIDE DEF kd1
<1>9. CASE k = k0
  <2>1. LastOfKey(h, n + 1, k, n + 1)
    BY <1>1, <1>8, <1>9 DEF LastOfKey
  <2>2. IF h[n + 1].value = Tombstone THEN kd1[k] = Nil ELSE Names(h, kd1[k], n + 1)
    BY <1>5, <1>9
  <2> QED BY <1>1, <2>1, <2>2
<1>10. CASE k # k0
  <2>1. kd1[k] = kd[k]
    BY <1>5, <1>10
  <2>2. CASE kd[k] = Nil /\ \A p \in 1..n : h[p].key # k
    <3>1. \A p \in 1..(n + 1) : h[p].key # k
      BY <2>2, <1>6, <1>10
    <3> QED BY <2>1, <2>2, <3>1
  <2>3. ASSUME NEW p \in 1..n, LastOfKey(h, p, k, n),
               IF h[p].value = Tombstone THEN kd[k] = Nil ELSE Names(h, kd[k], p)
        PROVE  /\ LastOfKey(h, p, k, n + 1) /\ p \in 1..(n + 1)
               /\ IF h[p].value = Tombstone THEN kd1[k] = Nil ELSE Names(h, kd1[k], p)
    <3>1. ASSUME NEW q \in 1..(n + 1), q > p PROVE h[q].key # k
      <4>1. CASE q = n + 1
        BY <4>1, <1>10
      <4>2. CASE q \in 1..n
        BY <4>2, <3>1, <2>3 DEF LastOfKey
      <4> QED BY <1>6, <4>1, <4>2
    <3>2. LastOfKey(h, p, k, n + 1) /\ p \in 1..(n + 1)
      BY <1>7, <2>3, <3>1 DEF LastOfKey
    <3> QED BY <2>1, <2>3, <3>2
  <2> QED BY <2>2, <2>3 DEF Represents
<1> QED BY <1>9, <1>10

(* Of two writes in the order of time, the later one replaces the other.   *)
LEMMA LaterReplaces ==
  ASSUME NEW h, NEW p \in Nat, NEW q \in Nat, p < q, NEW d, NEW e, Names(h, d, p), Names(h, e, q),
         h[p].ts <= h[q].ts
  PROVE  shouldReplace(d, e)
<1>1. /\ d.file \in Nat \ {0} /\ d.off \in Nat \ {0} /\ d.ts \in Nat /\ d.off <= MaxRecords
      /\ e.file \in Nat \ {0} /\ e.off \in Nat \ {0} /\ e.ts \in Nat /\ e.off <= MaxRecords
      /\ Place(d.file, d.off) < Place(e.file, e.off) /\ d.ts <= e.ts
  BY DEF Names, Entry
<1>2. d.file < e.file \/ (d.file = e.file /\ d.off < e.off)
  BY <1>1, PlaceOrder, Constants
<1> QED BY <1>1, <1>2, SMTT(30) DEF shouldReplace

-----------------------------------------------------------------------------
(* Recovery.                                                               *)

(* after[n] is the keydir kd after the first n of the updates us.          *)
IsReplay(after, kd, us) ==
    /\ after[0] = kd
    /\ \A n \in 1..Len(us) : after[n] = applyKeydirUpdate(after[n - 1], us[n])

(* The recursion of Replay is well defined.                                *)
LEMMA ReplaySteps ==
  ASSUME Counting, NEW kd, NEW us, Len(us) \in Nat
  PROVE  \E after : IsReplay(after, kd, us) /\ Replay(kd, us) = after[Len(us)]
<1> DEFINE N == Len(us)
           Body(f, n) == IF n = 0 THEN kd ELSE applyKeydirUpdate(f[n - 1], us[n])
           Defined(n) == \E f : f = [m \in 0..n |-> Body(f, m)]
           S == {n \in 0..N : Defined(n)}
<1>1. 0 \in S
  <2>1. 0 \in 0..N /\ \A m \in 0..0 : m = 0
    BY SMTT(30)
  <2>2. [m \in 0..0 |-> kd] = [m \in 0..0 |-> Body([i \in 0..0 |-> kd], m)]
    BY <2>1
  <2> QED BY <2>1, <2>2
<1>2. ASSUME NEW n \in 0..N, n \in S, n < N PROVE n + 1 \in S
  <2>1. PICK f : f = [m \in 0..n |-> Body(f, m)]
    BY <1>2
  <2> DEFINE g == [m \in 0..(n + 1) |-> IF m = n + 1 THEN Body(f, n + 1) ELSE f[m]]
  <2>2. /\ n + 1 \in 0..N /\ (n + 1) - 1 = n /\ n \in 0..(n + 1) /\ n # n + 1
        /\ \A m \in 0..(n + 1) : m # n + 1 => m \in 0..n
        /\ \A m \in 0..n : m # 0 => m - 1 \in 0..(n + 1) /\ m - 1 # n + 1
    BY <1>2, SMTT(30)
  <2>3. ASSUME NEW m \in 0..(n + 1) PROVE g[m] = Body(g, m)
    <3>1. CASE m = n + 1
      <4>1. g[(n + 1) - 1] = f[(n + 1) - 1]
        BY <2>2
      <4>2. g[m] = Body(f, n + 1)
        BY <3>1
      <4> QED BY <3>1, <4>1, <4>2
    <3>2. CASE m # n + 1
      <4>1. m \in 0..n
        BY <2>2, <3>2
      <4>2. g[m] = f[m] /\ f[m] = Body(f, m)
        BY <2>1, <3>2, <4>1
      <4>3. m # 0 => g[m - 1] = f[m - 1]
        BY <2>2, <4>1
      <4> QED BY <4>2, <4>3
    <3> QED BY <3>1, <3>2
  <2>4. g = [m \in 0..(n + 1) |-> Body(g, m)]
    BY <2>3
  <2> QED BY <2>2, <2>4
<1> HIDE DEF S
<1>3. N \in S
  <2>1. \A n \in 0..N : n \in S
    BY <1>1, <1>2, Induction
  <2>2. N \in 0..N
    BY SMTT(30)
  <2> QED BY <2>1, <2>2
<1> DEFINE after == CHOOSE f : f = [n \in 0..N |-> Body(f, n)]
<1>4. after = [n \in 0..N |-> Body(after, n)]
  BY <1>3 DEF S
<1>5. Replay(kd, us) = after[N]
  BY DEF Replay
<1> HIDE DEF after
<1>6. 0 \in 0..N /\ \A n \in 1..N : n \in 0..N /\ n # 0
  BY SMTT(30)
<1>7. IsReplay(after, kd, us)
  BY <1>4, <1>6 DEF IsReplay
<1> QED BY <1>5, <1>7

(* upTo[id] is the keydir after the scans of the files up to id.           *)
IsRecovery(upTo) ==
    /\ upTo[0] = [k \in Key |-> Nil]
    /\ \A id \in 1..LastFileID :
          upTo[id] = IF id \in DOMAIN data THEN Replay(upTo[id - 1], Scan(id)) ELSE upTo[id - 1]

(* So is that of Recovered.                                                *)
LEMMA RecoveredSteps ==
  ASSUME Counting, LastFileID \in Nat
  PROVE  \E upTo : IsRecovery(upTo) /\ Recovered = upTo[LastFileID]
<1> DEFINE N == LastFileID
           Body(f, n) == IF n = 0 THEN [k \in Key |-> Nil]
                         ELSE IF n \in DOMAIN data THEN Replay(f[n - 1], Scan(n)) ELSE f[n - 1]
           Defined(n) == \E f : f = [m \in 0..n |-> Body(f, m)]
           S == {n \in 0..N : Defined(n)}
<1>1. 0 \in S
  <2>1. 0 \in 0..N /\ \A m \in 0..0 : m = 0
    BY SMTT(30)
  <2>2. [m \in 0..0 |-> [k \in Key |-> Nil]] = [m \in 0..0 |-> Body([i \in 0..0 |-> [k \in Key |-> Nil]], m)]
    BY <2>1
  <2> QED BY <2>1, <2>2
<1>2. ASSUME NEW n \in 0..N, n \in S, n < N PROVE n + 1 \in S
  <2>1. PICK f : f = [m \in 0..n |-> Body(f, m)]
    BY <1>2
  <2> DEFINE g == [m \in 0..(n + 1) |-> IF m = n + 1 THEN Body(f, n + 1) ELSE f[m]]
  <2>2. /\ n + 1 \in 0..N /\ (n + 1) - 1 = n /\ n \in 0..(n + 1) /\ n # n + 1
        /\ \A m \in 0..(n + 1) : m # n + 1 => m \in 0..n
        /\ \A m \in 0..n : m # 0 => m - 1 \in 0..(n + 1) /\ m - 1 # n + 1
    BY <1>2, SMTT(30)
  <2>3. ASSUME NEW m \in 0..(n + 1) PROVE g[m] = Body(g, m)
    <3>1. CASE m = n + 1
      <4>1. g[(n + 1) - 1] = f[(n + 1) - 1]
        BY <2>2
      <4>2. g[m] = Body(f, n + 1)
        BY <3>1
      <4> QED BY <3>1, <4>1, <4>2
    <3>2. CASE m # n + 1
      <4>1. m \in 0..n
        BY <2>2, <3>2
      <4>2. g[m] = f[m] /\ f[m] = Body(f, m)
        BY <2>1, <3>2, <4>1
      <4>3. m # 0 => g[m - 1] = f[m - 1]
        BY <2>2, <4>1
      <4> QED BY <4>2, <4>3
    <3> QED BY <3>1, <3>2
  <2>4. g = [m \in 0..(n + 1) |-> Body(g, m)]
    BY <2>3
  <2> QED BY <2>2, <2>4
<1> HIDE DEF S
<1>3. N \in S
  <2>1. \A n \in 0..N : n \in S
    BY <1>1, <1>2, Induction
  <2>2. N \in 0..N
    BY SMTT(30)
  <2> QED BY <2>1, <2>2
<1> DEFINE upTo == CHOOSE f : f = [n \in 0..N |-> Body(f, n)]
<1>4. upTo = [n \in 0..N |-> Body(upTo, n)]
  BY <1>3 DEF S
<1>5. Recovered = upTo[N]
  BY DEF Recovered
<1> HIDE DEF upTo
<1>6. 0 \in 0..N /\ \A n \in 1..N : n \in 0..N /\ n # 0
  BY SMTT(30)
<1>7. IsRecovery(upTo)
  BY <1>4, <1>6 DEF IsRecovery
<1> QED BY <1>5, <1>7

(* Replaying the records o in 1..N of file id brings the keydir from the   *)
(* writes before the file to those in it.                                  *)
LEMMA ReplayRepresents ==
  ASSUME Counting, NEW h \in Seq(Record), \A n \in 1..Len(h) : \A m \in 1..n : h[m].ts <= h[n].ts,
         NEW id \in Nat \ {0}, NEW N \in Nat, N <= MaxRecords, Place(id, N) <= Len(h),
         \A o \in 1..N : data[id][o] = h[Place(id, o)],
         NEW kd, Represents(h, kd, Place(id, 0))
  PROVE  Represents(h, Replay(kd, Updates(id, N)), Place(id, N))
<1> DEFINE us == Updates(id, N)
           n0 == Place(id, 0)
<1>1. Len(us) = N /\ us \in Seq({us[o] : o \in 1..N})
  BY SMTT(30) DEF Updates
<1>2. n0 \in Nat /\ \A o \in Nat : Place(id, o) = n0 + o
  <2>1. (id - 1) * MaxRecords \in Nat
    BY Constants, SMTT(30)
  <2> QED BY <2>1, SMTT(30) DEF Place
<1>3. \A o \in 1..N : us[o] = [key |-> data[id][o].key, tombstone |-> data[id][o].value = Tombstone,
                               entry |-> [file |-> id, off |-> o, ts |-> data[id][o].ts]]
  BY DEF Updates
<1> HIDE DEF us, n0
<1>4. PICK after : /\ after[0] = kd
                   /\ \A n \in 1..N : after[n] = applyKeydirUpdate(after[n - 1], us[n])
                   /\ Replay(kd, us) = after[N]
  <2>1. Len(us) \in Nat
    BY <1>1
  <2>2. PICK after : IsReplay(after, kd, us) /\ Replay(kd, us) = after[Len(us)]
    BY <2>1, ReplaySteps
  <2>3. /\ after[0] = kd
        /\ \A n \in 1..N : after[n] = applyKeydirUpdate(after[n - 1], us[n])
        /\ Replay(kd, us) = after[N]
    BY <1>1, <2>2 DEF IsReplay
  <2> QED BY <2>3
<1> DEFINE S == {n \in 0..N : Represents(h, after[n], n0 + n)}
<1>5. 0 \in S
  <2>1. 0 \in 0..N /\ n0 + 0 = n0
    BY <1>2, SMTT(30)
  <2> QED BY <1>4, <2>1 DEF n0
<1>6. ASSUME NEW n \in 0..N, n \in S, n < N PROVE n + 1 \in S
  <2> DEFINE a == after[n]
             p == n0 + n
             r == h[p + 1]
             e == [file |-> id, off |-> n + 1, ts |-> r.ts]
  <2>1. /\ n + 1 \in 1..N /\ n + 1 \in 0..N /\ (n + 1) - 1 = n /\ n + 1 \in Nat \ {0}
        /\ p \in Nat /\ p < Len(h) /\ p + 1 = n0 + (n + 1) /\ p + 1 \in 1..Len(h)
        /\ n + 1 <= MaxRecords /\ N \in Nat
    <3>1. n0 + N <= Len(h) /\ Len(h) \in Nat /\ n0 \in Nat /\ MaxRecords \in Nat
      BY <1>2, Constants, SMTT(30)
    <3> QED BY <1>6, <3>1, SMTT(30)
  <2>2. Represents(h, a, p)
    BY <1>6
  <2>3. Place(id, n + 1) = p + 1
    BY <1>2, <2>1
  <2>4. data[id][n + 1] = r
    <3>1. data[id][n + 1] = h[Place(id, n + 1)]
      BY <2>1
    <3> QED BY <2>3, <3>1
  <2>5. r \in Record /\ r.key \in Key /\ r.ts \in Nat
    <3>1. r \in Record
      BY <2>1, SMTT(30)
    <3> QED BY <3>1 DEF Record
  <2>6. Names(h, e, p + 1)
    BY <2>1, <2>3, <2>5 DEF Names, Entry
  <2>7. us[n + 1] = [key |-> r.key, tombstone |-> r.value = Tombstone, entry |-> e]
    BY <1>3, <2>1, <2>4
  <2>8. a[r.key] # Nil => shouldReplace(a[r.key], e)
    <3> SUFFICES ASSUME a[r.key] # Nil PROVE shouldReplace(a[r.key], e)
      OBVIOUS
    <3>1. PICK q \in 1..p : Names(h, a[r.key], q)
      BY <2>2, <2>5 DEF Represents
    <3>2. q \in Nat /\ p + 1 \in Nat /\ q < p + 1 /\ q \in 1..(p + 1)
      BY <2>1, SMTT(30)
    <3>3. h[q].ts <= h[p + 1].ts
      BY <2>1, <3>2
    <3> HIDE DEF a, e
    <3> QED BY <2>6, <3>1, <3>2, <3>3, LaterReplaces
  <2>9. after[n + 1] = [a EXCEPT ![r.key] = IF r.value = Tombstone THEN Nil ELSE e]
    <3>1. after[n + 1] = applyKeydirUpdate(a, us[n + 1])
      BY <1>4, <2>1
    <3> DEFINE u == us[n + 1]
    <3>2. u.key = r.key /\ u.tombstone = (r.value = Tombstone) /\ u.entry = e
      BY <2>7, SMTT(30)
    <3>3. ~(a[u.key] # Nil /\ ~shouldReplace(a[u.key], u.entry))
      BY <2>8, <3>2
    <3>4. after[n + 1] = [a EXCEPT ![u.key] = IF u.tombstone THEN Nil ELSE u.entry]
      BY <3>1, <3>3 DEF applyKeydirUpdate
    <3> HIDE DEF u, a, r, e
    <3> QED BY <3>2, <3>4
  <2> DEFINE x == IF r.value = Tombstone THEN Nil ELSE e
  <2>10. IF h[p + 1].value = Tombstone THEN x = Nil ELSE Names(h, x, p + 1)
    BY <2>6
  <2>11. Represents(h, [a EXCEPT ![h[p + 1].key] = x], p + 1)
    <3> HIDE DEF a, p, x
    <3> QED BY <2>1, <2>2, <2>10, RepresentsNext
  <2>12. Represents(h, after[n + 1], n0 + (n + 1))
    BY <2>1, <2>9, <2>11
  <2> QED BY <2>1, <2>12
<1>7. N \in S
  <2>1. \A n \in 0..N : n \in S
    <3> HIDE DEF S
    <3> QED BY <1>5, <1>6, Induction
  <2>2. N \in 0..N
    BY SMTT(30)
  <2> QED BY <2>1, <2>2
<1> QED BY <1>2, <1>4, <1>7 DEF us

(* A file follows the full ones before it.                                 *)
LEMMA PlaceAfter ==
  ASSUME NEW f \in Nat, NEW g \in Nat, f < g
  PROVE  /\ Place(g, 0) \in Nat /\ \A o \in Nat : Place(g, o) = Place(g, 0) + o
         /\ Place(f, MaxRecords) = Place(f + 1, 0)
         /\ Place(f, MaxRecords) <= Place(g, 0)
<1> DEFINE M == MaxRecords
<1>1. M \in Nat
  BY Constants
<1>2. (g - 1) * M \in Nat /\ (f - 1) * M + M = f * M /\ (f + 1) - 1 = f
  BY <1>1, SMTT(30)
<1>3. f * M <= (g - 1) * M
  BY <1>1, SMTT(30)
<1>4. f * M \in Int
  BY <1>1, SMTT(30)
<1>5. Place(f, M) = f * M /\ Place(f + 1, 0) = f * M
  BY <1>2, <1>4, SMTT(30) DEF Place
<1>6. \A o \in Nat : Place(g, o) = (g - 1) * M + o
  BY DEF Place
<1> HIDE DEF M
<1>7. Place(g, 0) = (g - 1) * M
  BY <1>2, <1>6, SMTT(30)
<1> QED BY <1>2, <1>3, <1>5, <1>6, <1>7 DEF M

(* Which files there are.                                                  *)
LEMMA NewestFacts ==
  ASSUME FilesInv
  PROVE  /\ NewestFile \in Nat \ {0} /\ LastFileID = NewestFile
         /\ activeFileID \in 1..NewestFile /\ NewestFile \in 1..NewestFile
         /\ \A id \in 1..NewestFile : id \in Nat \ {0} /\ id <= NewestFile
         /\ NewestFile # activeFileID => NewestFile = activeFileID + 1
<1>1. /\ activeFileID \in Nat \ {0}
      /\ NewestFile = activeFileID \/ NewestFile = activeFileID + 1
  BY DEF FilesInv, FilesHold, NewestFile
<1> DEFINE n == NewestFile
<1> HIDE DEF n
<1>2. /\ n \in Nat \ {0} /\ activeFileID \in 1..n /\ n \in 1..n
      /\ \A id \in 1..n : id \in Nat \ {0} /\ id <= n
      /\ n # activeFileID => n = activeFileID + 1
  BY <1>1, SMTT(30) DEF n
<1>3. DOMAIN data = 1..n
  BY DEF FilesInv, FilesHold, n
<1>4. \A id \in 1..n : (\A j \in 1..n : j <= id) => id = n
  <2> SUFFICES ASSUME NEW id \in 1..n, \A j \in 1..n : j <= id PROVE id = n
    OBVIOUS
  <2>1. n <= id /\ id <= n /\ id \in Nat
    BY <1>2
  <2> QED BY <1>2, <2>1, SMTT(30)
<1>5. LastFileID = n
  <2>1. \E id \in 1..n : \A j \in 1..n : j <= id
    BY <1>2
  <2> DEFINE last == CHOOSE id \in 1..n : \A j \in 1..n : j <= id
  <2>2. last \in 1..n /\ \A j \in 1..n : j <= last
    BY <2>1
  <2>3. LastFileID = last
    BY <1>3 DEF LastFileID
  <2> HIDE DEF last
  <2> QED BY <1>4, <2>2, <2>3
<1> QED BY <1>2, <1>5 DEF n

(* What the files of a store that was never merged hold.                   *)
LEMMA FileFacts ==
  ASSUME Counting, FilesInv, NEW id \in 1..NewestFile
  PROVE  /\ data[id] \in Seq(Record \cup Fragments) /\ Len(data[id]) \in Nat
         /\ Good(data[id]) \in Nat /\ Good(data[id]) <= MaxRecords
         /\ Good(data[id]) <= Len(data[id])
         /\ \A n \in 1..Good(data[id]) : data[id][n] \in Record
         /\ id # NewestFile => Good(data[id]) = MaxRecords /\ Len(data[id]) = MaxRecords
<1>1. data[id] \in Seq(Record \cup Fragments)
  BY DEF FilesInv, FilesHold
<1>2. Len(data[id]) \in Nat
  BY <1>1, SMTT(30)
<1>3. /\ Good(data[id]) \in Nat /\ Good(data[id]) <= Len(data[id])
      /\ \A n \in 1..Good(data[id]) : data[id][n] \notin Fragments
  BY <1>1, GoodFacts
<1>4. id # NewestFile => Good(data[id]) = MaxRecords /\ Len(data[id]) = MaxRecords
  BY DEF FilesInv, FilesHold
<1>5. Good(data[id]) <= MaxRecords
  <2>1. MaxRecords <= MaxRecords
    BY Constants, SMTT(30)
  <2> QED BY <1>4, <2>1 DEF FilesInv, FilesHold
<1> DEFINE g == Good(data[id])
<1> HIDE DEF g
<1>6. \A n \in 1..g : data[id][n] \in Record \cup Fragments
  <2>1. \A n \in 1..g : n \in 1..Len(data[id])
    BY <1>2, <1>3, SMTT(30) DEF g
  <2>2. \A n \in 1..Len(data[id]) : data[id][n] \in Record \cup Fragments
    BY <1>1, SMTT(30)
  <2> QED BY <2>1, <2>2
<1> QED BY <1>1, <1>2, <1>3, <1>4, <1>5, <1>6 DEF g

(* Whether Open reads a file or its hint, it sees all whole records.       *)
LEMMA ScanSeesAll ==
  ASSUME FilesInv, HintsInv, NEW id \in 1..NewestFile
  PROVE  Scan(id) = Updates(id, Good(data[id]))
<1>1. id \in DOMAIN data
  BY DEF FilesInv, FilesHold
<1>2. hint[id] # Nil => hint[id] = Good(data[id])
  BY <1>1 DEF HintsInv
<1> QED BY <1>2 DEF Scan

(* Recovery rebuilds the keydir.                                           *)
LEMMA RecoveredRepresents ==
  ASSUME Counting, FilesInv, HintsInv, HistoryInv
  PROVE  Represents(history, Recovered, Len(history))
<1> DEFINE N == NewestFile
           h == history
           Upto(id) == IF id = 0 THEN 0 ELSE Place(id, Good(data[id]))
<1>1. /\ N \in Nat \ {0} /\ LastFileID = N /\ DOMAIN data = 1..N
      /\ \A id \in 1..N : id \in Nat \ {0} /\ id <= N
  BY NewestFacts DEF FilesInv, FilesHold
<1>2. PICK upTo : IsRecovery(upTo) /\ Recovered = upTo[N]
  <2>1. LastFileID \in Nat
    BY <1>1
  <2>2. PICK upTo : IsRecovery(upTo) /\ Recovered = upTo[LastFileID]
    BY <2>1, RecoveredSteps
  <2> QED BY <1>1, <2>2
<1>3. /\ upTo[0] = [k \in Key |-> Nil]
      /\ \A id \in 1..N : upTo[id] = Replay(upTo[id - 1], Updates(id, Good(data[id])))
  BY <1>1, <1>2, ScanSeesAll DEF IsRecovery
<1>4. /\ h \in Seq(Record) /\ Len(h) \in Nat
      /\ \A n \in 1..Len(h) : \A m \in 1..n : h[m].ts <= h[n].ts
      /\ Len(h) = Place(N, Good(data[N]))
      /\ \A id \in 1..N : \A o \in 1..Good(data[id]) : data[id][o] = h[Place(id, o)]
  <2>1. h \in Seq(Record)
    BY DEF FilesInv, FilesHold
  <2>2. Len(h) \in Nat
    BY <2>1, SMTT(30)
  <2> QED BY <2>1, <2>2 DEF FilesInv, FilesHold, HistoryInv
<1> HIDE DEF N, h
<1> DEFINE S == {id \in 0..N : Represents(h, upTo[id], Upto(id))}
<1>5. 0 \in S
  <2>1. 0 \in 0..N /\ \A p \in 1..0 : FALSE
    BY <1>1, SMTT(30)
  <2>2. Represents(h, upTo[0], 0)
    BY <1>3, <2>1 DEF Represents
  <2> QED BY <2>1, <2>2
<1>6. ASSUME NEW id \in 0..N, id \in S, id < N PROVE id + 1 \in S
  <2> DEFINE j == id + 1
             G == Good(data[j])
  <2>1. /\ j \in 1..N /\ j \in 0..N /\ j \in Nat \ {0} /\ id \in Nat /\ id < j /\ j - 1 = id
        /\ id # 0 => id \in 1..N /\ id # N
        /\ j # N => j < N
        /\ j # 0
    BY <1>1, <1>6, SMTT(30)
  <2>2. /\ G \in Nat /\ G <= MaxRecords
        /\ j # N => G = MaxRecords
    BY <2>1, FileFacts DEF N
  <2>3. Upto(id) = Place(j, 0)
    <3>1. CASE id = 0
      <4>1. Place(1, 0) = 0
        BY Constants, SMTT(30) DEF Place
      <4>2. j = 1
        BY <3>1, SMTT(30)
      <4> QED BY <3>1, <4>1, <4>2
    <3>2. CASE id # 0
      <4>1. Good(data[id]) = MaxRecords
        BY <2>1, <3>2, FileFacts DEF N
      <4>2. Place(id, MaxRecords) = Place(id + 1, 0)
        BY <2>1, PlaceAfter
      <4> QED BY <3>2, <4>1, <4>2
    <3> QED BY <3>1, <3>2
  <2>4. Place(j, G) <= Len(h)
    <3>1. CASE j = N
      <4>1. Place(j, G) = Len(h)
        BY <3>1, <1>4
      <4> QED BY <1>4, <4>1, SMTT(30)
    <3>2. CASE j # N
      <4>1. /\ Place(j, MaxRecords) <= Place(N, 0) /\ Place(N, 0) \in Nat
            /\ Place(j, MaxRecords) = Place(j + 1, 0)
            /\ \A o \in Nat : Place(N, o) = Place(N, 0) + o
        BY <1>1, <2>1, <3>2, PlaceAfter
      <4>2. Good(data[N]) \in Nat
        <5>1. N \in 1..N
          BY <1>1, SMTT(30)
        <5> QED BY <5>1, FileFacts DEF N
      <4>3. Place(j, MaxRecords) \in Nat
        <5>1. j < j + 1 /\ j + 1 \in Nat
          BY <2>1, SMTT(30)
        <5> QED BY <2>1, <4>1, <5>1, PlaceAfter
      <4>4. Len(h) = Place(N, 0) + Good(data[N])
        BY <1>4, <4>1, <4>2
      <4>5. G = MaxRecords
        BY <2>2, <3>2
      <4> HIDE DEF G, j
      <4>6. Place(j, MaxRecords) <= Len(h)
        BY <4>1, <4>2, <4>3, <4>4, SMTT(30)
      <4> QED BY <4>5, <4>6
    <3> QED BY <3>1, <3>2
  <2>5. Represents(h, upTo[id], Place(j, 0))
    BY <1>6, <2>3
  <2>6. upTo[j] = Replay(upTo[id], Updates(j, G))
    BY <1>3, <2>1
  <2>7. \A o \in 1..G : data[j][o] = h[Place(j, o)]
    BY <1>4, <2>1
  <2>8. Represents(h, Replay(upTo[id], Updates(j, G)), Place(j, G))
    <3> HIDE DEF j, G
    <3> QED BY <1>4, <2>1, <2>2, <2>4, <2>5, <2>7, ReplayRepresents
  <2>9. Represents(h, upTo[j], Upto(j))
    BY <2>1, <2>6, <2>8
  <2> QED BY <2>1, <2>9
<1>7. N \in S
  <2>1. \A id \in 0..N : id \in S
    <3> HIDE DEF S
    <3>1. N \in Nat
      BY <1>1
    <3> QED BY <1>5, <1>6, <3>1, Induction
  <2>2. N \in 0..N
    BY <1>1, SMTT(30)
  <2> QED BY <2>1, <2>2
<1> QED BY <1>1, <1>2, <1>4, <1>7 DEF h

-----------------------------------------------------------------------------
(* Steps.                                                                  *)

(* The place of a record is one of the history's.                          *)
LEMMA PlaceInHistory ==
  ASSUME Counting, NEW d, NEW h, NEW N \in Nat \ {0}, FilesHold(d, h, N),
         NEW id \in 1..N, NEW o \in 1..Good(d[id])
  PROVE  /\ Place(id, o) \in 1..Len(h)
         /\ id # N => Place(id, o) <= Place(N, 0)
<1>1. /\ h \in Seq(Record) /\ Len(h) = Place(N, Good(d[N]))
      /\ \A j \in 1..N : d[j] \in Seq(Record \cup Fragments)
      /\ \A j \in 1..N : j # N => Good(d[j]) = MaxRecords
  BY DEF FilesHold
<1>2. N \in 1..N /\ id \in Nat \ {0} /\ (id # N => id < N)
  BY SMTT(30)
<1>3. Good(d[id]) \in Nat /\ Good(d[N]) \in Nat
  BY <1>1, <1>2, GoodFacts
<1>4. o \in Nat \ {0} /\ o <= Good(d[id])
  BY <1>3, SMTT(30)
<1>5. 0 \in Nat /\ 0 < id /\ 0 < N
  BY <1>2, SMTT(30)
<1>6. Place(id, 0) \in Nat /\ Place(id, o) = Place(id, 0) + o
      /\ Place(id, Good(d[id])) = Place(id, 0) + Good(d[id])
  <2>1. id \in Nat /\ o \in Nat
    BY <1>2, <1>4
  <2> QED BY <1>3, <1>5, <2>1, PlaceAfter
<1>7. Place(N, 0) \in Nat /\ Len(h) = Place(N, 0) + Good(d[N])
  <2>1. N \in Nat
    OBVIOUS
  <2> QED BY <1>1, <1>3, <1>5, <2>1, PlaceAfter
<1>8. CASE id = N
  BY <1>3, <1>4, <1>6, <1>7, <1>8, SMTT(30)
<1>9. CASE id # N
  <2>1. Place(id, MaxRecords) <= Place(N, 0)
    <3>1. id \in Nat /\ N \in Nat
      BY <1>2
    <3> QED BY <1>2, <1>9, <3>1, PlaceAfter
  <2>2. Good(d[id]) = MaxRecords
    BY <1>1, <1>9
  <2>3. Place(id, 0) + Good(d[id]) <= Place(N, 0)
    BY <1>6, <2>1, <2>2
  <2> QED BY <1>3, <1>4, <1>6, <1>7, <1>9, <2>3, SMTT(30)
<1> QED BY <1>8, <1>9

(* All a step does to the files is to change the newest one or to begin a  *)
(* new one, and the history follows.                                       *)
LEMMA NewestChanges ==
  ASSUME Counting, NEW d, NEW h, NEW N \in Nat \ {0}, FilesHold(d, h, N),
         NEW d2, NEW h2 \in Seq(Record), NEW N2 \in Nat \ {0},
         N2 = N \/ (N2 = N + 1 /\ Good(d[N]) = MaxRecords /\ Len(d[N]) = MaxRecords),
         DOMAIN d2 = 1..N2, \A j \in 1..N2 : j # N2 => d2[j] = d[j],
         d2[N2] \in Seq(Record \cup Fragments), Good(d2[N2]) <= MaxRecords,
         Len(h2) = Place(N2, Good(d2[N2])),
         \A m \in 1..Len(h2) : m <= Len(h) => h2[m] = h[m],
         \A o \in 1..Good(d2[N2]) : d2[N2][o] = h2[Place(N2, o)]
  PROVE  FilesHold(d2, h2, N2)
<1>1. \A j \in 1..N2 : j # N2 => j \in 1..N /\ j \in Nat /\ j < N2
  BY SMTT(30)
<1>2. ASSUME NEW j \in 1..N2, j # N2
      PROVE  d2[j] = d[j] /\ Good(d2[j]) = MaxRecords /\ Len(d2[j]) = MaxRecords
  <2>1. j \in 1..N /\ d2[j] = d[j]
    BY <1>1, <1>2
  <2>2. CASE j = N
    <3>1. N2 = N + 1 /\ Good(d[N]) = MaxRecords /\ Len(d[N]) = MaxRecords
      BY <1>2, <2>2
    <3> QED BY <2>1, <2>2, <3>1
  <2>3. CASE j # N
    BY <2>1, <2>3 DEF FilesHold
  <2> QED BY <2>2, <2>3
<1>3. \A j \in 1..N2 : d2[j] \in Seq(Record \cup Fragments)
  BY <1>1 DEF FilesHold
<1>4. ASSUME NEW j \in 1..N2, NEW o \in 1..Good(d2[j])
      PROVE  d2[j][o] = h2[Place(j, o)]
  <2>1. CASE j = N2
    BY <2>1
  <2>2. CASE j # N2
    <3>1. d2[j] = d[j] /\ Good(d2[j]) = MaxRecords /\ j \in 1..N /\ j \in Nat /\ j < N2
      BY <1>1, <1>2, <2>2
    <3>2. o \in 1..Good(d[j])
      BY <3>1
    <3>3. Place(j, o) \in 1..Len(h)
      BY <3>1, <3>2, PlaceInHistory
    <3>4. d[j][o] = h[Place(j, o)]
      BY <3>1, <3>2 DEF FilesHold
    <3>5. Place(j, o) \in 1..Len(h2)
      <4>1. N2 \in 1..N2 /\ 0 < N2 /\ N2 \in Nat /\ 0 \in Nat /\ 0 < j
        BY SMTT(30)
      <4>2. Good(d2[N2]) \in Nat /\ MaxRecords \in Nat
        BY Constants, GoodFacts
      <4>3. Place(j, MaxRecords) <= Place(N2, 0) /\ Place(N2, 0) \in Nat
        BY <3>1, <4>1, PlaceAfter
      <4>4. Len(h2) = Place(N2, 0) + Good(d2[N2])
        BY <4>1, <4>2, PlaceAfter
      <4>5. o \in Nat /\ o <= MaxRecords
        BY <3>1, <4>2, SMTT(30)
      <4>6. Place(j, o) = Place(j, 0) + o /\ Place(j, MaxRecords) = Place(j, 0) + MaxRecords
            /\ Place(j, 0) \in Nat
        BY <3>1, <4>1, <4>2, <4>5, PlaceAfter
      <4>7. Len(h) \in Nat
        <5>1. h \in Seq(Record)
          BY DEF FilesHold
        <5> QED BY <5>1, SMTT(30)
      <4> QED BY <3>3, <4>2, <4>3, <4>4, <4>5, <4>6, <4>7, SMTT(30)
    <3>6. Place(j, o) <= Len(h)
      <4>1. Len(h) \in Nat
        <5>1. h \in Seq(Record)
          BY DEF FilesHold
        <5> QED BY <5>1, SMTT(30)
      <4> QED BY <3>3, <4>1, SMTT(30)
    <3> QED BY <3>1, <3>4, <3>5, <3>6
  <2> QED BY <2>1, <2>2
<1> QED BY <1>2, <1>3, <1>4 DEF FilesHold

(* An open store has whole records only, up to activeOffset.               *)
LEMMA OpenFacts ==
  ASSUME Counting, RecoveryInv, open
  PROVE  /\ NewestFile = activeFileID /\ activeFileID \in Nat \ {0}
         /\ activeFileID \in 1..activeFileID /\ DOMAIN data = 1..activeFileID
         /\ FilesHold(data, history, activeFileID)
         /\ data[activeFileID] \in Seq(Record \cup Fragments)
         /\ \A o \in 1..activeOffset : data[activeFileID][o] \in Record
         /\ Good(data[activeFileID]) = activeOffset /\ Len(data[activeFileID]) = activeOffset
         /\ activeOffset \in Nat /\ activeOffset <= MaxRecords
         /\ nextFileID = activeFileID + 1
         /\ Full <=> activeOffset = MaxRecords
         /\ synced \in Nat /\ synced <= activeOffset
         /\ history \in Seq(Record) /\ Len(history) = Place(activeFileID, activeOffset)
<1>1. NewestFile = activeFileID /\ FilesHold(data, history, activeFileID)
  BY DEF RecoveryInv, FilesInv
<1>2. activeFileID \in Nat \ {0} /\ activeFileID \in 1..activeFileID
  BY <1>1, NewestFacts DEF RecoveryInv
<1>3. /\ data[activeFileID] \in Seq(Record \cup Fragments) /\ Len(data[activeFileID]) \in Nat
      /\ Good(data[activeFileID]) \in Nat /\ Good(data[activeFileID]) <= MaxRecords
      /\ Good(data[activeFileID]) <= Len(data[activeFileID])
      /\ \A n \in 1..Good(data[activeFileID]) : data[activeFileID][n] \in Record
  BY <1>1, <1>2, FileFacts DEF RecoveryInv
<1>4. /\ activeOffset = Len(data[activeFileID]) /\ nextFileID = activeFileID + 1
      /\ activeOffset \in Nat
      /\ synced \in 0..Good(data[activeFileID])
  BY DEF RecoveryInv, ProcessInv
<1>5. ~(Len(data[activeFileID]) > Good(data[activeFileID]))
  BY <1>1 DEF RecoveryInv, FilesInv
<1>6. Good(data[activeFileID]) = activeOffset
  BY <1>3, <1>4, <1>5, SMTT(30)
<1>7. synced \in Nat /\ synced <= activeOffset
  BY <1>4, <1>6, SMTT(30)
<1>8. activeOffset <= MaxRecords /\ \A o \in 1..activeOffset : data[activeFileID][o] \in Record
  BY <1>3, <1>6
<1>9. Full <=> activeOffset = MaxRecords
  BY <1>4, <1>8, Constants, SMTT(30) DEF Full
<1>10. history \in Seq(Record) /\ Len(history) = Place(activeFileID, activeOffset)
       /\ DOMAIN data = 1..activeFileID
  BY <1>1, <1>6 DEF FilesHold
<1> QED BY <1>1, <1>2, <1>3, <1>4, <1>6, <1>7, <1>8, <1>9, <1>10

(* The file the next record goes to continues the history.                 *)
IsTarget(id, file) ==
    /\ id \in Nat \ {0} /\ id \in 1..id /\ DOMAIN data \cup {id} = 1..id
    /\ IF Full THEN id = activeFileID + 1 /\ id \notin DOMAIN data ELSE id = activeFileID
    /\ file \in Seq(Record \cup Fragments) /\ Len(file) \in Nat /\ Len(file) < MaxRecords
    /\ Len(file) = IF Full THEN 0 ELSE activeOffset
    /\ \A o \in 1..Len(file) : file[o] \in Record /\ file[o] = history[Place(id, o)]
    /\ Len(history) = Place(id, Len(file))
    /\ Full => Good(data[activeFileID]) = MaxRecords /\ Len(data[activeFileID]) = MaxRecords

(* appendRecordLocked writes to such a file, rotated or not.               *)
LEMMA TargetFacts ==
  ASSUME Counting, RecoveryInv, open, NEW id, NEW file,
         id = IF Full THEN nextFileID ELSE activeFileID,
         file = IF Full THEN createNewActiveFile(id) ELSE data[id]
  PROVE  IsTarget(id, file)
<1>1. CASE Full
  <2>1. id = activeFileID + 1 /\ activeOffset = MaxRecords
    BY <1>1, OpenFacts
  <2>2. /\ id \in Nat \ {0} /\ id \in 1..id /\ 1..activeFileID \cup {id} = 1..id
        /\ id \notin 1..activeFileID /\ activeFileID \in Nat /\ activeFileID < id
    BY <2>1, OpenFacts, SMTT(30)
  <2>3. id \notin DOMAIN data
    BY <2>2, OpenFacts
  <2>4. file = <<>>
    BY <1>1, <2>3 DEF createNewActiveFile
  <2>5. file \in Seq(Record \cup Fragments) /\ Len(file) = 0 /\ \A o \in 1..0 : FALSE
    <3>1. \A o \in 1..0 : FALSE
      BY SMTT(30)
    <3>2. Len(<<>>) = 0
      BY SMTT(30)
    <3>3. \A T : <<>> \in Seq(T)
      BY SMTT(30)
    <3> QED BY <2>4, <3>1, <3>2, <3>3
  <2>6. 0 \in Nat /\ 0 < MaxRecords
    BY Constants, SMTT(30)
  <2>7. Len(history) = Place(id, 0)
    <3>1. Len(history) = Place(activeFileID, MaxRecords)
      BY <2>1, OpenFacts
    <3> QED BY <2>1, <2>2, <3>1, PlaceAfter
  <2>8. Good(data[activeFileID]) = MaxRecords /\ Len(data[activeFileID]) = MaxRecords
    BY <2>1, OpenFacts
  <2> QED BY <1>1, <2>1, <2>2, <2>3, <2>5, <2>6, <2>7, <2>8, OpenFacts DEF IsTarget
<1>2. CASE ~Full
  <2>1. id = activeFileID /\ file = data[activeFileID] /\ Len(file) = activeOffset
    BY <1>2, OpenFacts
  <2>2. 1..activeFileID \cup {id} = 1..id
    BY <2>1, OpenFacts, SMTT(30)
  <2>3. activeOffset < MaxRecords
    BY <1>2, OpenFacts, Constants, SMTT(30)
  <2>4. \A o \in 1..activeOffset : file[o] = history[Place(id, o)]
    BY <2>1, OpenFacts DEF FilesHold
  <2> QED BY <1>2, <2>1, <2>2, <2>3, <2>4, OpenFacts DEF IsTarget
<1> QED BY <1>1, <1>2

(* Put and Delete append to the history and to the newest file.            *)
LEMMA WriteKeeps ==
  ASSUME Counting, RecoveryInv, NEW k \in Key, NEW v \in Value \cup {Tombstone},
         NEW t \in Nat, clock <= t, NEW entry, Write(k, v, t, entry),
         entry = IF v = Tombstone THEN Nil
                 ELSE [file |-> activeFileID', off |-> activeOffset', ts |-> t]
  PROVE  RecoveryInv'
<1> DEFINE r == [ts |-> t, key |-> k, value |-> v]
           id == IF Full THEN nextFileID ELSE activeFileID
           file == IF Full THEN createNewActiveFile(id) ELSE data[id]
           size == IF Full THEN Len(file) ELSE activeOffset
           g == Len(file) + 1
<1>1. /\ open /\ ~closing /\ writable
      /\ data' = With(data, id, Append(file, r))
      /\ hint' = IF Full THEN With(writeHintForDataFile(activeFileID), id, Nil) ELSE hint
      /\ activeFileID' = id /\ activeOffset' = size + 1
      /\ nextFileID' = IF Full THEN id + 1 ELSE nextFileID
      /\ synced' = IF SyncOnPut THEN Len(file) + 1 ELSE IF Full THEN 0 ELSE synced
      /\ history' = Append(history, r) /\ clock' = t
      /\ keydir' = [keydir EXCEPT ![k] = entry]
      /\ open' = open /\ closing' = closing /\ writable' = writable
      /\ merge' = merge /\ merges' = merges
  BY DEF Write, appendRecordLocked, Unlocked, opVars, boundVars
<1>2. /\ id \in Nat \ {0} /\ id \in 1..id /\ DOMAIN data \cup {id} = 1..id
      /\ IF Full THEN id = activeFileID + 1 /\ id \notin DOMAIN data ELSE id = activeFileID
      /\ file \in Seq(Record \cup Fragments) /\ Len(file) \in Nat /\ Len(file) < MaxRecords
      /\ Len(file) = IF Full THEN 0 ELSE activeOffset
      /\ \A o \in 1..Len(file) : file[o] \in Record /\ file[o] = history[Place(id, o)]
      /\ Len(history) = Place(id, Len(file))
      /\ Full => Good(data[activeFileID]) = MaxRecords /\ Len(data[activeFileID]) = MaxRecords
  <2> HIDE DEF id, file
  <2>1. /\ id = IF Full THEN nextFileID ELSE activeFileID
        /\ file = IF Full THEN createNewActiveFile(id) ELSE data[id]
    BY DEF id, file
  <2>2. open
    BY <1>1
  <2>3. IsTarget(id, file)
    BY <2>1, <2>2, TargetFacts
  <2> QED BY <2>3 DEF IsTarget
<1>3. size = Len(file)
  BY <1>2
<1>4. r \in Record
  BY DEF Record
<1> HIDE DEF id, file, size, r
<1>5. /\ data'[id] = Append(file, r) /\ DOMAIN data' = 1..id
      /\ \A j \in 1..id : j # id => data'[j] = data[j]
  BY <1>1, <1>2 DEF With
<1>6. /\ Append(file, r) \in Seq(Record \cup Fragments) /\ Len(Append(file, r)) = g
      /\ \A o \in 1..g : Append(file, r)[o] = IF o = g THEN r ELSE file[o]
      /\ g \in Nat /\ g <= MaxRecords /\ g \in 1..g /\ g # 0
      /\ \A o \in 1..g : o # g => o \in 1..Len(file)
  <2>1. r \in Record \cup Fragments
    BY <1>4
  <2>2. /\ g \in Nat /\ g <= MaxRecords /\ g \in 1..g /\ g # 0
        /\ \A o \in 1..g : o # g => o \in 1..Len(file)
    BY <1>2, Constants, SMTT(30)
  <2>3. \A T : file \in Seq(T) /\ r \in T => 
          /\ Append(file, r) \in Seq(T) /\ Len(Append(file, r)) = g
          /\ \A o \in 1..g : Append(file, r)[o] = IF o = g THEN r ELSE file[o]
    BY <1>2, SMTT(30)
  <2> QED BY <1>2, <2>1, <2>2, <2>3
<1>7. \A o \in 1..g : Append(file, r)[o] \in Record
  BY <1>2, <1>4, <1>6
<1>8. Good(data'[id]) = g /\ Len(data'[id]) = g
  <2>1. g <= g /\ ~(g < g)
    BY <1>6, SMTT(30)
  <2>2. Good(Append(file, r)) = g
    <3> HIDE DEF g
    <3> QED BY <1>6, <1>7, <2>1, RecordsAreWhole, GoodIs
  <2> QED BY <1>5, <1>6, <2>2
<1>9. /\ history' \in Seq(Record) /\ Len(history') = Len(history) + 1
      /\ \A m \in 1..Len(history) : history'[m] = history[m]
      /\ history'[Len(history) + 1] = r /\ Len(history) \in Nat
      /\ history \in Seq(Record)
  <2>1. history \in Seq(Record)
    BY <1>1, OpenFacts
  <2> QED BY <1>1, <1>4, <2>1, SMTT(30)
<1>10. Place(id, g) = Len(history) + 1
  <2>1. 0 \in Nat /\ 0 < id /\ id \in Nat
    BY <1>2, SMTT(30)
  <2>2. Place(id, g) = Place(id, 0) + g /\ Place(id, Len(file)) = Place(id, 0) + Len(file)
        /\ Place(id, 0) \in Nat
    BY <1>2, <1>6, <2>1, PlaceAfter
  <2> QED BY <1>2, <2>2, SMTT(30)
<1>11. FilesHold(data', history', id)
  <2>1. FilesHold(data, history, activeFileID) /\ activeFileID \in Nat \ {0}
    BY <1>1, OpenFacts
  <2>2. \/ id = activeFileID
        \/ /\ id = activeFileID + 1 /\ Good(data[activeFileID]) = MaxRecords
           /\ Len(data[activeFileID]) = MaxRecords
    BY <1>2
  <2>3. data'[id] \in Seq(Record \cup Fragments) /\ Good(data'[id]) <= MaxRecords
    BY <1>5, <1>6, <1>8
  <2>4. Len(history') = Place(id, Good(data'[id]))
    BY <1>8, <1>9, <1>10
  <2>5. \A m \in 1..Len(history') : m <= Len(history) => history'[m] = history[m]
    <3>1. \A m \in 1..Len(history') : m <= Len(history) => m \in 1..Len(history)
      BY <1>9, SMTT(30)
    <3> QED BY <1>9, <3>1
  <2>6. \A o \in 1..Good(data'[id]) : data'[id][o] = history'[Place(id, o)]
    <3> SUFFICES ASSUME NEW o \in 1..g PROVE Append(file, r)[o] = history'[Place(id, o)]
      BY <1>5, <1>8
    <3>1. CASE o = g
      BY <1>6, <1>9, <1>10, <3>1
    <3>2. CASE o # g
      <4>1. o \in 1..Len(file) /\ Append(file, r)[o] = file[o] /\ file[o] = history[Place(id, o)]
        BY <1>2, <1>6, <3>2
      <4>2. Place(id, o) \in 1..Len(history)
        <5>1. 0 \in Nat /\ 0 < id /\ id \in Nat /\ o \in Nat
          BY <1>2, <1>6, SMTT(30)
        <5>2. Place(id, o) = Place(id, 0) + o /\ Place(id, Len(file)) = Place(id, 0) + Len(file)
              /\ Place(id, 0) \in Nat
          BY <1>2, <5>1, PlaceAfter
        <5> QED BY <1>2, <4>1, <5>2, SMTT(30)
      <4> QED BY <1>9, <4>1, <4>2
    <3> QED BY <3>1, <3>2
  <2> QED BY <1>2, <1>5, <1>9, <2>1, <2>2, <2>3, <2>4, <2>5, <2>6, NewestChanges
<1>12. NewestFile' = id
  <2>1. id + 1 \notin 1..id
    BY <1>2, SMTT(30)
  <2> QED BY <1>1, <1>5, <2>1 DEF NewestFile
<1>13. FilesInv'
  <2>1. ~(g > g)
    BY <1>6, SMTT(30)
  <2> QED BY <1>1, <1>2, <1>8, <1>11, <1>12, <2>1 DEF FilesInv
<1>14. HintsInv'
  <2>1. /\ DOMAIN hint = DOMAIN data
        /\ \A j \in DOMAIN data : hint[j] # Nil => hint[j] = MaxRecords /\ Good(data[j]) = MaxRecords
    BY DEF RecoveryInv, HintsInv
  <2>2. activeFileID \in DOMAIN data /\ Good(data[activeFileID]) = activeOffset
    BY <1>1, OpenFacts
  <2>3. DOMAIN hint' = 1..id /\ hint'[id] = Nil
    <3>1. CASE Full
      BY <1>1, <1>2, <2>1, <3>1 DEF With, writeHintForDataFile
    <3>2. CASE ~Full
      <4>1. activeOffset # MaxRecords
        BY <1>1, <3>2, OpenFacts
      <4>2. hint' = hint /\ id = activeFileID
        BY <1>1, <1>2, <3>2
      <4> QED BY <1>2, <2>1, <2>2, <4>1, <4>2
    <3> QED BY <3>1, <3>2
  <2>4. ASSUME NEW j \in 1..id, j # id, hint'[j] # Nil
        PROVE  hint'[j] = MaxRecords /\ Good(data'[j]) = MaxRecords
    <3>1. data'[j] = data[j] /\ j \in DOMAIN data
      BY <1>2, <1>5, <2>4
    <3>2. CASE Full
      <4>1. hint'[j] = IF j = activeFileID THEN Good(data[j]) ELSE hint[j]
        BY <1>1, <2>1, <2>4, <3>1, <3>2 DEF With, writeHintForDataFile
      <4> QED BY <1>2, <2>1, <2>4, <3>1, <3>2, <4>1
    <3>3. CASE ~Full
      BY <1>1, <2>1, <2>4, <3>1, <3>3
    <3> QED BY <3>2, <3>3
  <2> QED BY <1>1, <1>5, <1>12, <2>3, <2>4 DEF HintsInv
<1>15. HistoryInv'
  <2>1. /\ clock \in Nat
        /\ \A n \in 1..Len(history) : history[n].ts <= clock /\ history[n].ts \in Nat
        /\ \A n \in 1..Len(history) : \A m \in 1..n : history[m].ts <= history[n].ts
    <3>1. \A n \in 1..Len(history) : history[n] \in Record
      BY <1>9, SMTT(30)
    <3> QED BY <3>1 DEF RecoveryInv, HistoryInv, Record
  <2>2. \A n \in 1..Len(history') : n \in 1..Len(history) \/ n = Len(history) + 1
    BY <1>9, SMTT(30)
  <2>3. r.ts = t /\ t <= t
    BY SMTT(30) DEF r
  <2>4. \A n \in 1..Len(history) : history[n].ts <= t
    BY <2>1, SMTT(30)
  <2>5. \A n \in 1..Len(history') : history'[n].ts <= t
    BY <1>9, <2>2, <2>3, <2>4
  <2>6. ASSUME NEW n \in 1..Len(history'), NEW m \in 1..n PROVE history'[m].ts <= history'[n].ts
    <3>1. CASE n = Len(history) + 1
      <4>1. m \in 1..Len(history')
        BY <1>9, <3>1
      <4> QED BY <1>9, <2>3, <2>5, <3>1, <4>1
    <3>2. CASE n \in 1..Len(history)
      <4>1. m \in 1..Len(history)
        BY <1>9, <3>2, SMTT(30)
      <4> QED BY <1>9, <2>1, <3>2, <4>1
    <3> QED BY <2>2, <3>1, <3>2
  <2> QED BY <1>1, <2>5, <2>6 DEF HistoryInv
<1>16. ProcessInv'
  <2>1. /\ activeOffset' = g /\ nextFileID' = id + 1
    BY <1>1, <1>2, <1>3, OpenFacts
  <2>2. synced' \in 0..g
    <3>1. synced \in Nat /\ synced <= activeOffset
      BY <1>1, OpenFacts
    <3>2. CASE SyncOnPut
      <4>1. synced' = g
        BY <1>1, <3>2
      <4> QED BY <1>6, <4>1, SMTT(30)
    <3>3. CASE ~SyncOnPut /\ Full
      <4>1. synced' = 0
        BY <1>1, <3>3
      <4> QED BY <1>6, <4>1, SMTT(30)
    <3>4. CASE ~SyncOnPut /\ ~Full
      <4>1. synced' = synced /\ Len(file) = activeOffset
        BY <1>1, <1>2, <3>4
      <4> QED BY <1>2, <1>6, <3>1, <4>1, SMTT(30)
    <3> QED BY <3>2, <3>3, <3>4
  <2>3. id + 1 \in Nat
    BY <1>2, SMTT(30)
  <2> QED BY <1>1, <1>6, <1>8, <2>1, <2>2, <2>3 DEF RecoveryInv, ProcessInv
<1>17. Represents(history', keydir', Len(history'))
  <2> DEFINE n == Len(history)
  <2>1. Represents(history', keydir, n)
    <3>1. Represents(history, keydir, n)
      BY <1>1 DEF RecoveryInv
    <3>2. \A m \in 1..n : history[m] = history'[m]
      BY <1>9
    <3> HIDE DEF n
    <3> QED BY <3>1, <3>2, RepresentsAgrees
  <2>2. n < Len(history')
    BY <1>9, SMTT(30)
  <2>3. history'[n + 1] = r /\ r.key = k /\ r.value = v /\ r.ts = t
    BY <1>9 DEF r
  <2>4. IF v = Tombstone THEN entry = Nil ELSE Names(history', entry, n + 1)
    <3> SUFFICES ASSUME v # Tombstone PROVE Names(history', entry, n + 1)
      OBVIOUS
    <3>1. entry = [file |-> id, off |-> g, ts |-> t]
      BY <1>1, <1>3
    <3>2. g \in Nat \ {0}
      BY <1>6
    <3>3. entry \in Entry /\ entry.file = id /\ entry.off = g /\ entry.ts = t
      <4>1. id \in Nat \ {0}
        BY <1>2
      <4> HIDE DEF g, id
      <4>2. [file |-> id, off |-> g, ts |-> t] \in Entry
        BY <3>2, <4>1 DEF Entry
      <4>3. entry.file = id /\ entry.off = g /\ entry.ts = t
        BY <3>1, SMTT(30)
      <4> QED BY <3>1, <4>2, <4>3
    <3> QED BY <1>6, <1>10, <2>3, <3>3 DEF Names
  <2>5. Represents(history', [keydir EXCEPT ![history'[n + 1].key] = entry], n + 1)
    <3>1. IF history'[n + 1].value = Tombstone THEN entry = Nil ELSE Names(history', entry, n + 1)
      BY <2>3, <2>4
    <3>2. n \in Nat
      BY <1>9
    <3> HIDE DEF n
    <3> QED BY <1>9, <2>1, <2>2, <3>1, <3>2, RepresentsNext
  <2> QED BY <1>1, <1>9, <2>3, <2>5
<1>18. keydir' \in [Key -> Entry \cup {Nil}]
  BY <1>17 DEF Represents
<1> QED BY <1>13, <1>14, <1>15, <1>16, <1>17, <1>18 DEF RecoveryInv

(* Steps that leave the store alone: reads, and writes that fail.          *)
LEMMA StoreUnchanged ==
  ASSUME RecoveryInv, UNCHANGED <<diskVars, memVars, merge, clock, history, merges>>
  PROVE  RecoveryInv'
<1>1. /\ UNCHANGED <<data, hint, synced>>
      /\ UNCHANGED <<open, closing, writable, keydir, activeFileID, activeOffset, nextFileID>>
      /\ UNCHANGED <<merge, clock, history, merges>>
  BY DEF diskVars, memVars
<1>2. NewestFile' = NewestFile
  BY <1>1 DEF NewestFile
<1>3. FilesInv'
  BY <1>1, <1>2 DEF RecoveryInv, FilesInv
<1>4. HintsInv'
  BY <1>1, <1>2 DEF RecoveryInv, HintsInv
<1>5. HistoryInv'
  BY <1>1 DEF RecoveryInv, HistoryInv
<1>6. ProcessInv'
  BY <1>1 DEF RecoveryInv, ProcessInv
<1> QED BY <1>1, <1>3, <1>4, <1>5, <1>6 DEF RecoveryInv

(* Steps that only make the active file durable, close the store or write  *)
(* the hint of a full file.                                                *)
LEMMA SyncKeeps ==
  ASSUME Counting, RecoveryInv, open,
         UNCHANGED <<data, keydir, activeFileID, activeOffset, nextFileID, clock, history>>,
         merge' = [m \in Merger |-> Nil], merges' = merges,
         synced' = synced \/ synced' = Len(data[activeFileID]),
         open' \in BOOLEAN, closing' \in BOOLEAN, writable' \in BOOLEAN,
         closing' \/ writable' => open', closing' => ~writable',
         open' /\ ~writable' => synced' = Len(data[activeFileID]),
         \/ hint' = hint
         \/ /\ Full /\ hint' = writeHintForDataFile(activeFileID)
            /\ synced' = Len(data[activeFileID])
  PROVE  RecoveryInv'
<1>1. NewestFile' = NewestFile /\ NewestFile = activeFileID
  BY OpenFacts DEF NewestFile
<1>2. FilesInv'
  <2>1. ~(Len(data[activeFileID]) > Good(data[activeFileID]))
    BY <1>1 DEF RecoveryInv, FilesInv
  <2> QED BY <1>1, <2>1 DEF RecoveryInv, FilesInv
<1>3. HistoryInv'
  BY DEF RecoveryInv, HistoryInv
<1>4. /\ activeFileID \in DOMAIN data
      /\ Good(data[activeFileID]) = activeOffset /\ Len(data[activeFileID]) = activeOffset
      /\ Full <=> activeOffset = MaxRecords
      /\ synced \in Nat /\ synced <= activeOffset /\ activeOffset \in Nat
      /\ activeOffset <= MaxRecords
  BY OpenFacts
<1>5. /\ DOMAIN hint = DOMAIN data
      /\ \A j \in DOMAIN data : hint[j] # Nil => hint[j] = MaxRecords /\ Good(data[j]) = MaxRecords
      /\ hint[activeFileID] # Nil => synced = MaxRecords
  BY DEF RecoveryInv, HintsInv
<1>6. HintsInv'
  <2>1. CASE hint' = hint
    <3>1. hint[activeFileID] # Nil => synced' = MaxRecords
      BY <1>4, <1>5
    <3> QED BY <1>1, <1>5, <2>1, <3>1 DEF HintsInv
  <2>2. CASE Full /\ hint' = writeHintForDataFile(activeFileID) /\ synced' = Len(data[activeFileID])
    <3>1. /\ DOMAIN hint' = DOMAIN data /\ hint'[activeFileID] = MaxRecords
          /\ \A j \in DOMAIN data : j # activeFileID => hint'[j] = hint[j]
      BY <1>4, <1>5, <2>2 DEF writeHintForDataFile
    <3> QED BY <1>1, <1>4, <1>5, <2>2, <3>1 DEF HintsInv
  <2> QED BY <2>1, <2>2
<1>7. synced' \in 0..Good(data[activeFileID])
  <2>1. synced' = synced \/ synced' = activeOffset
    BY <1>4
  <2>2. synced' \in 0..activeOffset
    BY <1>4, <2>1, SMTT(30)
  <2> QED BY <1>4, <2>2
<1>8. ProcessInv'
  BY <1>7 DEF RecoveryInv, ProcessInv
<1> QED BY <1>2, <1>3, <1>6, <1>8 DEF RecoveryInv

(* cut holds the first n records of file, and at most a fragment.          *)
IsCut(cut, file, n) ==
    /\ cut \in Seq(Record \cup Fragments) /\ Good(cut) = n
    /\ \A o \in 1..n : cut[o] = file[o]
    /\ Len(cut) > n => Len(cut) = n + 1 /\ cut[Len(cut)].cut = "torn"

(* What a crash leaves of a file of whole records.                         *)
LEMMA CutFacts ==
  ASSUME Counting, NEW file \in Seq(Record \cup Fragments), \A o \in 1..Len(file) : file[o] \in Record,
         NEW n \in 0..Len(file), NEW f \in {"none", "torn"}, NEW cut,
         cut = SubSeq(file, 1, n) \o Fragment(f)
  PROVE  IsCut(cut, file, n)
<1> DEFINE R == Record \cup Fragments
           s == SubSeq(file, 1, n)
           t == Fragment(f)
<1>1. n \in Nat /\ n <= Len(file) /\ Len(file) \in Nat
  BY SMTT(30)
<1>2. \A o \in 1..n : o \in 1..Len(file) /\ file[o] \in R
  <2>1. \A o \in 1..n : o \in 1..Len(file)
    BY <1>1, SMTT(30)
  <2> QED BY <2>1
<1>3. s \in Seq(R) /\ Len(s) = n /\ \A o \in 1..n : s[o] = file[o]
  <2> HIDE DEF R
  <2> QED BY <1>1, SMTT(30) DEF R
<1>4. \/ t = <<>>
      \/ t = <<[cut |-> "torn"]>> /\ [cut |-> "torn"] \in Fragments
  <2>1. [cut |-> "torn"] \in Fragments
    BY DEF Fragments
  <2> QED BY <2>1 DEF Fragment
<1> HIDE DEF s
<1>5. CASE t = <<>>
  <2>1. \A T : s \in Seq(T) => s \o <<>> \in Seq(T) /\ Len(s \o <<>>) = Len(s)
                               /\ \A o \in 1..Len(s) : (s \o <<>>)[o] = s[o]
    BY SMTT(30)
  <2>2. cut \in Seq(R) /\ Len(cut) = n /\ \A o \in 1..n : cut[o] = file[o]
    BY <1>3, <1>5, <2>1 DEF s
  <2>3. n <= n /\ ~(n < n) /\ ~(n > n)
    BY <1>1, SMTT(30)
  <2>4. \A o \in 1..n : cut[o] \notin Fragments
    BY <1>2, <2>2, RecordsAreWhole
  <2>5. Good(cut) = n
    BY <1>1, <2>2, <2>3, <2>4, GoodIs
  <2> QED BY <2>2, <2>3, <2>5 DEF IsCut
<1>6. CASE t = <<[cut |-> "torn"]>> /\ [cut |-> "torn"] \in Fragments
  <2> DEFINE x == [cut |-> "torn"]
  <2>1. x \in R /\ x \in Fragments /\ x.cut = "torn"
    BY <1>6
  <2> HIDE DEF x
  <2>2. \A T : s \in Seq(T) /\ x \in T =>
          /\ s \o <<x>> \in Seq(T) /\ Len(s \o <<x>>) = Len(s) + 1
          /\ \A o \in 1..Len(s) : (s \o <<x>>)[o] = s[o]
          /\ (s \o <<x>>)[Len(s) + 1] = x
    BY SMTT(30)
  <2>3. cut = s \o <<x>>
    BY <1>6 DEF s, x
  <2>4. /\ cut \in Seq(R) /\ Len(cut) = n + 1 /\ cut[n + 1] = x
        /\ \A o \in 1..n : cut[o] = file[o]
    BY <1>3, <2>1, <2>2, <2>3
  <2>5. n <= n + 1
    BY <1>1, SMTT(30)
  <2>6. \A o \in 1..n : cut[o] \notin Fragments
    BY <1>2, <2>4, RecordsAreWhole
  <2>7. Good(cut) = n
    BY <1>1, <2>1, <2>4, <2>5, <2>6, GoodIs
  <2> QED BY <2>1, <2>4, <2>7 DEF IsCut
<1> QED BY <1>4, <1>5, <1>6

(* The records a crash takes back that keeps the first n of the file.      *)
Lost(n) == {m \in (n + 1)..Len(data[activeFileID]) : data[activeFileID][m] \notin Fragments}

(* A crash takes back the last writes, of the active file only.            *)
LEMMA CrashKeeps ==
  ASSUME Counting, RecoveryInv, NEW n, NEW f \in {"none", "torn"}, Crash(n, f),
         Cardinality(Lost(n)) = activeOffset - n
  PROVE  RecoveryInv'
<1> DEFINE a == activeFileID
           file == data[a]
           lost == {m \in (n + 1)..Len(file) : file[m] \notin Fragments}
           cut == SubSeq(file, 1, n) \o Fragment(f)
<1>1. /\ open /\ n \in synced..Len(file)
      /\ data' = [data EXCEPT ![a] = cut]
      /\ history' = SubSeq(history, 1, Len(history) - Cardinality(lost))
      /\ open' = FALSE /\ closing' = FALSE /\ writable' = FALSE
      /\ merge' = [m \in Merger |-> Nil]
      /\ UNCHANGED <<hint, synced, keydir, activeFileID, activeOffset, nextFileID, clock, merges>>
  BY DEF Crash, ForgetCalls, boundVars
<1>2. /\ NewestFile = a /\ a \in Nat \ {0} /\ a \in 1..a /\ DOMAIN data = 1..a
      /\ FilesHold(data, history, a) /\ file \in Seq(Record \cup Fragments)
      /\ \A o \in 1..activeOffset : file[o] \in Record
      /\ Len(file) = activeOffset /\ activeOffset \in Nat /\ activeOffset <= MaxRecords
      /\ synced \in Nat /\ synced <= activeOffset
      /\ history \in Seq(Record) /\ Len(history) = Place(a, activeOffset)
      /\ Good(file) = activeOffset
  BY <1>1, OpenFacts
<1>3. n \in 0..Len(file) /\ n \in Nat /\ synced <= n /\ n <= activeOffset /\ n <= MaxRecords
  BY <1>1, <1>2, Constants, SMTT(30)
<1>4. /\ cut \in Seq(Record \cup Fragments) /\ Good(cut) = n
      /\ \A o \in 1..n : cut[o] = file[o]
      /\ Len(cut) > n => Len(cut) = n + 1 /\ cut[Len(cut)].cut = "torn"
  <2> HIDE DEF file
  <2>1. \A o \in 1..Len(file) : file[o] \in Record
    BY <1>2
  <2>2. cut = SubSeq(file, 1, n) \o Fragment(f)
    OBVIOUS
  <2> HIDE DEF cut
  <2>3. IsCut(cut, file, n)
    BY <1>2, <1>3, <2>1, <2>2, CutFacts
  <2> QED BY <2>3 DEF IsCut
<1>5. Cardinality(lost) = activeOffset - n
  BY DEF Lost
<1> HIDE DEF lost, cut
<1>6. /\ Place(a, 0) \in Nat /\ Place(a, n) = Place(a, 0) + n
      /\ Place(a, activeOffset) = Place(a, 0) + activeOffset
  <2>1. 0 \in Nat /\ 0 < a /\ a \in Nat
    BY <1>2, SMTT(30)
  <2> QED BY <1>2, <1>3, <2>1, PlaceAfter
<1>7. /\ history' \in Seq(Record) /\ Len(history') = Place(a, n) /\ Len(history') <= Len(history)
      /\ \A m \in 1..Len(history') : history'[m] = history[m]
      /\ Len(history') \in Nat /\ Len(history) \in Nat
  <2>1. Len(history) - Cardinality(lost) = Place(a, n) /\ Place(a, n) \in 0..Len(history)
    BY <1>2, <1>3, <1>5, <1>6, SMTT(30)
  <2>2. \A p \in 0..Len(history) :
          /\ SubSeq(history, 1, p) \in Seq(Record) /\ Len(SubSeq(history, 1, p)) = p
          /\ \A m \in 1..p : SubSeq(history, 1, p)[m] = history[m]
    BY <1>2, SMTT(30)
  <2>3. Len(history) \in Nat /\ Place(a, n) \in Nat /\ Place(a, n) <= Len(history)
    BY <1>2, <2>1, SMTT(30)
  <2> QED BY <1>1, <2>1, <2>2, <2>3
<1>8. DOMAIN data' = 1..a /\ data'[a] = cut /\ \A j \in 1..a : j # a => data'[j] = data[j]
  BY <1>1, <1>2
<1>9. FilesHold(data', history', a)
  <2>1. \A m \in 1..Len(history') : m <= Len(history) => history'[m] = history[m]
    BY <1>7
  <2>2. \A o \in 1..Good(data'[a]) : data'[a][o] = history'[Place(a, o)]
    <3> SUFFICES ASSUME NEW o \in 1..n PROVE cut[o] = history'[Place(a, o)]
      BY <1>4, <1>8
    <3>1. o \in 1..activeOffset /\ o \in Nat /\ o <= n /\ o # 0
      BY <1>2, <1>3, SMTT(30)
    <3>2. file[o] = history[Place(a, o)]
      BY <1>2, <3>1 DEF FilesHold
    <3>3. Place(a, o) = Place(a, 0) + o
      <4>1. 0 \in Nat /\ 0 < a /\ a \in Nat
        BY <1>2, SMTT(30)
      <4> QED BY <3>1, <4>1, PlaceAfter
    <3>4. Place(a, o) \in 1..Len(history')
      BY <1>3, <1>6, <1>7, <3>1, <3>3, SMTT(30)
    <3> QED BY <1>4, <1>7, <3>2, <3>4
  <2>3. Good(data'[a]) = n /\ data'[a] \in Seq(Record \cup Fragments)
    BY <1>4, <1>8
  <2>4. Len(history') = Place(a, Good(data'[a])) /\ Good(data'[a]) <= MaxRecords
    BY <1>3, <1>7, <2>3
  <2> HIDE DEF a
  <2> QED BY <1>2, <1>7, <1>8, <2>1, <2>2, <2>3, <2>4, NewestChanges
<1>10. NewestFile' = a
  <2>1. a + 1 \notin 1..a
    BY <1>2, SMTT(30)
  <2> QED BY <1>1, <1>8, <2>1 DEF NewestFile
<1>11. FilesInv'
  BY <1>1, <1>2, <1>4, <1>8, <1>9, <1>10 DEF FilesInv
<1>12. HintsInv'
  <2>1. /\ DOMAIN hint = DOMAIN data
        /\ \A j \in DOMAIN data : hint[j] # Nil => hint[j] = MaxRecords /\ Good(data[j]) = MaxRecords
        /\ hint[a] # Nil => synced = MaxRecords
    BY DEF RecoveryInv, HintsInv
  <2>2. hint[a] # Nil => n = MaxRecords
    <3>1. synced = MaxRecords => n = MaxRecords
      BY <1>2, <1>3, Constants, SMTT(30)
    <3> QED BY <2>1, <3>1
  <2>3. ASSUME NEW j \in 1..a, hint[j] # Nil
        PROVE  hint[j] = MaxRecords /\ Good(data'[j]) = MaxRecords
    <3>1. CASE j = a
      BY <1>2, <1>4, <1>8, <2>1, <2>2, <2>3, <3>1
    <3>2. CASE j # a
      BY <1>2, <1>8, <2>1, <2>3, <3>2
    <3> QED BY <3>1, <3>2
  <2> QED BY <1>1, <1>2, <1>8, <1>10, <2>1, <2>3 DEF HintsInv
<1>13. HistoryInv'
  <2>1. \A m \in 1..Len(history') : m \in 1..Len(history) /\ \A q \in 1..m : q \in 1..Len(history')
    BY <1>7, SMTT(30)
  <2> QED BY <1>1, <1>7, <2>1 DEF RecoveryInv, HistoryInv
<1>14. ProcessInv'
  <2>1. synced \in 0..n
    BY <1>2, <1>3, SMTT(30)
  <2> QED BY <1>1, <1>4, <1>8, <2>1 DEF RecoveryInv, ProcessInv
<1> QED BY <1>1, <1>11, <1>12, <1>13, <1>14 DEF RecoveryInv

(* A crash in a rotation may leave the hint, and the next file, empty or   *)
(* with a fragment.                                                        *)
LEMMA CrashInRotationKeeps ==
  ASSUME Counting, RecoveryInv, NEW f \in {"none", "torn"}, CrashInRotation(f)
  PROVE  RecoveryInv'
<1> DEFINE a == activeFileID
           N == a + 1
           old == writeHintForDataFile(a)
<1>1. /\ open /\ ~closing /\ writable /\ Full
      /\ \/ data' = data /\ hint' = old
         \/ data' = With(data, nextFileID, Fragment(f)) /\ hint' = With(old, nextFileID, Nil)
      /\ synced' = Len(data[a])
      /\ open' = FALSE /\ closing' = FALSE /\ writable' = FALSE
      /\ merge' = [m \in Merger |-> Nil]
      /\ UNCHANGED <<keydir, activeFileID, activeOffset, nextFileID, clock, history, merges>>
  BY DEF CrashInRotation, Unlocked, ForgetCalls, boundVars
<1>2. CASE data' = data /\ hint' = old
  BY <1>1, <1>2, SyncKeeps
<1>3. CASE data' = With(data, nextFileID, Fragment(f)) /\ hint' = With(old, nextFileID, Nil)
  <2>1. /\ NewestFile = a /\ a \in Nat \ {0} /\ a \in 1..a /\ DOMAIN data = 1..a
        /\ FilesHold(data, history, a) /\ nextFileID = N
        /\ Good(data[a]) = MaxRecords /\ Len(data[a]) = MaxRecords
        /\ history \in Seq(Record) /\ Len(history) = Place(a, MaxRecords)
    BY <1>1, OpenFacts
  <2>2. /\ N \in Nat \ {0} /\ 1..a \cup {N} = 1..N /\ N \notin 1..a /\ N \in 1..N /\ a \in 1..N
        /\ \A j \in 1..N : j # N => j \in 1..a
        /\ a \in Nat /\ N \in Nat /\ a < N /\ N # a
    BY <2>1, SMTT(30)
  <2>3. /\ DOMAIN data' = 1..N /\ data'[N] = Fragment(f)
        /\ \A j \in 1..N : j # N => data'[j] = data[j]
    BY <1>3, <2>1, <2>2 DEF With
  <2>4. /\ Fragment(f) \in Seq(Record \cup Fragments) /\ Good(Fragment(f)) = 0
        /\ Len(Fragment(f)) > 0 => Len(Fragment(f)) = 0 + 1 /\ Fragment(f)[Len(Fragment(f))].cut = "torn"
    <3> DEFINE file == <<>>
               cut == SubSeq(file, 1, 0) \o Fragment(f)
    <3>1. Len(file) = 0 /\ 0 \in 0..0 /\ \A o \in 1..0 : FALSE
      BY SMTT(30)
    <3>2. \A T : file \in Seq(T)
      BY SMTT(30)
    <3>3. cut = Fragment(f)
      <4>1. SubSeq(file, 1, 0) = <<>>
        BY SMTT(30)
      <4>2. <<>> \o <<>> = <<>> /\ \A x : <<>> \o <<x>> = <<x>>
        BY SMTT(30)
      <4> QED BY <4>1, <4>2 DEF Fragment
    <3>4. 0 \in 0..Len(file) /\ \A o \in 1..Len(file) : file[o] \in Record
      BY <3>1
    <3> HIDE DEF cut, file
    <3>5. file \in Seq(Record \cup Fragments) /\ cut = SubSeq(file, 1, 0) \o Fragment(f)
      BY <3>2 DEF cut
    <3>6. IsCut(cut, file, 0)
      BY <3>4, <3>5, CutFacts
    <3> QED BY <3>3, <3>6 DEF IsCut
  <2>5. FilesHold(data', history', N)
    <3>1. Len(history) = Place(N, 0)
      BY <2>1, <2>2, PlaceAfter
    <3>2. /\ data'[N] \in Seq(Record \cup Fragments) /\ Good(data'[N]) = 0
          /\ 0 <= MaxRecords /\ \A o \in 1..0 : FALSE
      <4>1. 0 <= MaxRecords /\ \A o \in 1..0 : FALSE
        BY Constants, SMTT(30)
      <4> QED BY <2>3, <2>4, <4>1
    <3>3. /\ Len(history) = Place(N, Good(data'[N])) /\ Good(data'[N]) <= MaxRecords
          /\ \A o \in 1..Good(data'[N]) : data'[N][o] = history[Place(N, o)]
      BY <3>1, <3>2
    <3>4. history' = history /\ N = a + 1
      BY <1>1
    <3> HIDE DEF a, N
    <3>5. N = a \/ (N = a + 1 /\ Good(data[a]) = MaxRecords /\ Len(data[a]) = MaxRecords)
      BY <2>1, <3>4
    <3>6. \A m \in 1..Len(history) : m <= Len(history) => history[m] = history[m]
      OBVIOUS
    <3>7. /\ a \in Nat \ {0} /\ FilesHold(data, history, a) /\ history \in Seq(Record)
          /\ N \in Nat \ {0} /\ DOMAIN data' = 1..N
          /\ \A j \in 1..N : j # N => data'[j] = data[j]
          /\ data'[N] \in Seq(Record \cup Fragments)
      BY <2>1, <2>2, <2>3, <3>2
    <3>8. FilesHold(data', history, N)
      BY <3>3, <3>5, <3>6, <3>7, NewestChanges
    <3> QED BY <3>4, <3>8
  <2>6. NewestFile' = N
    BY <1>1, <2>2, <2>3 DEF NewestFile
  <2>7. FilesInv'
    BY <1>1, <2>1, <2>3, <2>4, <2>5, <2>6 DEF FilesInv
  <2>8. HintsInv'
    <3>1. /\ DOMAIN hint = DOMAIN data
          /\ \A j \in DOMAIN data : hint[j] # Nil => hint[j] = MaxRecords /\ Good(data[j]) = MaxRecords
      BY DEF RecoveryInv, HintsInv
    <3>2. /\ DOMAIN hint' = 1..N /\ hint'[N] = Nil
          /\ \A j \in 1..a : hint'[j] = IF j = a THEN Good(data[a]) ELSE hint[j]
      BY <1>3, <2>1, <2>2, <3>1 DEF With, writeHintForDataFile
    <3>3. ASSUME NEW j \in 1..N, hint'[j] # Nil
          PROVE  hint'[j] = MaxRecords /\ Good(data'[j]) = MaxRecords
      <4>1. j # N /\ j \in 1..a
        BY <2>2, <3>2, <3>3
      <4> QED BY <2>1, <2>3, <3>1, <3>2, <3>3, <4>1
    <3>4. synced' = MaxRecords
      BY <1>1, <2>1
    <3> QED BY <2>3, <2>6, <3>2, <3>3, <3>4 DEF HintsInv
  <2>9. HistoryInv'
    BY <1>1 DEF RecoveryInv, HistoryInv
  <2>10. ProcessInv'
    <3>1. synced' \in 0..MaxRecords /\ data'[a] = data[a]
      <4>1. MaxRecords \in 0..MaxRecords
        BY Constants, SMTT(30)
      <4> QED BY <1>1, <2>1, <2>2, <2>3, <4>1
    <3> QED BY <1>1, <2>1, <3>1 DEF RecoveryInv, ProcessInv
  <2> QED BY <1>1, <2>7, <2>8, <2>9, <2>10 DEF RecoveryInv
<1> QED BY <1>1, <1>2, <1>3

(* A rotation whose first write fails leaves an empty file to write to.    *)
LEMMA FailureAfterRotationKeeps ==
  ASSUME Counting, RecoveryInv, WriteFailsAfterRotation("none")
  PROVE  RecoveryInv'
<1> DEFINE a == activeFileID
           N == a + 1
<1>1. /\ open /\ ~closing /\ writable /\ Full
      /\ data' = With(data, nextFileID, createNewActiveFile(nextFileID) \o <<>>)
      /\ hint' = With(writeHintForDataFile(a), nextFileID, Nil)
      /\ activeFileID' = nextFileID /\ activeOffset' = Len(createNewActiveFile(nextFileID))
      /\ nextFileID' = nextFileID + 1 /\ synced' = 0
      /\ UNCHANGED <<open, closing, writable, keydir, merge, clock, history, merges>>
  BY DEF WriteFailsAfterRotation, Unlocked, Fragment, opVars, restVars, boundVars
<1>2. /\ a \in Nat \ {0} /\ DOMAIN data = 1..a
      /\ FilesHold(data, history, a) /\ nextFileID = N
      /\ Good(data[a]) = MaxRecords /\ Len(data[a]) = MaxRecords
      /\ history \in Seq(Record) /\ Len(history) = Place(a, MaxRecords)
  BY <1>1, OpenFacts
<1>3. /\ N \in Nat \ {0} /\ 1..a \cup {N} = 1..N /\ N \notin 1..a /\ N \in 1..N
      /\ \A j \in 1..N : j # N => j \in 1..a
      /\ a \in Nat /\ N \in Nat /\ a < N /\ N + 1 \notin 1..N /\ N + 1 \in Nat /\ a \in 1..a
  BY <1>2, SMTT(30)
<1>4. <<>> \o <<>> = <<>> /\ Len(<<>>) = 0 /\ \A T : <<>> \in Seq(T)
  BY SMTT(30)
<1>5. createNewActiveFile(nextFileID) = <<>>
  BY <1>2, <1>3 DEF createNewActiveFile
<1>6. /\ activeFileID' = N /\ activeOffset' = 0 /\ nextFileID' = N + 1
      /\ DOMAIN data' = 1..N /\ data'[N] = <<>> /\ \A j \in 1..N : j # N => data'[j] = data[j]
  BY <1>1, <1>2, <1>3, <1>4, <1>5 DEF With
<1>z. 0 \in Nat /\ 0 <= 0 /\ ~(0 > 0) /\ ~(0 < 0) /\ 0 \in 0..0 /\ \A o \in 1..0 : FALSE
  BY SMTT(30)
<1>7. Good(data'[N]) = 0 /\ Len(data'[N]) = 0
  <2>1. <<>> \in Seq(Record) /\ 0 <= Len(<<>>) /\ ~(0 < Len(<<>>))
    BY <1>4, <1>z
  <2>2. Good(<<>>) = 0
    BY <1>z, <2>1, GoodIs
  <2> QED BY <1>4, <1>6, <2>2
<1>8. FilesHold(data', history', N)
  <2>1. Len(history) = Place(N, 0)
    BY <1>2, <1>3, PlaceAfter
  <2>2. 0 <= MaxRecords
    BY Constants, SMTT(30)
  <2>3. /\ Len(history) = Place(N, Good(data'[N])) /\ Good(data'[N]) <= MaxRecords
        /\ \A o \in 1..Good(data'[N]) : data'[N][o] = history[Place(N, o)]
    BY <1>7, <1>z, <2>1, <2>2
  <2>4. history' = history /\ N = a + 1
    BY <1>1
  <2> HIDE DEF a, N
  <2>5. N = a \/ (N = a + 1 /\ Good(data[a]) = MaxRecords /\ Len(data[a]) = MaxRecords)
    BY <1>2, <2>4
  <2>6. \A m \in 1..Len(history) : m <= Len(history) => history[m] = history[m]
    OBVIOUS
  <2>7. /\ a \in Nat \ {0} /\ FilesHold(data, history, a) /\ history \in Seq(Record)
        /\ N \in Nat \ {0} /\ DOMAIN data' = 1..N
        /\ \A j \in 1..N : j # N => data'[j] = data[j]
        /\ data'[N] \in Seq(Record \cup Fragments)
    BY <1>2, <1>3, <1>4, <1>6
  <2>8. FilesHold(data', history, N)
    BY <2>3, <2>5, <2>6, <2>7, NewestChanges
  <2> QED BY <2>4, <2>8
<1>9. NewestFile' = N
  BY <1>3, <1>6 DEF NewestFile
<1>10. FilesInv'
  BY <1>3, <1>6, <1>7, <1>8, <1>9, <1>z DEF FilesInv
<1>11. HintsInv'
  <2>1. /\ DOMAIN hint = DOMAIN data
        /\ \A j \in DOMAIN data : hint[j] # Nil => hint[j] = MaxRecords /\ Good(data[j]) = MaxRecords
    BY DEF RecoveryInv, HintsInv
  <2>2. /\ DOMAIN hint' = 1..N /\ hint'[N] = Nil
        /\ \A j \in 1..a : hint'[j] = IF j = a THEN Good(data[a]) ELSE hint[j]
    BY <1>1, <1>2, <1>3, <2>1 DEF With, writeHintForDataFile
  <2>3. ASSUME NEW j \in 1..N, hint'[j] # Nil
        PROVE  hint'[j] = MaxRecords /\ Good(data'[j]) = MaxRecords
    <3>1. j # N /\ j \in 1..a
      BY <1>3, <2>2, <2>3
    <3> QED BY <1>2, <1>6, <2>1, <2>2, <2>3, <3>1
  <2> QED BY <1>6, <1>9, <2>2, <2>3 DEF HintsInv
<1>12. HistoryInv'
  BY <1>1 DEF RecoveryInv, HistoryInv
<1>13. ProcessInv'
  BY <1>1, <1>3, <1>6, <1>7, <1>z DEF RecoveryInv, ProcessInv
<1> QED BY <1>1, <1>10, <1>11, <1>12, <1>13 DEF RecoveryInv

(* Recovery cuts a torn tail off and keeps the rest.                       *)
LEMMA OpenKeeps ==
  ASSUME Counting, RecoveryInv, OpenWithOptions
  PROVE  RecoveryInv'
<1> DEFINE N == NewestFile
           file == data[N]
           g == Good(file)
           kept == scanDataFile(file)
<1>1. /\ N \in Nat \ {0} /\ LastFileID = N /\ N \in 1..N /\ activeFileID \in 1..N
  BY NewestFacts DEF RecoveryInv
<1>2. /\ ~open /\ open' = TRUE /\ writable' = TRUE /\ closing' = closing
      /\ keydir' = Recovered
      /\ data' = [data EXCEPT ![N] = kept]
      /\ activeFileID' = N /\ activeOffset' = Len(data'[N]) /\ nextFileID' = N + 1
      /\ synced' = IF N = activeFileID /\ data' = data THEN synced ELSE activeOffset'
      /\ merge' = [m \in Merger |-> Nil]
      /\ UNCHANGED <<hint, clock, history, merges>>
  <2> DEFINE L == LastFileID
  <2>1. /\ ~open /\ open' = TRUE /\ writable' = TRUE /\ closing' = closing
        /\ keydir' = Recovered
        /\ data' = [data EXCEPT ![L] = scanDataFile(data[L])]
        /\ activeFileID' = L /\ activeOffset' = Len(data'[L]) /\ nextFileID' = L + 1
        /\ synced' = IF L = activeFileID /\ data' = data THEN synced ELSE activeOffset'
        /\ merge' = [m \in Merger |-> Nil]
        /\ UNCHANGED <<hint, clock, history, merges>>
    BY DEF OpenWithOptions, ForgetCalls
  <2>2. L = N
    BY <1>1
  <2> HIDE DEF L, N
  <2>3. data' = [data EXCEPT ![N] = scanDataFile(data[N])]
    BY <2>1, <2>2
  <2>4. synced' = IF N = activeFileID /\ data' = data THEN synced ELSE activeOffset'
    BY <2>1, <2>2, SMTT(30)
  <2>5. activeFileID' = N /\ activeOffset' = Len(data'[N]) /\ nextFileID' = N + 1
    BY <2>1, <2>2
  <2> QED BY <2>1, <2>3, <2>4, <2>5
<1>3. /\ file \in Seq(Record \cup Fragments) /\ Len(file) \in Nat /\ g \in Nat /\ g <= MaxRecords
      /\ g <= Len(file) /\ \A n \in 1..g : file[n] \in Record
  BY <1>1, FileFacts DEF RecoveryInv
<1>4. /\ FilesHold(data, history, N) /\ DOMAIN data = 1..N
      /\ Len(file) > g => Len(file) = g + 1 /\ file[Len(file)].cut = "torn"
  BY DEF RecoveryInv, FilesInv, FilesHold
<1>5. kept \in Seq(Record \cup Fragments) /\ Len(kept) = g /\ \A n \in 1..g : kept[n] = file[n]
  <2>1. CASE g = Len(file)
    <3>1. kept = file
      BY <2>1 DEF scanDataFile, Scannable
    <3> QED BY <1>3, <2>1, <3>1
  <2>2. CASE g # Len(file)
    <3>1. Len(file) > g
      BY <1>3, <2>2, SMTT(30)
    <3>2. ~Scannable(file)
      <4>1. file[Len(file)].cut # "stub"
        BY <1>4, <3>1
      <4> QED BY <2>2, <4>1 DEF Scannable
    <3>3. kept = SubSeq(file, 1, g)
      BY <3>2 DEF scanDataFile
    <3>4. \A T : file \in Seq(T) => \A n \in 0..Len(file) :
            /\ SubSeq(file, 1, n) \in Seq(T) /\ Len(SubSeq(file, 1, n)) = n
            /\ \A o \in 1..n : SubSeq(file, 1, n)[o] = file[o]
      BY SMTT(30)
    <3>5. g \in 0..Len(file)
      BY <1>3, SMTT(30)
    <3> QED BY <1>3, <3>3, <3>4, <3>5
  <2> QED BY <2>1, <2>2
<1>6. Good(kept) = g
  <2>1. g <= g /\ ~(g < g)
    BY <1>3, SMTT(30)
  <2>2. \A n \in 1..g : kept[n] \notin Fragments
    BY <1>3, <1>5, RecordsAreWhole
  <2> HIDE DEF g, kept
  <2> QED BY <1>3, <1>5, <2>1, <2>2, GoodIs
<1>7. DOMAIN data' = 1..N /\ data'[N] = kept /\ \A j \in 1..N : j # N => data'[j] = data[j]
  BY <1>1, <1>2, <1>4
<1>8. \A j \in 1..N : Good(data'[j]) = Good(data[j])
  BY <1>6, <1>7
<1>9. FilesHold(data', history', N)
  <2>1. /\ data'[N] \in Seq(Record \cup Fragments) /\ Good(data'[N]) = g /\ g <= MaxRecords
        /\ Len(history) = Place(N, g) /\ history \in Seq(Record)
        /\ \A o \in 1..g : data'[N][o] = history[Place(N, o)]
    BY <1>1, <1>3, <1>4, <1>5, <1>6, <1>7 DEF FilesHold
  <2>2. /\ Good(data'[N]) <= MaxRecords /\ Len(history) = Place(N, Good(data'[N]))
        /\ \A o \in 1..Good(data'[N]) : data'[N][o] = history[Place(N, o)]
    BY <2>1
  <2>3. \A m \in 1..Len(history) : m <= Len(history) => history[m] = history[m]
    OBVIOUS
  <2> HIDE DEF N
  <2>4. FilesHold(data', history, N)
    BY <1>1, <1>4, <1>7, <2>1, <2>2, <2>3, NewestChanges
  <2> QED BY <1>2, <2>4
<1>10. NewestFile' = N
  <2>1. N + 1 \notin 1..N
    BY <1>1, SMTT(30)
  <2> QED BY <1>2, <1>7, <2>1 DEF NewestFile
<1>11. FilesInv'
  <2>1. ~(g > g)
    BY <1>3, SMTT(30)
  <2>2. Len(data'[N]) = g /\ Good(data'[N]) = g
    BY <1>5, <1>6, <1>7
  <2> HIDE DEF g, N
  <2> QED BY <1>1, <1>2, <1>9, <1>10, <2>1, <2>2 DEF FilesInv
<1>12. synced' \in 0..g /\ (hint[N] # Nil => synced' = MaxRecords)
  <2>1. /\ synced \in 0..Good(data[activeFileID])
        /\ hint[activeFileID] # Nil => synced = MaxRecords
        /\ N # activeFileID => hint[N] = Nil
        /\ hint[N] # Nil => Good(data[N]) = MaxRecords
    BY <1>1, <1>4 DEF RecoveryInv, ProcessInv, HintsInv
  <2>2. activeOffset' = g
    BY <1>2, <1>5, <1>7
  <2>3. g \in 0..g
    BY <1>3, SMTT(30)
  <2>4. CASE N = activeFileID /\ data' = data
    BY <1>2, <2>1, <2>4
  <2>5. CASE ~(N = activeFileID /\ data' = data)
    BY <1>2, <2>1, <2>2, <2>3, <2>5
  <2> QED BY <2>4, <2>5
<1>13. HintsInv'
  <2>1. /\ DOMAIN hint = DOMAIN data
        /\ \A j \in DOMAIN data : hint[j] # Nil => hint[j] = MaxRecords /\ Good(data[j]) = MaxRecords
    BY DEF RecoveryInv, HintsInv
  <2> QED BY <1>2, <1>4, <1>7, <1>8, <1>10, <1>12, <2>1 DEF HintsInv
<1>14. HistoryInv'
  BY <1>2 DEF RecoveryInv, HistoryInv
<1>15. ProcessInv'
  <2>1. ~closing
    BY <1>2 DEF RecoveryInv, ProcessInv
  <2>2. N + 1 \in Nat
    BY <1>1, SMTT(30)
  <2>3. activeOffset' = Len(data'[activeFileID']) /\ activeOffset' = g
        /\ Good(data'[activeFileID']) = g
    BY <1>2, <1>5, <1>6, <1>7
  <2> QED BY <1>2, <1>3, <1>12, <2>1, <2>2, <2>3 DEF RecoveryInv, ProcessInv
<1>16. Represents(history', keydir', Len(history'))
  <2>1. Represents(history, Recovered, Len(history))
    BY RecoveredRepresents DEF RecoveryInv
  <2> QED BY <1>2, <2>1
<1>17. keydir' \in [Key -> Entry \cup {Nil}]
  BY <1>16 DEF Represents
<1> QED BY <1>11, <1>13, <1>14, <1>15, <1>16, <1>17 DEF RecoveryInv

-----------------------------------------------------------------------------
(* The invariant.                                                          *)

(* A crash that keeps n records of the active file loses the writes of the *)
(* others, which are the last ones.                                        *)
LEMMA LostIs ==
  ASSUME Counting, RecoveryInv, open, NEW n \in synced..Len(data[activeFileID])
  PROVE  /\ Cardinality(Lost(n)) = activeOffset - n
         /\ Len(history) - Cardinality(Lost(n)) \in 0..Len(history)
<1>1. /\ Len(data[activeFileID]) = activeOffset /\ activeOffset \in Nat /\ synced \in Nat
      /\ \A o \in 1..activeOffset : data[activeFileID][o] \in Record
      /\ Len(history) = Place(activeFileID, activeOffset) /\ activeFileID \in Nat \ {0}
  BY OpenFacts
<1>2. n \in Nat /\ n <= activeOffset
  BY <1>1, SMTT(30)
<1>3. \A m \in (n + 1)..activeOffset : m \in 1..activeOffset
  BY <1>1, <1>2, SMTT(30)
<1>4. Lost(n) = (n + 1)..activeOffset
  BY <1>1, <1>3, RecordsAreWhole DEF Lost
<1>5. n + 1 \in Int /\ activeOffset \in Int
  BY <1>1, <1>2, SMTT(30)
<1>6. Cardinality((n + 1)..activeOffset)
        = IF n + 1 > activeOffset THEN 0 ELSE activeOffset - (n + 1) + 1
  BY <1>5 DEF Counting
<1>7. (IF n + 1 > activeOffset THEN 0 ELSE activeOffset - (n + 1) + 1) = activeOffset - n
  BY <1>1, <1>2, SMTT(30)
<1>8. Cardinality(Lost(n)) = activeOffset - n
  BY <1>4, <1>6, <1>7
<1>9. Place(activeFileID, 0) \in Nat /\ Place(activeFileID, activeOffset) = Place(activeFileID, 0) + activeOffset
  <2>1. 0 \in Nat /\ 0 < activeFileID /\ activeFileID \in Nat
    BY <1>1, SMTT(30)
  <2> QED BY <1>1, <2>1, PlaceAfter
<1>10. Len(history) - Cardinality(Lost(n)) \in 0..Len(history)
  BY <1>1, <1>2, <1>8, <1>9, SMTT(30)
<1> QED BY <1>8, <1>10

(* A new store satisfies RecoveryInv.                                      *)
LEMMA InitRecovery ==
  ASSUME Counting
  PROVE  Init => RecoveryInv
<1> SUFFICES ASSUME Init PROVE RecoveryInv
  OBVIOUS
<1>1. /\ DOMAIN data = {1} /\ data[1] = <<>> /\ DOMAIN hint = {1} /\ hint[1] = Nil
      /\ activeFileID = 1 /\ activeOffset = 0 /\ nextFileID = 2 /\ synced = 0
      /\ open = TRUE /\ closing = FALSE /\ writable = TRUE
      /\ keydir = [k \in Key |-> Nil] /\ merge = [m \in Merger |-> Nil]
      /\ clock = 0 /\ history = <<>> /\ merges = 0
  BY DEF Init, With, NoFile
<1>2. 1..1 = {1} /\ 1 + 1 \notin {1} /\ 1 + 1 = 2 /\ 1 \in Nat \ {0} /\ 0 \in Nat /\ 2 \in Nat
      /\ 0 \in 0..0 /\ (\A o \in 1..0 : FALSE) /\ 0 <= 0 /\ ~(0 > 0)
  BY SMTT(30)
<1>3. Len(<<>>) = 0 /\ \A T : <<>> \in Seq(T)
  BY SMTT(30)
<1>4. NewestFile = 1
  BY <1>1, <1>2 DEF NewestFile
<1>5. Good(data[1]) = 0 /\ Len(data[1]) = 0
  <2>1. <<>> \in Seq({}) /\ Len(<<>>) = 0 /\ 0 <= Len(<<>>) /\ ~(0 < Len(<<>>))
    BY <1>3, SMTT(30)
  <2>2. Good(<<>>) = 0
    BY <1>2, <2>1, GoodIs
  <2> QED BY <1>1, <1>3, <2>2
<1>6. Place(1, 0) = 0 /\ 0 <= MaxRecords
  BY Constants, SMTT(30) DEF Place
<1>7. FilesHold(data, history, 1)
  <2>1. \A id \in 1..1 : id = 1
    BY <1>2
  <2>2. \A id \in 1..1 : data[id] \in Seq(Record \cup Fragments) /\ Good(data[id]) = 0
    BY <1>1, <1>3, <1>5, <2>1
  <2>3. Len(history) = 0 /\ history \in Seq(Record) /\ DOMAIN data = 1..1
    BY <1>1, <1>2, <1>3
  <2> QED BY <1>2, <1>5, <1>6, <2>1, <2>2, <2>3 DEF FilesHold
<1>8. FilesInv
  BY <1>1, <1>2, <1>4, <1>5, <1>7 DEF FilesInv
<1>9. HintsInv
  BY <1>1, <1>4 DEF HintsInv
<1>10. HistoryInv
  BY <1>1, <1>2, <1>3 DEF HistoryInv
<1>11. ProcessInv
  BY <1>1, <1>2, <1>5 DEF ProcessInv
<1>12. Represents(history, keydir, Len(history))
  BY <1>1, <1>2, <1>3 DEF Represents
<1> QED BY <1>8, <1>9, <1>10, <1>11, <1>12 DEF RecoveryInv, Represents

(* A failing write that leaves nothing behind changes no file.             *)
LEMMA SameFiles ==
  ASSUME Counting, RecoveryInv, open,
         DOMAIN data' = DOMAIN data, \A j \in DOMAIN data : data'[j] = data[j],
         UNCHANGED <<hint, synced, memVars, merge, clock, history, merges>>
  PROVE  RecoveryInv'
<1>1. /\ UNCHANGED <<hint, synced, open, closing, writable, keydir, activeFileID>>
      /\ UNCHANGED <<activeOffset, nextFileID, merge, clock, history, merges>>
  BY DEF memVars
<1>2. /\ NewestFile = activeFileID /\ activeFileID \in Nat \ {0} /\ activeFileID \in 1..activeFileID
      /\ DOMAIN data = 1..activeFileID /\ FilesHold(data, history, activeFileID)
      /\ FilesInv /\ HintsInv /\ HistoryInv /\ ProcessInv
      /\ keydir \in [Key -> Entry \cup {Nil}]
      /\ Represents(history, keydir, Len(history))
  BY OpenFacts DEF RecoveryInv
<1>3. NewestFile' = NewestFile
  BY <1>1 DEF NewestFile
<1>4. FilesHold(data', history', NewestFile')
  <2>1. \A j \in 1..activeFileID : data'[j] = data[j]
    BY <1>2
  <2>2. DOMAIN data' = 1..activeFileID
    BY <1>2
  <2>3. FilesHold(data', history, activeFileID)
    BY <1>2, <2>1, <2>2 DEF FilesHold
  <2> QED BY <1>1, <1>2, <1>3, <2>3
<1>5. data'[activeFileID] = data[activeFileID]
  BY <1>2
<1>6. FilesInv'
  BY <1>1, <1>2, <1>3, <1>4, <1>5 DEF FilesInv
<1>7. HintsInv'
  BY <1>1, <1>2, <1>3, <1>5 DEF HintsInv
<1>8. HistoryInv'
  BY <1>1, <1>2 DEF HistoryInv
<1>9. ProcessInv'
  BY <1>1, <1>2, <1>5 DEF ProcessInv
<1>10. Represents(history', keydir', Len(history')) /\ keydir' \in [Key -> Entry \cup {Nil}]
  BY <1>1, <1>2
<1> QED BY <1>6, <1>7, <1>8, <1>9, <1>10 DEF RecoveryInv

(* Every step of a store that is never merged preserves the invariant.     *)
LEMMA RecoveryStep ==
  ASSUME Counting, NeverMerged, RecoveryInv, [Next]_vars
  PROVE  RecoveryInv'
<1>0. /\ MaxMerges = 0 /\ merge = [m \in Merger |-> Nil] /\ merges = 0
      /\ open \in BOOLEAN /\ closing \in BOOLEAN /\ writable \in BOOLEAN
      /\ (closing \/ writable => open) /\ (closing => ~writable)
      /\ (open /\ ~writable => synced = Len(data[activeFileID]))
      /\ clock \in Nat
  BY DEF NeverMerged, RecoveryInv, ProcessInv, HistoryInv
<1>1. ASSUME NEW k \in Key, NEW v \in Value, Put(k, v) PROVE RecoveryInv'
  <2>1. PICK d \in ClockSteps :
          Write(k, v, clock + d, [file |-> activeFileID', off |-> activeOffset', ts |-> clock + d])
    BY <1>1 DEF Put
  <2>2. d \in Nat /\ v # Tombstone
    BY Constants
  <2>3. clock + d \in Nat /\ clock <= clock + d
    BY <1>0, <2>2, SMTT(30)
  <2> QED BY <2>1, <2>2, <2>3, WriteKeeps
<1>2. ASSUME NEW k \in Key, Delete(k) PROVE RecoveryInv'
  <2>1. PICK d \in ClockSteps : Write(k, Tombstone, clock + d, Nil)
    BY <1>2 DEF Delete
  <2>2. d \in Nat
    BY Constants
  <2>3. clock + d \in Nat /\ clock <= clock + d
    BY <1>0, <2>2, SMTT(30)
  <2> QED BY <2>1, <2>3, WriteKeeps
<1>3. ASSUME NEW f \in WriteFragments, WriteFails(f) PROVE RecoveryInv'
  <2>1. f = "none" /\ open
    BY <1>3 DEF NeverMerged, WriteFails, Unlocked
  <2>2. data' = [data EXCEPT ![activeFileID] = data[activeFileID] \o <<>>]
    BY <1>3, <2>1 DEF WriteFails, Fragment
  <2>3. data[activeFileID] \o <<>> = data[activeFileID]
    <3>1. data[activeFileID] \in Seq(Record \cup Fragments)
      BY <2>1, OpenFacts
    <3>2. \A s, T : s \in Seq(T) => s \o <<>> = s
      BY SMTT(30)
    <3> QED BY <3>1, <3>2
  <2>4. DOMAIN data' = DOMAIN data /\ \A j \in DOMAIN data : data'[j] = data[j]
    BY <2>2, <2>3
  <2>5. UNCHANGED <<hint, synced, memVars, merge, clock, history, merges>>
    BY <1>3 DEF WriteFails, opVars, restVars, boundVars
  <2> QED BY <2>1, <2>4, <2>5, SameFiles
<1>4. CASE RotationFails
  <2>1. /\ open /\ ~closing /\ writable /\ Full
        /\ writable' = FALSE /\ synced' = Len(data[activeFileID])
        /\ hint' = hint \/ hint' = writeHintForDataFile(activeFileID)
        /\ UNCHANGED <<data, open, closing, keydir, activeFileID, activeOffset, nextFileID>>
        /\ UNCHANGED <<merge, clock, history, merges>>
    BY <1>4 DEF RotationFails, Unlocked, opVars, restVars, boundVars
  <2> QED BY <1>0, <2>1, SyncKeeps
<1>5. CASE Sync
  <2>1. /\ open /\ ~closing /\ writable /\ synced' = Len(data[activeFileID])
        /\ UNCHANGED <<data, hint, open, closing, writable>>
        /\ UNCHANGED <<keydir, activeFileID, activeOffset, nextFileID>>
        /\ UNCHANGED <<merge, clock, history, merges>>
    BY <1>5 DEF Sync, Unlocked, memVars, opVars, restVars, boundVars
  <2> QED BY <1>0, <2>1, SyncKeeps
<1>6. CASE Close
  <2>1. /\ open /\ ~closing /\ closing' = TRUE /\ writable' = FALSE
        /\ synced' = IF writable THEN Len(data[activeFileID]) ELSE synced
        /\ UNCHANGED <<data, hint, open, keydir, activeFileID, activeOffset, nextFileID>>
        /\ UNCHANGED <<merge, clock, history, merges>>
    BY <1>6 DEF Close, Unlocked, restVars, boundVars
  <2>2. synced' = Len(data[activeFileID])
    BY <1>0, <2>1
  <2> QED BY <1>0, <2>1, <2>2, SyncKeeps
<1>7. CASE CloseEnds
  <2>1. /\ closing /\ closing' = FALSE /\ open' = FALSE
        /\ merge' = [m \in Merger |-> Nil]
        /\ UNCHANGED <<data, hint, synced, writable, keydir, activeFileID, activeOffset, nextFileID>>
        /\ UNCHANGED <<clock, history, merges>>
    BY <1>7 DEF CloseEnds, diskVars, restVars, boundVars
  <2>2. open /\ ~writable /\ ~writable'
    BY <1>0, <2>1
  <2> QED BY <1>0, <2>1, <2>2, SyncKeeps
<1>8. CASE OpenWithOptions
  BY <1>8, OpenKeeps
<1>9. ASSUME NEW f \in CrashFragments, NEW n \in 0..MaxRecords, Crash(n, f) PROVE RecoveryInv'
  <2>1. f \in {"none", "torn"}
    BY DEF NeverMerged
  <2>2. open /\ n \in synced..Len(data[activeFileID])
    BY <1>9 DEF Crash
  <2>3. Cardinality(Lost(n)) = activeOffset - n
    BY <2>2, LostIs
  <2> QED BY <1>9, <2>1, <2>3, CrashKeeps
<1>10. ASSUME NEW f \in CrashFragments, CrashInRotation(f) PROVE RecoveryInv'
  <2>1. f \in {"none", "torn"}
    BY DEF NeverMerged
  <2> QED BY <1>10, <2>1, CrashInRotationKeeps
<1>11. CASE MergeNext
  <2>1. PICK m \in Merger :
          \/ MergeStart(m) \/ MergePublish(m) \/ MergeFails(m) \/ CrashInMerge(m)
          \/ \E k \in Key : MergeRecord(m, k)
    BY <1>11 DEF MergeNext
  <2>2. merge[m] = Nil /\ ~(merges < MaxMerges)
    <3>1. ~(0 < 0)
      BY SMTT(30)
    <3> QED BY <1>0, <3>1
  <2> QED BY <2>1, <2>2 DEF MergeStart, MergePublish, MergeFails, CrashInMerge, MergeRecord
<1>12. CASE ReadNext
  BY <1>12, StoreUnchanged DEF ReadNext, Fold, Get, FoldKey, restVars, boundVars
<1>13. CASE ReturnNext
  BY <1>13, StoreUnchanged DEF ReturnNext, openReader, readRecordAtEntry, FoldReturns, restVars, boundVars
<1>14. CASE UNCHANGED vars
  BY <1>14, StoreUnchanged DEF vars, opVars, restVars, boundVars
<1>15. ASSUME NEW f \in WriteFragments, WriteFailsAfterRotation(f) PROVE RecoveryInv'
  <2>1. f = "none"
    BY DEF NeverMerged
  <2> QED BY <1>15, <2>1, FailureAfterRotationKeeps
<1> QED BY <1>1, <1>2, <1>3, <1>4, <1>5, <1>6, <1>7, <1>8, <1>9, <1>10, <1>11, <1>12, <1>13, <1>14, <1>15
        DEF Next, WriteNext, CrashNext

-----------------------------------------------------------------------------
(* What a user reads.                                                      *)

(* An entry that names a write leads to its record.                        *)
LEMMA NamedIsHeld ==
  ASSUME Counting, RecoveryInv, open, NEW e, NEW p \in 1..Len(history), Names(history, e, p)
  PROVE  /\ Readable(e) /\ data[e.file][e.off] = history[p]
<1> DEFINE N == activeFileID
<1>1. /\ N \in Nat \ {0} /\ N \in 1..N /\ DOMAIN data = 1..N /\ FilesHold(data, history, N)
      /\ Good(data[N]) = activeOffset /\ Len(data[N]) = activeOffset
      /\ activeOffset \in Nat /\ activeOffset <= MaxRecords
      /\ history \in Seq(Record) /\ Len(history) = Place(N, activeOffset)
      /\ FilesInv /\ NewestFile = N
  BY OpenFacts DEF RecoveryInv
<1>2. /\ e.file \in Nat \ {0} /\ e.off \in Nat \ {0} /\ e.off <= MaxRecords
      /\ Place(e.file, e.off) = p
  BY DEF Names, Entry
<1>3. MaxRecords \in Nat \ {0}
  BY Constants
<1>4. p \in Nat /\ p <= Place(N, activeOffset) /\ Len(history) \in Nat
  BY <1>1, SMTT(30)
<1>5. e.file <= N
  <2> SUFFICES ASSUME ~(e.file <= N) PROVE FALSE
    OBVIOUS
  <2>1. N < e.file /\ e.file \in Nat /\ N \in Nat
    BY <1>1, <1>2, SMTT(30)
  <2>2. Place(N, MaxRecords) <= Place(e.file, 0) /\ Place(e.file, e.off) = Place(e.file, 0) + e.off
        /\ Place(e.file, 0) \in Nat
    BY <1>2, <2>1, PlaceAfter
  <2>3. Place(N, activeOffset) <= Place(N, MaxRecords) /\ Place(N, MaxRecords) \in Int
        /\ Place(N, activeOffset) \in Int
    <3>1. (N - 1) * MaxRecords \in Int
      BY <1>1, <1>3, SMTT(30)
    <3> HIDE DEF N
    <3> QED BY <1>1, <1>3, <3>1, SMTT(30) DEF Place
  <2> HIDE DEF N
  <2> QED BY <1>2, <1>4, <2>2, <2>3, SMTT(30)
<1>6. e.file \in 1..N
  BY <1>1, <1>2, <1>5, SMTT(30)
<1>7. e.off \in 1..Good(data[e.file]) /\ Good(data[e.file]) <= Len(data[e.file])
  <2>1. /\ Good(data[e.file]) \in Nat /\ Good(data[e.file]) <= Len(data[e.file])
        /\ Len(data[e.file]) \in Nat
        /\ e.file # N => Good(data[e.file]) = MaxRecords
    BY <1>1, <1>6, FileFacts
  <2>2. CASE e.file # N
    BY <1>2, <1>3, <2>1, <2>2, SMTT(30)
  <2>3. CASE e.file = N
    <3>1. e.off <= activeOffset
      <4>1. (N - 1) * MaxRecords \in Int
        BY <1>1, <1>3, SMTT(30)
      <4>2. Place(N, e.off) <= Place(N, activeOffset)
        BY <1>2, <1>4, <2>3
      <4> HIDE DEF N
      <4> QED BY <1>1, <1>2, <4>1, <4>2, SMTT(30) DEF Place
    <3>2. e.off \in 1..activeOffset
      BY <1>1, <1>2, <3>1, SMTT(30)
    <3> QED BY <1>1, <2>1, <2>3, <3>2
  <2> QED BY <2>2, <2>3
<1>8. data[e.file][e.off] = history[p]
  BY <1>1, <1>2, <1>6, <1>7 DEF FilesHold
<1>9. data[e.file][e.off] \notin Fragments
  <2>1. data[e.file][e.off] \in Record
    BY <1>1, <1>6, <1>7, FileFacts
  <2> QED BY <2>1, RecordsAreWhole
<1>10. e.off <= Len(data[e.file])
  <2>1. Good(data[e.file]) \in Nat /\ Len(data[e.file]) \in Nat
    BY <1>1, <1>6, FileFacts
  <2> QED BY <1>7, <2>1, SMTT(30)
<1> QED BY <1>1, <1>6, <1>8, <1>9, <1>10 DEF Readable

(* What the keydir of an open store says of a key.                         *)
LEMMA KeydirFacts ==
  ASSUME Counting, RecoveryInv, open, NEW k \in Key
  PROVE  IF Latest(history, k) = Tombstone THEN keydir[k] = Nil
         ELSE keydir[k] # Nil /\ Holds(keydir[k], k, Latest(history, k))
<1>1. /\ history \in Seq(Record) /\ Represents(history, keydir, Len(history))
      /\ Nil \notin Entry
  BY OpenFacts, Constants DEF RecoveryInv
<1>2. CASE keydir[k] = Nil /\ \A p \in 1..Len(history) : history[p].key # k
  BY <1>2, LatestOfNone
<1>3. ASSUME NEW p \in 1..Len(history), LastOfKey(history, p, k, Len(history)),
             IF history[p].value = Tombstone THEN keydir[k] = Nil
             ELSE Names(history, keydir[k], p)
      PROVE  IF Latest(history, k) = Tombstone THEN keydir[k] = Nil
             ELSE keydir[k] # Nil /\ Holds(keydir[k], k, Latest(history, k))
  <2>1. Latest(history, k) = history[p].value /\ history[p].key = k
    BY <1>1, <1>3, LatestIs DEF LastOfKey
  <2>2. CASE history[p].value = Tombstone
    BY <1>3, <2>1, <2>2
  <2>3. CASE history[p].value # Tombstone
    <3>1. Names(history, keydir[k], p) /\ keydir[k] # Nil
      BY <1>1, <1>3, <2>3 DEF Names
    <3>2. Readable(keydir[k]) /\ data[keydir[k].file][keydir[k].off] = history[p]
      BY <3>1, NamedIsHeld
    <3> QED BY <2>1, <2>3, <3>1, <3>2 DEF Holds, ValueAt
  <2> QED BY <2>2, <2>3
<1> QED BY <1>1, <1>2, <1>3 DEF Represents

-----------------------------------------------------------------------------
(* The refinement of DurableMap.                                           *)

Writes(h) == [n \in 1..Len(h) |-> [key |-> h[n].key, value |-> h[n].value]]
MapWrite == [key : Key, value : Value \cup {Tombstone}]
Content == [k \in Key |-> IF open /\ keydir[k] # Nil THEN ValueAt(keydir[k]) ELSE Tombstone]

(* A later file, or a later offset of the same one, holds a later write.   *)
LEMMA PlaceGrows ==
  ASSUME NEW f \in Nat \ {0}, NEW g \in Nat, f <= g, NEW s \in Nat, NEW t \in Nat,
         s <= MaxRecords, f = g => s <= t
  PROVE  /\ Place(f, s) <= Place(g, t) /\ Place(f, s) \in Nat /\ Place(g, t) \in Nat
<1>1. MaxRecords \in Nat
  BY Constants
<1>2. 0 \in Nat /\ 0 < f /\ 0 < g /\ f \in Nat
  BY SMTT(30)
<1>3. /\ Place(f, 0) \in Nat /\ Place(f, s) = Place(f, 0) + s
      /\ Place(f, MaxRecords) = Place(f, 0) + MaxRecords
  BY <1>1, <1>2, PlaceAfter
<1>4. Place(g, 0) \in Nat /\ Place(g, t) = Place(g, 0) + t
  BY <1>2, PlaceAfter
<1>5. CASE f = g
  <2>1. Place(f, 0) = Place(g, 0)
    BY <1>5
  <2> QED BY <1>3, <1>4, <1>5, <2>1, SMTT(30)
<1>6. CASE f < g
  <2>1. Place(f, MaxRecords) <= Place(g, 0)
    BY <1>2, <1>6, PlaceAfter
  <2> QED BY <1>1, <1>3, <1>4, <2>1, SMTT(30)
<1> QED BY <1>2, <1>5, <1>6, SMTT(30)

(* How many writes a crash cannot take back.                               *)
LEMMA DurableIs ==
  ASSUME Counting
  PROVE  RecoveryInv =>
         /\ DurableWrites = Place(activeFileID, synced) /\ DurableWrites \in 0..Len(history)
         /\ history \in Seq(Record) /\ Len(history) \in Nat
         /\ activeFileID \in Nat \ {0} /\ synced \in Nat /\ synced <= Good(data[activeFileID])
         /\ Good(data[activeFileID]) \in Nat /\ Good(data[activeFileID]) <= MaxRecords
         /\ Len(history) = Place(activeFileID, Good(data[activeFileID]))
<1> SUFFICES ASSUME RecoveryInv
             PROVE  /\ DurableWrites = Place(activeFileID, synced) /\ DurableWrites \in 0..Len(history)
                    /\ history \in Seq(Record) /\ Len(history) \in Nat
                    /\ activeFileID \in Nat \ {0} /\ synced \in Nat
                    /\ synced <= Good(data[activeFileID])
                    /\ Good(data[activeFileID]) \in Nat /\ Good(data[activeFileID]) <= MaxRecords
                    /\ Len(history) = Place(activeFileID, Good(data[activeFileID]))
  OBVIOUS
<1> DEFINE a == activeFileID
           file == data[a]
           g == Good(file)
           lost == {m \in (synced + 1)..Len(file) : file[m] \notin Fragments}
<1>1. /\ FilesInv /\ NewestFile \in Nat \ {0} /\ a \in 1..NewestFile /\ a \in Nat \ {0}
      /\ NewestFile # a => NewestFile = a + 1
  BY NewestFacts DEF RecoveryInv, FilesInv
<1>2. /\ file \in Seq(Record \cup Fragments) /\ Len(file) \in Nat /\ g \in Nat /\ g <= MaxRecords
      /\ g <= Len(file) /\ \A n \in 1..g : file[n] \in Record
      /\ a # NewestFile => g = MaxRecords /\ Len(file) = MaxRecords
  BY <1>1, FileFacts
<1>3. /\ history \in Seq(Record) /\ Len(history) = Place(NewestFile, Good(data[NewestFile]))
      /\ NewestFile # a => Good(data[NewestFile]) = 0
      /\ Len(data[NewestFile]) > Good(data[NewestFile]) =>
            Len(data[NewestFile]) = Good(data[NewestFile]) + 1
  BY <1>1 DEF FilesInv, FilesHold
<1>4. synced \in Nat /\ synced <= g
  <2>1. synced \in 0..g
    BY DEF RecoveryInv, ProcessInv
  <2> HIDE DEF g
  <2> QED BY <1>2, <2>1, SMTT(30)
<1>5. Len(history) = Place(a, g)
  <2>1. CASE NewestFile = a
    BY <1>3, <2>1
  <2>2. CASE NewestFile # a
    <3>1. Len(history) = Place(a + 1, 0) /\ g = MaxRecords
      BY <1>1, <1>2, <1>3, <2>2
    <3>2. a \in Nat /\ a + 1 \in Nat /\ a < a + 1
      BY <1>1, SMTT(30)
    <3>3. Place(a, MaxRecords) = Place(a + 1, 0)
      BY <3>2, PlaceAfter
    <3> QED BY <3>1, <3>3
  <2> QED BY <2>1, <2>2
<1>6. \A m \in (g + 1)..Len(file) : file[m] \in Fragments
  <2>1. g < Len(file) => file[g + 1] \in Fragments
    BY <1>2, GoodFacts
  <2>2. g < Len(file) => Len(file) = g + 1
    <3>1. CASE a = NewestFile
      <4>1. Len(file) > g => Len(file) = g + 1
        BY <1>3, <3>1
      <4> HIDE DEF file, g
      <4> QED BY <1>2, <4>1, SMTT(30)
    <3>2. CASE a # NewestFile
      <4>1. g = MaxRecords /\ Len(file) = MaxRecords
        BY <1>2, <3>2
      <4> HIDE DEF file, g
      <4> QED BY <1>2, <4>1, SMTT(30)
    <3> QED BY <3>1, <3>2
  <2> HIDE DEF file, g
  <2>3. ASSUME NEW m \in (g + 1)..Len(file) PROVE m = g + 1 /\ g < Len(file)
    BY <1>2, <2>2, SMTT(30)
  <2> QED BY <2>1, <2>3
<1>7. lost = (synced + 1)..g
  <2>1. \A m \in (synced + 1)..g : m \in (synced + 1)..Len(file) /\ m \in 1..g
    <3> HIDE DEF file, g
    <3> QED BY <1>2, <1>4, SMTT(30)
  <2>2. \A m \in (synced + 1)..g : m \in lost
    BY <1>2, <2>1, RecordsAreWhole
  <2>3. \A m \in (synced + 1)..Len(file) : m \in (synced + 1)..g \/ m \in (g + 1)..Len(file)
    <3> HIDE DEF file, g
    <3> QED BY <1>2, <1>4, SMTT(30)
  <2>4. \A m \in lost : m \in (synced + 1)..g
    BY <1>6, <2>3
  <2> HIDE DEF lost, g
  <2> QED BY <2>2, <2>4
<1>8. Cardinality(lost) = g - synced
  <2> HIDE DEF lost, g
  <2>1. synced + 1 \in Int /\ g \in Int
    BY <1>2, <1>4, SMTT(30)
  <2>2. Cardinality((synced + 1)..g) = IF synced + 1 > g THEN 0 ELSE g - (synced + 1) + 1
    BY <2>1 DEF Counting
  <2>3. (IF synced + 1 > g THEN 0 ELSE g - (synced + 1) + 1) = g - synced
    BY <1>2, <1>4, SMTT(30)
  <2> QED BY <1>7, <2>2, <2>3
<1>9. DurableWrites = Len(history) - Cardinality(lost)
  BY DEF DurableWrites
<1>10. Place(a, 0) \in Nat /\ Place(a, g) = Place(a, 0) + g /\ Place(a, synced) = Place(a, 0) + synced
  <2>1. 0 \in Nat /\ 0 < a /\ a \in Nat
    BY <1>1, SMTT(30)
  <2> HIDE DEF g
  <2> QED BY <1>2, <1>4, <2>1, PlaceAfter
<1>11. DurableWrites = Place(a, synced) /\ DurableWrites \in 0..Len(history) /\ Len(history) \in Nat
  <2> HIDE DEF lost, g, a
  <2> QED BY <1>2, <1>4, <1>5, <1>8, <1>9, <1>10, SMTT(30)
<1> QED BY <1>1, <1>2, <1>3, <1>4, <1>5, <1>11

(* A nonempty set of numbers up to N has a greatest element.               *)
LEMMA Greatest ==
  ASSUME Counting, NEW N \in Nat, NEW S, S \subseteq 1..N, S # {}
  PROVE  \E n \in S : \A m \in S : m <= n
<1> DEFINE T == {N - m : m \in S}
<1>1. T \subseteq Nat /\ T # {}
  <2>1. \A m \in S : N - m \in Nat
    BY SMTT(30)
  <2> QED BY <2>1
<1>2. PICK t \in T : \A u \in T : t <= u
  <2> HIDE DEF T
  <2> QED BY <1>1, Least
<1>3. PICK n \in S : t = N - n
  OBVIOUS
<1>4. ASSUME NEW m \in S PROVE m <= n
  <2>1. N - n <= N - m
    BY <1>2, <1>3
  <2>2. m \in 1..N /\ n \in 1..N
    OBVIOUS
  <2> QED BY <2>1, <2>2, SMTT(30)
<1> QED BY <1>4

(* Sequences of the same length with the same elements are equal.          *)
LEMMA SameSequence ==
  ASSUME NEW T, NEW s \in Seq(T), NEW t \in Seq(T), Len(s) = Len(t),
         \A n \in 1..Len(s) : s[n] = t[n]
  PROVE  s = t
BY SMTT(30)

(* The writes of a history, without their times.                           *)
LEMMA WritesFacts ==
  ASSUME NEW h \in Seq(Record)
  PROVE  /\ Writes(h) \in Seq(MapWrite) /\ Len(Writes(h)) = Len(h) /\ Len(h) \in Nat
         /\ \A n \in 1..Len(h) : Writes(h)[n].key = h[n].key /\ Writes(h)[n].value = h[n].value
         /\ \A n \in 1..Len(h) : Writes(h)[n] = [key |-> h[n].key, value |-> h[n].value]
<1>1. Len(h) \in Nat
  BY SMTT(30)
<1>2. \A N \in Nat : \A f, T :
        f = [n \in 1..N |-> f[n]] => /\ Len(f) = N
                                     /\ (\A n \in 1..N : f[n] \in T) => f \in Seq(T)
  BY SMTT(30)
<1>3. Writes(h) = [n \in 1..Len(h) |-> Writes(h)[n]]
  BY DEF Writes
<1>4. ASSUME NEW n \in 1..Len(h)
      PROVE  /\ Writes(h)[n] = [key |-> h[n].key, value |-> h[n].value]
             /\ Writes(h)[n].key = h[n].key /\ Writes(h)[n].value = h[n].value
             /\ Writes(h)[n] \in MapWrite
  <2>1. h[n] \in Record
    <3>1. \A T : \A s \in Seq(T) : \A m \in 1..Len(s) : s[m] \in T
      BY SMTT(30)
    <3> QED BY <3>1
  <2>2. Writes(h)[n] = [key |-> h[n].key, value |-> h[n].value]
    BY DEF Writes
  <2>3. h[n].key \in Key /\ h[n].value \in Value \cup {Tombstone}
    BY <2>1 DEF Record
  <2>4. /\ [key |-> h[n].key, value |-> h[n].value] \in MapWrite
        /\ [key |-> h[n].key, value |-> h[n].value].key = h[n].key
        /\ [key |-> h[n].key, value |-> h[n].value].value = h[n].value
    BY <2>3 DEF MapWrite
  <2> HIDE DEF MapWrite
  <2> QED BY <2>2, <2>4, SMTT(30)
<1> QED BY <1>1, <1>2, <1>3, <1>4

(* The map of the writes holds the latest value of each key.               *)
LEMMA WrittenIs ==
  ASSUME Counting, NEW h \in Seq(Record)
  PROVE  Map!Written(Writes(h)) = [k \in Key |-> Latest(h, k)]
<1> DEFINE w == Writes(h)
<1>1. Len(w) = Len(h) /\ \A n \in 1..Len(h) : w[n].key = h[n].key /\ w[n].value = h[n].value
  BY WritesFacts
<1> HIDE DEF w
<1> DEFINE atw(k) == {n \in 1..Len(w) : w[n].key = k}
           ath(k) == {n \in 1..Len(h) : h[n].key = k}
           last(S) == CHOOSE n \in S : \A m \in S : m <= n
<1>2. \A k : atw(k) = ath(k)
  BY <1>1
<1>3. ASSUME NEW k \in Key
      PROVE  (IF atw(k) = {} THEN Tombstone ELSE w[last(atw(k))].value) = Latest(h, k)
  <2>1. CASE ath(k) = {}
    BY <1>2, <2>1 DEF Latest
  <2>2. CASE ath(k) # {}
    <3>1. ath(k) \subseteq 1..Len(h) /\ Len(h) \in Nat
      BY WritesFacts
    <3>2. PICK p \in ath(k) : \A m \in ath(k) : m <= p
      BY <2>2, <3>1, Greatest
    <3>3. last(ath(k)) \in ath(k)
      BY <3>2
    <3>4. Latest(h, k) = h[last(ath(k))].value
      BY <2>2 DEF Latest
    <3>5. last(atw(k)) = last(ath(k)) /\ atw(k) # {}
      BY <1>2, <2>2
    <3>6. w[last(ath(k))].value = h[last(ath(k))].value
      BY <1>1, <3>3
    <3> QED BY <3>4, <3>5, <3>6
  <2> QED BY <2>1, <2>2
<1>4. Map!Written(w) = [k \in Key |-> IF atw(k) = {} THEN Tombstone ELSE w[last(atw(k))].value]
  BY DEF Map!Written
<1> QED BY <1>3, <1>4 DEF w

(* What a user reads is what the writes leave.                             *)
LEMMA ContentIs ==
  ASSUME Counting
  PROVE  RecoveryInv => Content = IF open THEN Map!Written(Writes(history)) ELSE Map!Empty
<1> SUFFICES ASSUME RecoveryInv
             PROVE  Content = IF open THEN Map!Written(Writes(history)) ELSE Map!Empty
  OBVIOUS
<1>1. CASE ~open
  BY <1>1 DEF Content, Map!Empty
<1>2. CASE open
  <2>1. Map!Written(Writes(history)) = [k \in Key |-> Latest(history, k)]
    BY <1>2, OpenFacts, WrittenIs
  <2>2. ASSUME NEW k \in Key
        PROVE  (IF open /\ keydir[k] # Nil THEN ValueAt(keydir[k]) ELSE Tombstone)
                 = Latest(history, k)
    BY <1>2, KeydirFacts DEF Holds
  <2> QED BY <1>2, <2>1, <2>2 DEF Content
<1> QED BY <1>1, <1>2

(* A new store is an empty map.                                            *)
LEMMA InitMaps ==
  ASSUME Counting
  PROVE  Init => Map!Init
<1> SUFFICES ASSUME Init PROVE Map!Init
  OBVIOUS
<1>1. /\ RecoveryInv /\ open = TRUE /\ history = <<>> /\ activeFileID = 1 /\ synced = 0
      /\ keydir = [k \in Key |-> Nil]
  BY InitRecovery DEF Init
<1>2. DurableWrites = 0
  <2>1. Place(1, 0) = 0
    BY Constants, SMTT(30) DEF Place
  <2> QED BY <1>1, <2>1, DurableIs
<1>3. Writes(history) = <<>>
  <2>1. Len(history) = 0
    BY <1>1, SMTT(30)
  <2>2. \A N : N = 0 => \A f : f = [n \in 1..N |-> f[n]] => f = <<>>
    BY SMTT(30)
  <2>3. Writes(history) = [n \in 1..Len(history) |-> Writes(history)[n]]
    BY DEF Writes
  <2> QED BY <2>1, <2>2, <2>3
<1>4. Content = Map!Empty
  BY <1>1 DEF Content, Map!Empty
<1> QED BY <1>1, <1>2, <1>3, <1>4 DEF Map!Init, Writes, Content

(* The same, after a step.                                                 *)
LEMMA AfterStep ==
  ASSUME Counting, RecoveryInv'
  PROVE  /\ DurableWrites' = Place(activeFileID', synced') /\ DurableWrites' \in 0..Len(history')
         /\ history' \in Seq(Record) /\ Len(history') \in Nat /\ synced' \in Nat
         /\ Len(history') = Place(activeFileID', Good(data'[activeFileID']))
         /\ Content' = IF open' THEN Map!Written(Writes(history')) ELSE Map!Empty
<1>1. (/\ DurableWrites = Place(activeFileID, synced) /\ DurableWrites \in 0..Len(history)
       /\ history \in Seq(Record) /\ Len(history) \in Nat /\ synced \in Nat
       /\ Len(history) = Place(activeFileID, Good(data[activeFileID])))'
  BY DurableIs, PTL
<1>2. (Content = IF open THEN Map!Written(Writes(history)) ELSE Map!Empty)'
  BY ContentIs, PTL
<1> QED BY <1>1, <1>2

(* Writes only become more durable while the files only grow.              *)
LEMMA MoreDurable ==
  ASSUME Counting, RecoveryInv, RecoveryInv',
         \/ activeFileID' = activeFileID /\ synced <= synced'
         \/ activeFileID' = activeFileID + 1
  PROVE  DurableWrites' \in DurableWrites..Len(history')
<1>1. /\ DurableWrites = Place(activeFileID, synced) /\ activeFileID \in Nat \ {0}
      /\ synced \in Nat /\ synced <= Good(data[activeFileID])
      /\ Good(data[activeFileID]) \in Nat /\ Good(data[activeFileID]) <= MaxRecords
  BY DurableIs
<1>2. /\ DurableWrites' = Place(activeFileID', synced') /\ DurableWrites' \in 0..Len(history')
      /\ synced' \in Nat /\ Len(history') \in Nat
  BY AfterStep
<1>3. synced <= MaxRecords /\ MaxRecords \in Nat
  <2>1. MaxRecords \in Nat
    BY Constants
  <2> QED BY <1>1, <2>1, SMTT(30)
<1>4. activeFileID' \in Nat /\ activeFileID <= activeFileID'
      /\ (activeFileID = activeFileID' => synced <= synced')
  BY <1>1, SMTT(30)
<1>5. Place(activeFileID, synced) <= Place(activeFileID', synced')
      /\ Place(activeFileID, synced) \in Nat
  BY <1>1, <1>2, <1>3, <1>4, PlaceGrows
<1> QED BY <1>1, <1>2, <1>5, SMTT(30)

(* Steps that write nothing and stop nothing make writes durable at most.  *)
LEMMA PersistMaps ==
  ASSUME Counting, RecoveryInv, RecoveryInv', UNCHANGED <<open, history>>,
         \/ activeFileID' = activeFileID /\ synced <= synced'
         \/ activeFileID' = activeFileID + 1
  PROVE  Map!Persist
<1>1. Content' = Content
  <2>1. Content = IF open THEN Map!Written(Writes(history)) ELSE Map!Empty
    BY ContentIs
  <2>2. Content' = IF open' THEN Map!Written(Writes(history')) ELSE Map!Empty
    BY AfterStep
  <2>3. (open' <=> open) /\ Writes(history') = Writes(history)
    OBVIOUS
  <2> HIDE DEF Content
  <2> QED BY <2>1, <2>2, <2>3, SMTT(30)
<1>2. DurableWrites' \in DurableWrites..Len(Writes(history))
  <2>1. DurableWrites' \in DurableWrites..Len(history')
    BY MoreDurable
  <2> QED BY <2>1, DurableIs, WritesFacts
<1>3. Writes(history') = Writes(history)
  OBVIOUS
<1> QED BY <1>1, <1>2, <1>3 DEF Map!Persist, Writes, Content

(* Put and Delete are writes of the map.                                   *)
LEMMA WriteMaps ==
  ASSUME Counting, RecoveryInv, RecoveryInv', NEW k \in Key, NEW v \in Value \cup {Tombstone},
         NEW t \in Nat, NEW entry, Write(k, v, t, entry)
  PROVE  Map!Write(k, v)
<1> DEFINE r == [ts |-> t, key |-> k, value |-> v]
           id == IF Full THEN nextFileID ELSE activeFileID
           file == IF Full THEN createNewActiveFile(id) ELSE data[id]
<1>1. /\ open /\ open' = open /\ history' = Append(history, r)
      /\ data' = With(data, id, Append(file, r)) /\ activeFileID' = id
      /\ synced' = IF SyncOnPut THEN Len(file) + 1 ELSE IF Full THEN 0 ELSE synced
      /\ activeOffset' = (IF Full THEN Len(file) ELSE activeOffset) + 1
  BY DEF Write, appendRecordLocked, Unlocked
<1>2. /\ IF Full THEN id = activeFileID + 1 ELSE id = activeFileID
      /\ Len(file) \in Nat /\ Len(file) = IF Full THEN 0 ELSE activeOffset
  <2> HIDE DEF id, file
  <2>1. id = IF Full THEN nextFileID ELSE activeFileID
    BY DEF id
  <2>2. file = IF Full THEN createNewActiveFile(id) ELSE data[id]
    BY DEF file
  <2>3. open
    BY <1>1
  <2>4. IsTarget(id, file)
    BY <2>1, <2>2, <2>3, TargetFacts
  <2> QED BY <2>4 DEF IsTarget
<1>3. /\ history \in Seq(Record) /\ Len(history) \in Nat /\ r \in Record
      /\ synced \in Nat /\ activeOffset \in Nat /\ synced <= activeOffset
  BY <1>1, OpenFacts, DurableIs DEF Record
<1> HIDE DEF id, file
<1>4. DurableWrites' \in DurableWrites..Len(history')
  <2>1. CASE Full
    BY <1>1, <1>2, <2>1, MoreDurable
  <2>2. CASE ~Full
    <3>1. synced <= synced'
      BY <1>1, <1>2, <1>3, <2>2, SMTT(30)
    <3> QED BY <1>1, <1>2, <2>2, <3>1, MoreDurable
  <2> QED BY <2>1, <2>2
<1>5. SyncOnPut => DurableWrites' = Len(history')
  <2> SUFFICES ASSUME SyncOnPut PROVE DurableWrites' = Len(history')
    OBVIOUS
  <2>1. synced' = activeOffset'
    BY <1>1, <1>2
  <2>2. Good(data'[activeFileID']) = activeOffset'
    <3>1. (RecoveryInv /\ open => Good(data[activeFileID]) = activeOffset)'
      BY OpenFacts, PTL
    <3> QED BY <1>1, <3>1
  <2> QED BY <2>1, <2>2, AfterStep
<1>6. /\ Writes(history') = Append(Writes(history), [key |-> k, value |-> v])
      /\ Len(Writes(history')) = Len(history')
  <2> DEFINE w == [key |-> k, value |-> v]
             W == Writes(history)
  <2>1. /\ Len(history') = Len(history) + 1 /\ history' \in Seq(Record)
        /\ \A n \in 1..Len(history) : history'[n] = history[n]
        /\ history'[Len(history) + 1] = r
    <3> HIDE DEF r
    <3>1. \A T : \A s \in Seq(T) : \A x \in T :
            /\ Append(s, x) \in Seq(T) /\ Len(Append(s, x)) = Len(s) + 1
            /\ \A n \in 1..Len(s) : Append(s, x)[n] = s[n]
            /\ Append(s, x)[Len(s) + 1] = x
      BY SMTT(30)
    <3> QED BY <1>1, <1>3, <3>1
  <2>2. W \in Seq(MapWrite) /\ Len(W) = Len(history) /\ w \in MapWrite
    BY <1>3, WritesFacts DEF MapWrite
  <2>3. Writes(history') \in Seq(MapWrite) /\ Len(Writes(history')) = Len(history')
    BY <2>1, WritesFacts
  <2> HIDE DEF W
  <2>4. /\ Append(W, w) \in Seq(MapWrite) /\ Len(Append(W, w)) = Len(W) + 1
        /\ \A n \in 1..Len(W) : Append(W, w)[n] = W[n]
        /\ Append(W, w)[Len(W) + 1] = w
    <3> HIDE DEF w, MapWrite
    <3>1. W \in Seq(MapWrite) /\ w \in MapWrite
      BY <2>2
    <3> QED BY <3>1, SMTT(30)
  <2>5. ASSUME NEW n \in 1..Len(history') PROVE Writes(history')[n] = Append(W, w)[n]
    <3>1. Writes(history')[n] = [key |-> history'[n].key, value |-> history'[n].value]
      BY <2>1, WritesFacts
    <3>2. CASE n = Len(history) + 1
      <4>1. history'[n].key = k /\ history'[n].value = v
        <5>1. r.key = k /\ r.value = v
          OBVIOUS
        <5> HIDE DEF r
        <5>2. history'[n] = r
          BY <2>1, <3>2
        <5> QED BY <5>1, <5>2
      <4>2. Writes(history')[n] = w
        <5> HIDE DEF Writes
        <5> QED BY <3>1, <4>1, SMTT(30)
      <4> QED BY <2>2, <2>4, <3>2, <4>2
    <3>3. CASE n # Len(history) + 1
      <4>1. n \in 1..Len(history)
        BY <1>3, <2>1, <3>3, SMTT(30)
      <4>2. W[n] = [key |-> history[n].key, value |-> history[n].value]
        BY <1>3, <4>1, WritesFacts DEF W
      <4>3. history'[n] = history[n] /\ Append(W, w)[n] = W[n]
        BY <2>1, <2>2, <2>4, <4>1
      <4> QED BY <3>1, <4>2, <4>3
    <3> QED BY <3>2, <3>3
  <2>6. Len(Append(W, w)) = Len(Writes(history'))
    BY <2>1, <2>2, <2>3, <2>4
  <2>7. \A n \in 1..Len(Writes(history')) : Writes(history')[n] = Append(W, w)[n]
    BY <2>3, <2>5
  <2> HIDE DEF w
  <2>8. Writes(history') = Append(W, w)
    BY <2>3, <2>4, <2>6, <2>7, SameSequence
  <2> QED BY <2>3, <2>8 DEF w, W
<1>7. Content' = Map!Written(Writes(history'))
  BY <1>1, AfterStep
<1>8. /\ DurableWrites' \in DurableWrites..Len(Writes(history'))
      /\ SyncOnPut => DurableWrites' = Len(Writes(history'))
  BY <1>4, <1>5, <1>6
<1> QED BY <1>1, <1>6, <1>7, <1>8 DEF Map!Write, Writes, Content

(* The end of Close.                                                       *)
LEMMA CloseMaps ==
  ASSUME Counting, RecoveryInv, RecoveryInv', open, ~writable, open' = FALSE,
         UNCHANGED <<data, synced, activeFileID, history>>
  PROVE  Map!Close
<1>1. synced = Good(data[activeFileID])
  BY OpenFacts DEF RecoveryInv, ProcessInv
<1>2. DurableWrites' = Len(Writes(history))
  <2>1. DurableWrites' = Place(activeFileID, synced)
    BY AfterStep
  <2>2. Len(history) = Place(activeFileID, Good(data[activeFileID])) /\ history \in Seq(Record)
    BY DurableIs
  <2>3. Len(Writes(history)) = Len(history)
    BY <2>2, WritesFacts
  <2> QED BY <1>1, <2>1, <2>2, <2>3
<1>3. Content' = Map!Empty /\ open' = FALSE
  BY AfterStep
<1>4. Writes(history') = Writes(history)
  OBVIOUS
<1> QED BY <1>2, <1>3, <1>4 DEF Map!Close, Writes, Content

(* A crash takes back the last writes, never a durable one.                *)
LEMMA CrashMaps ==
  ASSUME Counting, RecoveryInv, RecoveryInv', open, open' = FALSE, activeFileID' = activeFileID,
         synced <= synced', NEW n \in 0..Len(history), history' = SubSeq(history, 1, n)
  PROVE  Map!Crash
<1>1. /\ history \in Seq(Record) /\ Len(history) \in Nat /\ DurableWrites \in 0..Len(history)
      /\ history' \in Seq(Record)
  BY DurableIs, AfterStep
<1>2. DurableWrites' \in DurableWrites..Len(history')
  BY MoreDurable
<1>3. Len(history') = n /\ \A m \in 1..n : history'[m] = history[m]
  BY <1>1, SMTT(30)
<1>4. /\ Writes(history) \in Seq(MapWrite) /\ Len(Writes(history)) = Len(history)
      /\ Writes(history') \in Seq(MapWrite) /\ Len(Writes(history')) = n
  BY <1>1, <1>3, WritesFacts
<1>5. Writes(history') = SubSeq(Writes(history), 1, n)
  <2> DEFINE W == Writes(history)
  <2>1. \A T : \A s \in Seq(T) : \A p \in 0..Len(s) :
          /\ SubSeq(s, 1, p) \in Seq(T) /\ Len(SubSeq(s, 1, p)) = p
          /\ \A m \in 1..p : SubSeq(s, 1, p)[m] = s[m]
    BY SMTT(30)
  <2>2. /\ SubSeq(W, 1, n) \in Seq(MapWrite) /\ Len(SubSeq(W, 1, n)) = n
        /\ \A m \in 1..n : SubSeq(W, 1, n)[m] = W[m]
    <3> HIDE DEF W
    <3>1. W \in Seq(MapWrite) /\ n \in 0..Len(W)
      BY <1>4 DEF W
    <3> QED BY <2>1, <3>1
  <2>3. ASSUME NEW m \in 1..n PROVE Writes(history')[m] = SubSeq(W, 1, n)[m]
    <3>1. m \in 1..Len(history) /\ m \in 1..Len(history')
      BY <1>1, <1>3, SMTT(30)
    <3>2. Writes(history')[m] = [key |-> history'[m].key, value |-> history'[m].value]
      BY <1>1, <3>1, WritesFacts
    <3>3. Writes(history)[m] = [key |-> history[m].key, value |-> history[m].value]
      BY <1>1, <3>1, WritesFacts
    <3>4. history'[m] = history[m]
      BY <1>3
    <3> QED BY <2>2, <3>2, <3>3, <3>4
  <2>4. \A m \in 1..Len(Writes(history')) : Writes(history')[m] = SubSeq(W, 1, n)[m]
    BY <1>4, <2>3
  <2>5. Len(Writes(history')) = Len(SubSeq(W, 1, n))
    BY <1>4, <2>2
  <2> HIDE DEF W
  <2>6. Writes(history') = SubSeq(W, 1, n)
    BY <1>4, <2>2, <2>4, <2>5, SameSequence
  <2> QED BY <2>6 DEF W
<1>6. n \in DurableWrites..Len(Writes(history)) /\ DurableWrites' \in DurableWrites..Len(Writes(history'))
  BY <1>1, <1>2, <1>3, <1>4, SMTT(30)
<1>7. Content' = Map!Empty
  BY AfterStep
<1>8. \E p \in DurableWrites..Len(Writes(history)) : Writes(history') = SubSeq(Writes(history), 1, p)
  BY <1>5, <1>6
<1> QED BY <1>6, <1>7, <1>8 DEF Map!Crash, Writes, Content

(* A restart shows the writes that are left.                               *)
LEMMA RecoverDone ==
  ASSUME Counting, RecoveryInv, RecoveryInv', ~open, open' = TRUE, history' = history,
         \/ activeFileID' = activeFileID /\ synced <= synced'
         \/ activeFileID' = activeFileID + 1
  PROVE  Map!Recover
<1>1. DurableWrites' \in DurableWrites..Len(Writes(history))
  <2>1. DurableWrites' \in DurableWrites..Len(history')
    BY MoreDurable
  <2> QED BY <2>1, DurableIs, WritesFacts
<1>2. Content' = Map!Written(Writes(history))
  <2>1. Content' = Map!Written(Writes(history'))
    BY AfterStep
  <2> QED BY <2>1
<1>3. Writes(history') = Writes(history)
  OBVIOUS
<1> QED BY <1>1, <1>2, <1>3 DEF Map!Recover, Writes, Content

(* Open recovers exactly the writes that are durable.                      *)
LEMMA RecoverMaps ==
  ASSUME Counting, RecoveryInv, RecoveryInv', OpenWithOptions
  PROVE  Map!Recover
<1>1. ~open /\ open' = TRUE /\ history' = history /\ activeFileID' = LastFileID
      /\ synced' = IF LastFileID = activeFileID /\ data' = data THEN synced ELSE activeOffset'
  BY DEF OpenWithOptions
<1>2. LastFileID = activeFileID \/ LastFileID = activeFileID + 1
  BY NewestFacts DEF RecoveryInv
<1>3. CASE LastFileID = activeFileID
  <2>1. synced <= synced'
    <3>1. synced \in Nat /\ synced <= Good(data[activeFileID]) /\ Good(data[activeFileID]) \in Nat
          /\ Len(history) = Place(activeFileID, Good(data[activeFileID])) /\ activeFileID \in Nat \ {0}
      BY DurableIs
    <3>2. Len(history) = Place(activeFileID, Good(data'[activeFileID]))
      BY <1>1, <1>3, AfterStep
    <3>3. (RecoveryInv /\ open => /\ Good(data[activeFileID]) = activeOffset /\ activeOffset \in Nat)'
      BY OpenFacts, PTL
    <3>4. Good(data'[activeFileID]) = activeOffset' /\ activeOffset' \in Nat
      BY <1>1, <1>3, <3>3
    <3>5. activeOffset' = Good(data[activeFileID])
      <4>1. 0 \in Nat /\ 0 < activeFileID /\ activeFileID \in Nat
        BY <3>1, SMTT(30)
      <4>2. /\ Place(activeFileID, 0) \in Nat
            /\ Place(activeFileID, activeOffset') = Place(activeFileID, 0) + activeOffset'
            /\ Place(activeFileID, Good(data[activeFileID]))
                 = Place(activeFileID, 0) + Good(data[activeFileID])
        BY <3>1, <3>4, <4>1, PlaceAfter
      <4>3. Place(activeFileID, activeOffset') = Place(activeFileID, Good(data[activeFileID]))
        BY <3>1, <3>2, <3>4
      <4> QED BY <3>1, <3>4, <4>2, <4>3, SMTT(30)
    <3>6. synced <= synced
      BY <3>1, SMTT(30)
    <3>7. synced' = synced \/ synced' = activeOffset'
      BY <1>1
    <3> QED BY <3>1, <3>5, <3>6, <3>7
  <2> QED BY <1>1, <1>3, <2>1, RecoverDone
<1>4. CASE LastFileID = activeFileID + 1
  BY <1>1, <1>4, RecoverDone
<1> QED BY <1>2, <1>3, <1>4

(* Every step of a store that is never merged is one of the map.           *)
LEMMA StepMaps ==
  ASSUME Counting, NeverMerged, RecoveryInv, RecoveryInv', [Next]_vars
  PROVE  Map!Next
<1>0. /\ synced \in Nat /\ synced <= synced /\ clock \in Nat
      /\ MaxMerges = 0 /\ merge = [m \in Merger |-> Nil] /\ merges = 0
      /\ (closing => open /\ ~writable) /\ (writable => open)
      /\ history \in Seq(Record) /\ Len(history) \in Nat
  <2>1. synced \in Nat /\ history \in Seq(Record) /\ Len(history) \in Nat
    BY DurableIs
  <2>2. synced <= synced
    BY <2>1, SMTT(30)
  <2> QED BY <2>1, <2>2 DEF NeverMerged, RecoveryInv, ProcessInv, HistoryInv
<1>1. ASSUME NEW k \in Key, NEW v \in Value, Put(k, v) PROVE Map!Next
  <2>1. PICK d \in ClockSteps :
          Write(k, v, clock + d, [file |-> activeFileID', off |-> activeOffset', ts |-> clock + d])
    BY <1>1 DEF Put
  <2>2. d \in Nat
    BY Constants
  <2>3. clock + d \in Nat
    BY <1>0, <2>2, SMTT(30)
  <2>4. Map!Write(k, v)
    BY <2>1, <2>3, WriteMaps
  <2> QED BY <2>4 DEF Map!Next
<1>2. ASSUME NEW k \in Key, Delete(k) PROVE Map!Next
  <2>1. PICK d \in ClockSteps : Write(k, Tombstone, clock + d, Nil)
    BY <1>2 DEF Delete
  <2>2. d \in Nat
    BY Constants
  <2>3. clock + d \in Nat
    BY <1>0, <2>2, SMTT(30)
  <2>4. Map!Write(k, Tombstone)
    BY <2>1, <2>3, WriteMaps
  <2> QED BY <2>4 DEF Map!Next
<1>3. ASSUME UNCHANGED <<open, history, activeFileID, synced>> PROVE Map!Next
  <2>1. synced <= synced'
    BY <1>0, <1>3
  <2> QED BY <1>3, <2>1, PersistMaps DEF Map!Next
<1>4. ASSUME open, UNCHANGED <<open, history, activeFileID>>,
             synced' = Len(data[activeFileID])
      PROVE  Map!Next
  <2>1. synced <= synced'
    BY <1>4, OpenFacts
  <2> QED BY <1>4, <2>1, PersistMaps DEF Map!Next
<1>5. ASSUME NEW f \in WriteFragments, WriteFails(f) PROVE Map!Next
  BY <1>3, <1>5 DEF WriteFails, memVars, restVars
<1>6. CASE RotationFails
  BY <1>4, <1>6 DEF RotationFails, Unlocked, restVars
<1>7. CASE Sync
  BY <1>4, <1>7 DEF Sync, Unlocked, memVars, restVars
<1>8. CASE Close
  <2>1. /\ open /\ synced' = IF writable THEN Len(data[activeFileID]) ELSE synced
        /\ UNCHANGED <<open, history, activeFileID>>
    BY <1>8 DEF Close, Unlocked, restVars
  <2>2. CASE writable
    BY <1>4, <2>1, <2>2
  <2>3. CASE ~writable
    BY <1>3, <2>1, <2>3
  <2> QED BY <2>2, <2>3
<1>9. CASE CloseEnds
  <2>1. closing /\ open' = FALSE /\ UNCHANGED <<data, synced, activeFileID, history>>
    BY <1>9 DEF CloseEnds, diskVars, restVars
  <2>2. Map!Close
    BY <1>0, <2>1, CloseMaps
  <2> QED BY <2>2 DEF Map!Next
<1>10. CASE OpenWithOptions
  BY <1>10, RecoverMaps DEF Map!Next
<1>11. ASSUME NEW f \in CrashFragments, NEW n \in 0..MaxRecords, Crash(n, f) PROVE Map!Next
  <2>1. /\ open /\ n \in synced..Len(data[activeFileID])
        /\ history' = SubSeq(history, 1, Len(history) - Cardinality(Lost(n)))
        /\ open' = FALSE /\ UNCHANGED <<activeFileID, synced>>
    BY <1>11 DEF Crash, Lost
  <2>2. Len(history) - Cardinality(Lost(n)) \in 0..Len(history)
    BY <2>1, LostIs
  <2>3. synced <= synced'
    BY <1>0, <2>1
  <2>4. Map!Crash
    BY <2>1, <2>2, <2>3, CrashMaps
  <2> QED BY <2>4 DEF Map!Next
<1>12. ASSUME NEW f \in CrashFragments, CrashInRotation(f) PROVE Map!Next
  <2>1. /\ open /\ synced' = Len(data[activeFileID])
        /\ open' = FALSE /\ UNCHANGED <<activeFileID, history>>
    BY <1>12 DEF CrashInRotation, Unlocked
  <2>2. synced <= synced'
    BY <2>1, OpenFacts
  <2>3. SubSeq(history, 1, Len(history)) = history /\ Len(history) \in 0..Len(history)
    BY <1>0, SMTT(30)
  <2>4. Map!Crash
    BY <2>1, <2>2, <2>3, CrashMaps
  <2> QED BY <2>4 DEF Map!Next
<1>13. CASE MergeNext
  <2>1. PICK m \in Merger :
          \/ MergeStart(m) \/ MergePublish(m) \/ MergeFails(m) \/ CrashInMerge(m)
          \/ \E k \in Key : MergeRecord(m, k)
    BY <1>13 DEF MergeNext
  <2>2. merge[m] = Nil /\ ~(merges < MaxMerges)
    <3>1. ~(0 < 0)
      BY SMTT(30)
    <3> QED BY <1>0, <3>1
  <2> QED BY <2>1, <2>2 DEF MergeStart, MergePublish, MergeFails, CrashInMerge, MergeRecord
<1>14. CASE ReadNext
  BY <1>3, <1>14 DEF ReadNext, Fold, Get, FoldKey, diskVars, memVars, restVars
<1>15. CASE ReturnNext
  BY <1>3, <1>15 DEF ReturnNext, openReader, readRecordAtEntry, FoldReturns, diskVars, memVars, restVars
<1>16. CASE UNCHANGED vars
  BY <1>3, <1>16 DEF vars, diskVars, memVars, restVars
<1>17. ASSUME NEW f, WriteFailsAfterRotation(f) PROVE Map!Next
  <2>1. open /\ UNCHANGED <<open, history>> /\ activeFileID' = nextFileID
    BY <1>17 DEF WriteFailsAfterRotation, Unlocked, restVars
  <2>2. nextFileID = activeFileID + 1
    BY <2>1, OpenFacts
  <2> QED BY <2>1, <2>2, PersistMaps DEF Map!Next
<1> QED BY <1>1, <1>2, <1>5, <1>6, <1>7, <1>8, <1>9, <1>10, <1>11, <1>12, <1>13, <1>14, <1>15, <1>16, <1>17
        DEF Next, WriteNext, CrashNext

-----------------------------------------------------------------------------
(* Theorems.                                                               *)
Finite == INSTANCE FiniteSetTheorems

(* The library's facts are about the Cardinality of FiniteSets.            *)
LEMMA CountsAlike ==
  \A T : (Finite!IsFiniteSet(T) <=> IsFiniteSet(T)) /\ Finite!Cardinality(T) = Cardinality(T)
  BY DEF Finite!IsFiniteSet, IsFiniteSet, Finite!Cardinality, Cardinality

(* The libraries say what the lemmas assume of numbers.                    *)
LEMMA Counts == Counting
<1>1. ASSUME NEW S \in SUBSET Nat, S # {} PROVE \E n \in S : \A m \in S : n <= m
  <2>1. PICK n \in S : \A m \in S : ~(<<m, n>> \in Finite!OpToRel(<, Nat))
    BY <1>1, Finite!NatLessThanWellFounded, Finite!WFMin
  <2>2. \A m \in S : ~(m < n)
    BY <2>1 DEF Finite!OpToRel
  <2> QED BY <2>2, SMTT(30)
<1>2. \A a, b \in Int : Cardinality(a..b) = IF a > b THEN 0 ELSE b - a + 1
  BY CountsAlike, Finite!FS_Interval
<1> QED BY <1>1, <1>2 DEF Counting

(* Of every key the keydir names the record last written, and the files    *)
(* 1, 2, ... hold the writes in their order, whatever rotation fails and   *)
(* in whichever field of a record a crash cuts the active file (open.go,   *)
(* write.go).                                                              *)
THEOREM RecoveryInvariant ==
  ASSUME NeverMerged
  PROVE  Spec => []RecoveryInv
<1>1. Init => RecoveryInv
  BY Counts, InitRecovery
<1>2. RecoveryInv /\ [Next]_vars => RecoveryInv'
  BY Counts, RecoveryStep
<1> QED BY <1>1, <1>2, PTL DEF Spec

(* A key put and not deleted since is found where the keydir says, with    *)
(* the value last put, after any number of rotations, crashes and restarts.*)
THEOREM PutKept ==
  ASSUME NeverMerged
  PROVE  Spec => []PutIsKept
<1>1. RecoveryInv => PutIsKept
  BY Counts, KeydirFacts DEF PutIsKept
<1> QED BY <1>1, RecoveryInvariant, PTL

(* A deleted key is not brought back by a restart, though recovery forgets *)
(* a tombstone as soon as applyKeydirUpdate has applied it.                *)
THEOREM DeletedKept ==
  ASSUME NeverMerged
  PROVE  Spec => []DeletedStaysDeleted
<1>1. RecoveryInv => DeletedStaysDeleted
  BY Counts, KeydirFacts DEF DeletedStaysDeleted
<1> QED BY <1>1, RecoveryInvariant, PTL

(* A store that is never merged is a durable map: a write appends to it, a *)
(* sync only makes writes durable, a crash takes back some of the last     *)
(* writes that were not, and the recovery of Open shows exactly the rest.  *)
THEOREM ImplementsMap ==
  ASSUME NeverMerged
  PROVE  Spec => ImplementsDurableMap
<1>1. Init => Map!Init
  BY Counts, InitMaps
<1>2. RecoveryInv /\ RecoveryInv' /\ [Next]_vars => [Map!Next]_(Map!vars)
  BY Counts, StepMaps
<1> QED BY <1>1, <1>2, RecoveryInvariant, PTL DEF Spec, ImplementsDurableMap, Map!Spec
=============================================================================
