---------------------------- MODULE ServerProofs ----------------------------
(***************************************************************************)
(* Proofs about Server for every cluster, whatever fails and in whatever   *)
(* order transfers finish.                                                 *)
(***************************************************************************)
EXTENDS Server, FiniteSetTheorems, TLAPS

\* The part of TypeOK that Store is about.
DaemonTypeOK ==
    /\ file \in [Nodes -> [Ids -> SharedFile]]
    /\ f_files \in [Nodes -> SUBSET Ids]
    /\ f_modified_files \in [Nodes -> SUBSET Ids]
    /\ \A n \in Nodes : \A i \in Referenced(n) : file[n][i].name \in Files

-----------------------------------------------------------------------------
(* Lemmas about the operators Server is built from. *)

LEMMA QueueType ==
    ASSUME NEW q \in Seq(Event), NEW e \in Event
    PROVE  Queue(q, e) \in Seq(Event)
  BY DEF Queue

LEMMA RemoveAtType ==
    ASSUME NEW S, NEW q \in Seq(S), NEW k \in 1..Len(q)
    PROVE  RemoveAt(q, k) \in Seq(S)
  BY DEF RemoveAt

LEMMA RemoveAtElements ==
    ASSUME NEW S, NEW q \in Seq(S), NEW k \in 1..Len(q),
           NEW j \in DOMAIN RemoveAt(q, k)
    PROVE  \E i \in DOMAIN q : RemoveAt(q, k)[j] = q[i]
<1> DEFINE a == SubSeq(q, 1, k - 1)
           b == SubSeq(q, k + 1, Len(q))
<1>1. /\ a \in Seq(S) /\ Len(a) = k - 1
      /\ \A i \in 1..(k - 1) : a[i] = q[i]
  OBVIOUS
<1>2. /\ b \in Seq(S) /\ Len(b) = Len(q) - k
      /\ \A i \in 1..(Len(q) - k) : b[i] = q[k + i]
  OBVIOUS
<1> HIDE DEF a, b
<1>3. RemoveAt(q, k) = a \o b
  BY DEF RemoveAt, a, b
<1>4. j \in 1..(Len(q) - 1)
  BY <1>1, <1>2, <1>3
<1>5. CASE j <= k - 1
  <2>1. (a \o b)[j] = q[j]
    BY <1>1, <1>2, <1>4, <1>5
  <2>2. QED
    BY <1>3, <1>4, <2>1
<1>6. CASE j > k - 1
  <2>1. (a \o b)[j] = b[j - (k - 1)]
    BY <1>1, <1>2, <1>4, <1>6
  <2>2. b[j - (k - 1)] = q[j + 1]
    BY <1>2, <1>4, <1>6
  <2>3. QED
    BY <1>3, <1>4, <2>1, <2>2
<1>7. QED
  BY <1>4, <1>5, <1>6

LEMMA SetToSeqsType ==
    ASSUME NEW S, IsFiniteSet(S), NEW q \in SetToSeqs(S)
    PROVE  q \in Seq(S)
<1>1. Cardinality(S) \in Nat
  BY FS_CardinalityType
<1>2. q \in [1..Cardinality(S) -> S]
  BY DEF SetToSeqs
<1>3. QED
  BY <1>1, <1>2

\* A sequence of SetToSeqs has every element of the set.
LEMMA SetToSeqsOnto ==
    ASSUME NEW S, IsFiniteSet(S), NEW q \in SetToSeqs(S), NEW x \in S
    PROVE  \E k \in DOMAIN q : q[k] = x
<1> DEFINE D == 1..Cardinality(S)
<1>1. Cardinality(S) \in Nat
  BY FS_CardinalityType
<1>2. q \in [D -> S] /\ \A i, j \in D : i # j => q[i] # q[j]
  BY DEF SetToSeqs
<1>3. q \in Injection(D, S)
  BY <1>2 DEF Injection, IsInjective
<1>4. Cardinality(D) = Cardinality(S)
  BY <1>1, FS_Interval
<1>5. q \in Surjection(D, S)
  BY <1>3, <1>4, FS_Injection
<1>6. QED
  BY <1>2, <1>5 DEF Surjection

LEMMA SetStartSharingType ==
    ASSUME NEW o \in SharedFile, NEW v \in Nat
    PROVE  /\ SetStartSharing(o, v) \in SharedFile
           /\ SetStartSharing(o, v).name = o.name
           /\ ~ SetStartSharing(o, v).updated
  BY DEF SetStartSharing, SharedFile, Absent

LEMMA NewFileType ==
    ASSUME NEW f \in Files
    PROVE  NewFile(f) \in SharedFile /\ NewFile(f).name = f
  BY DEF NewFile, NoFile, SharedFile, Absent

\* get_file() returns an object of the name it was asked for.
LEMMA EntryType ==
    ASSUME TypeOK, NEW n \in Nodes, NEW f \in Files, NEW i \in GetFile(n, f)
    PROVE  i \in Ids /\ Entry(n, f, i) \in SharedFile
                     /\ Entry(n, f, i).name = f
<1>1. CASE Named(n, f) # {}
  <2>1. i \in f_files[n] /\ file[n][i].name = f
    BY <1>1 DEF GetFile, Named
  <2>2. QED
    BY <2>1 DEF TypeOK, Entry
<1>2. CASE Named(n, f) = {}
  <2>1. i \in Ids /\ i \notin f_files[n]
    BY <1>2 DEF GetFile, InUse, Referenced
  <2>2. QED
    BY <2>1, NewFileType DEF Entry
<1>3. QED
  BY <1>1, <1>2

\* What an action has to show of the table, the timer's set and the objects
\* it stores.
LEMMA StoreType ==
    ASSUME TypeOK, NEW n \in Nodes,
           NEW table \in SUBSET Ids, NEW timer \in SUBSET Ids, NEW objects,
           \A i \in table \cup timer :
               objects[i] \in SharedFile /\ objects[i].name \in Files,
           Store(n, table, timer, objects)
    PROVE  DaemonTypeOK'
<1>1. f_files' \in [Nodes -> SUBSET Ids]
  BY DEF Store, TypeOK
<1>2. f_modified_files' \in [Nodes -> SUBSET Ids]
  BY DEF Store, TypeOK
<1>3. NoFile \in SharedFile
  BY DEF NoFile, SharedFile, Absent
<1>4. [i \in Ids |-> IF i \in table \cup timer THEN objects[i] ELSE NoFile]
          \in [Ids -> SharedFile]
  BY <1>3
<1>5. file' \in [Nodes -> [Ids -> SharedFile]]
  BY <1>4 DEF Store, TypeOK
<1>6. ASSUME NEW m \in Nodes, NEW i \in f_files'[m] \cup f_modified_files'[m]
      PROVE  file'[m][i].name \in Files
  <2>1. CASE m = n
    <3>1. i \in table \cup timer
      BY <2>1, <1>6 DEF Store, TypeOK
    <3>2. file'[m][i] = objects[i]
      BY <3>1, <2>1 DEF Store, TypeOK
    <3>3. QED
      BY <3>1, <3>2
  <2>2. CASE m # n
    <3>1. i \in Referenced(m) /\ file'[m][i] = file[m][i]
      BY <2>2, <1>6 DEF Store, TypeOK, Referenced
    <3>2. QED
      BY <3>1 DEF TypeOK
  <2>3. QED
    BY <2>1, <2>2
<1>7. QED
  BY <1>1, <1>2, <1>5, <1>6 DEF DaemonTypeOK, Referenced

LEMMA BroadcastType ==
    ASSUME TypeOK, NEW n \in Nodes, NEW msgs \in Seq(Message),
           Broadcast(n, msgs)
    PROVE  channel' \in [Nodes -> [Nodes -> Seq(Message)]]
<1>1. \A d \in Nodes : channel[n][d] \o msgs \in Seq(Message)
  BY DEF TypeOK
<1>2. QED
  BY <1>1 DEF Broadcast, TypeOK

LEMMA NotifyType ==
    ASSUME TypeOK, NEW n \in Nodes, NEW f \in Files,
           NEW k \in {"modified", "updated", "deleted"},
           Notify(n, f, k) \/ events' = events
    PROVE  events' \in [Nodes -> Seq(Event)]
<1>1. [name |-> f, kind |-> k] \in Event
  BY DEF Event
<1>2. Queue(events[n], [name |-> f, kind |-> k]) \in Seq(Event)
  BY <1>1, QueueType DEF TypeOK
<1>3. QED
  BY <1>2 DEF Notify, TypeOK

-----------------------------------------------------------------------------
(* Lemmas about the queue of inotify events. *)

LEMMA AppendNotices ==
    ASSUME NEW q \in Seq(Event), NEW e \in Event, e.kind # "deleted"
    PROVE  NoticedIn(Queue(q, e), e.name)
<1> DEFINE r == Queue(q, e)
<1>1. r \in Seq(Event) /\ Len(r) \in DOMAIN r /\ r[Len(r)] = e
  BY DEF Queue
<1>2. \A j \in DOMAIN r : ~ (j > Len(r))
  BY <1>1
<1> HIDE DEF r
<1>3. NoticedIn(r, e.name)
  BY <1>1, <1>2 DEF NoticedIn
<1>4. QED
  BY <1>3 DEF r

\* An event says nothing of the other files.
LEMMA AppendOther ==
    ASSUME NEW q \in Seq(Event), NEW e \in Event, NEW f, f # e.name
    PROVE  /\ NoticedIn(q, f) => NoticedIn(Queue(q, e), f)
           /\ DeletedIn(Queue(q, e), f) => DeletedIn(q, f)
<1> DEFINE r == Queue(q, e)
<1>1. r \in Seq(Event) /\ DOMAIN q \subseteq DOMAIN r
  BY DEF Queue
<1>2. \A k \in DOMAIN r : (k \in DOMAIN q /\ r[k] = q[k]) \/ r[k] = e
  BY DEF Queue
<1>3. \A k \in DOMAIN q : r[k] = q[k]
  BY DEF Queue
<1> HIDE DEF r
<1>4. NoticedIn(q, f) => NoticedIn(r, f)
  BY <1>1, <1>2, <1>3 DEF NoticedIn
<1>5. DeletedIn(r, f) => DeletedIn(q, f)
  BY <1>1, <1>2, <1>3 DEF DeletedIn
<1>6. QED
  BY <1>4, <1>5 DEF r

\* Taking the first event away: a file noticed by a later one still is, and
\* a file noticed by the first one only has no deletion after it.
LEMMA TailNotices ==
    ASSUME NEW q \in Seq(Event), q # << >>, NEW f, NoticedIn(q, f)
    PROVE  \/ NoticedIn(Tail(q), f)
           \/ /\ Head(q).name = f /\ Head(q).kind # "deleted"
              /\ ~ DeletedIn(Tail(q), f)
<1> DEFINE r == Tail(q)
<1>1. r \in Seq(Event) /\ Len(r) = Len(q) - 1 /\ Len(q) \in Nat
  OBVIOUS
<1>2. \A k \in DOMAIN r : k + 1 \in DOMAIN q /\ r[k] = q[k + 1]
  OBVIOUS
<1>3. DOMAIN q = 1..Len(q) /\ DOMAIN r = 1..Len(r) /\ Head(q) = q[1]
  OBVIOUS
<1> HIDE DEF r
<1>4. PICK k \in DOMAIN q :
          /\ q[k].name = f
          /\ q[k].kind # "deleted"
          /\ \A j \in DOMAIN q :
                 j > k /\ q[j].name = f => q[j].kind # "deleted"
  BY DEF NoticedIn
<1>5. CASE k = 1
  <2>1. ~ DeletedIn(r, f)
    BY <1>1, <1>2, <1>3, <1>4, <1>5 DEF DeletedIn
  <2>2. QED
    BY <1>3, <1>4, <1>5, <2>1 DEF r
<1>6. CASE k # 1
  <2>1. k - 1 \in DOMAIN r /\ r[k - 1] = q[k]
    BY <1>1, <1>2, <1>3, <1>6
  <2>2. \A j \in DOMAIN r : j > k - 1 => j + 1 \in DOMAIN q /\ j + 1 > k
    BY <1>1, <1>2, <1>3
  <2>3. NoticedIn(r, f)
    BY <1>2, <1>4, <2>1, <2>2 DEF NoticedIn
  <2>4. QED
    BY <2>3 DEF r
<1>7. QED
  BY <1>5, <1>6

LEMMA TailDeletes ==
    ASSUME NEW q \in Seq(Event), q # << >>, NEW f, DeletedIn(Tail(q), f)
    PROVE  DeletedIn(q, f)
<1>1. \A k \in DOMAIN Tail(q) : k + 1 \in DOMAIN q /\ Tail(q)[k] = q[k + 1]
  OBVIOUS
<1>2. QED
  BY <1>1 DEF DeletedIn

-----------------------------------------------------------------------------
(* Lemmas about the table. *)

\* What Store leaves of an object that stays referenced.
LEMMA StoreFrame ==
    ASSUME TypeOK, NEW n \in Nodes,
           NEW table \in SUBSET Ids, NEW timer \in SUBSET Ids, NEW objects,
           Store(n, table, timer, objects)
    PROVE  /\ f_files'[n] = table /\ f_modified_files'[n] = timer
           /\ \A i \in table \cup timer : file'[n][i] = objects[i]
           /\ \A i \in Ids \ (table \cup timer) : file'[n][i] = NoFile
           /\ \A m \in Nodes \ {n} :
                  /\ f_files'[m] = f_files[m]
                  /\ f_modified_files'[m] = f_modified_files[m]
                  /\ file'[m] = file[m]
  BY DEF Store, TypeOK

\* The entry of get_file(f) is replaced by x, and perhaps put in the timer.
StoreEntry(n, f, i, timer, x) ==
    /\ i \in GetFile(n, f)
    /\ timer \in {f_modified_files[n], f_modified_files[n] \cup {i}}
    /\ x \in SharedFile /\ x.name = f /\ x.stat <= clock /\ clock' = clock
    /\ Store(n, f_files[n] \cup {i}, timer, [file[n] EXCEPT ![i] = x])

LEMMA EntryStored ==
    ASSUME IInv, NEW n \in Nodes, NEW f \in Files, NEW i, NEW timer, NEW x,
           StoreEntry(n, f, i, timer, x)
    PROVE  /\ DaemonTypeOK'
           /\ OneEntryPerName'
           /\ \A m \in Nodes, j \in Ids : file'[m][j].stat <= clock'
           /\ i \in Ids
           /\ f_files'[n] = f_files[n] \cup {i}
           /\ f_modified_files'[n] = timer
           /\ file'[n][i] = x
           /\ \A j \in f_files[n] \ {i} : /\ file'[n][j] = file[n][j]
                                         /\ file[n][j].name # f
           /\ \A m \in Nodes \ {n} :
                  /\ f_files'[m] = f_files[m]
                  /\ f_modified_files'[m] = f_modified_files[m]
                  /\ file'[m] = file[m]
<1> DEFINE objects == [file[n] EXCEPT ![i] = x]
           table == f_files[n] \cup {i}
<1> USE DEF StoreEntry
<1>1. TypeOK /\ i \in Ids
  BY EntryType DEF IInv
<1>2. objects \in [Ids -> SharedFile] /\ objects[i] = x
          /\ \A j \in Ids \ {i} : objects[j] = file[n][j]
  BY <1>1 DEF TypeOK
<1>3. table \in SUBSET Ids /\ timer \in SUBSET Ids
  BY <1>1 DEF TypeOK
<1>4. \A j \in table \cup timer :
          objects[j] \in SharedFile /\ objects[j].name \in Files
  BY <1>1, <1>2, <1>3 DEF TypeOK, Referenced
<1>5. /\ f_files'[n] = table /\ f_modified_files'[n] = timer
      /\ \A j \in table \cup timer : file'[n][j] = objects[j]
      /\ \A j \in Ids \ (table \cup timer) : file'[n][j] = NoFile
      /\ \A m \in Nodes \ {n} :
             /\ f_files'[m] = f_files[m]
             /\ f_modified_files'[m] = f_modified_files[m]
             /\ file'[m] = file[m]
  BY <1>1, <1>3, StoreFrame
<1>6. DaemonTypeOK'
  BY <1>1, <1>3, <1>4, StoreType
<1>7. \A j \in f_files[n] \ {i} : file[n][j].name # f
  <2>1. CASE Named(n, f) # {}
    <3>1. i \in f_files[n] /\ file[n][i].name = f
      BY <2>1 DEF GetFile, Named
    <3>2. QED
      BY <3>1 DEF IInv, OneEntryPerName
  <2>2. CASE Named(n, f) = {}
    BY <2>2 DEF Named
  <2>3. QED
    BY <2>1, <2>2
<1>8. \A j \in f_files[n] \ {i} : file'[n][j] = file[n][j]
  BY <1>1, <1>2, <1>5 DEF TypeOK
<1>9. file'[n][i] = x
  BY <1>2, <1>5
<1>10. OneEntryPerName'
  <2>1. ASSUME NEW m \in Nodes, NEW j \in f_files'[m], NEW k \in f_files'[m],
               file'[m][j].name = file'[m][k].name
        PROVE  j = k
    <3>1. CASE m # n
      BY <2>1, <3>1, <1>5 DEF IInv, OneEntryPerName
    <3>2. CASE m = n
      BY <2>1, <3>2, <1>5, <1>7, <1>8, <1>9 DEF IInv, OneEntryPerName
    <3>3. QED
      BY <3>1, <3>2
  <2>2. QED
    BY <2>1 DEF OneEntryPerName
<1>11. \A m \in Nodes, j \in Ids : file'[m][j].stat <= clock'
  <2>1. ASSUME NEW m \in Nodes, NEW j \in Ids
        PROVE  file'[m][j].stat <= clock'
    <3>1. file[m][j].stat <= clock /\ clock \in Nat
      BY DEF IInv, TimesOK, TypeOK, SharedFile
    <3>2. NoFile.stat = 0
      BY DEF NoFile, Absent
    <3>3. \/ file'[m][j] = file[m][j] \/ file'[m][j] = x
          \/ file'[m][j] = NoFile
      BY <1>2, <1>5
    <3>4. QED
      BY <3>1, <3>2, <3>3
  <2>2. QED
    BY <2>1
<1>12. QED
  BY <1>1, <1>5, <1>6, <1>7, <1>8, <1>9, <1>10, <1>11

\* The entry of f is erased, if there is one.
RemoveEntry(n, f, table) ==
    /\ table \in EraseFile(n, f) /\ clock' = clock
    /\ Store(n, table, f_modified_files[n], file[n])

LEMMA EntryErased ==
    ASSUME IInv, NEW n \in Nodes, NEW f \in Files, NEW table,
           RemoveEntry(n, f, table)
    PROVE  /\ DaemonTypeOK'
           /\ OneEntryPerName'
           /\ \A m \in Nodes, j \in Ids : file'[m][j].stat <= clock'
           /\ f_files'[n] \subseteq f_files[n]
           /\ f_modified_files'[n] = f_modified_files[n]
           /\ \A j \in f_files[n] :
                  file[n][j].name # f => j \in f_files'[n]
           /\ \A j \in f_files'[n] : file'[n][j] = file[n][j]
           /\ \A m \in Nodes \ {n} :
                  /\ f_files'[m] = f_files[m]
                  /\ f_modified_files'[m] = f_modified_files[m]
                  /\ file'[m] = file[m]
<1> USE DEF RemoveEntry
<1>1. table \in SUBSET Ids /\ table \subseteq f_files[n]
  BY DEF IInv, TypeOK, EraseFile
<1>2. f_modified_files[n] \in SUBSET Ids
  BY DEF IInv, TypeOK
<1>3. \A j \in f_files[n] : file[n][j].name # f => j \in table
  BY DEF EraseFile, Named
<1>4. \A j \in table \cup f_modified_files[n] :
          file[n][j] \in SharedFile /\ file[n][j].name \in Files
  BY <1>1, <1>2 DEF IInv, TypeOK, Referenced
<1>5. /\ f_files'[n] = table /\ f_modified_files'[n] = f_modified_files[n]
      /\ \A j \in table \cup f_modified_files[n] : file'[n][j] = file[n][j]
      /\ \A j \in Ids \ (table \cup f_modified_files[n]) : file'[n][j] = NoFile
      /\ \A m \in Nodes \ {n} :
             /\ f_files'[m] = f_files[m]
             /\ f_modified_files'[m] = f_modified_files[m]
             /\ file'[m] = file[m]
  BY <1>1, <1>2, StoreFrame DEF IInv
<1>6. DaemonTypeOK'
  BY <1>1, <1>2, <1>4, StoreType DEF IInv
<1>7. OneEntryPerName'
  <2>1. \A m \in Nodes : \A j \in f_files'[m] :
            j \in f_files[m] /\ file'[m][j] = file[m][j]
    BY <1>1, <1>5
  <2>2. QED
    BY <2>1 DEF OneEntryPerName, IInv
<1>8. \A m \in Nodes, j \in Ids : file'[m][j].stat <= clock'
  <2>1. ASSUME NEW m \in Nodes, NEW j \in Ids
        PROVE  file'[m][j].stat <= clock'
    <3>1. file[m][j].stat <= clock /\ clock \in Nat
      BY DEF IInv, TimesOK, TypeOK
    <3>2. NoFile.stat = 0
      BY DEF NoFile, Absent
    <3>3. file'[m][j] = file[m][j] \/ file'[m][j] = NoFile
      BY <1>5
    <3>4. QED
      BY <3>1, <3>2, <3>3
  <2>2. QED
    BY <2>1
<1>9. QED
  BY <1>1, <1>3, <1>5, <1>6, <1>7, <1>8

\* Only file f of node n may change on a disk.
OnlyFile(n, f) ==
    /\ disk' \in [Nodes -> [Files -> Nat]]
    /\ local' \in [Nodes -> [Files -> BOOLEAN]]
    /\ \A m \in Nodes, g \in Files : m # n \/ g # f =>
           disk'[m][g] = disk[m][g] /\ local'[m][g] = local[m][g]

\* When x is stored for f, the other entries and files are as they were.
LEMMA StoreStep ==
    ASSUME IInv, NEW n \in Nodes, NEW f \in Files, NEW i, NEW timer, NEW x,
           StoreEntry(n, f, i, timer, x), OnlyFile(n, f),
           local'[n][f] /\ disk'[n][f] # Absent /\ x.stat = disk'[n][f]
               => (i \in timer /\ x.updated) \/ x.shared = disk'[n][f]
    PROVE  /\ KnownIsShared'
           /\ \A m \in Nodes, g \in Files :
                  (m # n \/ g # f) /\ Known(m, g) => Known(m, g)'
           /\ x.stat = disk'[n][f] => Known(n, f)'
<1>1. /\ i \in Ids
      /\ f_files'[n] = f_files[n] \cup {i}
      /\ f_modified_files'[n] = timer
      /\ file'[n][i] = x
      /\ \A j \in f_files[n] \ {i} : /\ file'[n][j] = file[n][j]
                                    /\ file[n][j].name # f
      /\ \A m \in Nodes \ {n} :
             /\ f_files'[m] = f_files[m]
             /\ f_modified_files'[m] = f_modified_files[m]
             /\ file'[m] = file[m]
  BY EntryStored
<1>2. x.name = f /\ f_modified_files[n] \subseteq timer
  BY DEF StoreEntry
<1>3. \A m \in Nodes : \A j \in f_files[m] : file[m][j].name \in Files
  BY DEF IInv, TypeOK, Referenced
<1>4. KnownIsShared'
  <2>1. ASSUME NEW m \in Nodes, NEW j \in f_files'[m], NEW g \in Files,
               g = file'[m][j].name, local'[m][g], disk'[m][g] # Absent,
               file'[m][j].stat = disk'[m][g]
        PROVE  \/ j \in f_modified_files'[m] /\ file'[m][j].updated
               \/ file'[m][j].shared = disk'[m][g]
    <3>1. CASE m = n /\ j = i
      BY <1>1, <1>2, <2>1, <3>1
    <3>2. CASE m = n /\ j # i
      <4>1. j \in f_files[n] /\ file'[n][j] = file[n][j] /\ g # f
        BY <1>1, <2>1, <3>2
      <4>2. local[n][g] /\ disk[n][g] = disk'[n][g]
        BY <2>1, <3>2, <4>1 DEF OnlyFile
      <4>3. \/ j \in f_modified_files[n] /\ file[n][j].updated
            \/ file[n][j].shared = disk[n][g]
        BY <2>1, <3>2, <4>1, <4>2 DEF IInv, KnownIsShared, Pending
      <4>4. QED
        BY <1>1, <1>2, <3>2, <4>1, <4>2, <4>3
    <3>3. CASE m # n
      <4>1. /\ j \in f_files[m] /\ file'[m][j] = file[m][j]
            /\ f_modified_files'[m] = f_modified_files[m]
        BY <1>1, <2>1, <3>3
      <4>2. local[m][g] /\ disk[m][g] = disk'[m][g]
        BY <2>1, <3>3 DEF OnlyFile
      <4>3. \/ j \in f_modified_files[m] /\ file[m][j].updated
            \/ file[m][j].shared = disk[m][g]
        BY <2>1, <4>1, <4>2 DEF IInv, KnownIsShared, Pending
      <4>4. QED
        BY <4>1, <4>2, <4>3
    <3>4. QED
      BY <3>1, <3>2, <3>3
  <2>2. \A m \in Nodes : \A j \in f_files'[m] : file'[m][j].name \in Files
    BY <1>1, <1>2, <1>3
  <2>3. QED
    BY <2>1, <2>2 DEF KnownIsShared, Pending
<1>5. ASSUME NEW m \in Nodes, NEW g \in Files, m # n \/ g # f, Known(m, g)
      PROVE  Known(m, g)'
  <2>1. PICK j \in f_files[m] : file[m][j].name = g /\ file[m][j].stat = disk[m][g]
    BY <1>5 DEF Known, Named
  <2>2. disk'[m][g] = disk[m][g]
    BY <1>5 DEF OnlyFile
  <2>3. j \in f_files'[m] /\ file'[m][j] = file[m][j]
    <3>1. CASE m # n
      BY <1>1, <3>1
    <3>2. CASE m = n
      <4>1. j # i
        <5>1. i \in f_files[n] => file[n][i].name = f
          BY DEF StoreEntry, GetFile, Named, InUse, Referenced
        <5>2. QED
          BY <1>5, <2>1, <3>2, <5>1
      <4>2. QED
        BY <1>1, <3>2, <4>1
    <3>3. QED
      BY <3>1, <3>2
  <2>4. QED
    BY <2>1, <2>2, <2>3 DEF Known, Named
<1>6. x.stat = disk'[n][f] => Known(n, f)'
  BY <1>1, <1>2 DEF Known, Named
<1>7. QED
  BY <1>4, <1>5, <1>6

\* When the entry of f is erased, the other entries and files are as they were.
LEMMA RemoveStep ==
    ASSUME IInv, NEW n \in Nodes, NEW f \in Files, NEW table,
           RemoveEntry(n, f, table), OnlyFile(n, f),
           \/ disk'[n][f] = Absent
           \/ disk'[n][f] = disk[n][f] /\ local'[n][f] = local[n][f]
    PROVE  /\ KnownIsShared'
           /\ \A m \in Nodes, g \in Files :
                  (m # n \/ g # f) /\ Known(m, g) => Known(m, g)'
<1>1. /\ f_files'[n] \subseteq f_files[n]
      /\ f_modified_files'[n] = f_modified_files[n]
      /\ \A j \in f_files[n] :
             file[n][j].name # f => j \in f_files'[n]
      /\ \A j \in f_files'[n] : file'[n][j] = file[n][j]
      /\ \A m \in Nodes \ {n} :
             /\ f_files'[m] = f_files[m]
             /\ f_modified_files'[m] = f_modified_files[m]
             /\ file'[m] = file[m]
  BY EntryErased
<1>2. \A m \in Nodes : \A j \in f_files'[m] :
          /\ j \in f_files[m] /\ file'[m][j] = file[m][j]
          /\ f_modified_files'[m] = f_modified_files[m]
          /\ file[m][j].name \in Files
  BY <1>1 DEF IInv, TypeOK, Referenced
<1>3. KnownIsShared'
  <2>1. ASSUME NEW m \in Nodes, NEW j \in f_files'[m], NEW g \in Files,
               g = file'[m][j].name, local'[m][g], disk'[m][g] # Absent,
               file'[m][j].stat = disk'[m][g]
        PROVE  \/ j \in f_modified_files'[m] /\ file'[m][j].updated
               \/ file'[m][j].shared = disk'[m][g]
    <3>1. local[m][g] /\ disk[m][g] = disk'[m][g]
      BY <2>1 DEF OnlyFile
    <3>2. \/ j \in f_modified_files[m] /\ file[m][j].updated
          \/ file[m][j].shared = disk[m][g]
      BY <1>2, <2>1, <3>1 DEF IInv, KnownIsShared, Pending
    <3>3. QED
      BY <1>2, <3>1, <3>2
  <2>2. QED
    BY <1>2, <2>1 DEF KnownIsShared, Pending
<1>4. ASSUME NEW m \in Nodes, NEW g \in Files, m # n \/ g # f, Known(m, g)
      PROVE  Known(m, g)'
  <2>1. PICK j \in f_files[m] : file[m][j].name = g /\ file[m][j].stat = disk[m][g]
    BY <1>4 DEF Known, Named
  <2>2. disk'[m][g] = disk[m][g]
    BY <1>4 DEF OnlyFile
  <2>3. j \in f_files'[m] /\ file'[m][j] = file[m][j]
    BY <1>1, <1>4, <2>1
  <2>4. QED
    BY <2>1, <2>2, <2>3 DEF Known, Named
<1>5. QED
  BY <1>3, <1>4

-----------------------------------------------------------------------------
(* Every action preserves the inductive invariant. *)

\* A file that stays as it is and of which no event says anything.
LEMMA OtherFile ==
    ASSUME IInv, NEW n \in Nodes, NEW f \in Files, NEW g \in Files, g # f,
           NEW k \in {"modified", "updated", "deleted"},
           Notify(n, f, k) \/ events' = events
    PROVE  /\ NoticedIn(events[n], g) => NoticedIn(events'[n], g)
           /\ DeletedIn(events'[n], g) => DeletedIn(events[n], g)
           /\ \A m \in Nodes \ {n} : events'[m] = events[m]
<1>1. [name |-> f, kind |-> k] \in Event
  BY DEF Event
<1>2. events \in [Nodes -> Seq(Event)]
  BY DEF IInv, TypeOK
<1>3. \/ events' = events
      \/ events' = [events EXCEPT ![n] =
                        Queue(events[n], [name |-> f, kind |-> k])]
  BY DEF Notify
<1>4. QED
  BY <1>1, <1>2, <1>3, AppendOther

LEMMA NotifiedFile ==
    ASSUME IInv, NEW n \in Nodes, NEW f \in Files,
           NEW k \in {"modified", "updated"}, Notify(n, f, k)
    PROVE  NoticedIn(events'[n], f)
<1> DEFINE e == [name |-> f, kind |-> k]
<1>1. e \in Event /\ e.name = f /\ e.kind # "deleted"
  BY DEF Event
<1>2. events \in [Nodes -> Seq(Event)]
  BY DEF IInv, TypeOK
<1>3. events'[n] = Queue(events[n], e)
  BY <1>2 DEF Notify
<1> HIDE DEF e
<1>4. NoticedIn(Queue(events[n], e), e.name)
  BY <1>1, <1>2, AppendNotices
<1>5. QED
  BY <1>1, <1>3, <1>4

\* What a local service does to file f of node n, as far as the invariant is
\* concerned, when it queues an event of kind k if that is watched.
LocalChange(n, f, k) ==
    /\ clock' \in Nat /\ clock <= clock'
    /\ disk' \in [Nodes -> [Files -> Nat]]
    /\ local' \in [Nodes -> [Files -> BOOLEAN]]
    /\ \A m \in Nodes, g \in Files : m # n \/ g # f =>
           disk'[m][g] = disk[m][g] /\ local'[m][g] = local[m][g]
    /\ disk'[n][f] <= clock'
    /\ \/ disk'[n][f] = Absent
       \/ disk'[n][f] > clock
       \/ disk'[n][f] = disk[n][f] /\ local'[n][f] = local[n][f]
    /\ Notify(n, f, k) \/ events' = events
    /\ \/ disk'[n][f] = Absent
       \/ k # "deleted" /\ (Watched(n) => Notify(n, f, k))
    /\ file' = file /\ f_files' = f_files
    /\ f_modified_files' = f_modified_files
    /\ channel' = channel /\ receivers' = receivers

LEMMA LocalStep ==
    ASSUME IInv, NEW n \in Nodes, NEW f \in Files,
           NEW k \in {"modified", "updated", "deleted"}, LocalChange(n, f, k)
    PROVE  IInv'
<1> USE DEF LocalChange
<1>1. TypeOK /\ disk \in [Nodes -> [Files -> Nat]]
             /\ local \in [Nodes -> [Files -> BOOLEAN]]
  BY DEF IInv, TypeOK
<1>3. TypeOK'
  <2>1. events' \in [Nodes -> Seq(Event)]
    BY <1>1, NotifyType
  <2>2. QED
    BY <1>1, <2>1 DEF TypeOK, Referenced
<1>4. OneEntryPerName'
  BY DEF IInv, OneEntryPerName
<1>5. TimesOK'
  <2>1. ASSUME NEW m \in Nodes, NEW g \in Files
        PROVE  disk'[m][g] <= clock'
    <3>1. CASE m = n /\ g = f
      BY <3>1
    <3>2. CASE m # n \/ g # f
      <4>1. disk'[m][g] = disk[m][g] /\ disk[m][g] \in Nat /\ clock \in Nat
        BY <1>1, <3>2 DEF TypeOK
      <4>2. disk[m][g] <= clock
        BY DEF IInv, TimesOK
      <4>3. QED
        BY <4>1, <4>2
    <3>3. QED
      BY <3>1, <3>2
  <2>2. ASSUME NEW m \in Nodes, NEW i \in Ids
        PROVE  file'[m][i].stat <= clock'
    <3>1. /\ file[m][i] \in SharedFile /\ clock \in Nat
          /\ clock' \in Nat /\ clock <= clock' /\ file' = file
      BY <1>1 DEF TypeOK
    <3>2. file[m][i].stat \in Nat
      BY <3>1 DEF SharedFile
    <3>3. file[m][i].stat <= clock
      BY DEF IInv, TimesOK
    <3>4. QED
      BY ONLY <3>1, <3>2, <3>3
  <2>3. \A m \in Nodes : \A j \in DOMAIN receivers'[m] :
            receivers'[m][j].version <= clock'
    <3>1. ASSUME NEW m \in Nodes, NEW j \in DOMAIN receivers[m]
          PROVE  receivers[m][j].version <= clock'
      <4>1. receivers[m][j] \in Receiver /\ clock \in Nat
        BY DEF IInv, TypeOK
      <4>2. receivers[m][j].version \in Nat
        BY <4>1 DEF Receiver
      <4>3. receivers[m][j].version <= clock
        BY DEF IInv, TimesOK
      <4>4. QED
        BY <4>1, <4>2, <4>3
    <3>2. QED
      BY <3>1
  <2>4. QED
    BY <2>1, <2>2, <2>3 DEF TimesOK
<1>6. KnownIsShared'
  <2>1. ASSUME NEW m \in Nodes, NEW i \in f_files[m], NEW g \in Files,
               g = file[m][i].name,
               local'[m][g], disk'[m][g] # Absent, file[m][i].stat = disk'[m][g]
        PROVE  i \in Pending(m) \/ file[m][i].shared = disk'[m][g]
    <3>1. i \in Ids
      BY DEF IInv, TypeOK
    <3>2. file[m][i].stat <= clock /\ file[m][i].stat \in Nat /\ clock \in Nat
      BY <3>1 DEF IInv, TimesOK, TypeOK, SharedFile
    <3>3. CASE m # n \/ g # f
      BY <2>1, <3>3 DEF IInv, KnownIsShared
    <3>4. CASE m = n /\ g = f
      <4>1. disk'[n][f] = disk[n][f] /\ local'[n][f] = local[n][f]
        BY <2>1, <3>2, <3>4
      <4>2. QED
        BY <2>1, <3>4, <4>1 DEF IInv, KnownIsShared
    <3>5. QED
      BY <3>3, <3>4
  <2>2. \A m \in Nodes : Pending(m)' = Pending(m)
    BY DEF Pending
  <2>3. \A m \in Nodes : \A i \in f_files[m] : file[m][i].name \in Files
    BY DEF IInv, TypeOK, Referenced
  <2>4. QED
    BY <2>1, <2>2, <2>3 DEF KnownIsShared
<1>7. KnownOrNoticed'
  <2>1. ASSUME NEW m \in Nodes, NEW g \in Files, Watched(m),
               disk'[m][g] # Absent
        PROVE  \/ NoticedIn(events'[m], g)
               \/ Known(m, g)' /\ ~ DeletedIn(events'[m], g)
    <3>1. CASE m = n /\ g = f
      <4>1. k \in {"modified", "updated"} /\ Notify(n, f, k)
        BY <2>1, <3>1
      <4>2. QED
        BY <3>1, <4>1, NotifiedFile
    <3>2. CASE m # n \/ g # f
      <4>1. disk'[m][g] = disk[m][g]
        BY <3>2
      <4>2. \/ NoticedIn(events[m], g)
            \/ Known(m, g) /\ ~ DeletedIn(events[m], g)
        BY <4>1, <2>1 DEF IInv, KnownOrNoticed
      <4>3. Known(m, g) => Known(m, g)'
        BY <4>1 DEF Known, Named
      <4>4. CASE m = n
        BY <4>2, <4>3, <4>4, <3>2, OtherFile
      <4>5. CASE m # n
        <5>1. events'[m] = events[m]
          BY <1>1, <4>5 DEF Notify, TypeOK
        <5>2. QED
          BY <4>2, <4>3, <5>1
      <4>6. QED
        BY <4>4, <4>5
    <3>3. QED
      BY <3>1, <3>2
  <2>2. QED
    BY <2>1 DEF KnownOrNoticed, Watched
<1>8. QED
  BY <1>3, <1>4, <1>5, <1>6, <1>7 DEF IInv

LEMMA LocalWriteInv ==
    ASSUME IInv, NEW n \in Nodes, NEW f \in Files, LocalWrite(n, f)
    PROVE  IInv'
<1>1. /\ clock \in Nat
      /\ disk \in [Nodes -> [Files -> Nat]]
      /\ local \in [Nodes -> [Files -> BOOLEAN]]
  BY DEF IInv, TypeOK
<1>2. /\ clock' = clock + 1
      /\ disk' = [disk EXCEPT ![n][f] = clock + 1]
      /\ local' = [local EXCEPT ![n][f] = TRUE]
      /\ file' = file /\ f_files' = f_files
      /\ f_modified_files' = f_modified_files
      /\ channel' = channel /\ receivers' = receivers
  BY DEF LocalWrite, daemon
<1>3. /\ Notify(n, f, "modified") \/ events' = events
      /\ Watched(n) => Notify(n, f, "modified")
  BY DEF LocalWrite, NotifyWhen
<1>4. clock' \in Nat /\ clock <= clock' /\ clock + 1 \in Nat
  BY <1>1, <1>2
<1>5. disk' \in [Nodes -> [Files -> Nat]] /\ disk'[n][f] = clock + 1
  BY <1>1, <1>2, <1>4
<1>6. disk'[n][f] <= clock' /\ disk'[n][f] > clock
  BY <1>1, <1>2, <1>5
<1>7. local' \in [Nodes -> [Files -> BOOLEAN]]
  BY <1>1, <1>2
<1>8. \A m \in Nodes, g \in Files : m # n \/ g # f =>
          disk'[m][g] = disk[m][g] /\ local'[m][g] = local[m][g]
  BY <1>1, <1>2
<1>9. LocalChange(n, f, "modified")
  BY <1>2, <1>3, <1>4, <1>5, <1>6, <1>7, <1>8 DEF LocalChange
<1>10. QED
  BY <1>9, LocalStep

LEMMA LocalCloseInv ==
    ASSUME IInv, NEW n \in Nodes, NEW f \in Files, LocalClose(n, f)
    PROVE  IInv'
<1>1. /\ clock \in Nat
      /\ disk \in [Nodes -> [Files -> Nat]]
      /\ local \in [Nodes -> [Files -> BOOLEAN]]
  BY DEF IInv, TypeOK
<1>2. /\ clock' = clock /\ disk' = disk /\ local' = local
      /\ file' = file /\ f_files' = f_files
      /\ f_modified_files' = f_modified_files
      /\ channel' = channel /\ receivers' = receivers
      /\ Notify(n, f, "updated")
  BY DEF LocalClose, daemon
<1>3. disk[n][f] <= clock
  BY DEF IInv, TimesOK
<1>4. LocalChange(n, f, "updated")
  BY <1>1, <1>2, <1>3 DEF LocalChange
<1>5. QED
  BY <1>4, LocalStep

LEMMA LocalDeleteInv ==
    ASSUME IInv, NEW n \in Nodes, NEW f \in Files, LocalDelete(n, f)
    PROVE  IInv'
<1>1. /\ clock \in Nat
      /\ disk \in [Nodes -> [Files -> Nat]]
      /\ local \in [Nodes -> [Files -> BOOLEAN]]
  BY DEF IInv, TypeOK
<1>2. /\ clock' = clock
      /\ disk' = [disk EXCEPT ![n][f] = 0]
      /\ local' = [local EXCEPT ![n][f] = FALSE]
      /\ file' = file /\ f_files' = f_files
      /\ f_modified_files' = f_modified_files
      /\ channel' = channel /\ receivers' = receivers
  BY DEF LocalDelete, daemon, Absent
<1>3. Notify(n, f, "deleted") \/ events' = events
  BY DEF LocalDelete, NotifyWhen
<1>4. disk' \in [Nodes -> [Files -> Nat]]
  BY <1>1, <1>2
<1>5. /\ disk'[n][f] <= clock' /\ disk'[n][f] = Absent
      /\ clock <= clock' /\ clock' \in Nat
  BY <1>1, <1>2 DEF Absent
<1>6. local' \in [Nodes -> [Files -> BOOLEAN]]
  BY <1>1, <1>2
<1>7. \A m \in Nodes, g \in Files : m # n \/ g # f =>
          disk'[m][g] = disk[m][g] /\ local'[m][g] = local[m][g]
  BY <1>1, <1>2
<1>8. LocalChange(n, f, "deleted")
  BY <1>1, <1>2, <1>3, <1>4, <1>5, <1>6, <1>7 DEF LocalChange
<1>9. QED
  BY <1>8, LocalStep

LEMMA NobodyWrites ==
    ASSUME IInv, NEW n \in Nodes, NEW f \in Files, disk' = disk, local' = local
    PROVE  OnlyFile(n, f)
  BY DEF IInv, TypeOK, OnlyFile

\* The object get_file() returns, unchanged: what it knows is shared.
LEMMA EntryIsShared ==
    ASSUME IInv, NEW n \in Nodes, NEW f \in Files, NEW i \in GetFile(n, f),
           local[n][f], disk[n][f] # Absent, Entry(n, f, i).stat = disk[n][f]
    PROVE  \/ i \in f_modified_files[n] /\ Entry(n, f, i).updated
           \/ Entry(n, f, i).shared = disk[n][f]
<1>1. Entry(n, f, i).name = f
  BY EntryType DEF IInv
<1>2. CASE i \in f_files[n]
  BY <1>1, <1>2 DEF IInv, KnownIsShared, Entry, Pending
<1>3. CASE i \notin f_files[n]
  <2>1. Entry(n, f, i).stat = Absent
    BY <1>3 DEF Entry, NewFile, NoFile
  <2>2. QED
    BY <2>1
<1>4. QED
  BY <1>2, <1>3

\* updated_file() records the version on disk, and the version is then in the
\* timer's set or announced.
LEMMA UpdatedFileStep ==
    ASSUME IInv, NEW n \in Nodes, NEW f \in Files, NEW updated \in BOOLEAN,
           UpdatedFile(n, f, updated),
           clock' = clock, disk' = disk, local' = local
    PROVE  /\ DaemonTypeOK'
           /\ OneEntryPerName'
           /\ \A m \in Nodes, j \in Ids : file'[m][j].stat <= clock'
           /\ KnownIsShared'
           /\ channel' \in [Nodes -> [Nodes -> Seq(Message)]]
           /\ \A m \in Nodes, g \in Files :
                  (m # n \/ g # f) /\ Known(m, g) => Known(m, g)'
           /\ disk[n][f] # Absent => Known(n, f)'
<1> DEFINE v == disk[n][f]
<1>1. PICK i \in GetFile(n, f) :
        LET o == Entry(n, f, i)
            table == f_files[n] \cup {i}
            touched == SetLastUpdated(o, v)
            shared == SetStartSharing(touched, v)
        IN  \/ /\ SameStat(o, v)
               /\ Store(n, table, f_modified_files[n],
                        [file[n] EXCEPT ![i] = o])
               /\ UNCHANGED channel
            \/ /\ ~ SameStat(o, v)
               /\ updated
               /\ Store(n, table, f_modified_files[n],
                        [file[n] EXCEPT ![i] = shared])
               /\ Broadcast(n, << ChangedMessage(shared, i) >>)
            \/ /\ ~ SameStat(o, v)
               /\ ~ updated
               /\ Store(n, table, f_modified_files[n] \cup {i},
                        [file[n] EXCEPT ![i] = touched])
               /\ UNCHANGED channel
  BY DEF UpdatedFile
<1> DEFINE o == Entry(n, f, i)
           touched == SetLastUpdated(o, v)
           shared == SetStartSharing(touched, v)
<1>2. OnlyFile(n, f)
  BY NobodyWrites
<1>3. v \in Nat /\ v <= clock /\ clock \in Nat
        /\ channel \in [Nodes -> [Nodes -> Seq(Message)]]
  BY DEF IInv, TypeOK, TimesOK
<1>4. i \in Ids /\ o \in SharedFile /\ o.name = f /\ o.stat <= clock
  <2>1. i \in Ids /\ o \in SharedFile /\ o.name = f
    BY EntryType DEF IInv
  <2>2. file[n][i].stat <= clock
    BY <2>1 DEF IInv, TimesOK
  <2>3. QED
    BY <1>3, <2>1, <2>2 DEF Entry, NewFile, NoFile, Absent
<1>5. /\ touched \in SharedFile /\ touched.name = f
      /\ touched.stat = v /\ touched.updated
  BY <1>3, <1>4 DEF SetLastUpdated, SharedFile
<1>6. v # Absent => /\ shared \in SharedFile /\ shared.name = f
                    /\ shared.stat = v /\ shared.shared = v
  BY <1>3, <1>5 DEF SetStartSharing, SharedFile
<1> HIDE DEF o, touched, shared
<1>7. CASE /\ SameStat(o, v)
           /\ Store(n, f_files[n] \cup {i}, f_modified_files[n],
                    [file[n] EXCEPT ![i] = o])
           /\ UNCHANGED channel
  <2>1. StoreEntry(n, f, i, f_modified_files[n], o)
    BY <1>4, <1>7 DEF StoreEntry
  <2>2. local'[n][f] /\ disk'[n][f] # Absent /\ o.stat = disk'[n][f]
            => (i \in f_modified_files[n] /\ o.updated) \/ o.shared = disk'[n][f]
    BY EntryIsShared DEF o
  <2>3. v # Absent => o.stat = disk'[n][f]
    BY <1>7 DEF SameStat
  <2>4. QED
    BY <1>2, <1>3, <1>7, <2>1, <2>2, <2>3, StoreStep, EntryStored
<1>8. CASE /\ ~ SameStat(o, v)
           /\ updated
           /\ Store(n, f_files[n] \cup {i}, f_modified_files[n],
                    [file[n] EXCEPT ![i] = shared])
           /\ Broadcast(n, << ChangedMessage(shared, i) >>)
  <2>1. v # Absent
    BY <1>8 DEF SameStat
  <2>2. StoreEntry(n, f, i, f_modified_files[n], shared)
    BY <1>3, <1>6, <1>8, <2>1 DEF StoreEntry
  <2>3. ChangedMessage(shared, i) \in Message
    BY <1>3, <1>4, <1>6, <2>1 DEF ChangedMessage, Message
  <2>4. << ChangedMessage(shared, i) >> \in Seq(Message)
    BY <2>3
  <2>5. channel' \in [Nodes -> [Nodes -> Seq(Message)]]
    BY <1>8, <2>4, BroadcastType DEF IInv
  <2>6. shared.stat = disk'[n][f] /\ shared.shared = disk'[n][f]
    BY <1>6, <2>1
  <2>7. QED
    BY <1>2, <2>2, <2>5, <2>6, StoreStep, EntryStored
<1>9. CASE /\ ~ SameStat(o, v)
           /\ ~ updated
           /\ Store(n, f_files[n] \cup {i}, f_modified_files[n] \cup {i},
                    [file[n] EXCEPT ![i] = touched])
           /\ UNCHANGED channel
  <2>1. StoreEntry(n, f, i, f_modified_files[n] \cup {i}, touched)
    BY <1>3, <1>5, <1>9 DEF StoreEntry
  <2>2. touched.stat = disk'[n][f] /\ touched.updated
          /\ i \in f_modified_files[n] \cup {i}
    BY <1>5
  <2>3. QED
    BY <1>2, <1>3, <1>9, <2>1, <2>2, StoreStep, EntryStored
<1>10. QED
  BY <1>1, <1>7, <1>8, <1>9 DEF o, touched, shared

LEMMA DeletedFileStep ==
    ASSUME IInv, NEW n \in Nodes, NEW f \in Files, DeletedFile(n, f),
           clock' = clock, disk' = disk, local' = local
    PROVE  /\ DaemonTypeOK'
           /\ OneEntryPerName'
           /\ \A m \in Nodes, j \in Ids : file'[m][j].stat <= clock'
           /\ KnownIsShared'
           /\ channel' \in [Nodes -> [Nodes -> Seq(Message)]]
           /\ \A m \in Nodes, g \in Files :
                  (m # n \/ g # f) /\ Known(m, g) => Known(m, g)'
<1>1. PICK table \in EraseFile(n, f) :
          Store(n, table, f_modified_files[n], file[n])
  BY DEF DeletedFile
<1>2. RemoveEntry(n, f, table) /\ OnlyFile(n, f)
  BY <1>1, NobodyWrites DEF RemoveEntry
<1>3. DeletedMessage(f) \in Message
  BY DEF DeletedMessage, Message
<1>4. << DeletedMessage(f) >> \in Seq(Message)
  BY <1>3
<1>5. channel' \in [Nodes -> [Nodes -> Seq(Message)]]
  BY <1>4, BroadcastType DEF DeletedFile, IInv
<1>6. QED
  BY <1>2, <1>5, RemoveStep, EntryErased

\* The first event of n is taken: what that leaves of the queue.
LEMMA EventTaken ==
    ASSUME IInv, NEW n \in Nodes, events[n] # << >>,
           events' = [events EXCEPT ![n] = Tail(@)],
           NEW g \in Files, Watched(n), disk[n][g] # Absent
    PROVE  \/ NoticedIn(events'[n], g)
           \/ /\ ~ DeletedIn(events'[n], g)
              /\ \/ Known(n, g) /\ ~ (Head(events[n]).name = g
                                     /\ Head(events[n]).kind = "deleted")
                 \/ Head(events[n]).name = g /\ Head(events[n]).kind # "deleted"
<1>1. events \in [Nodes -> Seq(Event)]
  BY DEF IInv, TypeOK
<1>2. events[n] \in Seq(Event) /\ events'[n] = Tail(events[n])
  BY <1>1
<1>3. CASE NoticedIn(events[n], g)
  BY <1>2, <1>3, TailNotices
<1>4. CASE Known(n, g) /\ ~ DeletedIn(events[n], g)
  <2>1. ~ DeletedIn(events'[n], g)
    BY <1>2, <1>4, TailDeletes
  <2>2. 1 \in DOMAIN events[n] /\ Head(events[n]) = events[n][1]
    BY <1>2
  <2>3. ~ (Head(events[n]).name = g /\ Head(events[n]).kind = "deleted")
    BY <1>4, <2>2 DEF DeletedIn
  <2>4. QED
    BY <1>4, <2>1, <2>3
<1>5. QED
  BY <1>3, <1>4 DEF IInv, KnownOrNoticed

LEMMA ProcessEventInv ==
    ASSUME IInv, NEW n \in Nodes, ProcessEvent(n)
    PROVE  IInv'
<1>1. /\ events[n] # << >> /\ events' = [events EXCEPT ![n] = Tail(@)]
      /\ clock' = clock /\ disk' = disk /\ local' = local
      /\ receivers' = receivers
  BY DEF ProcessEvent
<1>2. events \in [Nodes -> Seq(Event)] /\ TypeOK
  BY DEF IInv, TypeOK
<1>3. PICK e \in Event : e = Head(events[n])
  BY <1>1, <1>2
<1>4. e.name \in Files
  BY DEF Event
<1>5. events' \in [Nodes -> Seq(Event)]
  BY <1>1, <1>2
<1>6. /\ DaemonTypeOK'
      /\ OneEntryPerName'
      /\ \A m \in Nodes, j \in Ids : file'[m][j].stat <= clock'
      /\ KnownIsShared'
      /\ channel' \in [Nodes -> [Nodes -> Seq(Message)]]
      /\ \A m \in Nodes, g \in Files :
             (m # n \/ g # e.name) /\ Known(m, g) => Known(m, g)'
      /\ e.kind # "deleted" /\ disk[n][e.name] # Absent => Known(n, e.name)'
  <2>1. \/ e.kind # "deleted" /\ \E u \in BOOLEAN : UpdatedFile(n, e.name, u)
        \/ e.kind = "deleted" /\ DeletedFile(n, e.name)
    BY <1>3 DEF ProcessEvent
  <2>2. CASE \E u \in BOOLEAN : UpdatedFile(n, e.name, u)
    <3>1. PICK u \in BOOLEAN : UpdatedFile(n, e.name, u)
      BY <2>2
    <3>2. QED
      BY <1>1, <1>4, <3>1, UpdatedFileStep
  <2>3. CASE e.kind = "deleted" /\ DeletedFile(n, e.name)
    BY <1>1, <1>4, <2>3, DeletedFileStep
  <2>4. QED
    BY <2>1, <2>2, <2>3
<1>7. TypeOK'
  BY <1>1, <1>2, <1>5, <1>6 DEF TypeOK, DaemonTypeOK
<1>8. TimesOK'
  BY <1>1, <1>6 DEF IInv, TimesOK
<1>9. KnownOrNoticed'
  <2>1. ASSUME NEW m \in Nodes, NEW g \in Files, Watched(m),
               disk'[m][g] # Absent
        PROVE  \/ NoticedIn(events'[m], g)
               \/ Known(m, g)' /\ ~ DeletedIn(events'[m], g)
    <3>1. CASE m = n
      <4>1. \/ NoticedIn(events'[n], g)
            \/ /\ ~ DeletedIn(events'[n], g)
               /\ \/ Known(n, g) /\ ~ (e.name = g /\ e.kind = "deleted")
                  \/ e.name = g /\ e.kind # "deleted"
        BY <1>1, <1>3, <2>1, <3>1, EventTaken
      <4>2. Known(n, g) /\ ~ (e.name = g /\ e.kind = "deleted")
                => Known(n, g)'
        BY <1>1, <1>6, <2>1, <3>1
      <4>3. e.name = g /\ e.kind # "deleted" => Known(n, g)'
        BY <1>1, <1>6, <2>1, <3>1
      <4>4. QED
        BY <3>1, <4>1, <4>2, <4>3
    <3>2. CASE m # n
      <4>1. events'[m] = events[m] /\ disk[m][g] # Absent
        BY <1>1, <1>2, <2>1, <3>2
      <4>2. QED
        BY <1>6, <2>1, <3>2, <4>1 DEF IInv, KnownOrNoticed
    <3>3. QED
      BY <3>1, <3>2
  <2>2. QED
    BY <2>1 DEF KnownOrNoticed, Watched
<1>10. QED
  BY <1>6, <1>7, <1>8, <1>9 DEF IInv

LEMMA ProcessTimeoutInv ==
    ASSUME IInv, NEW n \in Nodes, NEW due \in SUBSET Pending(n),
           ProcessTimeout(n, due)
    PROVE  IInv'
<1> DEFINE announce(i) == SetStartSharing(file[n][i], disk[n][file[n][i].name])
           shared == [i \in Ids |-> IF i \in due THEN announce(i)
                                                 ELSE file[n][i]]
           timer == Pending(n) \ due
<1>1. /\ TypeOK
      /\ disk \in [Nodes -> [Files -> Nat]]
      /\ f_files[n] \in SUBSET Ids /\ f_modified_files[n] \in SUBSET Ids
      /\ file[n] \in [Ids -> SharedFile]
      /\ clock \in Nat
  BY DEF IInv, TypeOK
<1>2. /\ Store(n, f_files[n], timer, shared)
      /\ clock' = clock /\ disk' = disk /\ local' = local
      /\ events' = events /\ receivers' = receivers
  BY DEF ProcessTimeout
<1>3. PICK order \in SetToSeqs(Found(n, due)) :
          Broadcast(n, [k \in DOMAIN order |->
                           ChangedMessage(shared[order[k]], order[k])])
  BY DEF ProcessTimeout
<1>4. /\ due \in SUBSET Ids /\ timer \in SUBSET Ids
      /\ due \subseteq f_modified_files[n] /\ timer \subseteq f_modified_files[n]
  BY <1>1 DEF Pending
<1>5. \A i \in f_files[n] \cup f_modified_files[n] : file[n][i].name \in Files
  BY DEF IInv, TypeOK, Referenced
<1>6. ASSUME NEW i \in due
      PROVE  /\ shared[i] \in SharedFile /\ shared[i].name = file[n][i].name
             /\ disk[n][file[n][i].name] # Absent =>
                    /\ shared[i].stat = disk[n][file[n][i].name]
                    /\ shared[i].shared = disk[n][file[n][i].name]
             /\ disk[n][file[n][i].name] = Absent => shared[i].stat = file[n][i].stat
  <2>1. i \in Ids /\ file[n][i] \in SharedFile /\ file[n][i].name \in Files
    BY <1>1, <1>4, <1>5
  <2>2. disk[n][file[n][i].name] \in Nat
    BY <1>1, <2>1
  <2>3. shared[i] = announce(i)
    BY <2>1
  <2>4. announce(i) \in SharedFile /\ announce(i).name = file[n][i].name
    BY <2>1, <2>2, SetStartSharingType
  <2>5. disk[n][file[n][i].name] # Absent =>
            /\ announce(i).stat = disk[n][file[n][i].name]
            /\ announce(i).shared = disk[n][file[n][i].name]
    BY <2>1, <2>2 DEF SetStartSharing, SharedFile
  <2>6. disk[n][file[n][i].name] = Absent => announce(i).stat = file[n][i].stat
    BY <2>1, <2>2 DEF SetStartSharing, SharedFile
  <2>7. QED
    BY <2>3, <2>4, <2>5, <2>6
<1>7. \A i \in Ids \ due : shared[i] = file[n][i]
  OBVIOUS
<1> HIDE DEF shared, timer
<1>8. \A i \in f_files[n] \cup timer :
          /\ shared[i] \in SharedFile /\ shared[i].name \in Files
          /\ shared[i].name = file[n][i].name
  BY <1>1, <1>4, <1>5, <1>6, <1>7
<1>9. DaemonTypeOK'
  BY <1>1, <1>2, <1>4, <1>8, StoreType
<1>10. /\ f_files'[n] = f_files[n] /\ f_modified_files'[n] = timer
       /\ \A i \in f_files[n] \cup timer : file'[n][i] = shared[i]
       /\ \A i \in Ids \ (f_files[n] \cup timer) : file'[n][i] = NoFile
       /\ \A m \in Nodes \ {n} :
              /\ f_files'[m] = f_files[m]
              /\ f_modified_files'[m] = f_modified_files[m]
              /\ file'[m] = file[m]
  BY <1>1, <1>2, <1>4, StoreFrame
<1>11. channel' \in [Nodes -> [Nodes -> Seq(Message)]]
  <2>1. Found(n, due) \subseteq due /\ IsFiniteSet(Found(n, due))
    BY <1>4, FS_Subset, FiniteAssumption DEF Found
  <2>2. order \in Seq(Found(n, due))
    BY <2>1, SetToSeqsType
  <2>3. ASSUME NEW i \in Found(n, due)
        PROVE  ChangedMessage(shared[i], i) \in Message
    <3>1. i \in due /\ i \in Ids /\ disk[n][file[n][i].name] # Absent
            /\ file[n][i].name \in Files
      BY <1>4, <1>5, <2>1, <2>3 DEF Found
    <3>2. disk[n][file[n][i].name] \in Nat
      BY <1>1, <3>1
    <3>3. QED
      BY <1>6, <3>1, <3>2 DEF ChangedMessage, Message
  <2>4. [k \in DOMAIN order |-> ChangedMessage(shared[order[k]], order[k])]
            \in Seq(Message)
    BY <2>2, <2>3
  <2>5. QED
    BY <1>1, <1>3, <2>4, BroadcastType
<1>12. TypeOK'
  BY <1>1, <1>2, <1>9, <1>11 DEF TypeOK, DaemonTypeOK
<1>13. OneEntryPerName'
  BY <1>8, <1>10 DEF IInv, OneEntryPerName
<1>14. TimesOK'
  <2>1. ASSUME NEW m \in Nodes, NEW i \in Ids
        PROVE  file'[m][i].stat <= clock
    <3>1. file[m][i].stat <= clock
      BY DEF IInv, TimesOK
    <3>2. CASE m # n
      BY <1>10, <3>1, <3>2
    <3>3. CASE m = n /\ i \notin f_files[n] \cup timer
      BY <1>1, <1>10, <3>3 DEF NoFile, Absent
    <3>4. CASE m = n /\ i \in f_files[n] \cup timer /\ i \notin due
      BY <1>7, <1>10, <3>1, <3>4
    <3>5. CASE m = n /\ i \in f_files[n] \cup timer /\ i \in due
      <4>1. disk[n][file[n][i].name] <= clock
        BY <1>4, <1>5, <3>5 DEF IInv, TimesOK
      <4>2. file'[n][i] = shared[i]
        BY <1>10, <3>5
      <4>3. QED
        BY <1>6, <3>1, <3>5, <4>1, <4>2
    <3>6. QED
      BY <3>2, <3>3, <3>4, <3>5
  <2>2. QED
    BY <1>2, <2>1 DEF IInv, TimesOK
<1>15. KnownIsShared'
  <2>1. ASSUME NEW m \in Nodes, NEW i \in f_files[m], NEW g \in Files,
               g = file[m][i].name, local[m][g], disk[m][g] # Absent,
               file'[m][i].stat = disk[m][g]
        PROVE  \/ i \in f_modified_files'[m] /\ file'[m][i].updated
               \/ file'[m][i].shared = disk[m][g]
    <3>1. CASE m # n
      BY <1>10, <2>1, <3>1 DEF IInv, KnownIsShared, Pending
    <3>2. CASE m = n /\ i \in due
      BY <1>6, <1>10, <2>1, <3>2
    <3>3. CASE m = n /\ i \notin due
      <4>1. file'[n][i] = file[n][i] /\ i \in Ids
        BY <1>1, <1>7, <1>10, <2>1, <3>3
      <4>2. i \in Pending(n) \/ file[n][i].shared = disk[n][g]
        BY <2>1, <3>3, <4>1 DEF IInv, KnownIsShared
      <4>3. i \in Pending(n) => i \in timer /\ file[n][i].updated
        BY <3>3 DEF timer, Pending
      <4>4. QED
        BY <1>10, <3>3, <4>1, <4>2, <4>3
    <3>4. QED
      BY <3>1, <3>2, <3>3
  <2>2. \A m \in Nodes : \A i \in f_files'[m] :
            /\ i \in f_files[m] /\ file'[m][i].name = file[m][i].name
            /\ file[m][i].name \in Files
    <3>1. \A m \in Nodes : \A i \in f_files[m] : file[m][i].name \in Files
      BY DEF IInv, TypeOK, Referenced
    <3>2. QED
      BY <1>8, <1>10, <3>1
  <2>3. QED
    BY <1>2, <2>1, <2>2 DEF KnownIsShared, Pending
<1>16. KnownOrNoticed'
  <2>1. ASSUME NEW m \in Nodes, NEW g \in Files, disk[m][g] # Absent, Known(m, g)
        PROVE  Known(m, g)'
    <3>1. PICK i \in f_files[m] :
              file[m][i].name = g /\ file[m][i].stat = disk[m][g]
      BY <2>1 DEF Known, Named
    <3>2. i \in f_files'[m] /\ file'[m][i].name = g
      BY <1>8, <1>10, <3>1
    <3>3. file'[m][i].stat = disk[m][g]
      <4>1. CASE m # n
        BY <1>10, <3>1, <4>1
      <4>2. CASE m = n /\ i \in due
        BY <1>6, <1>10, <2>1, <3>1, <4>2
      <4>3. CASE m = n /\ i \notin due
        BY <1>1, <1>7, <1>10, <3>1, <4>3
      <4>4. QED
        BY <4>1, <4>2, <4>3
    <3>4. QED
      BY <1>2, <3>2, <3>3 DEF Known, Named
  <2>2. QED
    BY <1>2, <2>1 DEF IInv, KnownOrNoticed, Watched
<1>17. QED
  BY <1>12, <1>13, <1>14, <1>15, <1>16 DEF IInv

\* Only messages and transfers change, and no version comes from the future.
InFlightOK ==
    /\ clock' = clock
    /\ channel' \in [Nodes -> [Nodes -> Seq(Message)]]
    /\ receivers' \in [Nodes -> Seq(Receiver)]
    /\ \A n \in Nodes : \A k \in DOMAIN receivers'[n] :
           receivers'[n][k].version <= clock

LEMMA InFlightStep ==
    ASSUME IInv, InFlightOK, disk' = disk, local' = local, events' = events,
           file' = file, f_files' = f_files, f_modified_files' = f_modified_files
    PROVE  IInv'
<1>1. TypeOK'
  BY DEF IInv, InFlightOK, TypeOK, Referenced
<1>2. OneEntryPerName'
  BY DEF IInv, OneEntryPerName
<1>3. TimesOK'
  BY DEF IInv, InFlightOK, TimesOK
<1>4. KnownIsShared'
  BY DEF IInv, KnownIsShared, Pending
<1>5. KnownOrNoticed'
  BY DEF IInv, KnownOrNoticed, Known, Named, Watched
<1>6. QED
  BY <1>1, <1>2, <1>3, <1>4, <1>5 DEF IInv

\* The message that is received, and the channel without it.
LEMMA HeadMessage ==
    ASSUME IInv, NEW s \in Nodes, NEW n \in Nodes, channel[s][n] # << >>
    PROVE  /\ Head(channel[s][n]) \in Message
           /\ [channel EXCEPT ![s][n] = Tail(@)]
                  \in [Nodes -> [Nodes -> Seq(Message)]]
<1>1. channel \in [Nodes -> [Nodes -> Seq(Message)]]
  BY DEF IInv, TypeOK
<1>2. Tail(channel[s][n]) \in Seq(Message) /\ Head(channel[s][n]) \in Message
  BY <1>1
<1>3. QED
  BY <1>1, <1>2

LEMMA ReceiversOK ==
    ASSUME IInv
    PROVE  /\ receivers \in [Nodes -> Seq(Receiver)]
           /\ clock \in Nat
           /\ \A n \in Nodes : \A k \in DOMAIN receivers[n] :
                  receivers[n][k].version <= clock
  BY DEF IInv, TypeOK, TimesOK

\* A receiver is closed.
LEMMA ReceiverRemoved ==
    ASSUME IInv, NEW n \in Nodes, NEW k \in DOMAIN receivers[n],
           receivers' = [receivers EXCEPT ![n] = RemoveAt(@, k)]
    PROVE  /\ receivers' \in [Nodes -> Seq(Receiver)]
           /\ \A m \in Nodes : \A j \in DOMAIN receivers'[m] :
                  receivers'[m][j].version <= clock
<1>1. /\ receivers \in [Nodes -> Seq(Receiver)]
      /\ \A m \in Nodes : \A j \in DOMAIN receivers[m] :
             receivers[m][j].version <= clock
  BY ReceiversOK
<1> DEFINE q == receivers[n]
           r == RemoveAt(q, k)
<1>2. q \in Seq(Receiver) /\ k \in 1..Len(q)
  BY <1>1
<1>3. r \in Seq(Receiver)
  BY <1>2, RemoveAtType
<1>4. \A j \in DOMAIN r : \E i \in DOMAIN q : r[j] = q[i]
  BY <1>2, RemoveAtElements
<1>5. \A j \in DOMAIN r : r[j].version <= clock
  BY <1>1, <1>4
<1>6. receivers'[n] = r /\ \A m \in Nodes \ {n} : receivers'[m] = receivers[m]
  BY <1>1
<1> HIDE DEF q, r
<1>7. receivers' \in [Nodes -> Seq(Receiver)]
  BY <1>1, <1>3 DEF q, r
<1>8. QED
  BY <1>1, <1>5, <1>6, <1>7

LEMMA RefuseInv ==
    ASSUME IInv, NEW n \in Nodes, NEW k \in DOMAIN receivers[n],
           Refuse(n, k) \/ StreamFails(n, k)
    PROVE  IInv'
<1>1. /\ clock' = clock /\ disk' = disk /\ local' = local /\ events' = events
      /\ file' = file /\ f_files' = f_files
      /\ f_modified_files' = f_modified_files /\ channel' = channel
      /\ receivers' = [receivers EXCEPT ![n] = RemoveAt(@, k)]
  BY DEF Refuse, StreamFails, daemon
<1>2. channel \in [Nodes -> [Nodes -> Seq(Message)]]
  BY DEF IInv, TypeOK
<1>3. InFlightOK
  BY <1>1, <1>2, ReceiverRemoved DEF InFlightOK
<1>4. QED
  BY <1>1, <1>3, InFlightStep

LEMMA ServeInv ==
    ASSUME IInv, NEW n \in Nodes, NEW k \in DOMAIN receivers[n], Serve(n, k)
    PROVE  IInv'
<1> DEFINE r == receivers[n][k]
           v == Served(r.src, r.id)
<1>1. /\ clock' = clock /\ disk' = disk /\ local' = local /\ events' = events
      /\ file' = file /\ f_files' = f_files
      /\ f_modified_files' = f_modified_files /\ channel' = channel
      /\ receivers' = [receivers EXCEPT ![n][k].version = v]
  BY DEF Serve, daemon
<1>2. /\ receivers \in [Nodes -> Seq(Receiver)] /\ clock \in Nat
      /\ channel \in [Nodes -> [Nodes -> Seq(Message)]]
      /\ \A m \in Nodes : \A j \in DOMAIN receivers[m] :
             receivers[m][j].version <= clock
  BY ReceiversOK DEF IInv, TypeOK
<1>3. r \in Receiver /\ r.src \in Nodes /\ r.id \in Ids
  <2>1. r \in Receiver
    BY <1>2
  <2>2. QED
    BY <2>1 DEF Receiver
<1>4. v \in Nat /\ v <= clock
  <2>1. CASE r.id \in f_files[r.src]
    <3>1. file[r.src][r.id].name \in Files
      BY <1>3, <2>1 DEF IInv, TypeOK, Referenced
    <3>2. disk[r.src][file[r.src][r.id].name] \in Nat
            /\ disk[r.src][file[r.src][r.id].name] <= clock
      <4>1. /\ disk \in [Nodes -> [Files -> Nat]]
            /\ \A m \in Nodes, g \in Files : disk[m][g] <= clock
        BY DEF IInv, TypeOK, TimesOK
      <4>2. QED
        BY <1>3, <3>1, <4>1
    <3>3. QED
      BY <2>1, <3>2 DEF Served
  <2>2. CASE r.id \notin f_files[r.src]
    <3>1. v = 0 /\ clock \in Nat
      BY <1>2, <2>2 DEF Served, Absent
    <3>2. QED
      BY ONLY <3>1
  <2>3. QED
    BY <2>1, <2>2
<1> HIDE DEF v
<1>5. [r EXCEPT !.version = v] \in Receiver
  BY <1>3, <1>4 DEF Receiver
<1>6. [receivers[n] EXCEPT ![k] = [r EXCEPT !.version = v]] \in Seq(Receiver)
  BY <1>2, <1>5
<1>7. receivers' = [receivers EXCEPT ![n] =
                       [receivers[n] EXCEPT ![k] = [r EXCEPT !.version = v]]]
  BY <1>1, <1>2
<1>8. receivers' \in [Nodes -> Seq(Receiver)]
  BY <1>2, <1>6, <1>7
<1>9. ASSUME NEW m \in Nodes, NEW j \in DOMAIN receivers'[m]
      PROVE  receivers'[m][j].version <= clock
  <2>1. CASE m = n /\ j = k
    <3>1. receivers'[m][j] = [r EXCEPT !.version = v]
      BY <1>2, <1>7, <2>1
    <3>2. QED
      BY <1>3, <1>4, <3>1 DEF Receiver
  <2>2. CASE ~ (m = n /\ j = k)
    <3>1. j \in DOMAIN receivers[m] /\ receivers'[m][j] = receivers[m][j]
      BY <1>2, <1>7, <2>2
    <3>2. QED
      BY <1>2, <3>1
  <2>3. QED
    BY <2>1, <2>2
<1>10. InFlightOK
  BY <1>1, <1>2, <1>8, <1>9 DEF InFlightOK
<1>11. QED
  BY <1>1, <1>10, InFlightStep

LEMMA LoseMessageInv ==
    ASSUME IInv, NEW n \in Nodes, NEW s \in Nodes, LoseMessage(n, s)
    PROVE  IInv'
<1>1. /\ clock' = clock /\ disk' = disk /\ local' = local /\ events' = events
      /\ file' = file /\ f_files' = f_files
      /\ f_modified_files' = f_modified_files /\ receivers' = receivers
      /\ channel' = [channel EXCEPT ![s][n] = Tail(@)]
      /\ channel[s][n] # << >>
  BY DEF LoseMessage, daemon
<1>2. InFlightOK
  BY <1>1, HeadMessage, ReceiversOK DEF InFlightOK
<1>3. QED
  BY <1>1, <1>2, InFlightStep
\* What a handler of a message or of a transfer does, as far as the invariant
\* is concerned: it changes the entry of f, and perhaps f itself, and queues
\* an event of kind k or none.
Handled(n, f, k) ==
    /\ DaemonTypeOK' /\ OneEntryPerName' /\ KnownIsShared'
    /\ \A m \in Nodes, j \in Ids : file'[m][j].stat <= clock'
    /\ InFlightOK
    /\ OnlyFile(n, f) /\ disk'[n][f] <= clock
    /\ Notify(n, f, k) \/ events' = events
    /\ \A m \in Nodes, g \in Files :
           (m # n \/ g # f) /\ Known(m, g) => Known(m, g)'
    /\ Watched(n) /\ disk'[n][f] # Absent =>
           \/ NoticedIn(events'[n], f)
           \/ Known(n, f)' /\ ~ DeletedIn(events'[n], f)

LEMMA HandledStep ==
    ASSUME IInv, NEW n \in Nodes, NEW f \in Files,
           NEW k \in {"modified", "updated", "deleted"}, Handled(n, f, k)
    PROVE  IInv'
<1> USE DEF Handled
<1>1. TypeOK /\ clock \in Nat /\ clock' = clock
  BY DEF IInv, TypeOK, InFlightOK
<1>2. TypeOK'
  <2>1. events' \in [Nodes -> Seq(Event)]
    BY <1>1, NotifyType
  <2>2. QED
    BY <1>1, <2>1 DEF TypeOK, DaemonTypeOK, InFlightOK, OnlyFile
<1>3. TimesOK'
  <2>1. ASSUME NEW m \in Nodes, NEW g \in Files
        PROVE  disk'[m][g] <= clock
    <3>1. disk[m][g] <= clock
      BY DEF IInv, TimesOK
    <3>2. QED
      BY <3>1 DEF OnlyFile
  <2>2. QED
    BY <1>1, <2>1 DEF TimesOK, InFlightOK
<1>4. KnownOrNoticed'
  <2>1. ASSUME NEW m \in Nodes, NEW g \in Files, Watched(m),
               disk'[m][g] # Absent
        PROVE  \/ NoticedIn(events'[m], g)
               \/ Known(m, g)' /\ ~ DeletedIn(events'[m], g)
    <3>1. CASE m = n /\ g = f
      BY <2>1, <3>1
    <3>2. CASE m # n \/ g # f
      <4>1. disk'[m][g] = disk[m][g]
        BY <3>2 DEF OnlyFile
      <4>2. \/ NoticedIn(events[m], g)
            \/ Known(m, g) /\ ~ DeletedIn(events[m], g)
        BY <4>1, <2>1 DEF IInv, KnownOrNoticed
      <4>3. Known(m, g) => Known(m, g)'
        BY <3>2
      <4>4. CASE m = n
        BY <4>2, <4>3, <4>4, <3>2, OtherFile
      <4>5. CASE m # n
        <5>1. events'[m] = events[m]
          BY <1>1, <4>5 DEF Notify, TypeOK
        <5>2. QED
          BY <4>2, <4>3, <5>1
      <4>6. QED
        BY <4>4, <4>5
    <3>3. QED
      BY <3>1, <3>2
  <2>2. QED
    BY <2>1 DEF KnownOrNoticed, Watched
<1>5. QED
  BY <1>2, <1>3, <1>4 DEF IInv

\* receive_file() records no version: it only makes sure there is an entry.
LEMMA ReceiveFileInv ==
    ASSUME IInv, NEW n \in Nodes, NEW s \in Nodes, NEW m \in Message,
           m.cmd = "changed", ReceiveFile(n, s, m), clock' = clock,
           channel' \in [Nodes -> [Nodes -> Seq(Message)]]
    PROVE  IInv'
<1>1. m.name \in Files /\ m.id \in Ids
  BY DEF Message
<1>2. disk' = disk /\ local' = local /\ events' = events
  BY DEF ReceiveFile
<1>3. /\ receivers' \in [Nodes -> Seq(Receiver)]
      /\ \A d \in Nodes : \A j \in DOMAIN receivers'[d] :
             receivers'[d][j].version <= clock
  <2>1. CASE receivers' = receivers
    BY <2>1, ReceiversOK
  <2>2. CASE Connect(n, s, m)
    <3> DEFINE c == [name |-> m.name, src |-> s, id |-> m.id,
                     version |-> Absent]
               q == Append(receivers[n], c)
    <3>1. /\ receivers \in [Nodes -> Seq(Receiver)] /\ clock \in Nat
          /\ \A d \in Nodes : \A j \in DOMAIN receivers[d] :
                 receivers[d][j].version <= clock
      BY ReceiversOK
    <3>2. c \in Receiver /\ c.version <= clock
      BY <1>1, <3>1 DEF Receiver, Absent
    <3>3. receivers' = [receivers EXCEPT ![n] = q]
      BY <2>2, <3>1 DEF Connect
    <3> HIDE DEF c
    <3>4. q \in Seq(Receiver)
      BY <3>1, <3>2
    <3>5. \A j \in DOMAIN q : q[j].version <= clock
      <4>1. \A j \in DOMAIN q : (j \in DOMAIN receivers[n]
                                   /\ q[j] = receivers[n][j]) \/ q[j] = c
        BY <3>1, <3>2
      <4>2. QED
        BY <3>1, <3>2, <4>1
    <3> HIDE DEF q
    <3>6. QED
      BY <3>1, <3>3, <3>4, <3>5
  <2>3. QED
    BY <2>1, <2>2 DEF ReceiveFile
<1>4. InFlightOK
  BY <1>3 DEF InFlightOK
<1>5. CASE UNCHANGED daemon
  BY <1>2, <1>4, <1>5, InFlightStep DEF daemon
<1>6. CASE \E i \in GetFile(n, m.name) :
               Store(n, f_files[n] \cup {i}, f_modified_files[n],
                     [file[n] EXCEPT ![i] = Entry(n, m.name, i)])
  <2>1. PICK f \in Files : f = m.name
    BY <1>1
  <2>2. PICK i \in GetFile(n, f) :
            Store(n, f_files[n] \cup {i}, f_modified_files[n],
                  [file[n] EXCEPT ![i] = Entry(n, f, i)])
    BY <1>6, <2>1
  <2>3. PICK o : o = Entry(n, f, i)
    OBVIOUS
  <2>4. o \in SharedFile /\ o.name = f /\ o.stat <= clock
    <3>1. i \in Ids /\ o \in SharedFile /\ o.name = f
      BY <2>3, EntryType DEF IInv
    <3>2. file[n][i].stat <= clock /\ clock \in Nat
      BY <3>1 DEF IInv, TimesOK, TypeOK
    <3>3. QED
      BY <2>3, <3>1, <3>2 DEF Entry, NewFile, NoFile, Absent
  <2>5. StoreEntry(n, f, i, f_modified_files[n], o)
    BY <2>2, <2>3, <2>4 DEF StoreEntry
  <2>6. OnlyFile(n, f)
    BY <1>2, NobodyWrites
  <2>7. local'[n][f] /\ disk'[n][f] # Absent /\ o.stat = disk'[n][f]
            => (i \in f_modified_files[n] /\ o.updated) \/ o.shared = disk'[n][f]
    BY <1>2, <2>2, <2>3, EntryIsShared
  <2>8. /\ KnownIsShared'
        /\ \A d \in Nodes, g \in Files :
               (d # n \/ g # f) /\ Known(d, g) => Known(d, g)'
        /\ o.stat = disk'[n][f] => Known(n, f)'
    BY <2>5, <2>6, <2>7, StoreStep
  <2>9. /\ DaemonTypeOK' /\ OneEntryPerName'
        /\ \A d \in Nodes, j \in Ids : file'[d][j].stat <= clock'
    BY <2>5, EntryStored
  <2>10. disk'[n][f] <= clock
    BY <1>2 DEF IInv, TimesOK
  <2>11. Known(n, f) => Known(n, f)'
    <3>1. ASSUME Known(n, f)
          PROVE  o.stat = disk[n][f]
      <4>1. PICK j \in f_files[n] :
                file[n][j].name = f /\ file[n][j].stat = disk[n][f]
        BY <3>1 DEF Known, Named
      <4>2. i \in f_files[n] /\ file[n][i].name = f
        BY <4>1, <2>2 DEF GetFile, Named
      <4>3. i = j
        BY <4>1, <4>2 DEF IInv, OneEntryPerName
      <4>4. QED
        BY <2>3, <4>1, <4>2, <4>3 DEF Entry
    <3>2. QED
      BY <1>2, <2>8, <3>1
  <2>12. Watched(n) /\ disk'[n][f] # Absent =>
             \/ NoticedIn(events'[n], f)
             \/ Known(n, f)' /\ ~ DeletedIn(events'[n], f)
    BY <1>2, <2>11 DEF IInv, KnownOrNoticed
  <2>13. Handled(n, f, "modified")
    BY <1>2, <1>4, <2>6, <2>8, <2>9, <2>10, <2>12 DEF Handled
  <2>14. QED
    BY <2>13, HandledStep
<1>7. QED
  BY <1>5, <1>6 DEF ReceiveFile

LEMMA DeleteLocalFileInv ==
    ASSUME IInv, NEW n \in Nodes, NEW f \in Files, DeleteLocalFile(n, f),
           clock' = clock, channel' \in [Nodes -> [Nodes -> Seq(Message)]]
    PROVE  IInv'
<1>1. receivers' = receivers
  BY DEF DeleteLocalFile
<1>2. InFlightOK
  BY <1>1, ReceiversOK DEF InFlightOK
<1>3. CASE UNCHANGED << disk, local, events, daemon >>
  BY <1>2, <1>3, InFlightStep DEF daemon
<1>4. CASE Unlink(n, f)
  <2>1. /\ disk' = [disk EXCEPT ![n][f] = 0]
        /\ local' = [local EXCEPT ![n][f] = FALSE]
    BY <1>4 DEF Unlink, Absent
  <2>2. Notify(n, f, "deleted") \/ events' = events
    BY <1>4 DEF Unlink, NotifyWhen
  <2>3. PICK table \in EraseFile(n, f) :
            Store(n, table, f_modified_files[n], file[n])
    BY <1>4 DEF Unlink
  <2>4. RemoveEntry(n, f, table)
    BY <2>3 DEF RemoveEntry
  <2>5. /\ disk \in [Nodes -> [Files -> Nat]] /\ clock \in Nat
        /\ local \in [Nodes -> [Files -> BOOLEAN]]
    BY DEF IInv, TypeOK
  <2>6. disk' \in [Nodes -> [Files -> Nat]] /\ disk'[n][f] = 0
    BY <2>1, <2>5
  <2>7. local' \in [Nodes -> [Files -> BOOLEAN]]
    BY <2>1, <2>5
  <2>8. \A m \in Nodes, g \in Files : m # n \/ g # f =>
            disk'[m][g] = disk[m][g] /\ local'[m][g] = local[m][g]
    BY <2>1, <2>5
  <2>9. OnlyFile(n, f) /\ disk'[n][f] = Absent /\ disk'[n][f] <= clock
    BY <2>5, <2>6, <2>7, <2>8 DEF OnlyFile, Absent
  <2>10. /\ KnownIsShared'
         /\ \A m \in Nodes, g \in Files :
                (m # n \/ g # f) /\ Known(m, g) => Known(m, g)'
    BY <2>4, <2>9, RemoveStep
  <2>11. /\ DaemonTypeOK' /\ OneEntryPerName'
         /\ \A m \in Nodes, j \in Ids : file'[m][j].stat <= clock'
    BY <2>4, EntryErased
  <2>12. Handled(n, f, "deleted")
    BY <1>2, <2>2, <2>9, <2>10, <2>11 DEF Handled
  <2>13. QED
    BY <2>12, HandledStep
<1>5. QED
  BY <1>3, <1>4 DEF DeleteLocalFile

LEMMA ReceiveMessageInv ==
    ASSUME IInv, NEW n \in Nodes, NEW s \in Nodes, ReceiveMessage(n, s)
    PROVE  IInv'
<1>1. /\ channel[s][n] # << >> /\ clock' = clock
      /\ channel' = [channel EXCEPT ![s][n] = Tail(@)]
  BY DEF ReceiveMessage
<1>2. PICK m \in Message : m = Head(channel[s][n])
  BY <1>1, HeadMessage
<1>3. channel' \in [Nodes -> [Nodes -> Seq(Message)]]
  BY <1>1, HeadMessage
<1>4. CASE m.cmd = "changed" /\ ReceiveFile(n, s, m)
  BY <1>1, <1>3, <1>4, ReceiveFileInv
<1>5. CASE m.cmd = "deleted" /\ DeleteLocalFile(n, m.name)
  <2>1. m.name \in Files
    BY DEF Message
  <2>2. QED
    BY <1>1, <1>3, <1>5, <2>1, DeleteLocalFileInv
<1>6. QED
  BY <1>2, <1>4, <1>5 DEF ReceiveMessage
LEMMA InstallInv ==
    ASSUME IInv, NEW n \in Nodes, NEW k \in DOMAIN receivers[n], Install(n, k)
    PROVE  IInv'
<1>1. /\ receivers[n][k] \in Receiver
      /\ clock \in Nat
      /\ receivers[n][k].version <= clock
      /\ channel \in [Nodes -> [Nodes -> Seq(Message)]]
      /\ disk \in [Nodes -> [Files -> Nat]]
      /\ local \in [Nodes -> [Files -> BOOLEAN]]
  BY DEF IInv, TypeOK, TimesOK
<1>2. PICK f \in Files : f = receivers[n][k].name
  BY <1>1 DEF Receiver
<1>3. PICK v \in Nat : v = receivers[n][k].version
  BY <1>1 DEF Receiver
<1>4. /\ disk' = [disk EXCEPT ![n][f] = v]
      /\ local' = [local EXCEPT ![n][f] = FALSE]
      /\ Notify(n, f, "modified") \/ events' = events
      /\ Watched(n) => Notify(n, f, "modified")
      /\ receivers' = [receivers EXCEPT ![n] = RemoveAt(@, k)]
      /\ clock' = clock /\ channel' = channel
  BY <1>2, <1>3 DEF Install, NotifyWhen
<1>5. PICK i \in GetFile(n, f) :
          Store(n, f_files[n] \cup {i}, f_modified_files[n],
                [file[n] EXCEPT ![i] = [Entry(n, f, i) EXCEPT !.stat = v]])
  BY <1>2, <1>3 DEF Install
<1>6. PICK x : x = [Entry(n, f, i) EXCEPT !.stat = v]
  OBVIOUS
<1>7. x \in SharedFile /\ x.name = f /\ x.stat = v /\ v <= clock
  <2>1. Entry(n, f, i) \in SharedFile /\ Entry(n, f, i).name = f
    BY EntryType DEF IInv
  <2>2. QED
    BY <1>1, <1>3, <1>6, <2>1 DEF SharedFile
<1>8. StoreEntry(n, f, i, f_modified_files[n], x)
  BY <1>4, <1>5, <1>6, <1>7 DEF StoreEntry
<1>9. disk' \in [Nodes -> [Files -> Nat]] /\ disk'[n][f] = v
  BY <1>1, <1>4
<1>10. local' \in [Nodes -> [Files -> BOOLEAN]] /\ ~ local'[n][f]
  BY <1>1, <1>4
<1>11. \A m \in Nodes, g \in Files : m # n \/ g # f =>
           disk'[m][g] = disk[m][g] /\ local'[m][g] = local[m][g]
  BY <1>1, <1>4
<1>12. OnlyFile(n, f)
  BY <1>9, <1>10, <1>11 DEF OnlyFile
<1>13. /\ KnownIsShared'
       /\ \A m \in Nodes, g \in Files :
              (m # n \/ g # f) /\ Known(m, g) => Known(m, g)'
  BY <1>8, <1>10, <1>12, StoreStep
<1>14. /\ DaemonTypeOK' /\ OneEntryPerName'
       /\ \A m \in Nodes, j \in Ids : file'[m][j].stat <= clock'
  BY <1>8, EntryStored
<1>15. InFlightOK
  BY <1>1, <1>4, ReceiverRemoved DEF InFlightOK
<1>16. Watched(n) => NoticedIn(events'[n], f)
  BY <1>4, NotifiedFile
<1>17. Handled(n, f, "modified")
  BY <1>4, <1>7, <1>9, <1>12, <1>13, <1>14, <1>15, <1>16 DEF Handled
<1>18. QED
  BY <1>17, HandledStep

\* After a restart nothing is known, and everything is about to be noticed.
LEMMA RestartInv ==
    ASSUME IInv, NEW n \in Nodes, Restart(n)
    PROVE  IInv'
<1> DEFINE present == {f \in Files : Watched(n) /\ disk[n][f] # Absent}
<1>1. /\ Store(n, {}, {}, file[n])
      /\ receivers' = [receivers EXCEPT ![n] = << >>]
      /\ channel' = [s \in Nodes |-> [channel[s] EXCEPT ![n] = << >>]]
      /\ clock' = clock /\ disk' = disk /\ local' = local
  BY DEF Restart
<1>2. PICK order \in SetToSeqs(present) :
          events' = [events EXCEPT ![n] =
              [k \in DOMAIN order |-> [name |-> order[k],
                                       kind |-> "modified"]]]
  BY DEF Restart
<1>3. /\ TypeOK /\ clock \in Nat
      /\ events \in [Nodes -> Seq(Event)]
      /\ channel \in [Nodes -> [Nodes -> Seq(Message)]]
      /\ receivers \in [Nodes -> Seq(Receiver)]
  BY DEF IInv, TypeOK
<1>4. IsFiniteSet(present)
  BY FiniteAssumption, FS_Subset
<1>5. order \in Seq(present)
  BY <1>4, SetToSeqsType
<1> DEFINE q == [k \in DOMAIN order |-> [name |-> order[k],
                                         kind |-> "modified"]]
<1>6. /\ q \in Seq(Event) /\ DOMAIN q = DOMAIN order
      /\ \A k \in DOMAIN q : q[k].name = order[k] /\ q[k].kind = "modified"
  <2>1. /\ Len(order) \in Nat /\ DOMAIN order = 1..Len(order)
        /\ \A k \in 1..Len(order) : order[k] \in Files
    BY <1>5
  <2>2. \A k \in 1..Len(order) :
            [name |-> order[k], kind |-> "modified"] \in Event
    BY <2>1 DEF Event
  <2>3. q \in [1..Len(order) -> Event]
    BY <2>1, <2>2
  <2>4. QED
    BY <2>1, <2>3
<1> HIDE DEF q
<1>7. events' \in [Nodes -> Seq(Event)] /\ events'[n] = q
          /\ \A m \in Nodes \ {n} : events'[m] = events[m]
  BY <1>2, <1>3, <1>6 DEF q
<1>8. PICK none \in SUBSET Ids : none = {}
  OBVIOUS
<1>9. /\ Store(n, none, none, file[n])
      /\ \A i \in none \cup none :
             file[n][i] \in SharedFile /\ file[n][i].name \in Files
  BY <1>1, <1>8
<1>10. /\ f_files'[n] = {} /\ f_modified_files'[n] = {}
       /\ \A i \in Ids : file'[n][i] = NoFile
       /\ \A m \in Nodes \ {n} :
              /\ f_files'[m] = f_files[m]
              /\ f_modified_files'[m] = f_modified_files[m]
              /\ file'[m] = file[m]
  <2>1. /\ f_files'[n] = none /\ f_modified_files'[n] = none
        /\ \A i \in Ids \ (none \cup none) : file'[n][i] = NoFile
        /\ \A m \in Nodes \ {n} :
               /\ f_files'[m] = f_files[m]
               /\ f_modified_files'[m] = f_modified_files[m]
               /\ file'[m] = file[m]
    BY <1>3, <1>9 DEF Store, TypeOK
  <2>2. QED
    BY <1>8, <2>1
<1>11. DaemonTypeOK'
  BY <1>3, <1>9, StoreType
<1>12. InFlightOK
  <2>1. channel' \in [Nodes -> [Nodes -> Seq(Message)]]
    BY <1>1, <1>3
  <2>2. receivers' \in [Nodes -> Seq(Receiver)]
    BY <1>1, <1>3
  <2>3. \A m \in Nodes : \A k \in DOMAIN receivers'[m] :
            receivers'[m][k].version <= clock
    BY <1>1, <1>3, ReceiversOK
  <2>4. QED
    BY <1>1, <2>1, <2>2, <2>3 DEF InFlightOK
<1>13. TypeOK'
  BY <1>1, <1>3, <1>7, <1>11, <1>12 DEF TypeOK, DaemonTypeOK, InFlightOK
<1>14. OneEntryPerName'
  <2>1. \A m \in Nodes : \A i \in f_files'[m] :
            m # n /\ f_files'[m] = f_files[m] /\ file'[m] = file[m]
    BY <1>10
  <2>2. QED
    BY <2>1 DEF IInv, OneEntryPerName
<1>15. TimesOK'
  <2>1. ASSUME NEW m \in Nodes, NEW i \in Ids
        PROVE  file'[m][i].stat <= clock
    <3>1. CASE m = n
      BY <1>3, <1>10, <3>1 DEF NoFile, Absent
    <3>2. CASE m # n
      BY <1>10, <3>2 DEF IInv, TimesOK
    <3>3. QED
      BY <3>1, <3>2
  <2>2. QED
    BY <1>1, <1>12, <2>1 DEF IInv, TimesOK, InFlightOK
<1>16. KnownIsShared'
  <2>1. \A m \in Nodes : \A i \in f_files'[m] :
            /\ f_files'[m] = f_files[m] /\ file'[m] = file[m]
            /\ f_modified_files'[m] = f_modified_files[m]
    BY <1>10
  <2>2. QED
    BY <1>1, <2>1 DEF IInv, KnownIsShared, Pending
<1>17. KnownOrNoticed'
  <2>1. ASSUME NEW m \in Nodes, NEW g \in Files, Watched(m), disk[m][g] # Absent
        PROVE  \/ NoticedIn(events'[m], g)
               \/ Known(m, g)' /\ ~ DeletedIn(events'[m], g)
    <3>1. CASE m = n
      <4>1. PICK k \in DOMAIN order : order[k] = g
        BY <1>4, <2>1, <3>1, SetToSeqsOnto
      <4>2. NoticedIn(q, g)
        BY <1>6, <4>1 DEF NoticedIn
      <4>3. QED
        BY <1>7, <3>1, <4>2
    <3>2. CASE m # n
      <4>1. /\ f_files'[m] = f_files[m] /\ file'[m] = file[m]
            /\ disk'[m] = disk[m]
        BY <1>1, <1>10, <3>2
      <4>2. Known(m, g) => Known(m, g)'
        BY <4>1 DEF Known, Named
      <4>3. QED
        BY <1>7, <2>1, <3>2, <4>2 DEF IInv, KnownOrNoticed
    <3>3. QED
      BY <3>1, <3>2
  <2>2. QED
    BY <1>1, <2>1 DEF KnownOrNoticed, Watched
<1>18. QED
  BY <1>13, <1>14, <1>15, <1>16, <1>17 DEF IInv

LEMMA InitInv ==
    ASSUME Init
    PROVE  IInv
<1>1. NoFile \in SharedFile
  BY DEF NoFile, SharedFile, Absent
<1>2. TypeOK
  <2>1. /\ clock \in Nat /\ disk \in [Nodes -> [Files -> Nat]]
        /\ local \in [Nodes -> [Files -> BOOLEAN]]
    BY DEF Init, Absent
  <2>2. /\ events \in [Nodes -> Seq(Event)]
        /\ channel \in [Nodes -> [Nodes -> Seq(Message)]]
        /\ receivers \in [Nodes -> Seq(Receiver)]
    BY DEF Init
  <2>3. /\ file \in [Nodes -> [Ids -> SharedFile]]
        /\ f_files \in [Nodes -> SUBSET Ids]
        /\ f_modified_files \in [Nodes -> SUBSET Ids]
    BY <1>1 DEF Init
  <2>4. \A n \in Nodes : Referenced(n) = {}
    BY DEF Init, Referenced
  <2>5. QED
    BY <2>1, <2>2, <2>3, <2>4 DEF TypeOK
<1>3. OneEntryPerName
  BY DEF Init, OneEntryPerName
<1>4. TimesOK
  BY DEF Init, TimesOK, NoFile, Absent
<1>5. KnownIsShared
  BY DEF Init, KnownIsShared
<1>6. KnownOrNoticed
  BY DEF Init, KnownOrNoticed
<1>7. QED
  BY <1>2, <1>3, <1>4, <1>5, <1>6 DEF IInv

LEMMA StutterInv ==
    ASSUME IInv, UNCHANGED vars
    PROVE  IInv'
<1>1. InFlightOK
  BY ReceiversOK DEF vars, InFlightOK, IInv, TypeOK
<1>2. QED
  BY <1>1, InFlightStep DEF vars

LEMMA NextInv ==
    ASSUME IInv, [Next]_vars
    PROVE  IInv'
<1>1. CASE UNCHANGED vars
  BY <1>1, StutterInv
<1>2. ASSUME NEW n \in Nodes, Local(n)
      PROVE  IInv'
  BY <1>2, LocalWriteInv, LocalCloseInv, LocalDeleteInv DEF Local
<1>3. ASSUME NEW n \in Nodes, ProcessEvent(n)
      PROVE  IInv'
  BY <1>3, ProcessEventInv
<1>4. ASSUME NEW n \in Nodes, Timeout(n)
      PROVE  IInv'
  BY <1>4, ProcessTimeoutInv DEF Timeout
<1>5. ASSUME NEW n \in Nodes, Receive(n)
      PROVE  IInv'
  BY <1>5, ReceiveMessageInv DEF Receive
<1>6. ASSUME NEW n \in Nodes, Transfer(n)
      PROVE  IInv'
  BY <1>6, ServeInv, RefuseInv, InstallInv DEF Transfer
<1>7. ASSUME NEW n \in Nodes, Failure(n)
      PROVE  IInv'
  BY <1>7, RefuseInv, LoseMessageInv, RestartInv DEF Failure
<1>8. QED
  BY <1>1, <1>2, <1>3, <1>4, <1>5, <1>6, <1>7 DEF Next

-----------------------------------------------------------------------------
(* The theorems. *)

\* In every reachable state of a cluster of any size, with any number of files
\* and whatever fails, the tables, queues and messages have the shape the code
\* gives them, no name is in a table twice, no daemon knows a version nobody
\* wrote, and every file of a watched path is known or about to be noticed.
THEOREM Invariance == Spec => []IInv
<1>1. Init => IInv
  BY InitInv
<1>2. IInv /\ [Next]_vars => IInv'
  BY NextInv
<1>3. QED
  BY <1>1, <1>2, PTL DEF Spec

\* The shapes: no pointer of the table or the timer's set dangles, and no
\* RFS_FILE_CHANGED with a time of zero is sent.
THEOREM TypeCorrect == Spec => []TypeOK
<1>1. IInv => TypeOK
  BY DEF IInv
<1>2. QED
  BY <1>1, Invariance, PTL

\* get_file() never makes a second entry for a name, so that the loops of
\* deleted_file() and delete_local_file(), which stop at the first one, miss
\* nothing.
THEOREM TableIndexedByName == Spec => []OneEntryPerName
<1>1. IInv => OneEntryPerName
  BY DEF IInv
<1>2. QED
  BY <1>1, Invariance, PTL

\* Every file of a watched path is in the table with the version on disk or
\* has an event that will put it there, through restarts and transfers.
THEOREM WatchedFilesKnown == Spec => []KnownOrNoticed
<1>1. IInv => KnownOrNoticed
  BY DEF IInv
<1>2. QED
  BY <1>1, Invariance, PTL

\* updated_file(), deleted_file(), the timer and the messages never lose a
\* change of a local service: what it left on disk is about to be noticed, is
\* waiting for the timer, or was announced.
THEOREM NoLocalChangeLost == Spec => []LocalChangeNotLost
<1>1. ASSUME IInv, NEW n \in Nodes, NEW f \in Files,
             Watched(n), disk[n][f] # Absent, local[n][f], Known(n, f)
      PROVE  Tracked(n, f)
  <2>1. PICK i \in f_files[n] :
            file[n][i].name = f /\ file[n][i].stat = disk[n][f]
    BY <1>1 DEF Known, Named
  <2>2. i \in Pending(n) \/ file[n][i].shared = disk[n][f]
    BY <1>1, <2>1 DEF IInv, KnownIsShared
  <2>3. QED
    BY <2>1, <2>2 DEF Tracked
<1>2. IInv => LocalChangeNotLost
  BY <1>1 DEF IInv, KnownOrNoticed, LocalChangeNotLost
<1>3. QED
  BY <1>2, Invariance, PTL
=============================================================================
