-------------------------- MODULE ConvergeProofs --------------------------
(***************************************************************************)
(* Proofs about the receive-only computers of a cluster with one source,   *)
(* for any number of computers, files and messages: once the daemons have  *)
(* nothing left to do they have the versions of the source, and they never *)
(* get an older version in the place of a newer one.                       *)
(***************************************************************************)
EXTENDS ReplicaProofs

\* One computer sends, the services of the receive-only ones leave the files
\* alone, nothing fails, and the transfers of one file finish in the order in
\* which they were requested.
Converging ==
    /\ \A p, q \in SendOnly : p = q
    /\ Latest = {} /\ Users \cap ReceiveOnly = {}
    /\ ~ Faults /\ ~ Overtaking

-----------------------------------------------------------------------------
(* The inductive invariant. *)

\* Only the source has events, objects in the timer's set, and messages sent.
Unwatched ==
    \A n \in Nodes : n \notin SendOnly =>
        /\ events[n] = << >> /\ f_modified_files[n] = {}
        /\ \A d \in Nodes : channel[n][d] = << >>

FromPrimary ==
    \A n \in Nodes : \A k \in DOMAIN receivers[n] :
        receivers[n][k].src \in SendOnly

\* What the source has, its own services wrote.
PrimaryLocal ==
    \A p \in SendOnly, f \in Files : disk[p][f] # Absent => local[p][f]

\* No version was announced before a service wrote it.
SharedTimes ==
    \A p \in SendOnly, i \in Ids : file[p][i].shared <= clock

\* The table of a receive-only computer tells what is on its disk.
SecondaryKnows ==
    \A s \in ReceiveOnly, f \in Files :
        /\ \A i \in Named(s, f) : file[s][i].stat = disk[s][f]
        /\ Named(s, f) = {} => disk[s][f] = Absent

\* Of the receivers of one file only the first was served.
FirstServed(q) ==
    \A j, k \in DOMAIN q :
        j < k /\ q[j].name = q[k].name => q[k].version = Absent
OneServed == \A n \in Nodes : FirstServed(receivers[n])

\* A receive-only computer with version w of f on its disk and receivers q has
\* no older version on its way, and if the source has version v, none beyond v.
NotBeyond(v, w, q, f) ==
    /\ v # Absent => w <= v
    /\ \A k \in DOMAIN q : q[k].name = f /\ q[k].version # Absent =>
           w <= q[k].version /\ (v # Absent => q[k].version <= v)
VersionsOK ==
    \A p \in SendOnly, s \in ReceiveOnly, f \in Files :
        NotBeyond(disk[p][f], disk[s][f], receivers[s], f)

\* No message of c after the k-th tells that f was deleted.
Undeleted(c, f, k) ==
    \A j \in DOMAIN c : j > k /\ c[j].name = f => c[j].cmd # "deleted"
Says(m, f, i, v) ==
    m.cmd = "changed" /\ m.name = f /\ m.id = i /\ m.mtime = v

\* Version v of f, which the source announced as object i, is in a message, is
\* requested, or is on the disk as version w; and no deletion follows it.
Announced(c, f, i, v) ==
    \E k \in DOMAIN c : Says(c[k], f, i, v) /\ Undeleted(c, f, k)
Requested(q, f, i, v) ==
    \E k \in DOMAIN q : /\ q[k].name = f /\ q[k].id = i
                        /\ q[k].version \in {Absent, v}
OnItsWay(c, q, w, f, i, v) ==
    \/ Announced(c, f, i, v)
    \/ Undeleted(c, f, 0) /\ (Requested(q, f, i, v) \/ w = v)

\* The object i of the source was announced with the version on its disk.
Shared(p, f, i) ==
    /\ i \in f_files[p] /\ file[p][i].name = f
    /\ disk[p][f] # Absent /\ file[p][i].shared = disk[p][f]

SharedArrives ==
    \A p \in SendOnly, s \in ReceiveOnly, f \in Files, i \in Ids :
        Shared(p, f, i) => OnItsWay(channel[p][s], receivers[s], disk[s][f],
                                    f, i, disk[p][f])

CInv == /\ Unwatched /\ FromPrimary /\ PrimaryLocal /\ SharedTimes
        /\ SecondaryKnows /\ OneServed /\ VersionsOK /\ SharedArrives

-----------------------------------------------------------------------------
(* Who acts, and what that leaves alone. *)

\* Node n acts on nothing of the others but their messages.
Only(n) ==
    \A m \in Nodes \ {n} :
        /\ disk'[m] = disk[m] /\ local'[m] = local[m]
        /\ file'[m] = file[m] /\ f_files'[m] = f_files[m]
        /\ f_modified_files'[m] = f_modified_files[m]
        /\ events'[m] = events[m] /\ receivers'[m] = receivers[m]

LEMMA NotifyOnly ==
    ASSUME IInv, NEW n \in Nodes, NEW f, NEW k,
           Notify(n, f, k) \/ events' = events
    PROVE  \A m \in Nodes \ {n} : events'[m] = events[m]
  BY DEF IInv, TypeOK, Notify

LEMMA StoreOnly ==
    ASSUME IInv, NEW n \in Nodes, NEW table, NEW timer, NEW objects,
           Store(n, table, timer, objects)
    PROVE  /\ f_files'[n] = table /\ f_modified_files'[n] = timer
           /\ \A m \in Nodes \ {n} :
                  /\ f_files'[m] = f_files[m]
                  /\ f_modified_files'[m] = f_modified_files[m]
                  /\ file'[m] = file[m]
  BY DEF IInv, TypeOK, Store

LEMMA LocalOnly ==
    ASSUME IInv, NEW n \in Nodes, Local(n)
    PROVE  /\ Only(n) /\ channel' = channel /\ receivers' = receivers
           /\ file' = file /\ f_files' = f_files
           /\ f_modified_files' = f_modified_files
           /\ ~ Watched(n) => events' = events
<1>1. PICK f \in Files : LocalWrite(n, f) \/ LocalClose(n, f)
                         \/ LocalDelete(n, f)
  BY DEF Local
<1>2. /\ channel' = channel /\ receivers' = receivers
      /\ file' = file /\ f_files' = f_files
      /\ f_modified_files' = f_modified_files
  BY <1>1 DEF LocalWrite, LocalClose, LocalDelete, daemon
<1>3. \A m \in Nodes \ {n} : disk'[m] = disk[m] /\ local'[m] = local[m]
  BY <1>1 DEF LocalWrite, LocalClose, LocalDelete, IInv, TypeOK
<1>4. PICK k : Notify(n, f, k) \/ events' = events
  BY <1>1 DEF LocalWrite, LocalClose, LocalDelete, NotifyWhen
<1>5. ~ Watched(n) => events' = events
  BY <1>1 DEF LocalWrite, LocalClose, LocalDelete, NotifyWhen, WatchesDeletion
<1>6. QED
  BY <1>2, <1>3, <1>4, <1>5, NotifyOnly DEF Only

LEMMA EventOnly ==
    ASSUME IInv, NEW n \in Nodes, ProcessEvent(n)
    PROVE  /\ Only(n) /\ disk' = disk /\ local' = local /\ clock' = clock
           /\ receivers' = receivers /\ events[n] # << >>
           /\ \A m \in Nodes \ {n} : channel'[m] = channel[m]
<1>1. /\ disk' = disk /\ local' = local /\ clock' = clock
      /\ receivers' = receivers /\ events[n] # << >>
      /\ events' = [events EXCEPT ![n] = Tail(@)]
  BY DEF ProcessEvent
<1>2. PICK table, timer, objects : Store(n, table, timer, objects)
  BY DEF ProcessEvent, UpdatedFile, DeletedFile
<1>3. channel' = channel \/ \E msgs : Broadcast(n, msgs)
  BY DEF ProcessEvent, UpdatedFile, DeletedFile
<1>4. \A m \in Nodes \ {n} : channel'[m] = channel[m]
  BY <1>3 DEF Broadcast, IInv, TypeOK
<1>5. \A m \in Nodes \ {n} : events'[m] = events[m]
  BY <1>1 DEF IInv, TypeOK
<1>6. QED
  BY <1>1, <1>2, <1>4, <1>5, StoreOnly DEF Only

LEMMA TimeoutOnly ==
    ASSUME IInv, NEW n \in Nodes, NEW due \in SUBSET Pending(n),
           ProcessTimeout(n, due)
    PROVE  /\ Only(n) /\ disk' = disk /\ local' = local /\ clock' = clock
           /\ receivers' = receivers /\ events' = events
           /\ f_modified_files[n] # {}
           /\ \A m \in Nodes \ {n} : channel'[m] = channel[m]
<1>1. /\ disk' = disk /\ local' = local /\ clock' = clock
      /\ receivers' = receivers /\ events' = events
      /\ f_modified_files[n] # {}
  BY DEF ProcessTimeout, Pending
<1>2. PICK table, timer, objects : Store(n, table, timer, objects)
  BY DEF ProcessTimeout
<1>3. \E msgs : Broadcast(n, msgs)
  BY DEF ProcessTimeout
<1>4. \A m \in Nodes \ {n} : channel'[m] = channel[m]
  BY <1>3 DEF Broadcast, IInv, TypeOK
<1>5. QED
  BY <1>1, <1>2, <1>4, StoreOnly DEF Only

\* Node n takes the first message of s.
LEMMA ReceiveOnlyOne ==
    ASSUME IInv, NEW n \in Nodes, NEW s \in Nodes, ReceiveMessage(n, s)
    PROVE  /\ Only(n) /\ clock' = clock
           /\ f_modified_files' = f_modified_files
           /\ channel[s][n] # << >>
           /\ channel'[s][n] = Tail(channel[s][n])
           /\ \A a, b \in Nodes : a # s \/ b # n
                                    => channel'[a][b] = channel[a][b]
           /\ ~ Watched(n) => events' = events
<1>1. /\ channel[s][n] # << >> /\ clock' = clock
      /\ channel' = [channel EXCEPT ![s][n] = Tail(@)]
  BY DEF ReceiveMessage
<1>2. /\ channel'[s][n] = Tail(channel[s][n])
      /\ \A a, b \in Nodes : a # s \/ b # n => channel'[a][b] = channel[a][b]
  BY <1>1 DEF IInv, TypeOK
<1>3. PICK m : /\ m = Head(channel[s][n])
               /\ ReceiveFile(n, s, m) \/ DeleteLocalFile(n, m.name)
  BY DEF ReceiveMessage
<1>4. CASE ReceiveFile(n, s, m)
  <2>1. disk' = disk /\ local' = local /\ events' = events
    BY <1>4 DEF ReceiveFile
  <2>2. \/ UNCHANGED daemon
        \/ \E table, objects : Store(n, table, f_modified_files[n], objects)
    BY <1>4 DEF ReceiveFile
  <2>3. /\ f_modified_files' = f_modified_files
        /\ \A d \in Nodes \ {n} : f_files'[d] = f_files[d] /\ file'[d] = file[d]
    <3>1. CASE UNCHANGED daemon
      BY <3>1 DEF daemon
    <3>2. CASE \E table, objects :
                   Store(n, table, f_modified_files[n], objects)
      BY <3>2 DEF Store, IInv, TypeOK
    <3>3. QED
      BY <2>2, <3>1, <3>2
  <2>4. receivers' = receivers \/ Connect(n, s, m)
    BY <1>4 DEF ReceiveFile
  <2>5. \A d \in Nodes \ {n} : receivers'[d] = receivers[d]
    BY <2>4 DEF Connect, IInv, TypeOK
  <2>6. QED
    BY <1>1, <1>2, <2>1, <2>3, <2>5 DEF Only
<1>5. CASE DeleteLocalFile(n, m.name)
  <2>1. CASE UNCHANGED << disk, local, events, daemon, receivers >>
    BY <1>1, <1>2, <2>1 DEF Only, daemon
  <2>2. CASE Unlink(n, m.name) /\ receivers' = receivers
    <3>1. \E table, objects : Store(n, table, f_modified_files[n], objects)
      BY <2>2 DEF Unlink
    <3>2. /\ f_modified_files' = f_modified_files
          /\ \A d \in Nodes \ {n} : f_files'[d] = f_files[d]
                                  /\ file'[d] = file[d]
      BY <3>1 DEF Store, IInv, TypeOK
    <3>3. PICK k : Notify(n, m.name, k) \/ events' = events
      BY <2>2 DEF Unlink, NotifyWhen
    <3>4. ~ Watched(n) => events' = events
      BY <2>2 DEF Unlink, NotifyWhen, WatchesDeletion
    <3>5. \A d \in Nodes \ {n} : disk'[d] = disk[d] /\ local'[d] = local[d]
      BY <2>2 DEF Unlink, IInv, TypeOK
    <3>6. QED
      BY <1>1, <1>2, <2>2, <3>2, <3>3, <3>4, <3>5, NotifyOnly DEF Only
  <2>3. QED
    BY <1>5, <2>1, <2>2 DEF DeleteLocalFile
<1>6. QED
  BY <1>3, <1>4, <1>5

LEMMA TransferOnly ==
    ASSUME IInv, NEW n \in Nodes, NEW k \in DOMAIN receivers[n],
           Serve(n, k) \/ Refuse(n, k) \/ Install(n, k)
    PROVE  /\ Only(n) /\ clock' = clock /\ channel' = channel
           /\ f_modified_files' = f_modified_files
           /\ ~ Watched(n) => events' = events
<1>1. receivers \in [Nodes -> Seq(Receiver)]
  BY DEF IInv, TypeOK
<1>2. CASE Serve(n, k) \/ Refuse(n, k)
  BY <1>1, <1>2 DEF Serve, Refuse, Only, daemon
<1>3. CASE Install(n, k)
  <2>1. PICK f, v : f = receivers[n][k].name /\ v = receivers[n][k].version
    OBVIOUS
  <2>2. /\ clock' = clock /\ channel' = channel
        /\ disk' = [disk EXCEPT ![n][f] = v]
        /\ local' = [local EXCEPT ![n][f] = FALSE]
        /\ NotifyWhen(Watched(n), n, f, "modified")
        /\ receivers' = [receivers EXCEPT ![n] = RemoveAt(@, k)]
    BY <1>3, <2>1 DEF Install
  <2>3. \E table, objects : Store(n, table, f_modified_files[n], objects)
    BY <1>3 DEF Install
  <2>4. /\ f_modified_files' = f_modified_files
        /\ \A d \in Nodes \ {n} : f_files'[d] = f_files[d] /\ file'[d] = file[d]
    BY <2>3 DEF Store, IInv, TypeOK
  <2>5. /\ Notify(n, f, "modified") \/ events' = events
        /\ ~ Watched(n) => events' = events
    BY <2>2 DEF NotifyWhen
  <2>6. \A d \in Nodes \ {n} : /\ disk'[d] = disk[d] /\ local'[d] = local[d]
                               /\ receivers'[d] = receivers[d]
    BY <2>2 DEF IInv, TypeOK
  <2>7. QED
    BY <2>2, <2>4, <2>5, <2>6, NotifyOnly DEF Only
<1>4. QED
  BY <1>2, <1>3

\* The source acts, or services of a computer in no mode, or a computer
\* receives a message of the source, or a transfer goes on.
LEMMA Actors ==
    ASSUME Converging, IInv, IdInv, Unwatched, Next
    PROVE  \/ \E p \in SendOnly : Local(p) \/ ProcessEvent(p) \/ Timeout(p)
           \/ \E n \in Nodes \ (SendOnly \cup ReceiveOnly) : Local(n)
           \/ \E n \in Nodes \ SendOnly, p \in SendOnly : ReceiveMessage(n, p)
           \/ \E s \in ReceiveOnly : \E k \in DOMAIN receivers[s] :
                  Serve(s, k) \/ Refuse(s, k) \/ Install(s, k)
<1>1. PICK n \in Nodes : Local(n) \/ ProcessEvent(n) \/ Timeout(n)
                         \/ Receive(n) \/ Transfer(n) \/ Failure(n)
  BY DEF Next
<1>2. CASE Local(n)
  <2>1. n \in Users
    BY <1>2 DEF Local, LocalWrite, LocalClose, LocalDelete
  <2>2. QED
    BY <1>2, <2>1 DEF Converging
<1>3. CASE ProcessEvent(n)
  BY <1>3, EventOnly DEF Unwatched
<1>4. CASE Timeout(n)
  <2>1. PICK due \in SUBSET Pending(n) : ProcessTimeout(n, due)
    BY <1>4 DEF Timeout
  <2>2. n \in SendOnly
    BY <2>1, TimeoutOnly DEF Unwatched
  <2>3. QED
    BY <1>4, <2>2
<1>5. CASE Receive(n)
  <2>1. PICK s \in Nodes : ReceiveMessage(n, s)
    BY <1>5 DEF Receive
  <2>2. channel[s][n] # << >>
    BY <2>1 DEF ReceiveMessage
  <2>3. s \in SendOnly
    BY <2>2 DEF Unwatched
  <2>4. n # s
    BY <2>2 DEF IdInv, NoMessageToSelf
  <2>5. n \notin SendOnly
    BY <2>3, <2>4 DEF Converging
  <2>6. QED
    BY <2>1, <2>3, <2>5
<1>6. CASE Transfer(n)
  <2>1. PICK k \in DOMAIN receivers[n] :
            Serve(n, k) \/ Refuse(n, k) \/ Install(n, k)
    BY <1>6 DEF Transfer
  <2>2. n \in ReceiveOnly
    BY DEF IdInv, ReceiversNamed, Receives, Converging
  <2>3. QED
    BY <2>1, <2>2
<1>7. CASE Failure(n)
  BY <1>7 DEF Failure, StreamFails, LoseMessage, Restart, Converging
<1>8. QED
  BY <1>1, <1>2, <1>3, <1>4, <1>5, <1>6, <1>7

LEMMA Modes ==
    ASSUME Converging
    PROVE  /\ SendOnly \subseteq Nodes /\ ReceiveOnly \subseteq Nodes
           /\ SendOnly \cap ReceiveOnly = {}
           /\ \A n \in Nodes : Watched(n) <=> n \in SendOnly
           /\ \A n \in Nodes : Receives(n) <=> n \in ReceiveOnly
  BY ModeAssumption DEF Converging, Watched, Receives

LEMMA UnwatchedStep ==
    ASSUME Converging, IInv, IdInv, Unwatched, Next
    PROVE  Unwatched'
<1> SUFFICES ASSUME NEW m \in Nodes, m \notin SendOnly
             PROVE  /\ events'[m] = << >> /\ f_modified_files'[m] = {}
                    /\ \A d \in Nodes : channel'[m][d] = << >>
  BY DEF Unwatched
<1>1. /\ events[m] = << >> /\ f_modified_files[m] = {}
      /\ \A d \in Nodes : channel[m][d] = << >>
  BY DEF Unwatched
<1>2. ~ Watched(m) /\ SendOnly \subseteq Nodes /\ ReceiveOnly \subseteq Nodes
          /\ \A n \in Nodes : n \notin SendOnly => ~ Watched(n)
  BY Modes
<1>3. ASSUME NEW p \in SendOnly, Local(p) \/ ProcessEvent(p) \/ Timeout(p)
      PROVE  /\ events'[m] = events[m]
             /\ f_modified_files'[m] = f_modified_files[m]
             /\ channel'[m] = channel[m]
  <2>1. p \in Nodes /\ p # m
    BY <1>2
  <2>2. Only(p)
    BY <1>3, <2>1, LocalOnly, EventOnly, TimeoutOnly DEF Timeout
  <2>3. channel'[m] = channel[m]
    BY <1>3, <2>1, LocalOnly, EventOnly, TimeoutOnly DEF Timeout
  <2>4. QED
    BY <2>1, <2>2, <2>3 DEF Only
<1>4. ASSUME NEW n \in Nodes \ (SendOnly \cup ReceiveOnly), Local(n)
      PROVE  /\ events'[m] = events[m]
             /\ f_modified_files'[m] = f_modified_files[m]
             /\ channel'[m] = channel[m]
  BY <1>2, <1>4, LocalOnly
<1>5. ASSUME NEW n \in Nodes \ SendOnly, NEW p \in SendOnly,
             ReceiveMessage(n, p)
      PROVE  /\ events'[m] = events[m]
             /\ f_modified_files'[m] = f_modified_files[m]
             /\ \A d \in Nodes : channel'[m][d] = channel[m][d]
  BY <1>2, <1>5, ReceiveOnlyOne
<1>6. ASSUME NEW n \in ReceiveOnly, NEW k \in DOMAIN receivers[n],
             Serve(n, k) \/ Refuse(n, k) \/ Install(n, k)
      PROVE  /\ events'[m] = events[m]
             /\ f_modified_files'[m] = f_modified_files[m]
             /\ channel'[m] = channel[m]
  <2>1. n \in Nodes /\ ~ Watched(n)
    BY Modes
  <2>2. QED
    BY <1>6, <2>1, TransferOnly
<1>7. QED
  BY <1>1, <1>3, <1>4, <1>5, <1>6, Actors

\* What a computer that receives from the source does with the message.
Connects(n, p, m, r) ==
    /\ r \in Receiver /\ r.name = m.name /\ r.id = m.id
    /\ r.src = p /\ r.version = Absent
    /\ receivers'[n] = Append(receivers[n], r)

ReceivesChange(n, p, m) ==
    /\ disk' = disk /\ local' = local
    /\ \E i \in GetFile(n, m.name), x \in SharedFile :
           /\ x = Entry(n, m.name, i)
           /\ StoreEntry(n, m.name, i, f_modified_files[n], x)
           /\ \/ x.stat >= m.mtime /\ receivers'[n] = receivers[n]
              \/ \E r : Connects(n, p, m, r)

ReceivesDeletion(n, f) ==
    /\ receivers'[n] = receivers[n]
    /\ \/ UNCHANGED << disk, file, f_files >>
       \/ /\ disk' = [disk EXCEPT ![n][f] = Absent]
          /\ \E table : RemoveEntry(n, f, table)

LEMMA ReceiveEffect ==
    ASSUME Converging, IInv, NEW n \in ReceiveOnly, NEW p \in Nodes,
           ReceiveMessage(n, p)
    PROVE  \E m \in Message :
               /\ m = Head(channel[p][n])
               /\ \/ m.cmd = "changed" /\ ReceivesChange(n, p, m)
                  \/ m.cmd = "deleted" /\ ReceivesDeletion(n, m.name)
<1>1. n \in Nodes /\ Receives(n) /\ ~ Faults
  BY Modes DEF Converging
<1>2. channel[p][n] # << >> /\ clock' = clock
  BY DEF ReceiveMessage
<1>3. PICK m \in Message : m = Head(channel[p][n])
  BY <1>1, <1>2, HeadMessage
<1>4. m.name \in Files
  BY DEF Message
<1>5. CASE m.cmd = "changed" /\ ReceiveFile(n, p, m)
  <2>1. /\ disk' = disk /\ local' = local
    BY <1>5 DEF ReceiveFile
  <2>2. PICK i \in GetFile(n, m.name) :
            /\ Store(n, f_files[n] \cup {i}, f_modified_files[n],
                     [file[n] EXCEPT ![i] = Entry(n, m.name, i)])
            /\ \/ IsNewer(Entry(n, m.name, i), m) /\ UNCHANGED receivers
               \/ Connect(n, p, m)
    BY <1>1, <1>5 DEF ReceiveFile
  <2>3. PICK x : x = Entry(n, m.name, i)
    OBVIOUS
  <2>4. x \in SharedFile /\ x.name = m.name /\ x.stat <= clock
    <3>1. i \in Ids /\ x \in SharedFile /\ x.name = m.name
      BY <1>1, <1>4, <2>3, EntryType DEF IInv
    <3>2. file[n][i].stat <= clock /\ clock \in Nat
      BY <1>1, <3>1 DEF IInv, TimesOK, TypeOK
    <3>3. QED
      BY <2>3, <3>1, <3>2 DEF Entry, NewFile, NoFile, Absent
  <2>5. StoreEntry(n, m.name, i, f_modified_files[n], x)
    BY <1>2, <2>2, <2>3, <2>4 DEF StoreEntry
  <2>6. CASE Connect(n, p, m)
    <3> DEFINE r == [name |-> m.name, src |-> p, id |-> m.id,
                     version |-> Absent]
    <3>1. r \in Receiver /\ r.name = m.name /\ r.id = m.id /\ r.src = p
            /\ r.version = Absent
      BY <1>5 DEF Message, Receiver, Absent
    <3>2. receivers'[n] = Append(receivers[n], r)
      BY <1>1, <2>6 DEF Connect, IInv, TypeOK
    <3> HIDE DEF r
    <3>3. Connects(n, p, m, r)
      BY <3>1, <3>2 DEF Connects
    <3>4. QED
      BY <1>3, <1>5, <2>1, <2>3, <2>4, <2>5, <3>3 DEF ReceivesChange
  <2>7. CASE IsNewer(x, m) /\ UNCHANGED receivers
    BY <1>3, <1>5, <2>1, <2>3, <2>4, <2>5, <2>7 DEF ReceivesChange, IsNewer
  <2>8. QED
    BY <2>2, <2>3, <2>6, <2>7
<1>6. CASE m.cmd = "deleted" /\ DeleteLocalFile(n, m.name)
  <2>1. receivers' = receivers
    BY <1>6 DEF DeleteLocalFile
  <2>2. CASE UNCHANGED << disk, daemon >>
    BY <1>3, <1>6, <2>1, <2>2 DEF ReceivesDeletion, daemon
  <2>3. CASE Unlink(n, m.name)
    <3>1. PICK table \in EraseFile(n, m.name) :
              Store(n, table, f_modified_files[n], file[n])
      BY <2>3 DEF Unlink
    <3>2. RemoveEntry(n, m.name, table)
      BY <1>2, <3>1 DEF RemoveEntry
    <3>3. disk' = [disk EXCEPT ![n][m.name] = Absent]
      BY <2>3 DEF Unlink
    <3>4. QED
      BY <1>3, <1>6, <2>1, <3>2, <3>3 DEF ReceivesDeletion
  <2>4. QED
    BY <1>6, <2>2, <2>3 DEF DeleteLocalFile
<1>7. QED
  BY <1>3, <1>5, <1>6 DEF ReceiveMessage

\* A computer that does not receive leaves its receivers and files alone, but
\* for a deletion it applies.
LEMMA NotReceiving ==
    ASSUME NEW n \in Nodes, NEW p \in Nodes, ReceiveMessage(n, p), ~ Receives(n)
    PROVE  receivers' = receivers
  BY DEF ReceiveMessage, ReceiveFile, DeleteLocalFile

\* What a transfer does on a computer s, r being its k-th receiver.
Serves(s, k, r) ==
    /\ GetsVersion(receivers[s], k, disk[r.src][r.name], receivers'[s])
    /\ receivers'[s][k].src = r.src /\ receivers'[s][k].id = r.id
    /\ disk' = disk /\ file' = file /\ f_files' = f_files
Refuses(s, k, r) ==
    /\ receivers'[s] = RemoveAt(receivers[s], k)
    /\ r.version = Absent /\ Served(r.src, r.id) = Absent
    /\ disk' = disk /\ file' = file /\ f_files' = f_files
Installs(s, k, r) ==
    /\ receivers'[s] = RemoveAt(receivers[s], k) /\ r.version # Absent
    /\ disk' = [disk EXCEPT ![s][r.name] = r.version]
    /\ \E i, x : /\ x.stat = r.version
                 /\ StoreEntry(s, r.name, i, f_modified_files[s], x)

LEMMA TransferEffect ==
    ASSUME Converging, IInv, IdInv, NEW s \in Nodes,
           NEW k \in DOMAIN receivers[s],
           Serve(s, k) \/ Refuse(s, k) \/ Install(s, k)
    PROVE  \E r \in Receiver :
               /\ r = receivers[s][k]
               /\ \A j \in 1..(k - 1) : receivers[s][j].name # r.name
               /\ Serves(s, k, r) \/ Refuses(s, k, r) \/ Installs(s, k, r)
<1>1. /\ receivers \in [Nodes -> Seq(Receiver)]
      /\ receivers[s] \in Seq(Receiver)
  BY DEF IInv, TypeOK
<1>2. PICK r \in Receiver : r = receivers[s][k]
  BY <1>1
<1>3. r.src \in Nodes /\ r.name \in Files /\ r.id \in Ids /\ r.version \in Nat
  BY DEF Receiver
<1>4. \A j \in 1..(k - 1) : receivers[s][j].name # r.name
  BY <1>2 DEF Serve, Refuse, Install, Turn, Converging
<1>5. CASE Serve(s, k)
  <2>1. r.id \in Referenced(r.src) => file[r.src][r.id].name = r.name
    BY <1>2 DEF IdInv, ReceiversNamed, IdNames
  <2>2. PICK v : v = Served(r.src, r.id)
    OBVIOUS
  <2>3. /\ r.version = Absent /\ v # Absent
        /\ disk' = disk /\ file' = file /\ f_files' = f_files
        /\ receivers' = [receivers EXCEPT ![s][k].version = v]
    BY <1>2, <1>5, <2>2 DEF Serve, daemon
  <2>4. v = disk[r.src][r.name]
    BY <2>1, <2>2, <2>3 DEF Served, Referenced
  <2>5. receivers'[s] =
            [receivers[s] EXCEPT ![k] = [receivers[s][k] EXCEPT !.version = v]]
    BY <1>1, <2>3
  <2>6. /\ DOMAIN receivers'[s] = DOMAIN receivers[s]
        /\ \A j \in DOMAIN receivers[s] :
               j # k => receivers'[s][j] = receivers[s][j]
        /\ receivers'[s][k].name = r.name /\ receivers'[s][k].version = v
        /\ receivers'[s][k].src = r.src /\ receivers'[s][k].id = r.id
    BY <1>1, <1>2, <2>5 DEF Receiver
  <2>7. Serves(s, k, r)
    BY <1>2, <2>3, <2>4, <2>6 DEF Serves, GetsVersion
  <2>8. QED
    BY <1>2, <1>4, <2>7
<1>6. CASE Refuse(s, k)
  <2>1. Refuses(s, k, r)
    BY <1>1, <1>2, <1>6 DEF Refuse, Refuses, daemon
  <2>2. QED
    BY <1>2, <1>4, <2>1
<1>7. CASE Install(s, k)
  <2>1. clock \in Nat /\ r.version <= clock
    BY <1>2 DEF IInv, TypeOK, TimesOK
  <2>2. PICK i \in GetFile(s, r.name) :
            Store(s, f_files[s] \cup {i}, f_modified_files[s],
                  [file[s] EXCEPT ![i] =
                      [Entry(s, r.name, i) EXCEPT !.stat = r.version]])
    BY <1>2, <1>7 DEF Install
  <2>3. PICK x : x = [Entry(s, r.name, i) EXCEPT !.stat = r.version]
    OBVIOUS
  <2>4. x \in SharedFile /\ x.name = r.name /\ x.stat = r.version
    <3>1. Entry(s, r.name, i) \in SharedFile
            /\ Entry(s, r.name, i).name = r.name
      BY <1>3, EntryType DEF IInv
    <3>2. QED
      BY <1>3, <2>3, <3>1 DEF SharedFile
  <2>5. /\ r.version # Absent /\ clock' = clock
        /\ disk' = [disk EXCEPT ![s][r.name] = r.version]
        /\ receivers'[s] = RemoveAt(receivers[s], k)
    BY <1>1, <1>2, <1>7 DEF Install
  <2>6. StoreEntry(s, r.name, i, f_modified_files[s], x)
    BY <2>1, <2>2, <2>3, <2>4, <2>5 DEF StoreEntry
  <2>7. Installs(s, k, r)
    BY <2>4, <2>5, <2>6 DEF Installs
  <2>8. QED
    BY <1>2, <1>4, <2>7
<1>8. QED
  BY <1>5, <1>6, <1>7

-----------------------------------------------------------------------------
(* Lemmas about what is on its way. *)

LEMMA RemoveAtIndex ==
    ASSUME NEW S, NEW q \in Seq(S), NEW k \in 1..Len(q)
    PROVE  /\ DOMAIN RemoveAt(q, k) = 1..(Len(q) - 1)
           /\ \A j \in 1..(Len(q) - 1) :
                  \/ j < k /\ RemoveAt(q, k)[j] = q[j]
                  \/ j >= k /\ RemoveAt(q, k)[j] = q[j + 1]
<1> DEFINE a == SubSeq(q, 1, k - 1)
           b == SubSeq(q, k + 1, Len(q))
<1>1. /\ a \in Seq(S) /\ Len(a) = k - 1
      /\ \A i \in 1..(k - 1) : a[i] = q[i]
  OBVIOUS
<1>2. /\ b \in Seq(S) /\ Len(b) = Len(q) - k
      /\ \A i \in 1..(Len(q) - k) : b[i] = q[k + i]
  OBVIOUS
<1> HIDE DEF a, b
<1>3. RemoveAt(q, k) = a \o b
  BY DEF RemoveAt, a, b
<1>4. ASSUME NEW j \in 1..(Len(q) - 1)
      PROVE  \/ j < k /\ (a \o b)[j] = q[j]
             \/ j >= k /\ (a \o b)[j] = q[j + 1]
  <2>1. CASE j < k
    BY <1>1, <1>2, <2>1
  <2>2. CASE j >= k
    <3>1. (a \o b)[j] = b[j - (k - 1)]
      BY <1>1, <1>2, <2>2
    <3>2. b[j - (k - 1)] = q[j + 1]
      BY <1>2, <2>2
    <3>3. QED
      BY <2>2, <3>1, <3>2
  <2>3. j < k \/ j >= k
    OBVIOUS
  <2>4. QED
    BY <2>1, <2>2, <2>3, Zenon
<1>5. DOMAIN (a \o b) = 1..(Len(q) - 1)
  <2>1. PICK m \in Nat : m = Len(q)
    OBVIOUS
  <2>2. a \o b \in Seq(S) /\ Len(a \o b) = (k - 1) + (m - k)
    BY <1>1, <1>2, <2>1
  <2>3. (k - 1) + (m - k) = m - 1
    OBVIOUS
  <2>4. QED
    BY <2>1, <2>2, <2>3
<1>6. QED
  BY <1>3, <1>4, <1>5

\* Messages that do not tell of a deletion of f come after those on their way.
NoDeletion(msgs, f) ==
    \A k \in DOMAIN msgs : msgs[k].name = f => msgs[k].cmd # "deleted"

LEMMA WayExtended ==
    ASSUME NEW c \in Seq(Message), NEW msgs \in Seq(Message),
           NEW q, NEW w, NEW f, NEW i, NEW v, NoDeletion(msgs, f),
           \/ OnItsWay(c, q, w, f, i, v)
           \/ \E k \in DOMAIN msgs : Says(msgs[k], f, i, v)
    PROVE  OnItsWay(c \o msgs, q, w, f, i, v)
<1>1. PICK a \in Nat, b \in Nat : a = Len(c) /\ b = Len(msgs)
  OBVIOUS
<1>2. PICK r : r = c \o msgs
  OBVIOUS
<1>3. /\ DOMAIN r = 1..(a + b) /\ DOMAIN c = 1..a /\ DOMAIN msgs = 1..b
      /\ \A k \in 1..a : r[k] = c[k]
      /\ \A k \in 1..b : r[a + k] = msgs[k]
  BY <1>1, <1>2
<1>4. \A k \in 1..(a + b) : \/ k \in 1..a /\ r[k] = c[k]
                            \/ k - a \in 1..b /\ r[k] = msgs[k - a]
  <2> TAKE k \in 1..(a + b)
  <2>1. CASE k <= a
    BY <1>3, <2>1
  <2>2. CASE k > a
    <3>1. k - a \in 1..b /\ a + (k - a) = k
      BY <2>2
    <3>2. QED
      BY <1>3, <3>1
  <2>3. QED
    BY <2>1, <2>2
<1>5. ASSUME NEW k \in 0..a, Undeleted(c, f, k)
      PROVE  Undeleted(r, f, k)
  BY <1>3, <1>4, <1>5 DEF Undeleted, NoDeletion
<1>6. CASE OnItsWay(c, q, w, f, i, v)
  <2>1. ASSUME NEW k \in DOMAIN c, Says(c[k], f, i, v), Undeleted(c, f, k)
        PROVE  Announced(r, f, i, v)
    <3>1. k \in 0..a /\ k \in 1..(a + b) /\ r[k] = c[k]
      BY <1>3
    <3>2. QED
      BY <1>3, <1>5, <2>1, <3>1 DEF Announced
  <2>2. Undeleted(c, f, 0) => Undeleted(r, f, 0)
    BY <1>5
  <2>3. QED
    BY <1>2, <1>6, <2>1, <2>2 DEF OnItsWay, Announced
<1>7. CASE \E k \in DOMAIN msgs : Says(msgs[k], f, i, v)
  <2>1. PICK k \in 1..b : Says(msgs[k], f, i, v)
    BY <1>3, <1>7
  <2>2. a + k \in 1..(a + b) /\ r[a + k] = msgs[k]
    BY <1>3
  <2>3. ASSUME NEW j \in 1..(a + b), j > a + k
        PROVE  r[j].name = f => r[j].cmd # "deleted"
    <3>1. j - a \in 1..b /\ r[j] = msgs[j - a]
      BY <1>4, <2>3
    <3>2. QED
      BY <1>3, <3>1 DEF NoDeletion
  <2>4. Undeleted(r, f, a + k)
    BY <1>3, <2>3 DEF Undeleted
  <2>5. QED
    BY <1>2, <1>3, <2>1, <2>2, <2>4 DEF OnItsWay, Announced
<1>8. QED
  BY <1>6, <1>7

\* The first message is read.
LEMMA WayRead ==
    ASSUME NEW c \in Seq(Message), c # << >>,
           NEW q, NEW w, NEW f, NEW i, NEW v, OnItsWay(c, q, w, f, i, v)
    PROVE  \/ Announced(Tail(c), f, i, v)
           \/ /\ ~ (Head(c).name = f /\ Head(c).cmd = "deleted")
              /\ OnItsWay(Tail(c), q, w, f, i, v)
           \/ Says(Head(c), f, i, v) /\ Undeleted(Tail(c), f, 0)
<1>1. PICK a \in Nat : a = Len(c)
  OBVIOUS
<1>2. PICK r : r = Tail(c)
  OBVIOUS
<1>3. /\ DOMAIN c = 1..a /\ a >= 1 /\ DOMAIN r = 1..(a - 1)
      /\ \A k \in 1..(a - 1) : r[k] = c[k + 1]
      /\ Head(c) = c[1]
  BY <1>1, <1>2
<1>4. ASSUME NEW k \in Nat, Undeleted(c, f, k)
      PROVE  \A j \in 1..(a - 1) :
                 j + 1 > k /\ r[j].name = f => r[j].cmd # "deleted"
  <2> TAKE j \in 1..(a - 1)
  <2>1. j + 1 \in 1..a /\ r[j] = c[j + 1]
    BY <1>3
  <2>2. QED
    BY <1>3, <1>4, <2>1 DEF Undeleted
<1>5. CASE Undeleted(c, f, 0) /\ (Requested(q, f, i, v) \/ w = v)
  <2>1. Undeleted(r, f, 0)
    BY <1>3, <1>4, <1>5 DEF Undeleted
  <2>2. ~ (c[1].name = f /\ c[1].cmd = "deleted")
    BY <1>3, <1>5 DEF Undeleted
  <2>3. QED
    BY <1>2, <1>3, <1>5, <2>1, <2>2 DEF OnItsWay
<1>6. CASE Announced(c, f, i, v)
  <2>1. PICK k \in 1..a : Says(c[k], f, i, v) /\ Undeleted(c, f, k)
    BY <1>3, <1>6 DEF Announced
  <2>2. CASE k = 1
    <3>1. Undeleted(r, f, 0)
      BY <1>3, <1>4, <2>1, <2>2 DEF Undeleted
    <3>2. QED
      BY <1>2, <1>3, <2>1, <2>2, <3>1
  <2>3. CASE k > 1
    <3>1. k - 1 \in 1..(a - 1) /\ r[k - 1] = c[k]
      <4>1. k - 1 \in 1..(a - 1) /\ (k - 1) + 1 = k
        BY <2>3
      <4>2. QED
        BY <1>3, <4>1
    <3>2. Undeleted(r, f, k - 1)
      BY <1>3, <1>4, <2>1 DEF Undeleted
    <3>3. QED
      BY <1>2, <1>3, <2>1, <3>1, <3>2 DEF Announced
  <2>4. QED
    BY <2>2, <2>3
<1>7. QED
  BY <1>5, <1>6 DEF OnItsWay

\* A request and a version on the disk may turn into one another.
LEMMA WayChanged ==
    ASSUME NEW c, NEW q, NEW r, NEW w, NEW x, NEW f, NEW i, NEW v,
           OnItsWay(c, q, w, f, i, v),
           Requested(q, f, i, v) => Requested(r, f, i, v) \/ x = v,
           w = v => Requested(r, f, i, v) \/ x = v
    PROVE  OnItsWay(c, r, x, f, i, v)
  BY DEF OnItsWay

LEMMA RequestAppended ==
    ASSUME NEW q \in Seq(Receiver), NEW r \in Receiver, NEW f, NEW i, NEW v
    PROVE  /\ Requested(q, f, i, v) => Requested(Append(q, r), f, i, v)
           /\ r.name = f /\ r.id = i /\ r.version = Absent
                  => Requested(Append(q, r), f, i, v)
<1>1. PICK a \in Nat : a = Len(q)
  OBVIOUS
<1>2. PICK s : s = Append(q, r)
  OBVIOUS
<1>3. /\ DOMAIN s = 1..(a + 1) /\ DOMAIN q = 1..a
      /\ \A k \in 1..a : s[k] = q[k]
      /\ s[a + 1] = r /\ a + 1 \in 1..(a + 1)
      /\ 1..a \subseteq 1..(a + 1)
  BY <1>1, <1>2
<1>4. Requested(q, f, i, v) => Requested(s, f, i, v)
  BY <1>3 DEF Requested
<1>5. r.name = f /\ r.id = i /\ r.version = Absent => Requested(s, f, i, v)
  BY <1>3 DEF Requested
<1>6. QED
  BY <1>2, <1>4, <1>5

LEMMA RequestServed ==
    ASSUME NEW q \in Seq(Receiver), NEW k \in DOMAIN q, NEW r,
           NEW p, NEW f, NEW i, Requested(q, f, i, disk[p][f]),
           GetsVersion(q, k, disk[p][q[k].name], r), r[k].id = q[k].id
    PROVE  Requested(r, f, i, disk[p][f])
<1>1. PICK j \in DOMAIN q : /\ q[j].name = f /\ q[j].id = i
                            /\ q[j].version \in {Absent, disk[p][f]}
  BY DEF Requested
<1>2. QED
  BY <1>1 DEF Requested, GetsVersion

LEMMA RequestRemoved ==
    ASSUME NEW q \in Seq(Receiver), NEW k \in DOMAIN q, NEW f, NEW i, NEW v,
           Requested(q, f, i, v)
    PROVE  \/ Requested(RemoveAt(q, k), f, i, v)
           \/ q[k].name = f /\ q[k].id = i /\ q[k].version \in {Absent, v}
<1>1. PICK j \in DOMAIN q : /\ q[j].name = f /\ q[j].id = i
                            /\ q[j].version \in {Absent, v}
  BY DEF Requested
<1>2. CASE j # k
  <2>1. k \in 1..Len(q)
    OBVIOUS
  <2>2. \E x \in DOMAIN RemoveAt(q, k) : RemoveAt(q, k)[x] = q[j]
    BY <1>2, <2>1, RemoveAtKeeps
  <2>3. QED
    BY <1>1, <2>2 DEF Requested
<1>3. QED
  BY <1>1, <1>2

-----------------------------------------------------------------------------
(* What the source does. *)

\* The source p sends the messages, and whatever it has announced after the
\* step it has announced before or in one of them.
Tells(p, msgs) ==
    \A f \in Files, i \in Ids : Shared(p, f, i)' =>
        /\ NoDeletion(msgs, f)
        /\ \/ Shared(p, f, i) /\ disk'[p][f] = disk[p][f]
           \/ \E k \in DOMAIN msgs : Says(msgs[k], f, i, disk'[p][f])
Sends(p, msgs) ==
    \A d \in Nodes \ {p} : channel'[p][d] = channel[p][d] \o msgs

\* The objects of p have the same version announced, or the one on disk.
SharesOnly(p) ==
    \A i \in Ids : \/ file'[p][i].shared = file[p][i].shared
                   \/ file'[p][i].shared = Absent
                   \/ \E f \in Files : file'[p][i].shared = disk[p][f]

SourceStep(p) ==
    /\ \E msgs \in Seq(Message) : Tells(p, msgs) /\ Sends(p, msgs)
    /\ SharesOnly(p) /\ clock' >= clock
    /\ \A f \in Files :
           \/ disk'[p][f] = disk[p][f] /\ local'[p][f] = local[p][f]
           \/ disk'[p][f] = Absent
           \/ disk'[p][f] = clock + 1 /\ local'[p][f]

LEMMA SendsNothing ==
    ASSUME IInv, NEW p \in Nodes, channel'[p] = channel[p]
    PROVE  \E msgs \in Seq(Message) : msgs = << >> /\ Sends(p, msgs)
<1>1. \A d \in Nodes : channel[p][d] \o << >> = channel[p][d]
  BY DEF IInv, TypeOK
<1>2. << >> \in Seq(Message)
  OBVIOUS
<1>3. PICK msgs : msgs = << >>
  OBVIOUS
<1>4. \A d \in Nodes : channel'[p][d] = channel[p][d] \o msgs
  BY <1>1, <1>3
<1>5. QED
  BY <1>2, <1>3, <1>4 DEF Sends

LEMMA SourceWrites ==
    ASSUME IInv, SharedTimes, NEW p \in SendOnly, p \in Nodes, Local(p)
    PROVE  SourceStep(p)
<1>1. /\ channel' = channel /\ file' = file /\ f_files' = f_files
  BY LocalOnly
<1>2. PICK g \in Files : LocalWrite(p, g) \/ LocalClose(p, g)
                         \/ LocalDelete(p, g)
  BY DEF Local
<1>3. TypeOK /\ clock \in Nat
  BY DEF IInv, TypeOK
<1>4. \A f \in Files :
          \/ disk'[p][f] = disk[p][f] /\ local'[p][f] = local[p][f]
          \/ disk'[p][f] = Absent
          \/ disk'[p][f] = clock + 1 /\ local'[p][f]
  BY <1>2, <1>3 DEF LocalWrite, LocalClose, LocalDelete, TypeOK
<1>5. clock' >= clock
  BY <1>2, <1>3 DEF LocalWrite, LocalClose, LocalDelete
<1>6. PICK msgs \in Seq(Message) : msgs = << >> /\ Sends(p, msgs)
  BY <1>1, SendsNothing
<1>7. ASSUME NEW f \in Files, NEW i \in Ids, Shared(p, f, i)'
      PROVE  Shared(p, f, i) /\ disk'[p][f] = disk[p][f]
  <2>1. /\ i \in f_files[p] /\ file[p][i].name = f
        /\ disk'[p][f] # Absent /\ file[p][i].shared = disk'[p][f]
    BY <1>1, <1>7 DEF Shared
  <2>2. file[p][i].shared <= clock
    BY DEF SharedTimes
  <2>3. disk'[p][f] # clock + 1
    BY <1>3, <2>1, <2>2
  <2>4. disk'[p][f] = disk[p][f]
    BY <1>4, <2>1, <2>3
  <2>5. QED
    BY <2>1, <2>4 DEF Shared
<1>8. Tells(p, msgs)
  BY <1>6, <1>7 DEF Tells, NoDeletion
<1>9. SharesOnly(p)
  BY <1>1 DEF SharesOnly
<1>10. QED
  BY <1>4, <1>5, <1>6, <1>8, <1>9 DEF SourceStep

\* The objects that an entry is stored with, or that remain without one.
LEMMA EntryKeeps ==
    ASSUME IInv, NEW n \in Nodes, NEW f \in Files, NEW i, NEW timer, NEW x,
           StoreEntry(n, f, i, timer, x)
    PROVE  /\ i \in Ids /\ file'[n][i] = x
           /\ \A j \in Ids \ {i} : \/ file'[n][j] = file[n][j]
                                   \/ file'[n][j] = NoFile
           /\ f_files'[n] = f_files[n] \cup {i}
           /\ \A j \in f_files[n] \ {i} : file'[n][j] = file[n][j]
<1>1. /\ i \in Ids /\ file'[n][i] = x
      /\ f_files'[n] = f_files[n] \cup {i}
      /\ \A j \in f_files[n] \ {i} : file'[n][j] = file[n][j]
  BY EntryStored
<1>2. file[n] \in [Ids -> SharedFile]
  BY DEF IInv, TypeOK
<1>3. PICK objects : /\ objects = [file[n] EXCEPT ![i] = x]
                     /\ Store(n, f_files[n] \cup {i}, timer, objects)
  BY DEF StoreEntry
<1>4. \A j \in Ids \ {i} : objects[j] = file[n][j]
  BY <1>2, <1>3
<1>5. \A j \in Ids : file'[n][j] \in {objects[j], NoFile}
  BY <1>3 DEF Store, IInv, TypeOK
<1>6. QED
  BY <1>1, <1>4, <1>5

LEMMA ErasedKeeps ==
    ASSUME IInv, NEW n \in Nodes, NEW f \in Files, NEW table,
           RemoveEntry(n, f, table)
    PROVE  /\ \A j \in Ids : \/ file'[n][j] = file[n][j]
                             \/ file'[n][j] = NoFile
           /\ f_files'[n] \subseteq f_files[n]
           /\ \A j \in f_files'[n] : /\ file'[n][j] = file[n][j]
                                     /\ file[n][j].name # f
           /\ \A j \in f_files[n] : file[n][j].name # f => j \in f_files'[n]
<1>1. /\ table \in SUBSET Ids /\ f_modified_files[n] \in SUBSET Ids
      /\ table \in EraseFile(n, f)
  BY DEF RemoveEntry, EraseFile, IInv, TypeOK
<1>2. Store(n, table, f_modified_files[n], file[n])
  BY DEF RemoveEntry
<1>3. /\ f_files'[n] = table
      /\ \A i \in table : file'[n][i] = file[n][i]
      /\ \A j \in Ids : file'[n][j] \in {file[n][j], NoFile}
  <2>1. f_files'[n] = table /\ \A j \in f_files'[n] : file'[n][j] = file[n][j]
    BY <1>2, EntryErased DEF Store, IInv, TypeOK
  <2>2. file'[n] = [j \in Ids |-> IF j \in table \cup f_modified_files[n]
                                 THEN file[n][j] ELSE NoFile]
    BY <1>2 DEF Store, IInv, TypeOK
  <2>3. QED
    BY <2>1, <2>2
<1>4. /\ table \subseteq f_files[n]
      /\ \A j \in table : file[n][j].name # f
      /\ \A j \in f_files[n] : file[n][j].name # f => j \in table
  <2>1. CASE Named(n, f) = {}
    BY <1>1, <2>1 DEF EraseFile, Named
  <2>2. CASE Named(n, f) # {}
    <3>1. PICK i \in Named(n, f) : table = f_files[n] \ {i}
      BY <1>1, <2>2 DEF EraseFile
    <3>2. QED
      BY <3>1 DEF Named, IInv, OneEntryPerName
  <2>3. QED
    BY <2>1, <2>2
<1>5. QED
  BY <1>1, <1>3, <1>4

\* The entry of g is stored as x, and unless x has the announcement of the
\* object that was there, a message tells of it.
LEMMA SourceStores ==
    ASSUME IInv, NEW p \in Nodes, NEW g \in Files, NEW i, NEW timer, NEW x,
           StoreEntry(p, g, i, timer, x), disk' = disk, local' = local,
           \/ x.shared = Entry(p, g, i).shared
           \/ x.shared = disk[p][g],
           NEW msgs \in Seq(Message), Sends(p, msgs),
           \A f \in Files : NoDeletion(msgs, f),
           \/ x.shared = Entry(p, g, i).shared
           \/ \E k \in DOMAIN msgs : Says(msgs[k], g, i, disk[p][g])
    PROVE  SourceStep(p)
<1>1. /\ i \in Ids /\ file'[p][i] = x
      /\ \A j \in Ids \ {i} : \/ file'[p][j] = file[p][j]
                              \/ file'[p][j] = NoFile
      /\ f_files'[p] = f_files[p] \cup {i}
      /\ \A j \in f_files[p] \ {i} : file'[p][j] = file[p][j]
  BY EntryKeeps
<1>2. x.name = g /\ clock' = clock /\ clock \in Nat
  BY DEF StoreEntry, IInv, TypeOK
<1>3. \/ i \in f_files[p] /\ Entry(p, g, i) = file[p][i]
      \/ Entry(p, g, i).shared = Absent
  BY DEF Entry, NewFile, NoFile
<1>4. ASSUME NEW f \in Files, NEW j \in Ids, Shared(p, f, j)'
      PROVE  \/ Shared(p, f, j)
             \/ \E k \in DOMAIN msgs : Says(msgs[k], f, j, disk[p][f])
  <2>1. /\ j \in f_files'[p] /\ file'[p][j].name = f
        /\ disk[p][f] # Absent /\ file'[p][j].shared = disk[p][f]
    BY <1>4 DEF Shared
  <2>2. CASE j # i
    BY <1>1, <2>1, <2>2 DEF Shared
  <2>3. CASE j = i
    <3>1. f = g /\ x.shared = disk[p][g]
      BY <1>1, <1>2, <2>1, <2>3
    <3>2. CASE x.shared = Entry(p, g, i).shared
      <4>1. i \in f_files[p] /\ file[p][i].shared = disk[p][g]
        BY <1>3, <2>1, <3>1, <3>2
      <4>2. file[p][i].name = g
        BY <4>1, EntryType DEF IInv, StoreEntry, Entry
      <4>3. QED
        BY <2>1, <2>3, <3>1, <4>1, <4>2 DEF Shared
    <3>3. CASE \E k \in DOMAIN msgs : Says(msgs[k], g, i, disk[p][g])
      BY <2>3, <3>1, <3>3
    <3>4. QED
      BY <3>2, <3>3
  <2>4. QED
    BY <2>2, <2>3
<1>5. Tells(p, msgs)
  BY <1>4 DEF Tells
<1>6. SharesOnly(p)
  <2>1. NoFile.shared = Absent
    BY DEF NoFile
  <2>2. QED
    BY <1>1, <1>3, <2>1 DEF SharesOnly
<1>7. QED
  BY <1>2, <1>5, <1>6 DEF SourceStep

LEMMA SourceUpdates ==
    ASSUME IInv, NEW p \in Nodes, NEW g \in Files, NEW updated \in BOOLEAN,
           UpdatedFile(p, g, updated), disk' = disk, local' = local,
           clock' = clock
    PROVE  SourceStep(p)
<1> DEFINE v == disk[p][g]
<1>1. PICK i \in GetFile(p, g) :
        LET o == Entry(p, g, i)
            table == f_files[p] \cup {i}
            touched == SetLastUpdated(o, v)
            shared == SetStartSharing(touched, v)
        IN  \/ /\ SameStat(o, v)
               /\ Store(p, table, f_modified_files[p],
                        [file[p] EXCEPT ![i] = o])
               /\ UNCHANGED channel
            \/ /\ ~ SameStat(o, v)
               /\ updated
               /\ Store(p, table, f_modified_files[p],
                        [file[p] EXCEPT ![i] = shared])
               /\ Broadcast(p, << ChangedMessage(shared, i) >>)
            \/ /\ ~ SameStat(o, v)
               /\ ~ updated
               /\ Store(p, table, f_modified_files[p] \cup {i},
                        [file[p] EXCEPT ![i] = touched])
               /\ UNCHANGED channel
  BY DEF UpdatedFile
<1> DEFINE o == Entry(p, g, i)
           touched == SetLastUpdated(o, v)
           shared == SetStartSharing(touched, v)
<1>2. v \in Nat /\ v <= clock /\ clock \in Nat
  BY DEF IInv, TypeOK, TimesOK
<1>3. i \in Ids /\ o \in SharedFile /\ o.name = g /\ o.stat <= clock
  <2>1. i \in Ids /\ o \in SharedFile /\ o.name = g
    BY EntryType DEF IInv
  <2>2. file[p][i].stat <= clock
    BY <2>1 DEF IInv, TimesOK
  <2>3. QED
    BY <1>2, <2>1, <2>2 DEF Entry, NewFile, NoFile, Absent
<1>4. /\ touched \in SharedFile /\ touched.name = g /\ touched.stat = v
      /\ touched.shared = o.shared
  BY <1>2, <1>3 DEF SetLastUpdated, SharedFile
<1>5. v # Absent => /\ shared \in SharedFile /\ shared.name = g
                    /\ shared.stat = v /\ shared.shared = v
  BY <1>2, <1>4 DEF SetStartSharing, SharedFile
<1> HIDE DEF o, touched, shared
<1>6. ASSUME UNCHANGED channel
      PROVE  \E msgs \in Seq(Message) :
                 Sends(p, msgs) /\ \A f \in Files : NoDeletion(msgs, f)
  <2>1. PICK msgs \in Seq(Message) : msgs = << >> /\ Sends(p, msgs)
    BY <1>6, SendsNothing
  <2>2. \A k \in DOMAIN msgs : FALSE
    BY <2>1
  <2>3. \A f \in Files : NoDeletion(msgs, f)
    BY <2>2 DEF NoDeletion
  <2>4. QED
    BY <2>1, <2>3
<1>7. CASE /\ Store(p, f_files[p] \cup {i}, f_modified_files[p],
                    [file[p] EXCEPT ![i] = o])
           /\ UNCHANGED channel
  <2>1. StoreEntry(p, g, i, f_modified_files[p], o)
    BY <1>3, <1>7 DEF StoreEntry
  <2>2. o.shared = Entry(p, g, i).shared
    BY DEF o
  <2>3. QED
    BY <1>6, <1>7, <2>1, <2>2, SourceStores
<1>8. CASE /\ ~ SameStat(o, v)
           /\ Store(p, f_files[p] \cup {i}, f_modified_files[p],
                    [file[p] EXCEPT ![i] = shared])
           /\ Broadcast(p, << ChangedMessage(shared, i) >>)
  <2>1. v # Absent
    BY <1>8 DEF SameStat
  <2>2. StoreEntry(p, g, i, f_modified_files[p], shared)
    BY <1>2, <1>5, <1>8, <2>1 DEF StoreEntry
  <2>3. PICK m : m = ChangedMessage(shared, i)
    OBVIOUS
  <2>4. /\ m \in Message /\ m.id = i /\ m.name = g /\ m.mtime = v
        /\ m.cmd = "changed"
    BY <1>2, <1>3, <1>5, <2>1, <2>3 DEF ChangedMessage, Message
  <2>5. Sends(p, << m >>)
    BY <1>8, <2>3 DEF Broadcast, Sends, IInv, TypeOK
  <2>6. /\ << m >> \in Seq(Message) /\ 1 \in DOMAIN << m >>
        /\ << m >>[1] = m
        /\ \A k \in DOMAIN << m >> : << m >>[k] = m
    BY <2>4
  <2>7. PICK msgs : msgs = << m >>
    OBVIOUS
  <2>8. /\ msgs \in Seq(Message) /\ Sends(p, msgs)
        /\ \A f \in Files : NoDeletion(msgs, f)
    BY <2>4, <2>5, <2>6, <2>7 DEF NoDeletion
  <2>9. \E k \in DOMAIN msgs : Says(msgs[k], g, i, disk[p][g])
    BY <2>4, <2>6, <2>7 DEF Says
  <2>10. shared.shared = disk[p][g]
    BY <1>5, <2>1
  <2>11. QED
    BY <2>2, <2>8, <2>9, <2>10, SourceStores
<1>9. CASE /\ Store(p, f_files[p] \cup {i}, f_modified_files[p] \cup {i},
                    [file[p] EXCEPT ![i] = touched])
           /\ UNCHANGED channel
  <2>1. StoreEntry(p, g, i, f_modified_files[p] \cup {i}, touched)
    BY <1>2, <1>4, <1>9 DEF StoreEntry
  <2>2. touched.shared = Entry(p, g, i).shared
    BY <1>4 DEF o
  <2>3. QED
    BY <1>6, <1>9, <2>1, <2>2, SourceStores
<1>10. QED
  BY <1>1, <1>7, <1>8, <1>9 DEF o, touched, shared

LEMMA SourceDeletes ==
    ASSUME IInv, NEW p \in Nodes, NEW g \in Files, DeletedFile(p, g),
           disk' = disk, local' = local, clock' = clock
    PROVE  SourceStep(p)
<1>1. PICK table \in EraseFile(p, g) :
          Store(p, table, f_modified_files[p], file[p])
  BY DEF DeletedFile
<1>2. RemoveEntry(p, g, table)
  BY <1>1 DEF RemoveEntry
<1>3. /\ \A j \in Ids : \/ file'[p][j] = file[p][j]
                        \/ file'[p][j] = NoFile
      /\ f_files'[p] \subseteq f_files[p]
      /\ \A j \in f_files'[p] : /\ file'[p][j] = file[p][j]
                                /\ file[p][j].name # g
  BY <1>2, ErasedKeeps
<1>4. PICK m : m = DeletedMessage(g)
  OBVIOUS
<1>5. m \in Message /\ m.name = g
  BY <1>4 DEF DeletedMessage, Message
<1>6. Sends(p, << m >>)
  BY <1>4 DEF DeletedFile, Broadcast, Sends, IInv, TypeOK
<1>7. << m >> \in Seq(Message) /\ \A k \in DOMAIN << m >> : << m >>[k] = m
  BY <1>5
<1>8. PICK msgs : msgs = << m >>
  OBVIOUS
<1>9. ASSUME NEW f \in Files, NEW i \in Ids, Shared(p, f, i)'
      PROVE  NoDeletion(msgs, f) /\ Shared(p, f, i)
  <2>1. f # g /\ Shared(p, f, i)
    BY <1>3, <1>9 DEF Shared
  <2>2. QED
    BY <1>5, <1>7, <1>8, <2>1 DEF NoDeletion
<1>10. Tells(p, msgs)
  BY <1>9 DEF Tells
<1>11. SharesOnly(p)
  <2>1. NoFile.shared = Absent
    BY DEF NoFile
  <2>2. QED
    BY <1>3, <2>1 DEF SharesOnly
<1>12. clock' >= clock
  BY DEF IInv, TypeOK
<1>13. msgs \in Seq(Message) /\ Sends(p, msgs)
  BY <1>6, <1>7, <1>8
<1>14. QED
  BY <1>10, <1>11, <1>12, <1>13 DEF SourceStep

LEMMA SourceNotices ==
    ASSUME IInv, NEW p \in Nodes, ProcessEvent(p)
    PROVE  SourceStep(p)
<1>1. /\ events[p] # << >> /\ clock' = clock /\ disk' = disk /\ local' = local
  BY DEF ProcessEvent
<1>2. PICK e \in Event : e = Head(events[p])
  BY <1>1 DEF IInv, TypeOK
<1>3. e.name \in Files
  BY DEF Event
<1>4. \/ \E u \in BOOLEAN : UpdatedFile(p, e.name, u)
      \/ DeletedFile(p, e.name)
  BY <1>2 DEF ProcessEvent
<1>5. QED
  BY <1>1, <1>3, <1>4, SourceUpdates, SourceDeletes

LEMMA SourceAnnounces ==
    ASSUME IInv, NEW p \in Nodes, NEW due \in SUBSET Pending(p),
           ProcessTimeout(p, due)
    PROVE  SourceStep(p)
<1> DEFINE announce(i) == SetStartSharing(file[p][i], disk[p][file[p][i].name])
           shared == [i \in Ids |-> IF i \in due THEN announce(i)
                                                 ELSE file[p][i]]
           timer == Pending(p) \ due
<1>1. /\ TypeOK /\ clock \in Nat
      /\ disk \in [Nodes -> [Files -> Nat]]
      /\ f_files[p] \in SUBSET Ids /\ f_modified_files[p] \in SUBSET Ids
      /\ file[p] \in [Ids -> SharedFile]
  BY DEF IInv, TypeOK
<1>2. /\ Store(p, f_files[p], timer, shared) /\ disk' = disk
      /\ local' = local /\ clock' = clock
  BY DEF ProcessTimeout
<1>3. PICK order \in SetToSeqs(Found(p, due)) :
          Broadcast(p, [k \in DOMAIN order |->
                           ChangedMessage(shared[order[k]], order[k])])
  BY DEF ProcessTimeout
<1>4. /\ due \in SUBSET Ids /\ timer \in SUBSET Ids
      /\ due \subseteq f_modified_files[p]
  BY <1>1 DEF Pending
<1>5. \A i \in Referenced(p) : file[p][i].name \in Files
  BY DEF IInv, TypeOK
<1>6. ASSUME NEW i \in due, NEW f, f = file[p][i].name
      PROVE  /\ f \in Files /\ shared[i].name = f
             /\ disk[p][f] = Absent => shared[i].shared = file[p][i].shared
             /\ disk[p][f] # Absent =>
                    /\ ChangedMessage(shared[i], i) \in Message
                    /\ shared[i].shared = disk[p][f]
                    /\ Says(ChangedMessage(shared[i], i), f, i, disk[p][f])
  <2>1. i \in Ids /\ file[p][i] \in SharedFile /\ f \in Files
    BY <1>1, <1>4, <1>5, <1>6 DEF Referenced
  <2>2. disk[p][f] \in Nat
    BY <1>1, <2>1
  <2>3. shared[i] = announce(i)
    BY <2>1
  <2>4. announce(i) \in SharedFile /\ announce(i).name = f
    BY <1>6, <2>1, <2>2, SetStartSharingType
  <2>5. /\ disk[p][f] = Absent => announce(i).shared = file[p][i].shared
        /\ disk[p][f] # Absent => /\ announce(i).stat = disk[p][f]
                                  /\ announce(i).shared = disk[p][f]
    BY <1>6, <2>1, <2>2 DEF SetStartSharing, SharedFile
  <2> HIDE DEF announce, shared
  <2>6. PICK v \in Nat : v = disk[p][f]
    BY <2>2
  <2>7. PICK m : m = ChangedMessage(shared[i], i)
    OBVIOUS
  <2>8. v # Absent => /\ m.cmd = "changed" /\ m.name = f /\ m.id = i
                      /\ m.mtime = v /\ m \in Message
    BY <2>1, <2>3, <2>4, <2>5, <2>6, <2>7 DEF ChangedMessage, Message
  <2>9. QED
    BY <2>1, <2>3, <2>4, <2>5, <2>6, <2>7, <2>8 DEF Says
<1>7. \A i \in Ids \ due : shared[i] = file[p][i]
  OBVIOUS
<1> HIDE DEF shared, timer
<1>8. /\ f_files'[p] = f_files[p]
      /\ \A i \in f_files[p] : file'[p][i] = shared[i]
      /\ \A i \in Ids : file'[p][i] \in {shared[i], NoFile}
  <2>1. Store(p, f_files[p], timer, shared)
    BY <1>2
  <2>2. /\ f_files'[p] = f_files[p] /\ f_modified_files'[p] = timer
        /\ \A i \in f_files[p] \cup timer : file'[p][i] = shared[i]
        /\ \A i \in Ids \ (f_files[p] \cup timer) : file'[p][i] = NoFile
        /\ \A m \in Nodes \ {p} :
               /\ f_files'[m] = f_files[m]
               /\ f_modified_files'[m] = f_modified_files[m]
               /\ file'[m] = file[m]
    BY <1>1, <1>4, <2>1, StoreFrame
  <2>3. QED
    BY <2>2
<1> DEFINE msgs == [k \in DOMAIN order |->
                       ChangedMessage(shared[order[k]], order[k])]
<1>9. Found(p, due) \subseteq due /\ IsFiniteSet(Found(p, due))
  BY <1>4, FS_Subset, FiniteAssumption DEF Found
<1>10. order \in Seq(Found(p, due))
  BY <1>9, SetToSeqsType
<1>11. \A i \in Found(p, due) : /\ ChangedMessage(shared[i], i) \in Message
                                /\ ChangedMessage(shared[i], i).cmd = "changed"
  BY <1>6, <1>9 DEF Found, ChangedMessage
<1>12. /\ msgs \in Seq(Message)
       /\ \A k \in DOMAIN msgs : msgs[k].cmd = "changed"
  BY <1>10, <1>11
<1>13. Sends(p, msgs)
  BY <1>3 DEF Broadcast, Sends, IInv, TypeOK
<1>14. ASSUME NEW i \in Found(p, due), NEW f, f = file[p][i].name
       PROVE  \E k \in DOMAIN msgs : Says(msgs[k], f, i, disk[p][f])
  <2>1. PICK k \in DOMAIN order : order[k] = i
    BY <1>9, SetToSeqsOnto
  <2>2. k \in DOMAIN msgs /\ msgs[k] = ChangedMessage(shared[i], i)
    BY <2>1
  <2>3. i \in due /\ disk[p][f] # Absent
    BY <1>14 DEF Found
  <2>4. QED
    BY <1>6, <1>14, <2>2, <2>3
<1> HIDE DEF msgs
<1>15. ASSUME NEW f \in Files, NEW i \in Ids, Shared(p, f, i)'
       PROVE  /\ NoDeletion(msgs, f)
              /\ \/ Shared(p, f, i)
                 \/ \E k \in DOMAIN msgs : Says(msgs[k], f, i, disk[p][f])
  <2>1. /\ i \in f_files[p] /\ shared[i].name = f
        /\ disk[p][f] # Absent /\ shared[i].shared = disk[p][f]
    BY <1>2, <1>8, <1>15 DEF Shared
  <2>2. NoDeletion(msgs, f)
    BY <1>12 DEF NoDeletion
  <2>3. CASE i \notin due
    BY <1>7, <2>1, <2>2, <2>3 DEF Shared
  <2>4. CASE i \in due
    <3>1. f = file[p][i].name
      BY <1>6, <2>1, <2>4
    <3>2. i \in Found(p, due)
      BY <2>1, <2>4, <3>1 DEF Found
    <3>3. QED
      BY <1>14, <2>2, <3>1, <3>2
  <2>5. QED
    BY <2>3, <2>4
<1>16. Tells(p, msgs)
  BY <1>2, <1>15 DEF Tells
<1>17. SharesOnly(p)
  <2>1. NoFile.shared = Absent
    BY DEF NoFile
  <2>2. \A i \in Ids : \/ shared[i].shared = file[p][i].shared
                       \/ \E f \in Files : shared[i].shared = disk[p][f]
    BY <1>6, <1>7
  <2>3. QED
    BY <1>8, <2>1, <2>2 DEF SharesOnly
<1>18. QED
  BY <1>1, <1>2, <1>12, <1>13, <1>16, <1>17 DEF SourceStep

-----------------------------------------------------------------------------
(* The steps of the invariant, by who acts. *)

CRest == /\ FromPrimary /\ PrimaryLocal /\ SharedTimes
         /\ SecondaryKnows /\ OneServed /\ VersionsOK /\ SharedArrives

LEMMA SourceActs ==
    ASSUME Converging, IInv, [Next]_vars, CRest, NEW p \in SendOnly,
           Local(p) \/ ProcessEvent(p) \/ Timeout(p)
    PROVE  CRest'
<1>1. /\ p \in Nodes /\ p \notin ReceiveOnly /\ ReceiveOnly \subseteq Nodes
      /\ \A a \in SendOnly : a = p
  BY Modes DEF Converging
<1>2. /\ FromPrimary /\ PrimaryLocal /\ SharedTimes /\ SecondaryKnows
      /\ OneServed /\ VersionsOK /\ SharedArrives
  BY DEF CRest
<1>3. SourceStep(p)
  <2>1. ASSUME NEW due \in SUBSET Pending(p), ProcessTimeout(p, due)
        PROVE  SourceStep(p)
    BY <1>1, <2>1, SourceAnnounces
  <2>2. QED
    BY <1>1, <1>2, <2>1, SourceWrites, SourceNotices DEF Timeout
<1>4. Only(p) /\ receivers' = receivers
  <2>1. ASSUME NEW due \in SUBSET Pending(p), ProcessTimeout(p, due)
        PROVE  Only(p) /\ receivers' = receivers
    BY <1>1, <2>1, TimeoutOnly
  <2>2. QED
    BY <1>1, <2>1, LocalOnly, EventOnly DEF Timeout
<1>5. /\ clock \in Nat /\ disk \in [Nodes -> [Files -> Nat]]
      /\ receivers \in [Nodes -> Seq(Receiver)]
      /\ channel \in [Nodes -> [Nodes -> Seq(Message)]]
  BY DEF IInv, TypeOK
<1>6. \A s \in ReceiveOnly : /\ s \in Nodes /\ s # p /\ disk'[s] = disk[s]
                             /\ file'[s] = file[s] /\ f_files'[s] = f_files[s]
  BY <1>1, <1>4 DEF Only
<1>7. FromPrimary'
  BY <1>2, <1>4 DEF FromPrimary
<1>8. PrimaryLocal'
  BY <1>1, <1>2, <1>3 DEF SourceStep, PrimaryLocal
<1>9. SharedTimes'
  <2>1. ASSUME NEW i \in Ids PROVE file'[p][i].shared <= clock'
    <3>1. file[p][i] \in SharedFile /\ file[p][i].shared <= clock
      BY <1>1, <1>2 DEF IInv, TypeOK, SharedTimes
    <3>2. file[p][i].shared \in Nat
      BY <3>1 DEF SharedFile
    <3>3. \A f \in Files : disk[p][f] \in Nat /\ disk[p][f] <= clock
      BY <1>1, <1>5 DEF IInv, TimesOK
    <3>4. PICK x : x = file'[p][i].shared
      OBVIOUS
    <3>5. \/ x = file[p][i].shared \/ x = Absent
          \/ \E f \in Files : x = disk[p][f]
      BY <1>3, <3>4 DEF SourceStep, SharesOnly
    <3>6. x \in Nat /\ x <= clock
      BY <1>5, <3>1, <3>2, <3>3, <3>5 DEF Absent
    <3>7. IInv'
      BY NextInv
    <3>8. clock' \in Nat /\ clock' >= clock
      BY <1>3, <3>7 DEF SourceStep, IInv, TypeOK
    <3>9. QED
      BY <1>5, <3>4, <3>6, <3>8
  <2>2. QED
    BY <1>1, <2>1 DEF SharedTimes
<1>10. SecondaryKnows'
  BY <1>2, <1>6 DEF SecondaryKnows, Named
<1>11. OneServed'
  BY <1>2, <1>4 DEF OneServed
<1>12. VersionsOK'
  <2>1. ASSUME NEW s \in ReceiveOnly, NEW f \in Files
        PROVE  NotBeyond(disk'[p][f], disk[s][f], receivers[s], f)
    <3>1. NotBeyond(disk[p][f], disk[s][f], receivers[s], f)
      BY <1>2 DEF VersionsOK
    <3>2. PICK w \in Nat : w = disk[s][f] /\ w <= clock
      BY <1>5, <1>6 DEF IInv, TimesOK
    <3>3. ASSUME NEW k \in DOMAIN receivers[s]
          PROVE  receivers[s][k].version \in Nat
                 /\ receivers[s][k].version <= clock
      <4>1. receivers[s][k] \in Receiver
        BY <1>5, <1>6
      <4>2. QED
        BY <1>6, <4>1 DEF Receiver, IInv, TimesOK
    <3>4. NotBeyond(clock + 1, w, receivers[s], f)
      <4>1. w <= clock + 1
        BY <1>5, <3>2
      <4>2. \A k \in DOMAIN receivers[s] :
                receivers[s][k].version <= clock + 1
        BY <1>5, <3>3
      <4>3. QED
        BY <3>1, <3>2, <4>1, <4>2 DEF NotBeyond
    <3>5. NotBeyond(Absent, w, receivers[s], f)
      BY <3>1, <3>2 DEF NotBeyond
    <3>6. disk'[p][f] \in {disk[p][f], Absent, clock + 1}
      BY <1>3 DEF SourceStep
    <3>7. QED
      BY <3>1, <3>2, <3>4, <3>5, <3>6
  <2>2. QED
    BY <1>1, <1>4, <1>6, <2>1 DEF VersionsOK
<1>13. SharedArrives'
  <2>1. PICK msgs \in Seq(Message) : Tells(p, msgs) /\ Sends(p, msgs)
    BY <1>3 DEF SourceStep
  <2>2. ASSUME NEW s \in ReceiveOnly, NEW f \in Files, NEW i \in Ids,
               Shared(p, f, i)'
        PROVE  OnItsWay(channel[p][s] \o msgs, receivers[s], disk[s][f],
                        f, i, disk'[p][f])
    <3>1. NoDeletion(msgs, f)
      BY <2>1, <2>2 DEF Tells
    <3>2. \/ OnItsWay(channel[p][s], receivers[s], disk[s][f],
                      f, i, disk'[p][f])
          \/ \E k \in DOMAIN msgs : Says(msgs[k], f, i, disk'[p][f])
      BY <1>2, <2>1, <2>2 DEF Tells, SharedArrives
    <3>3. channel[p][s] \in Seq(Message)
      BY <1>1, <1>5, <1>6
    <3>4. QED
      BY <3>1, <3>2, <3>3, WayExtended
  <2>3. \A s \in ReceiveOnly : channel'[p][s] = channel[p][s] \o msgs
    BY <1>6, <2>1 DEF Sends
  <2>4. ASSUME NEW a \in SendOnly, NEW s \in ReceiveOnly, NEW f \in Files,
               NEW i \in Ids, Shared(a, f, i)'
        PROVE  OnItsWay(channel'[a][s], receivers'[s], disk'[s][f],
                        f, i, disk'[a][f])
    <3>1. a = p
      BY <1>1
    <3>2. Shared(p, f, i)'
      BY <2>4, <3>1
    <3>3. QED
      BY <1>4, <1>6, <2>2, <2>3, <3>1, <3>2
  <2>5. QED
    BY <2>4 DEF SharedArrives
<1>14. QED
  BY <1>7, <1>8, <1>9, <1>10, <1>11, <1>12, <1>13 DEF CRest

\* What the source has and the computers it sends to have stays as it is.
SourceStays(p) ==
    /\ disk'[p] = disk[p] /\ local'[p] = local[p]
    /\ file'[p] = file[p] /\ f_files'[p] = f_files[p]
    /\ clock' >= clock

LEMMA SourceKeeps ==
    ASSUME Converging, IInv, [Next]_vars, CRest, NEW p \in SendOnly,
           SourceStays(p)
    PROVE  PrimaryLocal' /\ SharedTimes'
<1>1. p \in Nodes /\ \A a \in SendOnly : a = p
  BY Modes DEF Converging
<1>2. PrimaryLocal /\ SharedTimes
  BY DEF CRest
<1>3. PrimaryLocal'
  BY <1>1, <1>2 DEF PrimaryLocal, SourceStays
<1>4. ASSUME NEW i \in Ids PROVE file'[p][i].shared <= clock'
  <2>1. file[p][i] \in SharedFile /\ file[p][i].shared <= clock
    BY <1>1, <1>2 DEF IInv, TypeOK, SharedTimes
  <2>2. file[p][i].shared \in Nat
    BY <2>1 DEF SharedFile
  <2>3. clock' \in Nat /\ clock \in Nat
    BY NextInv DEF IInv, TypeOK
  <2>4. QED
    BY <2>1, <2>2, <2>3 DEF SourceStays
<1>5. SharedTimes'
  BY <1>1, <1>4 DEF SharedTimes
<1>6. QED
  BY <1>3, <1>5

\* Everything but the messages of a computer in no mode stays.
LEMMA BystanderActs ==
    ASSUME Converging, IInv, [Next]_vars, CRest, NEW n \in Nodes,
           n \notin SendOnly \cup ReceiveOnly, Only(n),
           receivers' = receivers, clock' >= clock,
           \A p \in SendOnly, s \in ReceiveOnly : channel'[p][s] = channel[p][s]
    PROVE  CRest'
<1>1. SendOnly \subseteq Nodes /\ ReceiveOnly \subseteq Nodes
  BY Modes
<1>2. /\ FromPrimary /\ PrimaryLocal /\ SharedTimes /\ SecondaryKnows
      /\ OneServed /\ VersionsOK /\ SharedArrives
  BY DEF CRest
<1>3. \A m \in SendOnly \cup ReceiveOnly :
          /\ disk'[m] = disk[m] /\ local'[m] = local[m]
          /\ file'[m] = file[m] /\ f_files'[m] = f_files[m]
  BY <1>1 DEF Only
<1>4. ASSUME NEW p \in SendOnly PROVE PrimaryLocal' /\ SharedTimes'
  BY <1>3, SourceKeeps DEF SourceStays
<1>5. PrimaryLocal' /\ SharedTimes'
  <2>1. CASE SendOnly = {}
    BY <2>1 DEF PrimaryLocal, SharedTimes
  <2>2. QED
    BY <1>4, <2>1
<1>6. FromPrimary' /\ OneServed'
  BY <1>2 DEF FromPrimary, OneServed
<1>7. SecondaryKnows'
  BY <1>2, <1>3 DEF SecondaryKnows, Named
<1>8. VersionsOK'
  BY <1>2, <1>3 DEF VersionsOK
<1>9. SharedArrives'
  <2>1. \A p \in SendOnly, f \in Files, i \in Ids :
            Shared(p, f, i)' <=> Shared(p, f, i)
    BY <1>3 DEF Shared
  <2>2. QED
    BY <1>2, <1>3, <2>1 DEF SharedArrives
<1>10. QED
  BY <1>5, <1>6, <1>7, <1>8, <1>9 DEF CRest

\* The table of s tells after the step what is on its disk.
KnowsAfter(s) ==
    \A f \in Files :
        /\ \A j \in f_files'[s] : file'[s][j].name = f
                                      => file'[s][j].stat = disk'[s][f]
        /\ (\A j \in f_files'[s] : file'[s][j].name # f)
               => disk'[s][f] = Absent

LEMMA KnowsStep ==
    ASSUME SecondaryKnows, ReceiveOnly \subseteq Nodes,
           NEW s \in ReceiveOnly, KnowsAfter(s), Only(s)
    PROVE  SecondaryKnows'
<1>1. \A t \in ReceiveOnly : t # s => /\ disk'[t] = disk[t]
                                      /\ file'[t] = file[t]
                                      /\ f_files'[t] = f_files[t]
  BY DEF Only
<1>2. ASSUME NEW t \in ReceiveOnly, NEW f \in Files
      PROVE  /\ \A i \in Named(t, f)' : file'[t][i].stat = disk'[t][f]
             /\ Named(t, f)' = {} => disk'[t][f] = Absent
  <2>1. CASE t = s
    BY <2>1 DEF KnowsAfter, Named
  <2>2. CASE t # s
    BY <1>1, <2>2 DEF SecondaryKnows, Named
  <2>3. QED
    BY <2>1, <2>2
<1>3. QED
  BY <1>2 DEF SecondaryKnows

LEMMA KnowsStored ==
    ASSUME IInv, SecondaryKnows, NEW s \in ReceiveOnly, s \in Nodes,
           NEW g \in Files, NEW i, NEW timer, NEW x,
           StoreEntry(s, g, i, timer, x), disk'[s][g] = x.stat,
           \A f \in Files \ {g} : disk'[s][f] = disk[s][f]
    PROVE  KnowsAfter(s)
<1>1. /\ file'[s][i] = x
      /\ f_files'[s] = f_files[s] \cup {i}
      /\ \A j \in f_files[s] \ {i} : /\ file'[s][j] = file[s][j]
                                    /\ file[s][j].name # g
  BY EntryStored
<1>2. x.name = g /\ (i \in f_files[s] => file[s][i].name = g)
  <2>1. i \in f_files[s] => Entry(s, g, i) = file[s][i]
    BY DEF Entry
  <2>2. QED
    BY <2>1, EntryType DEF StoreEntry, IInv
<1>3. ASSUME NEW f \in Files
      PROVE  /\ \A j \in f_files'[s] : file'[s][j].name = f
                                           => file'[s][j].stat = disk'[s][f]
             /\ (\A j \in f_files'[s] : file'[s][j].name # f)
                    => disk'[s][f] = Absent
  <2>1. CASE f = g
    BY <1>1, <1>2, <2>1
  <2>2. CASE f # g
    <3>1. \A j \in f_files'[s] : file'[s][j].name = f =>
              j \in f_files[s] /\ file'[s][j] = file[s][j]
      BY <1>1, <1>2, <2>2
    <3>2. \A j \in f_files[s] : file[s][j].name = f =>
              j \in f_files'[s] /\ file'[s][j] = file[s][j]
      BY <1>1, <1>2, <2>2
    <3>3. disk'[s][f] = disk[s][f]
      BY <2>2
    <3>4. QED
      BY <3>1, <3>2, <3>3 DEF SecondaryKnows, Named
  <2>3. QED
    BY <2>1, <2>2
<1>4. QED
  BY <1>3 DEF KnowsAfter

LEMMA KnowsErased ==
    ASSUME IInv, SecondaryKnows, NEW s \in ReceiveOnly, s \in Nodes,
           NEW g \in Files, NEW table, RemoveEntry(s, g, table),
           disk'[s][g] = Absent,
           \A f \in Files \ {g} : disk'[s][f] = disk[s][f]
    PROVE  KnowsAfter(s)
<1>1. /\ f_files'[s] \subseteq f_files[s]
      /\ \A j \in f_files'[s] : /\ file'[s][j] = file[s][j]
                                /\ file[s][j].name # g
      /\ \A j \in f_files[s] : file[s][j].name # g => j \in f_files'[s]
  BY ErasedKeeps
<1>2. ASSUME NEW f \in Files
      PROVE  /\ \A j \in f_files'[s] : file'[s][j].name = f
                                           => file'[s][j].stat = disk'[s][f]
             /\ (\A j \in f_files'[s] : file'[s][j].name # f)
                    => disk'[s][f] = Absent
  BY <1>1 DEF SecondaryKnows, Named
<1>3. QED
  BY <1>2 DEF KnowsAfter

\* The object get_file() returns tells what is on the disk.
LEMMA EntryKnows ==
    ASSUME SecondaryKnows, NEW s \in ReceiveOnly, NEW f \in Files,
           NEW i \in GetFile(s, f)
    PROVE  Entry(s, f, i).stat = disk[s][f]
<1>1. CASE i \in Named(s, f)
  BY <1>1 DEF SecondaryKnows, Named, Entry
<1>2. CASE i \notin Named(s, f)
  <2>1. Named(s, f) = {} /\ i \notin f_files[s]
    BY <1>2 DEF GetFile, InUse, Referenced
  <2>2. QED
    BY <2>1 DEF SecondaryKnows, Entry, NewFile, NoFile
<1>3. QED
  BY <1>1, <1>2

\* A receiver that nothing was served to is appended.
LEMMA ReceiverAppended ==
    ASSUME NEW q \in Seq(Receiver), NEW r \in Receiver, r.version = Absent
    PROVE  /\ FirstServed(q) => FirstServed(Append(q, r))
           /\ \A f : \A v \in Nat, w \in Nat :
                  NotBeyond(v, w, q, f) => NotBeyond(v, w, Append(q, r), f)
           /\ \A k \in DOMAIN Append(q, r) :
                  \/ k \in DOMAIN q /\ Append(q, r)[k] = q[k]
                  \/ Append(q, r)[k] = r
<1>1. PICK a \in Nat : a = Len(q)
  OBVIOUS
<1>2. PICK s : s = Append(q, r)
  OBVIOUS
<1>3. /\ DOMAIN s = 1..(a + 1) /\ DOMAIN q = 1..a
      /\ \A k \in 1..a : s[k] = q[k]
      /\ s[a + 1] = r
  BY <1>1, <1>2
<1>4. \A k \in 1..(a + 1) : (k \in 1..a /\ s[k] = q[k]) \/ k = a + 1
  BY <1>3
<1>5. FirstServed(q) => FirstServed(s)
  <2> SUFFICES ASSUME FirstServed(q), NEW j \in 1..(a + 1),
                      NEW k \in 1..(a + 1), j < k, s[j].name = s[k].name
               PROVE  s[k].version = Absent
    BY <1>3 DEF FirstServed
  <2>1. CASE k = a + 1
    BY <1>3, <2>1
  <2>2. CASE k # a + 1
    BY <1>3, <2>2 DEF FirstServed
  <2>3. QED
    BY <2>1, <2>2
<1>6. ASSUME NEW v \in Nat, NEW w \in Nat, NEW f, NotBeyond(v, w, q, f)
      PROVE  NotBeyond(v, w, s, f)
  BY <1>3, <1>4, <1>6 DEF NotBeyond
<1>7. QED
  BY <1>2, <1>3, <1>4, <1>5, <1>6

\* A receive-only computer s reads a message of the source p.
LEMMA MessageActs ==
    ASSUME Converging, IInv, [Next]_vars, CRest, NEW p \in SendOnly,
           NEW s \in ReceiveOnly, ReceiveMessage(s, p)
    PROVE  CRest'
<1>1. /\ p \in Nodes /\ s \in Nodes /\ s # p /\ ReceiveOnly \subseteq Nodes
      /\ \A a \in SendOnly : a = p
  BY Modes DEF Converging
<1>2. /\ FromPrimary /\ PrimaryLocal /\ SharedTimes /\ SecondaryKnows
      /\ OneServed /\ VersionsOK /\ SharedArrives
  BY DEF CRest
<1>3. /\ Only(s) /\ clock' = clock /\ channel[p][s] # << >>
      /\ channel'[p][s] = Tail(channel[p][s])
      /\ \A t \in Nodes : t # s => channel'[p][t] = channel[p][t]
  BY <1>1, ReceiveOnlyOne
<1>4. /\ clock \in Nat /\ disk \in [Nodes -> [Files -> Nat]]
      /\ receivers \in [Nodes -> Seq(Receiver)]
      /\ channel \in [Nodes -> [Nodes -> Seq(Message)]]
  BY DEF IInv, TypeOK
<1>5. SourceStays(p)
  BY <1>1, <1>3, <1>4 DEF Only, SourceStays
<1>6. PrimaryLocal' /\ SharedTimes'
  BY <1>5, SourceKeeps
<1>7. PICK m \in Message :
          /\ m = Head(channel[p][s])
          /\ \/ m.cmd = "changed" /\ ReceivesChange(s, p, m)
             \/ m.cmd = "deleted" /\ ReceivesDeletion(s, m.name)
  BY <1>1, ReceiveEffect
<1>8. PICK g \in Files : g = m.name
  BY DEF Message
<1>9. \/ receivers'[s] = receivers[s]
      \/ \E r \in Receiver : /\ r.src = p /\ r.version = Absent
                             /\ receivers'[s] = Append(receivers[s], r)
  BY <1>7 DEF ReceivesChange, ReceivesDeletion, Connects
<1>10. \A t \in ReceiveOnly : t # s => /\ disk'[t] = disk[t]
                                       /\ receivers'[t] = receivers[t]
  BY <1>1, <1>3 DEF Only
<1>11. /\ FirstServed(receivers'[s])
       /\ \A k \in DOMAIN receivers'[s] : receivers'[s][k].src \in SendOnly
       /\ \A f : \A v \in Nat, w \in Nat :
              NotBeyond(v, w, receivers[s], f)
                  => NotBeyond(v, w, receivers'[s], f)
  <2>1. PICK q \in Seq(Receiver) : q = receivers[s]
    BY <1>1, <1>4
  <2>2. /\ FirstServed(q)
        /\ \A k \in DOMAIN q : q[k].src \in SendOnly
    BY <1>1, <1>2, <2>1 DEF OneServed, FromPrimary
  <2>3. ASSUME NEW r \in Receiver, r.src = p, r.version = Absent,
               receivers'[s] = Append(q, r)
        PROVE  /\ FirstServed(receivers'[s])
               /\ \A k \in DOMAIN receivers'[s] :
                      receivers'[s][k].src \in SendOnly
               /\ \A f : \A v \in Nat, w \in Nat :
                      NotBeyond(v, w, q, f)
                          => NotBeyond(v, w, receivers'[s], f)
    <3>1. PICK a : a = Append(q, r)
      OBVIOUS
    <3>2. /\ FirstServed(a)
          /\ \A f : \A v \in Nat, w \in Nat :
                 NotBeyond(v, w, q, f) => NotBeyond(v, w, a, f)
          /\ \A k \in DOMAIN a : (k \in DOMAIN q /\ a[k] = q[k]) \/ a[k] = r
      BY <2>2, <2>3, <3>1, ReceiverAppended
    <3>3. \A k \in DOMAIN a : a[k].src \in SendOnly
      BY <2>2, <2>3, <3>2
    <3>4. QED
      BY <2>3, <3>1, <3>2, <3>3
  <2>4. QED
    BY <1>9, <2>1, <2>2, <2>3
<1>12. FromPrimary'
  <2>1. \A k \in DOMAIN receivers'[s] : receivers'[s][k].src \in SendOnly
    BY <1>11
  <2>2. QED
    BY <1>2, <1>3, <2>1 DEF FromPrimary, Only
<1>13. OneServed'
  <2>1. FirstServed(receivers'[s])
    BY <1>11
  <2>2. QED
    BY <1>2, <1>3, <2>1 DEF OneServed, Only
<1>14. \/ disk'[s] = disk[s]
       \/ /\ disk'[s][g] = Absent
          /\ \A f \in Files \ {g} : disk'[s][f] = disk[s][f]
          /\ m.cmd = "deleted"
  BY <1>1, <1>4, <1>7, <1>8 DEF ReceivesChange, ReceivesDeletion
<1>15. SecondaryKnows'
  <2>1. CASE ReceivesChange(s, p, m)
    <3>1. PICK i \in GetFile(s, g), x \in SharedFile :
              /\ x = Entry(s, g, i)
              /\ StoreEntry(s, g, i, f_modified_files[s], x)
      BY <1>8, <2>1 DEF ReceivesChange
    <3>2. x.stat = disk[s][g] /\ disk' = disk
      BY <1>2, <2>1, <3>1, EntryKnows DEF ReceivesChange
    <3>3. KnowsAfter(s)
      BY <1>1, <1>2, <3>1, <3>2, KnowsStored
    <3>4. QED
      BY <1>1, <1>2, <1>3, <3>3, KnowsStep
  <2>2. CASE UNCHANGED << disk, file, f_files >>
    BY <1>2, <2>2 DEF SecondaryKnows, Named
  <2>3. CASE /\ disk' = [disk EXCEPT ![s][g] = Absent]
             /\ \E table : RemoveEntry(s, g, table)
    <3>1. /\ disk'[s][g] = Absent
          /\ \A f \in Files \ {g} : disk'[s][f] = disk[s][f]
      BY <1>1, <1>4, <2>3
    <3>2. KnowsAfter(s)
      BY <1>1, <1>2, <2>3, <3>1, KnowsErased
    <3>3. QED
      BY <1>1, <1>2, <1>3, <3>2, KnowsStep
  <2>4. QED
    BY <1>7, <1>8, <2>1, <2>2, <2>3 DEF ReceivesDeletion
<1>16. VersionsOK'
  <2>1. ASSUME NEW f \in Files
        PROVE  NotBeyond(disk[p][f], disk'[s][f], receivers'[s], f)
    <3>1. NotBeyond(disk[p][f], disk[s][f], receivers[s], f)
      BY <1>2 DEF VersionsOK
    <3>2. PICK v \in Nat, w \in Nat : v = disk[p][f] /\ w = disk[s][f]
      BY <1>1, <1>4
    <3>3. NotBeyond(v, w, receivers'[s], f)
      BY <1>11, <3>1, <3>2
    <3>4. NotBeyond(v, Absent, receivers'[s], f)
      <4>1. IInv'
        BY NextInv
      <4>2. receivers'[s] \in Seq(Receiver)
        BY <1>1, <4>1 DEF IInv, TypeOK
      <4>3. \A k \in DOMAIN receivers'[s] : receivers'[s][k] \in Receiver
        BY <4>2
      <4>4. \A k \in DOMAIN receivers'[s] : receivers'[s][k].version \in Nat
        BY <4>3 DEF Receiver
      <4>5. QED
        BY <3>3, <4>4 DEF NotBeyond, Absent
    <3>5. disk'[s][f] \in {w, Absent}
      BY <1>14, <3>2
    <3>6. QED
      BY <3>2, <3>3, <3>4, <3>5
  <2>2. ASSUME NEW t \in ReceiveOnly, NEW f \in Files
        PROVE  NotBeyond(disk'[p][f], disk'[t][f], receivers'[t], f)
    BY <1>2, <1>5, <1>10, <2>1 DEF VersionsOK, SourceStays
  <2>3. QED
    BY <1>1, <2>2 DEF VersionsOK
<1>17. ASSUME NEW f \in Files, NEW i \in Ids, Shared(p, f, i)
       PROVE  OnItsWay(channel'[p][s], receivers'[s], disk'[s][f],
                       f, i, disk[p][f])
  <2>1. PICK v \in Nat, w \in Nat, q \in Seq(Receiver), c \in Seq(Message) :
            /\ v = disk[p][f] /\ w = disk[s][f]
            /\ q = receivers[s] /\ c = channel[p][s]
    BY <1>1, <1>4
  <2>2. OnItsWay(c, q, w, f, i, v) /\ v # Absent
    BY <1>2, <1>17, <2>1 DEF SharedArrives, Shared
  <2>3. /\ c # << >> /\ channel'[p][s] = Tail(c) /\ m = Head(c)
    BY <1>3, <1>7, <2>1
  <2>4. CASE Announced(Tail(c), f, i, v)
    BY <2>1, <2>3, <2>4 DEF OnItsWay
  <2>5. CASE /\ ~ (m.name = f /\ m.cmd = "deleted")
             /\ OnItsWay(Tail(c), q, w, f, i, v)
    <3>1. disk'[s][f] = w
      BY <1>8, <1>14, <2>1, <2>5
    <3>2. Requested(q, f, i, v) => Requested(receivers'[s], f, i, v)
      BY <1>9, <2>1, RequestAppended
    <3>3. OnItsWay(Tail(c), receivers'[s], w, f, i, v)
      BY <2>5, <3>2, WayChanged
    <3>4. QED
      BY <2>1, <2>3, <3>1, <3>3
  <2>6. CASE Says(m, f, i, v) /\ Undeleted(Tail(c), f, 0)
    <3>1. /\ ReceivesChange(s, p, m) /\ m.cmd = "changed"
          /\ m.name = f /\ m.id = i /\ m.mtime = v
      BY <1>7, <2>6 DEF Says
    <3>2. disk'[s][f] = w
      BY <2>1, <3>1 DEF ReceivesChange
    <3>3. CASE \E r : Connects(s, p, m, r)
      <4>1. PICK r : Connects(s, p, m, r)
        BY <3>3
      <4>2. Requested(receivers'[s], f, i, v)
        BY <2>1, <3>1, <4>1, RequestAppended DEF Connects
      <4>3. QED
        BY <2>1, <2>3, <2>6, <4>2 DEF OnItsWay
    <3>4. CASE \E j \in GetFile(s, f) : Entry(s, f, j).stat >= v
      <4>1. w >= v
        BY <1>2, <2>1, <3>4, EntryKnows
      <4>2. w <= v
        BY <1>2, <2>1, <2>2 DEF VersionsOK, NotBeyond
      <4>3. w = v
        BY <4>1, <4>2
      <4>4. QED
        BY <2>1, <2>3, <2>6, <3>2, <4>3 DEF OnItsWay
    <3>5. QED
      BY <3>1, <3>3, <3>4 DEF ReceivesChange
  <2>7. QED
    BY <2>2, <2>3, <2>4, <2>5, <2>6, WayRead
<1>18. SharedArrives'
  <2>1. ASSUME NEW a \in SendOnly, NEW t \in ReceiveOnly, NEW f \in Files,
               NEW i \in Ids, Shared(a, f, i)'
        PROVE  OnItsWay(channel'[a][t], receivers'[t], disk'[t][f],
                        f, i, disk'[a][f])
    <3>1. a = p /\ disk'[p] = disk[p]
      BY <1>1, <1>5 DEF SourceStays
    <3>2. Shared(p, f, i)
      BY <1>5, <2>1, <3>1 DEF Shared, SourceStays
    <3>3. CASE t = s
      BY <1>17, <3>1, <3>2, <3>3
    <3>4. CASE t # s
      <4>1. channel'[p][t] = channel[p][t]
        BY <1>1, <1>3, <3>4
      <4>2. QED
        BY <1>2, <1>10, <3>1, <3>2, <3>4, <4>1 DEF SharedArrives
    <3>5. QED
      BY <3>3, <3>4
  <2>2. QED
    BY <2>1 DEF SharedArrives
<1>19. QED
  BY <1>6, <1>12, <1>13, <1>15, <1>16, <1>18 DEF CRest

\* The k-th receiver, the first of its name, gets its version.
LEMMA ReceiverServed ==
    ASSUME NEW q \in Seq(Receiver), NEW k \in DOMAIN q, NEW u \in Nat, NEW r,
           FirstServed(q), GetsVersion(q, k, u, r),
           \A j \in 1..(k - 1) : q[j].name # q[k].name
    PROVE  /\ FirstServed(r)
           /\ \A f : \A v \in Nat, w \in Nat :
                  NotBeyond(v, w, q, f) /\ (q[k].name = f => u = v)
                      => NotBeyond(v, w, r, f)
<1>1. PICK a \in Nat : a = Len(q)
  OBVIOUS
<1>2. DOMAIN q = 1..a /\ k \in 1..a
  BY <1>1
<1>3. /\ DOMAIN r = 1..a /\ r[k].name = q[k].name /\ r[k].version = u
      /\ \A j \in 1..a : j # k => r[j] = q[j]
  BY <1>2 DEF GetsVersion
<1>4. \A j \in 1..a : r[j].name = q[j].name
  BY <1>3
<1>5. ASSUME NEW j \in 1..a, NEW l \in 1..a, j < l, r[j].name = r[l].name
      PROVE  r[l].version = Absent
  <2>1. l # k
    <3>1. j \in 1..(l - 1)
      BY <1>5
    <3>2. QED
      BY <1>4, <1>5, <3>1
  <2>2. q[l].version = Absent
    BY <1>2, <1>4, <1>5 DEF FirstServed
  <2>3. QED
    BY <1>3, <2>1, <2>2
<1>6. FirstServed(r)
  BY <1>3, <1>5 DEF FirstServed
<1>7. ASSUME NEW v \in Nat, NEW w \in Nat, NEW f, NotBeyond(v, w, q, f),
             q[k].name = f => u = v
      PROVE  NotBeyond(v, w, r, f)
  <2>1. ASSUME NEW j \in 1..a, r[j].name = f, r[j].version # Absent
        PROVE  w <= r[j].version /\ (v # Absent => r[j].version <= v)
    <3>1. CASE j = k
      <4>1. u = v /\ u # Absent /\ r[j].version = u
        BY <1>3, <1>7, <2>1, <3>1 DEF GetsVersion
      <4>2. w <= v
        BY <1>7, <4>1 DEF NotBeyond
      <4>3. QED
        BY <4>1, <4>2
    <3>2. CASE j # k
      BY <1>2, <1>3, <1>7, <2>1, <3>2 DEF NotBeyond
    <3>3. QED
      BY <3>1, <3>2
  <2>2. QED
    BY <1>3, <1>7, <2>1 DEF NotBeyond
<1>8. QED
  BY <1>6, <1>7

\* The k-th receiver is done.
LEMMA ReceiverDone ==
    ASSUME NEW q \in Seq(Receiver), NEW k \in DOMAIN q, FirstServed(q)
    PROVE  /\ FirstServed(RemoveAt(q, k))
           /\ \A f : \A v \in Nat, w \in Nat :
                  NotBeyond(v, w, q, f) => NotBeyond(v, w, RemoveAt(q, k), f)
<1>1. PICK a \in Nat : a = Len(q)
  OBVIOUS
<1>2. DOMAIN q = 1..a /\ k \in 1..a
  BY <1>1
<1>3. PICK r : r = RemoveAt(q, k)
  OBVIOUS
<1>4. /\ DOMAIN r = 1..(a - 1)
      /\ \A j \in 1..(a - 1) : \/ j < k /\ r[j] = q[j]
                               \/ j >= k /\ r[j] = q[j + 1]
  BY <1>1, <1>2, <1>3, RemoveAtIndex
<1>5. ASSUME NEW j \in 1..(a - 1), NEW l \in 1..(a - 1), j < l,
             r[j].name = r[l].name
      PROVE  r[l].version = Absent
  <2>1. PICK x \in 1..a, y \in 1..a : x < y /\ r[j] = q[x] /\ r[l] = q[y]
    <3>1. CASE l < k
      BY <1>4, <1>5, <3>1
    <3>2. CASE l >= k /\ j < k
      <4>1. l + 1 \in 1..a /\ j < l + 1 /\ r[l] = q[l + 1] /\ r[j] = q[j]
        BY <1>4, <1>5, <3>2
      <4>2. QED
        BY <4>1
    <3>3. CASE j >= k
      <4>1. /\ l + 1 \in 1..a /\ j + 1 \in 1..a /\ j + 1 < l + 1
            /\ r[l] = q[l + 1] /\ r[j] = q[j + 1]
        BY <1>4, <1>5, <3>3
      <4>2. QED
        BY <4>1
    <3>4. QED
      BY <1>2, <3>1, <3>2, <3>3
  <2>2. QED
    BY <1>2, <1>5, <2>1 DEF FirstServed
<1>6. FirstServed(r)
  BY <1>4, <1>5 DEF FirstServed
<1>7. \A j \in 1..(a - 1) : \E x \in 1..a : r[j] = q[x]
  <2> TAKE j \in 1..(a - 1)
  <2>1. j \in 1..a /\ j + 1 \in 1..a
    OBVIOUS
  <2>2. QED
    BY <1>4, <2>1
<1>8. ASSUME NEW v \in Nat, NEW w \in Nat, NEW f, NotBeyond(v, w, q, f)
      PROVE  NotBeyond(v, w, r, f)
  BY <1>2, <1>4, <1>7, <1>8 DEF NotBeyond
<1>9. QED
  BY <1>3, <1>6, <1>8

\* The k-th receiver, the first of its name, has put its version on the disk.
LEMMA ReceiverInstalled ==
    ASSUME NEW q \in Seq(Receiver), NEW k \in DOMAIN q, FirstServed(q),
           \A j \in 1..(k - 1) : q[j].name # q[k].name,
           NEW v \in Nat, NEW w, NotBeyond(v, w, q, q[k].name)
    PROVE  NotBeyond(v, q[k].version, RemoveAt(q, k), q[k].name)
<1>1. PICK a \in Nat : a = Len(q)
  OBVIOUS
<1>2. DOMAIN q = 1..a /\ k \in 1..a
  BY <1>1
<1>3. PICK r : r = RemoveAt(q, k)
  OBVIOUS
<1>4. /\ DOMAIN r = 1..(a - 1)
      /\ \A j \in 1..(a - 1) : \/ j < k /\ r[j] = q[j]
                               \/ j >= k /\ r[j] = q[j + 1]
  BY <1>1, <1>2, <1>3, RemoveAtIndex
<1>5. ASSUME NEW j \in 1..(a - 1), r[j].name = q[k].name
      PROVE  r[j].version = Absent
  <2>1. CASE j < k
    <3>1. j \in 1..(k - 1) /\ r[j] = q[j]
      BY <1>4, <2>1
    <3>2. QED
      BY <1>5, <3>1
  <2>2. CASE j >= k
    <3>1. j + 1 \in 1..a /\ k < j + 1 /\ r[j] = q[j + 1]
      BY <1>2, <1>4, <2>2
    <3>2. QED
      BY <1>2, <1>5, <3>1 DEF FirstServed
  <2>3. QED
    BY <1>2, <2>1, <2>2
<1>6. v # Absent => q[k].version <= v
  BY DEF NotBeyond, Absent
<1>7. NotBeyond(v, q[k].version, r, q[k].name)
  BY <1>4, <1>5, <1>6 DEF NotBeyond
<1>8. QED
  BY <1>3, <1>7

\* A transfer of a receive-only computer s goes on.
LEMMA TransferActs ==
    ASSUME Converging, IInv, IdInv, [Next]_vars, CRest, NEW s \in ReceiveOnly,
           NEW k \in DOMAIN receivers[s],
           Serve(s, k) \/ Refuse(s, k) \/ Install(s, k)
    PROVE  CRest'
<1>1. PICK p \in SendOnly : p = receivers[s][k].src
  BY Modes DEF CRest, FromPrimary
<1>2. /\ p \in Nodes /\ s \in Nodes /\ s # p /\ ReceiveOnly \subseteq Nodes
      /\ \A a \in SendOnly : a = p
  BY Modes DEF Converging
<1>3. /\ FromPrimary /\ PrimaryLocal /\ SharedTimes /\ SecondaryKnows
      /\ OneServed /\ VersionsOK /\ SharedArrives
  BY DEF CRest
<1>4. /\ Only(s) /\ clock' = clock /\ channel' = channel
  BY <1>2, TransferOnly
<1>5. /\ clock \in Nat /\ disk \in [Nodes -> [Files -> Nat]]
      /\ receivers \in [Nodes -> Seq(Receiver)]
  BY DEF IInv, TypeOK
<1>6. SourceStays(p)
  BY <1>2, <1>4, <1>5 DEF Only, SourceStays
<1>7. PrimaryLocal' /\ SharedTimes'
  BY <1>6, SourceKeeps
<1>8. PICK r \in Receiver :
          /\ r = receivers[s][k]
          /\ \A j \in 1..(k - 1) : receivers[s][j].name # r.name
          /\ Serves(s, k, r) \/ Refuses(s, k, r) \/ Installs(s, k, r)
  BY <1>2, TransferEffect
<1>9. PICK q \in Seq(Receiver), g \in Files, u \in Nat :
          q = receivers[s] /\ g = r.name /\ u = r.version
  BY <1>2, <1>5 DEF Receiver
<1>10. /\ k \in DOMAIN q /\ q[k] = r /\ r.src = p
       /\ \A j \in 1..(k - 1) : q[j].name # q[k].name
       /\ \A j \in DOMAIN q : q[j].src \in SendOnly
       /\ FirstServed(q)
  BY <1>1, <1>2, <1>3, <1>8, <1>9 DEF FromPrimary, OneServed
<1>11. \A t \in ReceiveOnly : t # s => /\ disk'[t] = disk[t]
                                       /\ receivers'[t] = receivers[t]
  BY <1>2, <1>4 DEF Only
<1>12. disk'[p] = disk[p] /\ \A f \in Files : disk[p][f] \in Nat
  BY <1>2, <1>5, <1>6 DEF SourceStays
<1>13. \A f \in Files : NotBeyond(disk[p][f], disk[s][f], q, f)
                        /\ disk[s][f] \in Nat
  BY <1>2, <1>3, <1>5, <1>9 DEF VersionsOK
\* What is left to show of the receivers and the disk of s.
<1> DEFINE Good(f) ==
        /\ NotBeyond(disk[p][f], disk'[s][f], receivers'[s], f)
        /\ \A i \in Ids : Shared(p, f, i) =>
               /\ Requested(q, f, i, disk[p][f])
                      => \/ Requested(receivers'[s], f, i, disk[p][f])
                         \/ disk'[s][f] = disk[p][f]
               /\ disk[s][f] = disk[p][f] => disk'[s][f] = disk[p][f]
    Goal == /\ FirstServed(receivers'[s])
            /\ \A j \in DOMAIN receivers'[s] : receivers'[s][j].src \in SendOnly
            /\ SecondaryKnows'
            /\ \A f \in Files : Good(f)
<1>14. ASSUME Serves(s, k, r) PROVE Goal
  <2>1. /\ GetsVersion(q, k, disk[p][g], receivers'[s])
        /\ receivers'[s][k].src = p /\ receivers'[s][k].id = q[k].id
        /\ disk' = disk /\ file' = file /\ f_files' = f_files
    BY <1>9, <1>10, <1>14 DEF Serves
  <2>2. PICK z : z = receivers'[s]
    OBVIOUS
  <2>3. /\ FirstServed(z)
        /\ \A f : \A v \in Nat, w \in Nat :
               NotBeyond(v, w, q, f) /\ (q[k].name = f => disk[p][g] = v)
                   => NotBeyond(v, w, z, f)
    BY <1>9, <1>10, <1>12, <2>1, <2>2, ReceiverServed
  <2>4. \A j \in DOMAIN z : z[j].src \in SendOnly
    BY <1>1, <1>10, <2>1, <2>2 DEF GetsVersion
  <2>5. SecondaryKnows'
    BY <1>3, <2>1 DEF SecondaryKnows, Named
  <2>6. ASSUME NEW f \in Files PROVE Good(f)
    <3>1. NotBeyond(disk[p][f], disk[s][f], z, f)
      BY <1>9, <1>10, <1>12, <1>13, <2>3
    <3>2. \A i : Requested(q, f, i, disk[p][f])
                     => Requested(z, f, i, disk[p][f])
      BY <1>9, <1>10, <2>1, <2>2, RequestServed
    <3>3. QED
      BY <2>1, <2>2, <3>1, <3>2
  <2> HIDE DEF Good
  <2>7. QED
    BY <2>2, <2>3, <2>4, <2>5, <2>6
<1>15. ASSUME receivers'[s] = RemoveAt(q, k)
       PROVE  /\ FirstServed(receivers'[s])
              /\ \A j \in DOMAIN receivers'[s] :
                     receivers'[s][j].src \in SendOnly
              /\ \A f : \A v \in Nat, w \in Nat :
                     NotBeyond(v, w, q, f)
                         => NotBeyond(v, w, receivers'[s], f)
              /\ \A f, i, v : Requested(q, f, i, v) =>
                     \/ Requested(receivers'[s], f, i, v)
                     \/ g = f /\ r.id = i /\ u \in {Absent, v}
  <2>1. /\ FirstServed(receivers'[s])
        /\ \A f : \A v \in Nat, w \in Nat :
               NotBeyond(v, w, q, f) => NotBeyond(v, w, receivers'[s], f)
    BY <1>10, <1>15, ReceiverDone
  <2>2. \A j \in DOMAIN receivers'[s] : receivers'[s][j].src \in SendOnly
    <3>1. k \in 1..Len(q)
      BY <1>10
    <3>2. \A j \in DOMAIN RemoveAt(q, k) :
              \E i \in DOMAIN q : RemoveAt(q, k)[j] = q[i]
      BY <3>1, RemoveAtElements
    <3>3. QED
      BY <1>10, <1>15, <3>2
  <2>3. \A f, i, v : Requested(q, f, i, v) =>
            \/ Requested(RemoveAt(q, k), f, i, v)
            \/ q[k].name = f /\ q[k].id = i /\ q[k].version \in {Absent, v}
    BY <1>10, RequestRemoved
  <2>4. QED
    BY <1>9, <1>10, <1>15, <2>1, <2>2, <2>3
<1>16. ASSUME Refuses(s, k, r) PROVE Goal
  <2>1. /\ receivers'[s] = RemoveAt(q, k) /\ Served(p, r.id) = Absent
        /\ disk' = disk /\ file' = file /\ f_files' = f_files
    BY <1>9, <1>10, <1>16 DEF Refuses
  <2>2. SecondaryKnows'
    BY <1>3, <2>1 DEF SecondaryKnows, Named
  <2>3. \A i \in Ids : Shared(p, g, i) => r.id # i
    BY <2>1 DEF Shared, Served
  <2>4. ASSUME NEW f \in Files PROVE Good(f)
    <3>1. NotBeyond(disk[p][f], disk[s][f], receivers'[s], f)
      BY <1>12, <1>13, <1>15, <2>1
    <3>2. ASSUME NEW i \in Ids, Shared(p, f, i),
                 Requested(q, f, i, disk[p][f])
          PROVE  Requested(receivers'[s], f, i, disk[p][f])
      BY <1>15, <2>1, <2>3, <3>2
    <3>3. QED
      BY <2>1, <3>1, <3>2
  <2> HIDE DEF Good
  <2>5. QED
    BY <1>15, <2>1, <2>2, <2>4
<1>17. ASSUME Installs(s, k, r) PROVE Goal
  <2>1. /\ receivers'[s] = RemoveAt(q, k) /\ u # Absent
        /\ disk' = [disk EXCEPT ![s][g] = u]
    BY <1>9, <1>17 DEF Installs
  <2>2. PICK i, x : /\ x.stat = u
                    /\ StoreEntry(s, g, i, f_modified_files[s], x)
    BY <1>9, <1>17 DEF Installs
  <2>3. /\ disk'[s][g] = u
        /\ \A f \in Files \ {g} : disk'[s][f] = disk[s][f]
    BY <1>2, <1>5, <2>1
  <2>4. KnowsAfter(s)
    BY <1>2, <1>3, <2>2, <2>3, KnowsStored
  <2>5. SecondaryKnows'
    BY <1>2, <1>3, <1>4, <2>4, KnowsStep
  <2>6. ASSUME NEW f \in Files, f # g PROVE Good(f)
    <3>1. NotBeyond(disk[p][f], disk[s][f], receivers'[s], f)
      BY <1>12, <1>13, <1>15, <2>1
    <3>2. \A j \in Ids : Requested(q, f, j, disk[p][f])
                             => Requested(receivers'[s], f, j, disk[p][f])
      BY <1>15, <2>1, <2>6
    <3>3. QED
      BY <2>3, <2>6, <3>1, <3>2
  <2>7. Good(g)
    <3>1. PICK v \in Nat : v = disk[p][g]
      BY <1>12
    <3>2. NotBeyond(v, disk[s][g], q, q[k].name) /\ q[k].name = g
            /\ q[k].version = u
      BY <1>9, <1>10, <1>13, <3>1
    <3>3. NotBeyond(v, u, receivers'[s], g)
      <4>1. NotBeyond(v, q[k].version, RemoveAt(q, k), q[k].name)
        BY <1>10, <3>2, ReceiverInstalled
      <4>2. QED
        BY <2>1, <3>2, <4>1
    <3>4. ASSUME NEW j \in Ids, Requested(q, g, j, v)
          PROVE  Requested(receivers'[s], g, j, v) \/ u = v
      BY <1>15, <2>1, <3>4
    <3>5. ASSUME v # Absent, disk[s][g] = v
          PROVE  u = v
      BY <1>10, <2>1, <3>2, <3>5 DEF NotBeyond
    <3>6. QED
      BY <2>3, <3>1, <3>3, <3>4, <3>5 DEF Shared
  <2>8. ASSUME NEW f \in Files PROVE Good(f)
    BY <2>6, <2>7
  <2> HIDE DEF Good
  <2>9. QED
    BY <1>15, <2>1, <2>5, <2>8
<1>18. Goal
  BY <1>8, <1>14, <1>16, <1>17
<1> HIDE DEF Good
<1>19. FromPrimary'
  BY <1>3, <1>4, <1>18 DEF FromPrimary, Only
<1>20. OneServed'
  BY <1>3, <1>4, <1>18 DEF OneServed, Only
<1>21. VersionsOK'
  <2>1. ASSUME NEW t \in ReceiveOnly, NEW f \in Files
        PROVE  NotBeyond(disk'[p][f], disk'[t][f], receivers'[t], f)
    BY <1>3, <1>11, <1>12, <1>18 DEF VersionsOK, Good
  <2>2. QED
    BY <1>2, <2>1 DEF VersionsOK
<1>22. SharedArrives'
  <2>1. ASSUME NEW a \in SendOnly, NEW t \in ReceiveOnly, NEW f \in Files,
               NEW i \in Ids, Shared(a, f, i)'
        PROVE  OnItsWay(channel'[a][t], receivers'[t], disk'[t][f],
                        f, i, disk'[a][f])
    <3>1. a = p
      BY <1>2
    <3>2. Shared(p, f, i)
      BY <1>6, <1>12, <2>1, <3>1 DEF Shared, SourceStays
    <3>3. OnItsWay(channel[p][t], receivers[t], disk[t][f], f, i, disk[p][f])
      BY <1>3, <3>2 DEF SharedArrives
    <3>4. CASE t = s
      <4>1. Good(f)
        BY <1>18
      <4>2. OnItsWay(channel[p][s], receivers'[s], disk'[s][f],
                     f, i, disk[p][f])
        BY <1>9, <3>2, <3>3, <3>4, <4>1, WayChanged DEF Good
      <4>3. QED
        BY <1>4, <1>12, <3>1, <3>4, <4>2
    <3>5. CASE t # s
      BY <1>4, <1>11, <1>12, <3>1, <3>3, <3>5
    <3>6. QED
      BY <3>4, <3>5
  <2>2. QED
    BY <2>1 DEF SharedArrives
<1>23. QED
  BY <1>7, <1>18, <1>19, <1>20, <1>21, <1>22 DEF CRest

LEMMA ConvergingInit ==
    ASSUME Converging, Init
    PROVE  CInv
<1>1. SendOnly \subseteq Nodes /\ ReceiveOnly \subseteq Nodes
  BY Modes
<1>2. /\ clock = 0
      /\ \A n \in Nodes : /\ events[n] = << >> /\ f_modified_files[n] = {}
                          /\ receivers[n] = << >> /\ f_files[n] = {}
      /\ \A n, d \in Nodes : channel[n][d] = << >>
      /\ \A n \in Nodes, f \in Files : disk[n][f] = Absent
      /\ \A n \in Nodes, i \in Ids : file[n][i].shared = Absent
  BY DEF Init, NoFile
<1>3. \A n \in Nodes : \A k \in DOMAIN receivers[n] : FALSE
  BY <1>2
<1>4. Unwatched
  BY <1>2 DEF Unwatched
<1>5. FromPrimary /\ OneServed
  BY <1>3 DEF FromPrimary, OneServed, FirstServed
<1>6. PrimaryLocal /\ VersionsOK
  BY <1>1, <1>2 DEF PrimaryLocal, VersionsOK, NotBeyond
<1>7. SharedTimes
  BY <1>1, <1>2 DEF SharedTimes, Absent
<1>8. SecondaryKnows
  BY <1>1, <1>2 DEF SecondaryKnows, Named
<1>9. SharedArrives
  BY <1>1, <1>2 DEF SharedArrives, Shared
<1>10. QED
  BY <1>4, <1>5, <1>6, <1>7, <1>8, <1>9 DEF CInv

LEMMA ConvergingNext ==
    ASSUME Converging, IInv, IdInv, CInv, [Next]_vars
    PROVE  CInv'
<1>1. Unwatched /\ CRest
  BY DEF CInv, CRest
<1>2. SendOnly \subseteq Nodes /\ ReceiveOnly \subseteq Nodes
          /\ SendOnly \cap ReceiveOnly = {}
  BY Modes
<1>3. CASE UNCHANGED vars
  BY <1>3 DEF vars, CInv, Unwatched, FromPrimary, PrimaryLocal, SharedTimes,
              SecondaryKnows, Named, OneServed, VersionsOK, SharedArrives,
              Shared
<1>4. CASE Next
  <2>1. Unwatched'
    BY <1>1, <1>4, UnwatchedStep
  <2>2. ASSUME NEW p \in SendOnly, Local(p) \/ ProcessEvent(p) \/ Timeout(p)
        PROVE  CRest'
    BY <1>1, <2>2, SourceActs
  <2>3. ASSUME NEW n \in Nodes \ (SendOnly \cup ReceiveOnly), Local(n)
        PROVE  CRest'
    <3>1. Only(n) /\ receivers' = receivers /\ channel' = channel
      BY <2>3, LocalOnly
    <3>2. clock' >= clock
      BY <2>3 DEF Local, LocalWrite, LocalClose, LocalDelete, IInv, TypeOK
    <3>3. QED
      BY <1>1, <2>3, <3>1, <3>2, BystanderActs
  <2>4. ASSUME NEW n \in Nodes \ SendOnly, NEW p \in SendOnly,
               ReceiveMessage(n, p)
        PROVE  CRest'
    <3>1. CASE n \in ReceiveOnly
      BY <1>1, <2>4, <3>1, MessageActs
    <3>2. CASE n \notin ReceiveOnly
      <4>1. /\ Only(n) /\ clock' = clock
            /\ \A a, b \in Nodes : b # n => channel'[a][b] = channel[a][b]
        BY <1>2, <2>4, ReceiveOnlyOne
      <4>2. receivers' = receivers
        BY <1>2, <2>4, <3>2, Modes, NotReceiving
      <4>3. clock' >= clock
        BY <4>1 DEF IInv, TypeOK
      <4>4. \A a \in SendOnly, s \in ReceiveOnly :
                channel'[a][s] = channel[a][s]
        BY <1>2, <3>2, <4>1
      <4>5. QED
        BY <1>1, <2>4, <3>2, <4>1, <4>2, <4>3, <4>4, BystanderActs
    <3>3. QED
      BY <3>1, <3>2
  <2>5. ASSUME NEW s \in ReceiveOnly, NEW k \in DOMAIN receivers[s],
               Serve(s, k) \/ Refuse(s, k) \/ Install(s, k)
        PROVE  CRest'
    BY <1>1, <2>5, TransferActs
  <2>6. CRest'
    BY <1>1, <1>4, <2>2, <2>3, <2>4, <2>5, Actors
  <2>7. QED
    BY <2>1, <2>6 DEF CInv, CRest
<1>5. QED
  BY <1>3, <1>4

-----------------------------------------------------------------------------
(* The theorems. *)

\* In every reachable state of a converging cluster, whatever version of a file
\* the source announced and still has is on the disk of every receive-only
\* computer, requested by it, or in a message to it, with no deletion behind;
\* what it awaits is not older than what it has nor newer than the source's,
\* and its table tells what is on its disk.
THEOREM SharedVersionsArrive == Converging => (Spec => []CInv)
<1> SUFFICES ASSUME Converging PROVE Spec => []CInv
  OBVIOUS
<1>1. Init => CInv
  BY ConvergingInit
<1>2. IInv /\ IdInv /\ CInv /\ [Next]_vars => CInv'
  BY ConvergingNext
<1>3. QED
  BY <1>1, <1>2, Invariance, IdentifiersKeepTheirNames, PTL DEF Spec

LEMMA QuietMeansEqual ==
    ASSUME Converging, IInv, CInv
    PROVE  QuietConverged
<1> SUFFICES ASSUME Quiet, NEW p \in SendOnly, NEW s \in ReceiveOnly,
                    NEW f \in Files, disk[p][f] # Absent
             PROVE  disk[s][f] = disk[p][f]
  BY DEF QuietConverged
<1>1. p \in Nodes /\ s \in Nodes /\ Watched(p)
  BY Modes
<1>2. /\ events[p] = << >> /\ Pending(p) = {} /\ channel[p][s] = << >>
      /\ receivers[s] = << >>
  BY <1>1 DEF Quiet
<1>3. ~ NoticedIn(events[p], f)
  BY <1>2 DEF NoticedIn
<1>4. Known(p, f)
  BY <1>1, <1>3 DEF IInv, KnownOrNoticed
<1>5. PICK i \in f_files[p] : /\ file[p][i].name = f
                              /\ file[p][i].stat = disk[p][f]
  BY <1>4 DEF Known, Named
<1>6. local[p][f] /\ i \in Ids
  BY <1>1 DEF CInv, PrimaryLocal, IInv, TypeOK
<1>7. file[p][i].shared = disk[p][f]
  BY <1>1, <1>2, <1>5, <1>6 DEF IInv, KnownIsShared
<1>8. Shared(p, f, i)
  BY <1>5, <1>7 DEF Shared
<1>9. OnItsWay(channel[p][s], receivers[s], disk[s][f], f, i, disk[p][f])
  BY <1>6, <1>8 DEF CInv, SharedArrives
<1>10. QED
  BY <1>2, <1>9 DEF OnItsWay, Announced, Requested

\* When no event, timer, message or transfer is left in a converging cluster,
\* every receive-only computer has the version the source has of each file:
\* updated_file(), the timer, receive_file() and the transfers between them
\* leave no version behind, however they interleave.
THEOREM QuietClustersConverged == Converging => (Spec => []QuietConverged)
<1> SUFFICES ASSUME Converging PROVE Spec => []QuietConverged
  OBVIOUS
<1>1. IInv /\ CInv => QuietConverged
  BY QuietMeansEqual
<1>2. Spec => []CInv
  BY SharedVersionsArrive
<1>3. QED
  BY <1>1, <1>2, Invariance, PTL

-----------------------------------------------------------------------------
(* Copies never go back. *)

\* A receive-only computer never gets an older version in the place of a newer
\* one; it only loses its file to a deletion.
CopiesOnlyAdvance ==
    [][\A s \in ReceiveOnly, f \in Files :
         disk'[s][f] # Absent => disk'[s][f] >= disk[s][f]]_vars

LEMMA CopyAdvances ==
    ASSUME Converging, IInv, IdInv, CInv, Next,
           NEW s \in ReceiveOnly, NEW f \in Files, disk'[s][f] # Absent
    PROVE  disk'[s][f] >= disk[s][f]
<1>1. Unwatched /\ CRest
  BY DEF CInv, CRest
<1>2. /\ s \in Nodes /\ SendOnly \subseteq Nodes
      /\ SendOnly \cap ReceiveOnly = {}
  BY Modes
<1>3. /\ disk \in [Nodes -> [Files -> Nat]]
      /\ receivers \in [Nodes -> Seq(Receiver)]
  BY DEF IInv, TypeOK
<1>4. disk[s][f] \in Nat
  BY <1>2, <1>3
<1>5. ASSUME disk'[s] = disk[s]
      PROVE  disk'[s][f] >= disk[s][f]
  BY <1>4, <1>5
<1>6. ASSUME NEW n \in Nodes, Only(n), n # s
      PROVE  disk'[s] = disk[s]
  BY <1>2, <1>6 DEF Only
<1>7. ASSUME NEW p \in SendOnly, Local(p) \/ ProcessEvent(p) \/ Timeout(p)
      PROVE  Only(p) /\ p \in Nodes /\ p # s
  <2>1. ASSUME NEW due \in SUBSET Pending(p), ProcessTimeout(p, due)
        PROVE  Only(p)
    BY <1>2, <2>1, TimeoutOnly
  <2>2. QED
    BY <1>2, <1>7, <2>1, LocalOnly, EventOnly DEF Timeout
<1>8. ASSUME NEW n \in Nodes \ (SendOnly \cup ReceiveOnly), Local(n)
      PROVE  Only(n) /\ n # s
  BY <1>8, LocalOnly
<1>9. ASSUME NEW n \in Nodes \ SendOnly, NEW p \in SendOnly,
             ReceiveMessage(n, p)
      PROVE  disk'[s][f] >= disk[s][f]
  <2>1. Only(n)
    BY <1>2, <1>9, ReceiveOnlyOne
  <2>2. CASE n = s
    <3>1. PICK m \in Message :
              \/ ReceivesChange(s, p, m)
              \/ ReceivesDeletion(s, m.name)
      BY <1>2, <1>9, <2>2, ReceiveEffect
    <3>2. m.name \in Files
      BY DEF Message
    <3>3. disk'[s][f] \in {disk[s][f], Absent}
      BY <1>2, <1>3, <3>1, <3>2 DEF ReceivesChange, ReceivesDeletion
    <3>4. QED
      BY <1>4, <3>3
  <2>3. CASE n # s
    BY <1>5, <1>6, <2>1, <2>3
  <2>4. QED
    BY <2>2, <2>3
<1>10. ASSUME NEW n \in ReceiveOnly, NEW k \in DOMAIN receivers[n],
              Serve(n, k) \/ Refuse(n, k) \/ Install(n, k)
       PROVE  disk'[s][f] >= disk[s][f]
  <2>1. n \in Nodes /\ Only(n)
    BY <1>10, Modes, TransferOnly
  <2>2. CASE n = s
    <3>1. PICK r \in Receiver :
              /\ r = receivers[s][k]
              /\ Serves(s, k, r) \/ Refuses(s, k, r) \/ Installs(s, k, r)
      BY <1>2, <1>10, <2>2, TransferEffect
    <3>2. CASE Serves(s, k, r) \/ Refuses(s, k, r)
      BY <1>5, <3>2 DEF Serves, Refuses
    <3>3. CASE Installs(s, k, r)
      <4>1. /\ r.version # Absent /\ r.version \in Nat
            /\ disk' = [disk EXCEPT ![s][r.name] = r.version]
        BY <3>3 DEF Installs, Receiver
      <4>2. CASE r.name = f
        <5>1. PICK p \in SendOnly : p = receivers[s][k].src
          BY <1>1, <1>2, <1>10, <2>2 DEF CRest, FromPrimary
        <5>2. NotBeyond(disk[p][f], disk[s][f], receivers[s], f)
          BY <1>1 DEF CRest, VersionsOK
        <5>3. disk[s][f] <= r.version
          BY <1>10, <2>2, <3>1, <4>1, <4>2, <5>2 DEF NotBeyond
        <5>4. disk'[s][f] = r.version
          BY <1>2, <1>3, <4>1, <4>2
        <5>5. QED
          BY <1>4, <4>1, <5>3, <5>4
      <4>3. CASE r.name # f
        <5>1. disk'[s][f] = disk[s][f]
          BY <1>2, <1>3, <4>1, <4>3
        <5>2. QED
          BY <1>4, <5>1
      <4>4. QED
        BY <4>2, <4>3
    <3>4. QED
      BY <3>1, <3>2, <3>3
  <2>3. CASE n # s
    BY <1>5, <1>6, <2>1, <2>3
  <2>4. QED
    BY <2>2, <2>3
<1>11. QED
  BY <1>1, <1>5, <1>6, <1>7, <1>8, <1>9, <1>10, Actors

\* In a converging cluster the copy of a receive-only computer is never
\* replaced by an older version, although receive_file() compares times before
\* a transfer only and several transfers of a file may be under way.  Computers
\* in path_mode=latest have no such guarantee (LatestNeverGoesBack).
THEOREM CopiesNeverGoBack == Converging => (Spec => CopiesOnlyAdvance)
<1> SUFFICES ASSUME Converging PROVE Spec => CopiesOnlyAdvance
  OBVIOUS
<1>1. ASSUME IInv, IdInv, CInv, [Next]_vars
      PROVE  [\A s \in ReceiveOnly, f \in Files :
                  disk'[s][f] # Absent => disk'[s][f] >= disk[s][f]]_vars
  <2>1. CASE Next
    BY <1>1, <2>1, CopyAdvances
  <2>2. CASE UNCHANGED vars
    BY <2>2
  <2>3. QED
    BY <1>1, <2>1, <2>2
<1>2. Spec => []CInv
  BY SharedVersionsArrive
<1>3. QED
  BY <1>1, <1>2, Invariance, IdentifiersKeepTheirNames, PTL
     DEF Spec, CopiesOnlyAdvance
=============================================================================
