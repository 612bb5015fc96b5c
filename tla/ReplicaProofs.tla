--------------------------- MODULE ReplicaProofs ---------------------------
(***************************************************************************)
(* Proofs that the daemons of Server implement what Replica promises of    *)
(* the files, for every cluster and whatever fails, and that the daemons   *)
(* never remove a file of a computer whose services are the only ones.     *)
(* Both rest on what an identifier means: as long as a message or a        *)
(* transfer holds one, the table it comes from does not give it to a file  *)
(* of another name.                                                        *)
(***************************************************************************)
EXTENDS ServerReplica, ServerProofs

\* The object of node s that a message or a transfer refers to, if s still
\* has it, has the name it was announced with.
IdNames(s, i, f) == i \in Referenced(s) => file[s][i].name = f

MessagesNamed ==
    \A s, d \in Nodes : \A k \in DOMAIN channel[s][d] :
        channel[s][d][k].cmd = "changed"
            => IdNames(s, channel[s][d][k].id, channel[s][d][k].name)

ReceiversNamed ==
    \A n \in Nodes : \A k \in DOMAIN receivers[n] :
        /\ receivers[n][k].src # n /\ Receives(n)
        /\ IdNames(receivers[n][k].src, receivers[n][k].id,
                   receivers[n][k].name)

NoMessageToSelf == \A n \in Nodes : channel[n][n] = << >>

\* Replica follows from these and the invariant of Server; none of the first
\* two is inductive without IInv.
IdInv == MessagesNamed /\ ReceiversNamed /\ NoMessageToSelf

-----------------------------------------------------------------------------
(* Lemmas about identifiers. *)

LEMMA MessageInUse ==
    ASSUME TypeOK, NEW s \in Nodes, NEW d \in Nodes,
           NEW k \in DOMAIN channel[s][d], channel[s][d][k].cmd = "changed"
    PROVE  channel[s][d][k].id \in InUse(s)
<1>1. channel[s][d] \in Seq(Message)
  BY DEF TypeOK
<1>2. channel[s][d][k] \in Range(channel[s][d])
  BY <1>1 DEF Range
<1>3. QED
  BY <1>2 DEF InUse

LEMMA ReceiverInUse ==
    ASSUME TypeOK, NEW n \in Nodes, NEW k \in DOMAIN receivers[n]
    PROVE  receivers[n][k].id \in InUse(receivers[n][k].src)
<1>1. receivers[n] \in Seq(Receiver)
  BY DEF TypeOK
<1>2. receivers[n][k] \in Range(receivers[n])
  BY <1>1 DEF Range
<1>3. QED
  BY <1>2 DEF InUse

\* An object that is referenced after a step has the name it had before, or
\* an identifier nobody held.
NamesKept ==
    \A n \in Nodes : \A i \in f_files'[n] \cup f_modified_files'[n] :
        \/ i \in Referenced(n) /\ file'[n][i].name = file[n][i].name
        \/ i \notin InUse(n)

\* The message names an object of s as it is after the step.
NamedAfter(s, m) ==
    m.cmd = "changed" /\ m.id \in f_files'[s] \cup f_modified_files'[s]
        => file'[s][m.id].name = m.name

MessagesKept ==
    \A s, d \in Nodes : \A k \in DOMAIN channel'[s][d] :
        \/ \E j \in DOMAIN channel[s][d] :
               channel'[s][d][k] = channel[s][d][j]
        \/ NamedAfter(s, channel'[s][d][k])

\* r is a transfer that was there, or follows from a message that n received.
FromReceiver(n, r) ==
    \E j \in DOMAIN receivers[n] :
        /\ r.name = receivers[n][j].name /\ r.src = receivers[n][j].src
        /\ r.id = receivers[n][j].id
FromMessage(n, r) ==
    /\ Receives(n) /\ r.src # n /\ r.src \in Nodes
    /\ \E j \in DOMAIN channel[r.src][n] :
           /\ channel[r.src][n][j].cmd = "changed"
           /\ r.name = channel[r.src][n][j].name
           /\ r.id = channel[r.src][n][j].id
ReceiversKept ==
    \A n \in Nodes : \A k \in DOMAIN receivers'[n] :
        FromReceiver(n, receivers'[n][k]) \/ FromMessage(n, receivers'[n][k])

\* An identifier in use keeps its name.
LEMMA NameStays ==
    ASSUME NamesKept, NEW s \in Nodes, NEW i \in InUse(s), NEW f,
           IdNames(s, i, f), i \in f_files'[s] \cup f_modified_files'[s]
    PROVE  file'[s][i].name = f
  BY DEF NamesKept, IdNames

LEMMA IdStep ==
    ASSUME IInv, IdInv, NamesKept, MessagesKept, ReceiversKept,
           \A n \in Nodes : channel'[n][n] = << >>
    PROVE  IdInv'
<1>1. TypeOK /\ MessagesNamed /\ ReceiversNamed
  BY DEF IInv, IdInv
<1>2. ASSUME NEW s \in Nodes, NEW d \in Nodes, NEW j \in DOMAIN channel[s][d]
      PROVE  NamedAfter(s, channel[s][d][j])
  <2>1. PICK m : m = channel[s][d][j]
    OBVIOUS
  <2>2. m.cmd = "changed" => m.id \in InUse(s) /\ IdNames(s, m.id, m.name)
    BY <1>1, <2>1, MessageInUse DEF MessagesNamed
  <2>3. NamedAfter(s, m)
    BY <2>2, NameStays DEF NamedAfter
  <2>4. QED
    BY <2>1, <2>3
<1>3. MessagesNamed'
  <2>1. ASSUME NEW s \in Nodes, NEW d \in Nodes, NEW k \in DOMAIN channel'[s][d]
        PROVE  NamedAfter(s, channel'[s][d][k])
    BY <1>2 DEF MessagesKept
  <2>2. QED
    BY <2>1 DEF MessagesNamed, NamedAfter, IdNames, Referenced
<1>4. ReceiversNamed'
  <2>1. ASSUME NEW n \in Nodes, NEW k \in DOMAIN receivers'[n]
        PROVE  LET r == receivers'[n][k]
               IN  /\ r.src # n /\ Receives(n)
                   /\ r.id \in f_files'[r.src] \cup f_modified_files'[r.src]
                          => file'[r.src][r.id].name = r.name
    <3>1. PICK r : r = receivers'[n][k]
      OBVIOUS
    <3>2. CASE FromReceiver(n, r)
      <4>1. PICK j \in DOMAIN receivers[n] :
                /\ r.name = receivers[n][j].name
                /\ r.src = receivers[n][j].src /\ r.id = receivers[n][j].id
        BY <3>2 DEF FromReceiver
      <4>2. receivers[n][j] \in Receiver
        BY <1>1 DEF TypeOK
      <4>3. r.src \in Nodes /\ r.id \in InUse(r.src)
        BY <1>1, <4>1, <4>2, ReceiverInUse DEF Receiver
      <4>4. r.src # n /\ Receives(n) /\ IdNames(r.src, r.id, r.name)
        BY <1>1, <4>1 DEF ReceiversNamed
      <4>5. QED
        BY <3>1, <4>3, <4>4, NameStays
    <3>3. CASE FromMessage(n, r)
      <4>1. PICK j \in DOMAIN channel[r.src][n] :
                /\ channel[r.src][n][j].cmd = "changed"
                /\ r.name = channel[r.src][n][j].name
                /\ r.id = channel[r.src][n][j].id
        BY <3>3 DEF FromMessage
      <4>2. r.src \in Nodes /\ r.src # n /\ Receives(n)
        BY <3>3 DEF FromMessage
      <4>3. NamedAfter(r.src, channel[r.src][n][j])
        BY <1>2, <4>2
      <4>4. QED
        BY <3>1, <4>1, <4>2, <4>3 DEF NamedAfter
    <3>4. QED
      BY <3>1, <3>2, <3>3 DEF ReceiversKept
  <2>2. QED
    BY <2>1 DEF ReceiversNamed, IdNames, Referenced, Receives
<1>5. NoMessageToSelf'
  BY DEF NoMessageToSelf
<1>6. QED
  BY <1>3, <1>4, <1>5 DEF IdInv

-----------------------------------------------------------------------------
(* What the parts of the actions keep. *)

LEMMA StoreNames ==
    ASSUME TypeOK, NEW n \in Nodes,
           NEW table \in SUBSET Ids, NEW timer \in SUBSET Ids, NEW objects,
           Store(n, table, timer, objects),
           \A i \in table \cup timer :
               \/ i \in Referenced(n) /\ objects[i].name = file[n][i].name
               \/ i \notin InUse(n)
    PROVE  NamesKept
<1>1. /\ f_files'[n] = table /\ f_modified_files'[n] = timer
      /\ \A i \in table \cup timer : file'[n][i] = objects[i]
      /\ \A m \in Nodes \ {n} :
             /\ f_files'[m] = f_files[m]
             /\ f_modified_files'[m] = f_modified_files[m]
             /\ file'[m] = file[m]
  BY StoreFrame
<1>2. QED
  BY <1>1 DEF NamesKept, Referenced

LEMMA EntryNames ==
    ASSUME IInv, NEW n \in Nodes, NEW f \in Files, NEW i, NEW timer, NEW x,
           StoreEntry(n, f, i, timer, x)
    PROVE  NamesKept
<1> DEFINE objects == [file[n] EXCEPT ![i] = x]
           table == f_files[n] \cup {i}
<1>1. TypeOK /\ i \in GetFile(n, f) /\ i \in Ids /\ x.name = f
  BY EntryType DEF IInv, StoreEntry
<1>2. table \in SUBSET Ids /\ timer \in SUBSET Ids
          /\ timer \subseteq f_modified_files[n] \cup {i}
  BY <1>1 DEF TypeOK, StoreEntry
<1>3. objects[i] = x /\ \A j \in Ids \ {i} : objects[j] = file[n][j]
  BY <1>1 DEF TypeOK
<1>4. \/ i \in Referenced(n) /\ file[n][i].name = f
      \/ i \notin InUse(n)
  BY <1>1 DEF GetFile, Named, Referenced
<1>5. Store(n, table, timer, objects)
  BY DEF StoreEntry
<1> HIDE DEF objects
<1>6. ASSUME NEW j \in table \cup timer
      PROVE  \/ j \in Referenced(n) /\ objects[j].name = file[n][j].name
             \/ j \notin InUse(n)
  <2>1. CASE j = i
    BY <1>1, <1>3, <1>4, <2>1
  <2>2. CASE j # i
    BY <1>2, <1>3, <2>2 DEF Referenced
  <2>3. QED
    BY <2>1, <2>2
<1> HIDE DEF table
<1>7. QED
  BY <1>1, <1>2, <1>5, <1>6, StoreNames

LEMMA ErasedNames ==
    ASSUME IInv, NEW n \in Nodes, NEW f \in Files, NEW table,
           RemoveEntry(n, f, table)
    PROVE  NamesKept
<1>1. TypeOK /\ table \in SUBSET Ids /\ table \subseteq f_files[n]
          /\ f_modified_files[n] \in SUBSET Ids
  BY DEF IInv, TypeOK, EraseFile, RemoveEntry
<1>2. \A i \in table \cup f_modified_files[n] : i \in Referenced(n)
  BY <1>1 DEF Referenced
<1>3. Store(n, table, f_modified_files[n], file[n])
  BY DEF RemoveEntry
<1>4. QED
  BY <1>1, <1>2, <1>3, StoreNames

LEMMA DaemonNames ==
    ASSUME file' = file, f_files' = f_files, f_modified_files' = f_modified_files
    PROVE  NamesKept
  BY DEF NamesKept, Referenced

\* A broadcast adds its messages and no other.
LEMMA BroadcastAdds ==
    ASSUME IInv, NEW n \in Nodes, NEW msgs \in Seq(Message),
           Broadcast(n, msgs), NEW s \in Nodes, NEW d \in Nodes,
           NEW k \in DOMAIN channel'[s][d]
    PROVE  \/ \E j \in DOMAIN channel[s][d] :
                  channel'[s][d][k] = channel[s][d][j]
           \/ s = n /\ \E j \in DOMAIN msgs : channel'[s][d][k] = msgs[j]
<1>1. channel \in [Nodes -> [Nodes -> Seq(Message)]]
  BY DEF IInv, TypeOK
<1>2. CASE s = n /\ d # n
  <2>1. PICK q \in Seq(Message) : q = channel[n][d]
    BY <1>1
  <2>2. channel'[n][d] = q \o msgs
    BY <1>1, <1>2, <2>1 DEF Broadcast
  <2>3. PICK a \in Nat, b \in Nat : a = Len(q) /\ b = Len(msgs)
    OBVIOUS
  <2>4. k \in 1..(a + b)
    BY <1>2, <2>2, <2>3
  <2>5. CASE k <= a
    <3>1. k \in DOMAIN q /\ (q \o msgs)[k] = q[k]
      BY <2>3, <2>4, <2>5
    <3>2. QED
      BY <1>2, <2>1, <2>2, <3>1
  <2>6. CASE k > a
    <3>1. k - a \in DOMAIN msgs /\ (q \o msgs)[k] = msgs[k - a]
      BY <2>3, <2>4, <2>6
    <3>2. QED
      BY <1>2, <2>2, <3>1
  <2>7. QED
    BY <2>4, <2>5, <2>6
<1>3. CASE s # n \/ d = n
  BY <1>1, <1>3 DEF Broadcast
<1>4. QED
  BY <1>2, <1>3

LEMMA BroadcastKeeps ==
    ASSUME IInv, IdInv, NEW n \in Nodes, NEW msgs \in Seq(Message),
           Broadcast(n, msgs), \A k \in DOMAIN msgs : NamedAfter(n, msgs[k])
    PROVE  MessagesKept /\ \A m \in Nodes : channel'[m][m] = << >>
<1>1. channel \in [Nodes -> [Nodes -> Seq(Message)]]
  BY DEF IInv, TypeOK
<1>2. \A m \in Nodes : channel'[m][m] = channel[m][m]
  BY <1>1 DEF Broadcast
<1>3. MessagesKept
  BY BroadcastAdds DEF MessagesKept
<1>4. QED
  BY <1>2, <1>3 DEF IdInv, NoMessageToSelf

\* No message is added.
OldMessages ==
    \A s, d \in Nodes : \A k \in DOMAIN channel'[s][d] :
        \E j \in DOMAIN channel[s][d] : channel'[s][d][k] = channel[s][d][j]

LEMMA ChannelShrinks ==
    ASSUME IInv, IdInv,
           \/ channel' = channel
           \/ \E s, n \in Nodes :
                  /\ channel[s][n] # << >>
                  /\ channel' = [channel EXCEPT ![s][n] = Tail(@)]
           \/ \E n \in Nodes : channel' =
                  [s \in Nodes |-> [channel[s] EXCEPT ![n] = << >>]]
    PROVE  OldMessages /\ \A m \in Nodes : channel'[m][m] = << >>
<1>1. channel \in [Nodes -> [Nodes -> Seq(Message)]]
  BY DEF IInv, TypeOK
<1>2. \A m \in Nodes : channel[m][m] = << >>
  BY DEF IdInv, NoMessageToSelf
<1>3. CASE channel' = channel
  BY <1>2, <1>3 DEF OldMessages
<1>4. CASE \E s, n \in Nodes : /\ channel[s][n] # << >>
                               /\ channel' = [channel EXCEPT ![s][n] = Tail(@)]
  <2>1. PICK s \in Nodes, n \in Nodes :
            /\ channel[s][n] # << >>
            /\ channel' = [channel EXCEPT ![s][n] = Tail(@)]
    BY <1>4
  <2>2. s # n
    BY <1>2, <2>1
  <2>3. /\ channel'[s][n] = Tail(channel[s][n])
        /\ \A a, b \in Nodes : a # s \/ b # n => channel'[a][b] = channel[a][b]
    BY <1>1, <2>1
  <2>4. \A k \in DOMAIN Tail(channel[s][n]) :
            /\ k + 1 \in DOMAIN channel[s][n]
            /\ Tail(channel[s][n])[k] = channel[s][n][k + 1]
    BY <1>1, <2>1
  <2>5. ASSUME NEW a \in Nodes, NEW b \in Nodes, NEW k \in DOMAIN channel'[a][b]
        PROVE  \E j \in DOMAIN channel[a][b] :
                   channel'[a][b][k] = channel[a][b][j]
    <3>1. CASE a = s /\ b = n
      <4>1. channel'[a][b] = Tail(channel[s][n])
        BY <2>3, <3>1
      <4>2. /\ k + 1 \in DOMAIN channel[s][n]
            /\ channel'[a][b][k] = channel[s][n][k + 1]
        BY <2>4, <2>5, <4>1
      <4>3. QED
        BY <3>1, <4>2
    <3>2. CASE a # s \/ b # n
      BY <2>3, <2>5, <3>2
    <3>3. QED
      BY <3>1, <3>2
  <2>6. OldMessages
    BY <2>5 DEF OldMessages
  <2>7. QED
    BY <1>2, <2>2, <2>3, <2>6
<1>5. CASE \E n \in Nodes : channel' =
               [s \in Nodes |-> [channel[s] EXCEPT ![n] = << >>]]
  <2>1. PICK n \in Nodes : channel' =
               [s \in Nodes |-> [channel[s] EXCEPT ![n] = << >>]]
    BY <1>5
  <2>2. \A a, b \in Nodes : \/ channel'[a][b] = channel[a][b]
                            \/ channel'[a][b] = << >>
    BY <1>1, <2>1
  <2>3. OldMessages
    BY <2>2 DEF OldMessages
  <2>4. QED
    BY <1>2, <2>2, <2>3
<1>6. QED
  BY <1>3, <1>4, <1>5

LEMMA ChannelKeeps ==
    ASSUME OldMessages
    PROVE  MessagesKept
  BY DEF OldMessages, MessagesKept

LEMMA ReceiversSame ==
    ASSUME receivers' = receivers
    PROVE  ReceiversKept
  BY DEF ReceiversKept, FromReceiver

LEMMA ReceiversRemoved ==
    ASSUME IInv, NEW n \in Nodes, NEW k \in DOMAIN receivers[n],
           receivers' = [receivers EXCEPT ![n] = RemoveAt(@, k)]
    PROVE  ReceiversKept
<1>1. receivers \in [Nodes -> Seq(Receiver)]
  BY ReceiversOK
<1>2. receivers[n] \in Seq(Receiver) /\ k \in 1..Len(receivers[n])
  BY <1>1
<1>3. \A j \in DOMAIN RemoveAt(receivers[n], k) :
          \E i \in DOMAIN receivers[n] :
              RemoveAt(receivers[n], k)[j] = receivers[n][i]
  BY <1>2, RemoveAtElements
<1>4. /\ receivers'[n] = RemoveAt(receivers[n], k)
      /\ \A m \in Nodes \ {n} : receivers'[m] = receivers[m]
  BY <1>1
<1>5. ASSUME NEW m \in Nodes, NEW j \in DOMAIN receivers'[m]
      PROVE  FromReceiver(m, receivers'[m][j])
  <2>1. CASE m = n
    <3>1. PICK i \in DOMAIN receivers[n] :
              receivers'[n][j] = receivers[n][i]
      BY <1>3, <1>4, <1>5, <2>1
    <3>2. QED
      BY <2>1, <3>1 DEF FromReceiver
  <2>2. CASE m # n
    BY <1>4, <1>5, <2>2 DEF FromReceiver
  <2>3. QED
    BY <2>1, <2>2
<1>6. QED
  BY <1>5 DEF ReceiversKept

LEMMA ReceiversServed ==
    ASSUME IInv, NEW n \in Nodes, NEW k \in DOMAIN receivers[n], NEW v,
           receivers' = [receivers EXCEPT ![n][k].version = v]
    PROVE  ReceiversKept
<1>1. receivers \in [Nodes -> Seq(Receiver)]
  BY ReceiversOK
<1>2. receivers' = [receivers EXCEPT ![n] = [receivers[n] EXCEPT ![k] =
                       [receivers[n][k] EXCEPT !.version = v]]]
  BY <1>1
<1>3. ASSUME NEW m \in Nodes, NEW j \in DOMAIN receivers'[m]
      PROVE  FromReceiver(m, receivers'[m][j])
  <2>1. CASE m = n /\ j = k
    <3>1. receivers[n][k] \in Receiver
      BY <1>1
    <3>2. receivers'[n][k] = [receivers[n][k] EXCEPT !.version = v]
      BY <1>1, <1>2
    <3>3. QED
      BY <2>1, <3>1, <3>2 DEF FromReceiver, Receiver
  <2>2. CASE ~ (m = n /\ j = k)
    <3>1. j \in DOMAIN receivers[m] /\ receivers'[m][j] = receivers[m][j]
      BY <1>1, <1>2, <1>3, <2>2
    <3>2. QED
      BY <3>1 DEF FromReceiver
  <2>3. QED
    BY <2>1, <2>2
<1>4. QED
  BY <1>3 DEF ReceiversKept

\* receive_file() connects to the sender of the message for the identifier
\* and the name in it.
LEMMA ReceiversConnected ==
    ASSUME IInv, IdInv, NEW n \in Nodes, NEW s \in Nodes, Receives(n),
           channel[s][n] # << >>, Head(channel[s][n]).cmd = "changed",
           Connect(n, s, Head(channel[s][n]))
    PROVE  ReceiversKept
<1> DEFINE m == channel[s][n][1]
           r == [name |-> m.name, src |-> s, id |-> m.id, version |-> Absent]
           q == Append(receivers[n], r)
<1>1. /\ receivers \in [Nodes -> Seq(Receiver)]
      /\ channel \in [Nodes -> [Nodes -> Seq(Message)]]
  BY DEF IInv, TypeOK
<1>2. m = Head(channel[s][n]) /\ 1 \in DOMAIN channel[s][n]
  BY <1>1
<1>3. receivers' = [receivers EXCEPT ![n] = q]
  BY <1>2 DEF Connect
<1>4. s # n
  BY DEF IdInv, NoMessageToSelf
<1>5. FromMessage(n, r)
  <2>1. r.src = s /\ r.name = m.name /\ r.id = m.id
    OBVIOUS
  <2>2. QED
    BY <1>2, <1>4, <2>1 DEF FromMessage
<1> HIDE DEF r
<1>6. \A j \in DOMAIN q : (j \in DOMAIN receivers[n] /\ q[j] = receivers[n][j])
                           \/ q[j] = r
  <2>1. PICK x \in Seq(Receiver) : x = receivers[n]
    BY <1>1
  <2>2. \A j \in DOMAIN Append(x, r) : \/ j \in DOMAIN x /\ Append(x, r)[j] = x[j]
                                       \/ Append(x, r)[j] = r
    OBVIOUS
  <2>3. QED
    BY <2>1, <2>2
<1> HIDE DEF q
<1>7. ASSUME NEW d \in Nodes, NEW j \in DOMAIN receivers'[d]
      PROVE  FromReceiver(d, receivers'[d][j]) \/ FromMessage(d, receivers'[d][j])
  <2>1. CASE d = n
    <3>1. receivers'[n] = q
      BY <1>1, <1>3
    <3>2. QED
      BY <1>5, <1>6, <1>7, <2>1, <3>1 DEF FromReceiver
  <2>2. CASE d # n
    <3>1. receivers'[d] = receivers[d]
      BY <1>1, <1>3, <2>2
    <3>2. QED
      BY <1>7, <3>1 DEF FromReceiver
  <2>3. QED
    BY <2>1, <2>2
<1>8. QED
  BY <1>7 DEF ReceiversKept

-----------------------------------------------------------------------------
(* Every action keeps the meaning of the identifiers. *)

LEMMA LocalIds ==
    ASSUME IInv, IdInv, NEW n \in Nodes, Local(n)
    PROVE  IdInv'
<1>1. /\ file' = file /\ f_files' = f_files
      /\ f_modified_files' = f_modified_files
      /\ channel' = channel /\ receivers' = receivers
  BY DEF Local, LocalWrite, LocalClose, LocalDelete, daemon
<1>2. QED
  BY <1>1, DaemonNames, ChannelShrinks, ChannelKeeps, ReceiversSame, IdStep

\* Node n says nothing, or only that objects it still has changed.
Announces(n) ==
    \/ channel' = channel
    \/ \E msgs \in Seq(Message) :
           /\ Broadcast(n, msgs)
           /\ \A k \in DOMAIN msgs :
                  msgs[k].cmd = "changed" /\ NamedAfter(n, msgs[k])

LEMMA AnnouncesKeeps ==
    ASSUME IInv, IdInv, NEW n \in Nodes, Announces(n)
    PROVE  MessagesKept /\ \A m \in Nodes : channel'[m][m] = << >>
  BY ChannelShrinks, ChannelKeeps, BroadcastKeeps DEF Announces

\* What updated_file() stores and announces.
LEMMA UpdatedFileIds ==
    ASSUME IInv, NEW n \in Nodes, NEW f \in Files,
           NEW updated \in BOOLEAN, UpdatedFile(n, f, updated), clock' = clock
    PROVE  NamesKept /\ Announces(n)
<1> DEFINE v == disk[n][f]
<1>1. PICK i \in GetFile(n, f) :
        LET o == Entry(n, f, i)
            table == f_files[n] \cup {i}
            touched == SetLastUpdated(o, v)
            shared == SetStartSharing(touched, v)
        IN  \/ /\ SameStat(o, v)
               /\ Store(n, table, f_modified_files[n],
                        [file[n] EXCEPT ![i] = o])
               /\ UNCHANGED channel
            \/ /\ ~ SameStat(o, v)
               /\ updated
               /\ Store(n, table, f_modified_files[n],
                        [file[n] EXCEPT ![i] = shared])
               /\ Broadcast(n, << ChangedMessage(shared, i) >>)
            \/ /\ ~ SameStat(o, v)
               /\ ~ updated
               /\ Store(n, table, f_modified_files[n] \cup {i},
                        [file[n] EXCEPT ![i] = touched])
               /\ UNCHANGED channel
  BY DEF UpdatedFile
<1> DEFINE o == Entry(n, f, i)
           touched == SetLastUpdated(o, v)
           shared == SetStartSharing(touched, v)
<1>2. v \in Nat /\ v <= clock /\ clock \in Nat
  BY DEF IInv, TypeOK, TimesOK
<1>3. i \in Ids /\ o \in SharedFile /\ o.name = f /\ o.stat <= clock
  <2>1. i \in Ids /\ o \in SharedFile /\ o.name = f
    BY EntryType DEF IInv
  <2>2. file[n][i].stat <= clock
    BY <2>1 DEF IInv, TimesOK
  <2>3. QED
    BY <1>2, <2>1, <2>2 DEF Entry, NewFile, NoFile, Absent
<1>4. /\ touched \in SharedFile /\ touched.name = f /\ touched.stat = v
  BY <1>2, <1>3 DEF SetLastUpdated, SharedFile
<1>5. v # Absent => /\ shared \in SharedFile /\ shared.name = f
                    /\ shared.stat = v
  BY <1>2, <1>4 DEF SetStartSharing, SharedFile
<1> HIDE DEF o, touched, shared
<1>6. CASE /\ Store(n, f_files[n] \cup {i}, f_modified_files[n],
                    [file[n] EXCEPT ![i] = o])
           /\ UNCHANGED channel
  <2>1. StoreEntry(n, f, i, f_modified_files[n], o)
    BY <1>3, <1>6 DEF StoreEntry
  <2>2. QED
    BY <1>6, <2>1, EntryNames DEF Announces
<1>7. CASE /\ ~ SameStat(o, v)
           /\ Store(n, f_files[n] \cup {i}, f_modified_files[n],
                    [file[n] EXCEPT ![i] = shared])
           /\ Broadcast(n, << ChangedMessage(shared, i) >>)
  <2>1. v # Absent
    BY <1>7 DEF SameStat
  <2>2. StoreEntry(n, f, i, f_modified_files[n], shared)
    BY <1>2, <1>5, <1>7, <2>1 DEF StoreEntry
  <2>3. PICK m : m = ChangedMessage(shared, i)
    OBVIOUS
  <2>4. m \in Message /\ m.id = i /\ m.name = f
    BY <1>2, <1>3, <1>5, <2>1, <2>3 DEF ChangedMessage, Message
  <2>5. file'[n][i] = shared
    BY <2>2, EntryStored
  <2>6. NamedAfter(n, m)
    BY <1>5, <2>1, <2>4, <2>5 DEF NamedAfter
  <2>7. /\ << m >> \in Seq(Message)
        /\ \A k \in DOMAIN << m >> :
               << m >>[k].cmd = "changed" /\ NamedAfter(n, << m >>[k])
    BY <2>3, <2>4, <2>6 DEF ChangedMessage
  <2>8. Announces(n)
    BY <1>7, <2>3, <2>7 DEF Announces
  <2>9. QED
    BY <2>2, <2>8, EntryNames
<1>8. CASE /\ Store(n, f_files[n] \cup {i}, f_modified_files[n] \cup {i},
                    [file[n] EXCEPT ![i] = touched])
           /\ UNCHANGED channel
  <2>1. StoreEntry(n, f, i, f_modified_files[n] \cup {i}, touched)
    BY <1>2, <1>4, <1>8 DEF StoreEntry
  <2>2. QED
    BY <1>8, <2>1, EntryNames DEF Announces
<1>9. QED
  BY <1>1, <1>6, <1>7, <1>8 DEF o, touched, shared

LEMMA DeletedFileIds ==
    ASSUME IInv, IdInv, NEW n \in Nodes, NEW f \in Files, DeletedFile(n, f),
           clock' = clock
    PROVE  /\ NamesKept /\ MessagesKept
           /\ \A m \in Nodes : channel'[m][m] = << >>
<1>1. PICK table \in EraseFile(n, f) :
          Store(n, table, f_modified_files[n], file[n])
  BY DEF DeletedFile
<1>2. RemoveEntry(n, f, table)
  BY <1>1 DEF RemoveEntry
<1>3. PICK m : m = DeletedMessage(f)
  OBVIOUS
<1>4. m \in Message /\ m.cmd = "deleted"
  BY <1>3 DEF DeletedMessage, Message
<1>5. << m >> \in Seq(Message) /\ \A k \in DOMAIN << m >> :
                                      NamedAfter(n, << m >>[k])
  BY <1>4 DEF NamedAfter
<1>6. Broadcast(n, << m >>)
  BY <1>3 DEF DeletedFile
<1>7. QED
  BY <1>2, <1>5, <1>6, ErasedNames, BroadcastKeeps

LEMMA ProcessEventIds ==
    ASSUME IInv, IdInv, NEW n \in Nodes, ProcessEvent(n)
    PROVE  IdInv'
<1>1. /\ events[n] # << >> /\ clock' = clock /\ receivers' = receivers
  BY DEF ProcessEvent
<1>2. events \in [Nodes -> Seq(Event)]
  BY DEF IInv, TypeOK
<1>3. PICK e \in Event : e = Head(events[n])
  BY <1>1, <1>2
<1>4. e.name \in Files
  BY DEF Event
<1>5. \/ \E u \in BOOLEAN : UpdatedFile(n, e.name, u)
      \/ DeletedFile(n, e.name)
  BY <1>3 DEF ProcessEvent
<1>6. /\ NamesKept /\ MessagesKept
      /\ \A m \in Nodes : channel'[m][m] = << >>
  <2>1. CASE \E u \in BOOLEAN : UpdatedFile(n, e.name, u)
    <3>1. PICK u \in BOOLEAN : UpdatedFile(n, e.name, u)
      BY <2>1
    <3>2. QED
      BY <1>1, <1>4, <3>1, UpdatedFileIds, AnnouncesKeeps
  <2>2. CASE DeletedFile(n, e.name)
    BY <1>1, <1>4, <2>2, DeletedFileIds
  <2>3. QED
    BY <1>5, <2>1, <2>2
<1>7. QED
  BY <1>1, <1>6, ReceiversSame, IdStep

\* The objects the timer announces keep their names, and nothing is added.
LEMMA TimeoutAnnounces ==
    ASSUME IInv, NEW n \in Nodes, NEW due \in SUBSET Pending(n),
           ProcessTimeout(n, due)
    PROVE  NamesKept /\ Announces(n)
<1> DEFINE announce(i) == SetStartSharing(file[n][i], disk[n][file[n][i].name])
           shared == [i \in Ids |-> IF i \in due THEN announce(i)
                                                 ELSE file[n][i]]
           timer == Pending(n) \ due
<1>1. /\ TypeOK
      /\ disk \in [Nodes -> [Files -> Nat]]
      /\ f_files[n] \in SUBSET Ids /\ f_modified_files[n] \in SUBSET Ids
      /\ file[n] \in [Ids -> SharedFile]
  BY DEF IInv, TypeOK
<1>2. /\ Store(n, f_files[n], timer, shared) /\ receivers' = receivers
  BY DEF ProcessTimeout
<1>3. PICK order \in SetToSeqs(Found(n, due)) :
          Broadcast(n, [k \in DOMAIN order |->
                           ChangedMessage(shared[order[k]], order[k])])
  BY DEF ProcessTimeout
<1>4. /\ due \in SUBSET Ids /\ timer \in SUBSET Ids
      /\ due \subseteq f_modified_files[n] /\ timer \subseteq f_modified_files[n]
  BY <1>1 DEF Pending
<1>5. \A i \in Referenced(n) : file[n][i].name \in Files
  BY DEF IInv, TypeOK
<1>6. ASSUME NEW i \in due
      PROVE  /\ shared[i].name = file[n][i].name
             /\ disk[n][file[n][i].name] # Absent =>
                    ChangedMessage(shared[i], i) \in Message
  <2>1. i \in Ids /\ file[n][i] \in SharedFile /\ file[n][i].name \in Files
    BY <1>1, <1>4, <1>5 DEF Referenced
  <2>2. disk[n][file[n][i].name] \in Nat
    BY <1>1, <2>1
  <2>3. shared[i] = announce(i)
    BY <2>1
  <2>4. announce(i) \in SharedFile /\ announce(i).name = file[n][i].name
    BY <2>1, <2>2, SetStartSharingType
  <2>5. disk[n][file[n][i].name] # Absent =>
            announce(i).stat = disk[n][file[n][i].name]
    BY <2>1, <2>2 DEF SetStartSharing, SharedFile
  <2> HIDE DEF announce, shared
  <2>6. QED
    BY <2>1, <2>2, <2>3, <2>4, <2>5 DEF ChangedMessage, Message
<1>7. \A i \in Ids \ due : shared[i] = file[n][i]
  OBVIOUS
<1> HIDE DEF shared, timer
<1>8. \A i \in f_files[n] \cup timer :
          i \in Referenced(n) /\ shared[i].name = file[n][i].name
  BY <1>1, <1>4, <1>6, <1>7 DEF Referenced
<1>9. NamesKept
  BY <1>1, <1>2, <1>4, <1>8, StoreNames
<1>10. /\ f_files'[n] = f_files[n] /\ f_modified_files'[n] = timer
       /\ \A i \in f_files[n] \cup timer : file'[n][i] = shared[i]
       /\ \A i \in Ids \ (f_files[n] \cup timer) : file'[n][i] = NoFile
       /\ \A m \in Nodes \ {n} :
              /\ f_files'[m] = f_files[m]
              /\ f_modified_files'[m] = f_modified_files[m]
              /\ file'[m] = file[m]
  BY <1>1, <1>2, <1>4, StoreFrame
<1> DEFINE msgs == [k \in DOMAIN order |->
                       ChangedMessage(shared[order[k]], order[k])]
<1>11. order \in Seq(Found(n, due)) /\ Found(n, due) \subseteq due
  <2>1. Found(n, due) \subseteq due /\ IsFiniteSet(Found(n, due))
    BY <1>4, FS_Subset, FiniteAssumption DEF Found
  <2>2. QED
    BY <2>1, SetToSeqsType
<1>12. ASSUME NEW i \in Found(n, due)
       PROVE  /\ ChangedMessage(shared[i], i) \in Message
              /\ NamedAfter(n, ChangedMessage(shared[i], i))
              /\ ChangedMessage(shared[i], i).cmd = "changed"
  <2>1. i \in due /\ disk[n][file[n][i].name] # Absent
    BY <1>11, <1>12 DEF Found
  <2>2. /\ ChangedMessage(shared[i], i).id = i
        /\ ChangedMessage(shared[i], i).name = shared[i].name
    BY DEF ChangedMessage
  <2>3. i \in f_files'[n] \cup f_modified_files'[n] => file'[n][i] = shared[i]
    BY <1>10
  <2>4. NamedAfter(n, ChangedMessage(shared[i], i))
    BY <2>2, <2>3 DEF NamedAfter
  <2>5. ChangedMessage(shared[i], i).cmd = "changed"
    BY DEF ChangedMessage
  <2>6. QED
    BY <1>6, <2>1, <2>4, <2>5
<1>13. /\ msgs \in Seq(Message)
       /\ \A k \in DOMAIN msgs :
              msgs[k].cmd = "changed" /\ NamedAfter(n, msgs[k])
  BY <1>11, <1>12
<1>14. Broadcast(n, msgs)
  BY <1>3
<1> HIDE DEF msgs
<1>15. QED
  BY <1>9, <1>13, <1>14 DEF Announces

LEMMA TimeoutIds ==
    ASSUME IInv, IdInv, NEW n \in Nodes, NEW due \in SUBSET Pending(n),
           ProcessTimeout(n, due)
    PROVE  IdInv'
<1>1. NamesKept /\ Announces(n)
  BY TimeoutAnnounces
<1>2. receivers' = receivers
  BY DEF ProcessTimeout
<1>3. QED
  BY <1>1, <1>2, AnnouncesKeeps, ReceiversSame, IdStep

LEMMA ReceiveFileIds ==
    ASSUME IInv, IdInv, NEW n \in Nodes, NEW s \in Nodes,
           channel[s][n] # << >>, Head(channel[s][n]).cmd = "changed",
           ReceiveFile(n, s, Head(channel[s][n])), clock' = clock
    PROVE  NamesKept /\ ReceiversKept
<1>1. PICK m \in Message : m = Head(channel[s][n])
  BY HeadMessage
<1>2. ReceiversKept
  <2>1. CASE receivers' = receivers
    BY <2>1, ReceiversSame
  <2>2. CASE Receives(n) /\ Connect(n, s, m)
    BY <1>1, <2>2, ReceiversConnected
  <2>3. QED
    BY <1>1, <2>1, <2>2 DEF ReceiveFile
<1>3. CASE UNCHANGED daemon
  BY <1>2, <1>3, DaemonNames DEF daemon
<1>4. CASE \E i \in GetFile(n, m.name) :
               Store(n, f_files[n] \cup {i}, f_modified_files[n],
                     [file[n] EXCEPT ![i] = Entry(n, m.name, i)])
  <2>1. PICK f \in Files : f = m.name
    BY <1>1 DEF Message
  <2>2. PICK i \in GetFile(n, f) :
            Store(n, f_files[n] \cup {i}, f_modified_files[n],
                  [file[n] EXCEPT ![i] = Entry(n, f, i)])
    BY <1>4, <2>1
  <2>3. PICK o : o = Entry(n, f, i)
    OBVIOUS
  <2>4. o \in SharedFile /\ o.name = f /\ o.stat <= clock
    <3>1. i \in Ids /\ o \in SharedFile /\ o.name = f
      BY <2>3, EntryType DEF IInv
    <3>2. file[n][i].stat <= clock /\ clock \in Nat
      BY <3>1 DEF IInv, TimesOK, TypeOK
    <3>3. QED
      BY <2>3, <3>1, <3>2 DEF Entry, NewFile, NoFile, Absent
  <2>5. StoreEntry(n, f, i, f_modified_files[n], o)
    BY <2>2, <2>3, <2>4 DEF StoreEntry
  <2>6. QED
    BY <1>2, <2>5, EntryNames
<1>5. QED
  BY <1>1, <1>3, <1>4 DEF ReceiveFile

LEMMA DeleteLocalFileIds ==
    ASSUME IInv, IdInv, NEW n \in Nodes, NEW f \in Files,
           DeleteLocalFile(n, f), clock' = clock
    PROVE  NamesKept /\ ReceiversKept
<1>1. ReceiversKept
  BY ReceiversSame DEF DeleteLocalFile
<1>2. CASE UNCHANGED daemon
  BY <1>1, <1>2, DaemonNames DEF daemon
<1>3. CASE Unlink(n, f)
  <2>1. PICK table \in EraseFile(n, f) :
            Store(n, table, f_modified_files[n], file[n])
    BY <1>3 DEF Unlink
  <2>2. RemoveEntry(n, f, table)
    BY <2>1 DEF RemoveEntry
  <2>3. QED
    BY <1>1, <2>2, ErasedNames
<1>4. QED
  BY <1>2, <1>3 DEF DeleteLocalFile

LEMMA ReceiveMessageIds ==
    ASSUME IInv, IdInv, NEW n \in Nodes, NEW s \in Nodes, ReceiveMessage(n, s)
    PROVE  IdInv'
<1>1. /\ channel[s][n] # << >> /\ clock' = clock
      /\ channel' = [channel EXCEPT ![s][n] = Tail(@)]
  BY DEF ReceiveMessage
<1>2. PICK m \in Message : m = Head(channel[s][n])
  BY <1>1, HeadMessage
<1>3. NamesKept /\ ReceiversKept
  <2>1. CASE m.cmd = "changed" /\ ReceiveFile(n, s, m)
    BY <1>1, <1>2, <2>1, ReceiveFileIds
  <2>2. CASE m.cmd = "deleted" /\ DeleteLocalFile(n, m.name)
    <3>1. m.name \in Files
      BY DEF Message
    <3>2. QED
      BY <1>1, <2>2, <3>1, DeleteLocalFileIds
  <2>3. QED
    BY <1>2, <2>1, <2>2 DEF ReceiveMessage
<1>4. QED
  BY <1>1, <1>3, ChannelShrinks, ChannelKeeps, IdStep

LEMMA TransferIds ==
    ASSUME IInv, IdInv, NEW n \in Nodes, NEW k \in DOMAIN receivers[n],
           Serve(n, k) \/ Refuse(n, k) \/ StreamFails(n, k)
    PROVE  IdInv'
<1>1. /\ file' = file /\ f_files' = f_files
      /\ f_modified_files' = f_modified_files /\ channel' = channel
  BY DEF Serve, Refuse, StreamFails, daemon
<1>2. \/ receivers' = [receivers EXCEPT ![n] = RemoveAt(@, k)]
      \/ \E v : receivers' = [receivers EXCEPT ![n][k].version = v]
  BY DEF Serve, Refuse, StreamFails
<1>3. ReceiversKept
  BY <1>2, ReceiversRemoved, ReceiversServed
<1>4. QED
  BY <1>1, <1>3, DaemonNames, ChannelShrinks, ChannelKeeps, IdStep

LEMMA InstallIds ==
    ASSUME IInv, IdInv, NEW n \in Nodes, NEW k \in DOMAIN receivers[n],
           Install(n, k)
    PROVE  IdInv'
<1>1. /\ receivers[n][k] \in Receiver
      /\ clock \in Nat
      /\ receivers[n][k].version <= clock
  BY DEF IInv, TypeOK, TimesOK
<1>2. PICK f \in Files : f = receivers[n][k].name
  BY <1>1 DEF Receiver
<1>3. PICK v \in Nat : v = receivers[n][k].version
  BY <1>1 DEF Receiver
<1>4. /\ receivers' = [receivers EXCEPT ![n] = RemoveAt(@, k)]
      /\ clock' = clock /\ channel' = channel
  BY DEF Install
<1>5. PICK i \in GetFile(n, f) :
          Store(n, f_files[n] \cup {i}, f_modified_files[n],
                [file[n] EXCEPT ![i] = [Entry(n, f, i) EXCEPT !.stat = v]])
  BY <1>2, <1>3 DEF Install
<1>6. PICK x : x = [Entry(n, f, i) EXCEPT !.stat = v]
  OBVIOUS
<1>7. x \in SharedFile /\ x.name = f /\ x.stat = v /\ v <= clock
  <2>1. Entry(n, f, i) \in SharedFile /\ Entry(n, f, i).name = f
    BY EntryType DEF IInv
  <2>2. QED
    BY <1>1, <1>3, <1>6, <2>1 DEF SharedFile
<1>8. StoreEntry(n, f, i, f_modified_files[n], x)
  BY <1>4, <1>5, <1>6, <1>7 DEF StoreEntry
<1>9. QED
  BY <1>4, <1>8, EntryNames, ReceiversRemoved, ChannelShrinks, ChannelKeeps, IdStep

LEMMA RestartIds ==
    ASSUME IInv, IdInv, NEW n \in Nodes, Restart(n)
    PROVE  IdInv'
<1>1. /\ Store(n, {}, {}, file[n])
      /\ receivers' = [receivers EXCEPT ![n] = << >>]
      /\ channel' = [s \in Nodes |-> [channel[s] EXCEPT ![n] = << >>]]
  BY DEF Restart
<1>2. TypeOK /\ receivers \in [Nodes -> Seq(Receiver)]
  BY DEF IInv, TypeOK
<1>3. PICK none \in SUBSET Ids : none = {}
  OBVIOUS
<1>4. NamesKept
  <2>1. \A i \in none \cup none : FALSE
    BY <1>3
  <2>2. Store(n, none, none, file[n])
    BY <1>1, <1>3
  <2>3. QED
    BY <1>2, <2>1, <2>2, StoreNames
<1>5. ReceiversKept
  <2>1. /\ receivers'[n] = << >>
        /\ \A m \in Nodes \ {n} : receivers'[m] = receivers[m]
    BY <1>1, <1>2
  <2>2. QED
    BY <2>1 DEF ReceiversKept, FromReceiver
<1>6. MessagesKept /\ \A m \in Nodes : channel'[m][m] = << >>
  BY <1>1, ChannelShrinks, ChannelKeeps
<1>7. QED
  BY <1>4, <1>5, <1>6, IdStep

LEMMA LoseMessageIds ==
    ASSUME IInv, IdInv, NEW n \in Nodes, NEW s \in Nodes, LoseMessage(n, s)
    PROVE  IdInv'
<1>1. /\ file' = file /\ f_files' = f_files
      /\ f_modified_files' = f_modified_files /\ receivers' = receivers
      /\ channel[s][n] # << >>
      /\ channel' = [channel EXCEPT ![s][n] = Tail(@)]
  BY DEF LoseMessage, daemon
<1>2. QED
  BY <1>1, DaemonNames, ChannelShrinks, ChannelKeeps, ReceiversSame, IdStep

LEMMA IdNext ==
    ASSUME IInv, IdInv, [Next]_vars
    PROVE  IdInv'
<1>1. CASE UNCHANGED vars
  BY <1>1, DaemonNames, ChannelShrinks, ChannelKeeps, ReceiversSame, IdStep DEF vars
<1>2. ASSUME NEW n \in Nodes, Timeout(n) PROVE IdInv'
  BY <1>2, TimeoutIds DEF Timeout
<1>3. ASSUME NEW n \in Nodes, Receive(n) PROVE IdInv'
  BY <1>3, ReceiveMessageIds DEF Receive
<1>4. ASSUME NEW n \in Nodes, Transfer(n) PROVE IdInv'
  BY <1>4, TransferIds, InstallIds DEF Transfer
<1>5. ASSUME NEW n \in Nodes, Failure(n) PROVE IdInv'
  BY <1>5, TransferIds, LoseMessageIds, RestartIds DEF Failure
<1>6. QED
  BY <1>1, <1>2, <1>3, <1>4, <1>5, LocalIds, ProcessEventIds DEF Next

LEMMA IdInit ==
    ASSUME Init
    PROVE  IdInv
  BY DEF Init, IdInv, MessagesNamed, ReceiversNamed, NoMessageToSelf

\* In every reachable state of any cluster, an identifier that a message or a
\* transfer holds is, in the table and the timer's set of the computer it comes
\* from, that of a file of the announced name or of none: get_file() never
\* gives it away.  Transfers only run towards computers that receive.
THEOREM IdentifiersKeepTheirNames == Spec => []IdInv
<1>1. Init => IdInv
  BY IdInit
<1>2. IInv /\ IdInv /\ [Next]_vars => IdInv'
  BY IdNext
<1>3. QED
  BY <1>1, <1>2, Invariance, PTL DEF Spec

-----------------------------------------------------------------------------
(* The copies on their way to a node, as Replica sees its receivers. *)

CopiesOf(q, f) ==
    {q[k].version : k \in {j \in DOMAIN q : /\ q[j].name = f
                                            /\ q[j].version # Absent}}

LEMMA CopiesAre ==
    /\ copies = [n \in Nodes |-> [f \in Files |-> CopiesOf(receivers[n], f)]]
    /\ copies' = [n \in Nodes |-> [f \in Files |-> CopiesOf(receivers'[n], f)]]
  BY DEF copies, CopiesOf

\* The copies of one file on one node change.
LEMMA CopiesExcept ==
    ASSUME NEW n \in Nodes, NEW f \in Files, NEW S,
           CopiesOf(receivers'[n], f) = S,
           \A g \in Files \ {f} :
               CopiesOf(receivers'[n], g) = CopiesOf(receivers[n], g),
           \A m \in Nodes \ {n} : receivers'[m] = receivers[m]
    PROVE  copies' = [copies EXCEPT ![n][f] = S]
<1> DEFINE new(m, g) == IF m = n /\ g = f THEN S ELSE CopiesOf(receivers[m], g)
<1>1. \A m \in Nodes, g \in Files : CopiesOf(receivers'[m], g) = new(m, g)
  OBVIOUS
<1>2. copies' = [m \in Nodes |-> [g \in Files |-> new(m, g)]]
  BY <1>1, CopiesAre
<1>3. PICK a : /\ a = copies
               /\ a = [m \in Nodes |-> [g \in Files |->
                                          CopiesOf(receivers[m], g)]]
  BY CopiesAre
<1>4. [a EXCEPT ![n][f] = S] = [m \in Nodes |-> [g \in Files |-> new(m, g)]]
  <2>1. [a EXCEPT ![n][f] = S] = [a EXCEPT ![n] = [a[n] EXCEPT ![f] = S]]
    OBVIOUS
  <2>2. [a[n] EXCEPT ![f] = S] = [g \in Files |-> new(n, g)]
    BY <1>3
  <2>3. \A m \in Nodes \ {n} : a[m] = [g \in Files |-> new(m, g)]
    BY <1>3
  <2> HIDE DEF new
  <2>4. [a EXCEPT ![n] = [g \in Files |-> new(n, g)]]
            = [m \in Nodes |-> [g \in Files |-> new(m, g)]]
    BY <1>3, <2>3
  <2>5. QED
    BY <2>1, <2>2, <2>4
<1>5. QED
  BY <1>2, <1>3, <1>4

LEMMA RemoveAtKeeps ==
    ASSUME NEW S, NEW q \in Seq(S), NEW k \in 1..Len(q), NEW i \in DOMAIN q,
           i # k
    PROVE  \E j \in DOMAIN RemoveAt(q, k) : RemoveAt(q, k)[j] = q[i]
<1> DEFINE a == SubSeq(q, 1, k - 1)
           b == SubSeq(q, k + 1, Len(q))
<1>1. /\ a \in Seq(S) /\ Len(a) = k - 1
      /\ \A x \in 1..(k - 1) : a[x] = q[x]
  OBVIOUS
<1>2. /\ b \in Seq(S) /\ Len(b) = Len(q) - k
      /\ \A x \in 1..(Len(q) - k) : b[x] = q[k + x]
  OBVIOUS
<1> HIDE DEF a, b
<1>3. RemoveAt(q, k) = a \o b /\ DOMAIN (a \o b) = 1..(Len(q) - 1)
  BY <1>1, <1>2 DEF RemoveAt, a, b
<1>4. CASE i < k
  <2>1. i \in 1..(Len(q) - 1) /\ (a \o b)[i] = q[i]
    BY <1>1, <1>2, <1>4
  <2>2. QED
    BY <1>3, <2>1
<1>5. CASE i > k
  <2>1. i - 1 \in 1..(Len(q) - 1) /\ i - k \in 1..(Len(q) - k)
    BY <1>5
  <2>2. (a \o b)[i - 1] = b[i - k]
    BY SMTT(30), <1>1, <1>2, <1>5, <2>1
  <2>3. b[i - k] = q[i]
    BY <1>2, <1>5, <2>1
  <2>4. QED
    BY <1>3, <2>1, <2>2, <2>3
<1>6. QED
  BY <1>4, <1>5

\* A receiver that goes takes at most its own version with it, and another
\* receiver of the same version may still be there.
LEMMA CopiesRemoved ==
    ASSUME NEW q \in Seq(Receiver), NEW k \in 1..Len(q), NEW f
    PROVE  LET c == CopiesOf(RemoveAt(q, k), f)
           IN  /\ c \in {CopiesOf(q, f), CopiesOf(q, f) \ {q[k].version}}
               /\ q[k].name # f \/ q[k].version = Absent => c = CopiesOf(q, f)
<1> DEFINE r == RemoveAt(q, k)
<1>1. \A j \in DOMAIN r : \E i \in DOMAIN q : r[j] = q[i]
  BY RemoveAtElements
<1>2. \A i \in DOMAIN q : i # k => \E j \in DOMAIN r : r[j] = q[i]
  BY RemoveAtKeeps
<1> HIDE DEF r
<1>3. CopiesOf(r, f) \subseteq CopiesOf(q, f)
  <2>1. ASSUME NEW v \in CopiesOf(r, f) PROVE v \in CopiesOf(q, f)
    <3>1. PICK j \in DOMAIN r : r[j].name = f /\ r[j].version # Absent
                               /\ v = r[j].version
      BY <2>1 DEF CopiesOf
    <3>2. QED
      BY <1>1, <3>1 DEF CopiesOf
  <2>2. QED
    BY <2>1
<1>4. ASSUME NEW v \in CopiesOf(q, f), v \notin CopiesOf(r, f)
      PROVE  q[k].name = f /\ q[k].version # Absent /\ v = q[k].version
  <2>1. PICK i \in DOMAIN q : q[i].name = f /\ q[i].version # Absent
                             /\ v = q[i].version
    BY DEF CopiesOf
  <2>2. CASE i = k
    BY <2>1, <2>2
  <2>3. CASE i # k
    BY <1>2, <1>4, <2>1, <2>3 DEF CopiesOf
  <2>4. QED
    BY <2>2, <2>3
<1>5. QED
  BY <1>3, <1>4 DEF r

\* A new receiver has no copy yet.
LEMMA CopiesAppended ==
    ASSUME NEW q \in Seq(Receiver), NEW r \in Receiver, r.version = Absent,
           NEW f
    PROVE  CopiesOf(Append(q, r), f) = CopiesOf(q, f)
<1> DEFINE a == Append(q, r)
<1>1. /\ \A j \in DOMAIN a : (j \in DOMAIN q /\ a[j] = q[j]) \/ a[j] = r
      /\ \A j \in DOMAIN q : j \in DOMAIN a /\ a[j] = q[j]
  OBVIOUS
<1> HIDE DEF a
<1>2. CopiesOf(a, f) = CopiesOf(q, f)
  BY <1>1 DEF CopiesOf
<1>3. QED
  BY <1>2 DEF a

\* Receiver k of q, which has no copy, gets version v in p.
GetsVersion(q, k, v, p) ==
    /\ k \in DOMAIN q /\ q[k].version = Absent /\ v # Absent
    /\ DOMAIN p = DOMAIN q
    /\ p[k].name = q[k].name /\ p[k].version = v
    /\ \A j \in DOMAIN q : j # k => p[j] = q[j]

LEMMA CopiesServed ==
    ASSUME NEW q, NEW k, NEW v, NEW f, NEW p, GetsVersion(q, k, v, p)
    PROVE  /\ q[k].name = f => CopiesOf(p, f) = CopiesOf(q, f) \cup {v}
           /\ q[k].name # f => CopiesOf(p, f) = CopiesOf(q, f)
<1>4. CopiesOf(p, f) \subseteq CopiesOf(q, f) \cup {v}
  BY DEF CopiesOf, GetsVersion
<1>5. CopiesOf(q, f) \subseteq CopiesOf(p, f)
  BY DEF CopiesOf, GetsVersion
<1>6. q[k].name = f => v \in CopiesOf(p, f)
  BY DEF CopiesOf, GetsVersion
<1>7. q[k].name # f => CopiesOf(p, f) \subseteq CopiesOf(q, f)
  BY DEF CopiesOf, GetsVersion
<1>8. QED
  BY <1>4, <1>5, <1>6, <1>7

-----------------------------------------------------------------------------
(* Every step is one of Replica, or leaves the files alone. *)

LEMMA CopiesStay ==
    ASSUME receivers' = receivers
    PROVE  copies' = copies
  BY CopiesAre

LEMMA WriteStep ==
    ASSUME IInv, NEW n \in Nodes, NEW f \in Files, LocalWrite(n, f)
    PROVE  R!Write(n, f)
<1>1. clock \in Nat /\ clock < MaxClock /\ MaxClock \in Nat
  BY BoundAssumption DEF LocalWrite, IInv, TypeOK
<1>2. PICK v \in 1..MaxClock : v = clock + 1
  BY <1>1
<1>3. disk' = [disk EXCEPT ![n][f] = v] /\ copies' = copies
  BY <1>2, CopiesStay DEF LocalWrite
<1>4. ASSUME NEW m \in Nodes
      PROVE  v > disk[m][f] /\ \A c \in copies[m][f] : v > c
  <2>1. disk[m][f] \in Nat /\ disk[m][f] <= clock
    BY DEF IInv, TypeOK, TimesOK
  <2>2. ASSUME NEW c \in copies[m][f] PROVE v > c
    <3>1. PICK k \in DOMAIN receivers[m] : c = receivers[m][k].version
      BY CopiesAre DEF CopiesOf
    <3>2. receivers[m][k] \in Receiver
      BY DEF IInv, TypeOK
    <3>3. c \in Nat /\ c <= clock
      BY <3>1, <3>2 DEF Receiver, IInv, TimesOK
    <3>4. QED
      BY <1>1, <1>2, <3>3
  <2>3. QED
    BY <1>1, <1>2, <2>1, <2>2
<1>5. n \in Users
  BY DEF LocalWrite
<1>6. QED
  BY <1>3, <1>4, <1>5 DEF R!Write

LEMMA RemoveFileStep ==
    ASSUME NEW n \in Nodes, NEW f \in Files,
           n \in Users \cup DeleteApply, receivers' = receivers,
           disk' = [disk EXCEPT ![n][f] = Absent]
    PROVE  R!Remove(n, f)
  BY CopiesStay DEF R!Remove, Absent

LEMMA ServeStep ==
    ASSUME IInv, IdInv, NEW n \in Nodes, NEW k \in DOMAIN receivers[n],
           Serve(n, k)
    PROVE  \E s \in Nodes, f \in Files : R!Copy(s, n, f)
<1>1. /\ receivers \in [Nodes -> Seq(Receiver)]
      /\ receivers[n] \in Seq(Receiver)
  BY DEF IInv, TypeOK
<1>2. PICK r \in Receiver : r = receivers[n][k]
  BY <1>1
<1>3. r.src \in Nodes /\ r.name \in Files /\ r.id \in Ids
  BY DEF Receiver
<1>4. /\ r.src # n /\ Receives(n)
      /\ r.id \in Referenced(r.src) => file[r.src][r.id].name = r.name
  BY <1>2 DEF IdInv, ReceiversNamed, IdNames
<1>5. PICK v : v = Served(r.src, r.id)
  OBVIOUS
<1>6. /\ r.version = Absent /\ v # Absent /\ disk' = disk
      /\ receivers' = [receivers EXCEPT ![n][k].version = v]
  BY <1>2, <1>5 DEF Serve
<1>7. v = disk[r.src][r.name]
  BY <1>4, <1>5, <1>6 DEF Served, Referenced
<1>8. receivers' = [receivers EXCEPT ![n] =
          [receivers[n] EXCEPT ![k] = [receivers[n][k] EXCEPT !.version = v]]]
  BY <1>1, <1>6
<1>9. /\ receivers'[n] =
             [receivers[n] EXCEPT ![k] = [receivers[n][k] EXCEPT !.version = v]]
      /\ \A m \in Nodes \ {n} : receivers'[m] = receivers[m]
  BY <1>1, <1>8
<1>10. ASSUME NEW f \in Files
       PROVE  /\ r.name = f => CopiesOf(receivers'[n], f)
                                  = CopiesOf(receivers[n], f) \cup {v}
              /\ r.name # f => CopiesOf(receivers'[n], f)
                                  = CopiesOf(receivers[n], f)
  <2>1. PICK q \in Seq(Receiver) : q = receivers[n]
    BY <1>1
  <2>2. k \in DOMAIN q /\ q[k] = r /\ q[k].version = Absent /\ v # Absent
    BY <1>2, <1>6, <2>1
  <2>3. PICK p : p = receivers'[n]
    OBVIOUS
  <2>4. /\ DOMAIN p = DOMAIN q /\ \A j \in DOMAIN q : j # k => p[j] = q[j]
        /\ p[k].name = q[k].name /\ p[k].version = v
    BY <1>9, <2>1, <2>2, <2>3 DEF Receiver
  <2>5. GetsVersion(q, k, v, p)
    BY <2>2, <2>4 DEF GetsVersion
  <2>6. /\ q[k].name = f => CopiesOf(p, f) = CopiesOf(q, f) \cup {v}
        /\ q[k].name # f => CopiesOf(p, f) = CopiesOf(q, f)
    BY <2>5, CopiesServed
  <2>7. QED
    BY <2>1, <2>2, <2>3, <2>6
<1>11. copies' = [copies EXCEPT ![n][r.name] = @ \cup {v}]
  <2>1. copies[n][r.name] = CopiesOf(receivers[n], r.name)
    BY <1>3, CopiesAre
  <2>2. CopiesOf(receivers'[n], r.name) = copies[n][r.name] \cup {v}
    BY <1>3, <1>10, <2>1
  <2>3. \A g \in Files \ {r.name} :
            CopiesOf(receivers'[n], g) = CopiesOf(receivers[n], g)
    BY <1>10
  <2>4. QED
    BY <1>3, <1>9, <2>2, <2>3, CopiesExcept
<1>12. R!Copy(r.src, n, r.name)
  BY <1>4, <1>6, <1>7, <1>11 DEF R!Copy, R!Receives, Receives, Absent
<1>13. QED
  BY <1>3, <1>12

\* What a receiver that goes means for the copies.
LEMMA ReceiverGone ==
    ASSUME IInv, NEW n \in Nodes, NEW k \in DOMAIN receivers[n],
           receivers' = [receivers EXCEPT ![n] = RemoveAt(@, k)],
           NEW f, f = receivers[n][k].name, NEW v, v = receivers[n][k].version
    PROVE  /\ copies' \in {copies, [copies EXCEPT ![n][f] = @ \ {v}]}
           /\ v = Absent => copies' = copies
           /\ v # Absent => v \in copies[n][f]
           /\ f \in Files
<1>1. /\ receivers \in [Nodes -> Seq(Receiver)]
      /\ receivers[n] \in Seq(Receiver) /\ k \in 1..Len(receivers[n])
  BY DEF IInv, TypeOK
<1>2. receivers[n][k] \in Receiver
  BY <1>1
<1>3. f \in Files
  BY <1>2 DEF Receiver
<1>4. /\ receivers'[n] = RemoveAt(receivers[n], k)
      /\ \A m \in Nodes \ {n} : receivers'[m] = receivers[m]
  BY <1>1
<1>5. \A g \in Files :
          LET c == CopiesOf(receivers'[n], g)
              b == CopiesOf(receivers[n], g)
          IN  c \in {b, b \ {v}} /\ (f # g \/ v = Absent => c = b)
  BY <1>1, <1>4, CopiesRemoved
<1>6. copies' \in {copies, [copies EXCEPT ![n][f] = @ \ {v}]}
  <2>1. CASE CopiesOf(receivers'[n], f) = CopiesOf(receivers[n], f)
    <3>1. copies' = copies
      BY <1>3, <1>4, <1>5, <2>1, CopiesAre
    <3>2. QED
      BY <3>1
  <2>2. CASE CopiesOf(receivers'[n], f) = CopiesOf(receivers[n], f) \ {v}
    <3>1. copies[n][f] = CopiesOf(receivers[n], f)
      BY <1>3, CopiesAre
    <3>2. copies' = [copies EXCEPT ![n][f] =
                         CopiesOf(receivers[n], f) \ {v}]
      BY <1>3, <1>4, <1>5, <2>2, CopiesExcept
    <3>3. QED
      BY <3>1, <3>2
  <2>3. QED
    BY <1>3, <1>5, <2>1, <2>2
<1>7. v = Absent => copies' = copies
  BY <1>4, <1>5, CopiesAre
<1>8. v # Absent => v \in copies[n][f]
  BY <1>3, CopiesAre DEF CopiesOf
<1>9. QED
  BY <1>3, <1>6, <1>7, <1>8

LEMMA InstallStep ==
    ASSUME IInv, NEW n \in Nodes, NEW k \in DOMAIN receivers[n], Install(n, k)
    PROVE  \E f \in Files : R!Land(n, f)
<1>1. PICK f, v : f = receivers[n][k].name /\ v = receivers[n][k].version
  OBVIOUS
<1>2. /\ v # Absent /\ disk' = [disk EXCEPT ![n][f] = v]
      /\ receivers' = [receivers EXCEPT ![n] = RemoveAt(@, k)]
  BY <1>1 DEF Install
<1>3. /\ copies' \in {copies, [copies EXCEPT ![n][f] = @ \ {v}]}
      /\ v \in copies[n][f] /\ f \in Files
  BY <1>1, <1>2, ReceiverGone
<1>4. R!Land(n, f)
  BY <1>2, <1>3 DEF R!Land
<1>5. QED
  BY <1>3, <1>4

LEMMA GiveUpStep ==
    ASSUME IInv, NEW n \in Nodes, NEW k \in DOMAIN receivers[n],
           Refuse(n, k) \/ StreamFails(n, k)
    PROVE  UNCHANGED R!vars \/ \E f \in Files : R!Drop(n, f)
<1>1. PICK f, v : f = receivers[n][k].name /\ v = receivers[n][k].version
  OBVIOUS
<1>2. /\ disk' = disk
      /\ receivers' = [receivers EXCEPT ![n] = RemoveAt(@, k)]
  BY DEF Refuse, StreamFails
<1>3. /\ copies' \in {copies, [copies EXCEPT ![n][f] = @ \ {v}]}
      /\ v = Absent => copies' = copies
      /\ v # Absent => v \in copies[n][f]
      /\ f \in Files
  BY <1>1, <1>2, ReceiverGone
<1>4. CASE copies' = copies
  BY <1>2, <1>4 DEF R!vars
<1>5. CASE copies' # copies
  <2>1. R!Drop(n, f)
    BY <1>2, <1>3, <1>5 DEF R!Drop
  <2>2. QED
    BY <1>3, <2>1
<1>6. QED
  BY <1>4, <1>5

LEMMA RestartStep ==
    ASSUME IInv, NEW n \in Nodes, Restart(n)
    PROVE  R!DropAll(n)
<1>1. /\ receivers \in [Nodes -> Seq(Receiver)] /\ disk' = disk
      /\ receivers' = [receivers EXCEPT ![n] = << >>]
  BY DEF IInv, TypeOK, Restart
<1>2. /\ receivers'[n] = << >>
      /\ \A m \in Nodes \ {n} : receivers'[m] = receivers[m]
  BY <1>1
<1>3. \A f \in Files : CopiesOf(receivers'[n], f) = {}
  BY <1>2 DEF CopiesOf
<1>4. copies' = [copies EXCEPT ![n] = [f \in Files |-> {}]]
  BY <1>2, <1>3, CopiesAre
<1>5. QED
  BY <1>1, <1>4 DEF R!DropAll

\* receive_file() leaves the files and the copies that were served alone.
LEMMA ReceiveFileStep ==
    ASSUME IInv, NEW n \in Nodes, NEW s \in Nodes, NEW m \in Message,
           m.cmd = "changed", ReceiveFile(n, s, m)
    PROVE  UNCHANGED R!vars
<1>1. disk' = disk
  BY DEF ReceiveFile
<1>2. CASE receivers' = receivers
  BY <1>1, <1>2, CopiesStay DEF R!vars
<1>3. CASE Connect(n, s, m)
  <2> DEFINE r == [name |-> m.name, src |-> s, id |-> m.id,
                   version |-> Absent]
  <2>1. receivers \in [Nodes -> Seq(Receiver)]
    BY ReceiversOK
  <2>2. r \in Receiver /\ r.version = Absent
    BY DEF Message, Receiver, Absent
  <2>3. receivers' = [receivers EXCEPT ![n] = Append(receivers[n], r)]
    BY <1>3 DEF Connect
  <2> HIDE DEF r
  <2>4. \A f \in Files : CopiesOf(receivers'[n], f) = CopiesOf(receivers[n], f)
    BY <2>1, <2>2, <2>3, CopiesAppended
  <2>5. \A d \in Nodes \ {n} : receivers'[d] = receivers[d]
    BY <2>1, <2>3
  <2>6. copies' = copies
    BY <2>4, <2>5, CopiesAre
  <2>7. QED
    BY <1>1, <2>6 DEF R!vars
<1>4. QED
  BY <1>2, <1>3 DEF ReceiveFile

LEMMA ReceiveStep ==
    ASSUME IInv, NEW n \in Nodes, Receive(n)
    PROVE  UNCHANGED R!vars \/ \E f \in Files : R!Remove(n, f)
<1>1. PICK s \in Nodes : ReceiveMessage(n, s)
  BY DEF Receive
<1>2. channel[s][n] # << >>
  BY <1>1 DEF ReceiveMessage
<1>3. PICK m \in Message : m = Head(channel[s][n])
  BY <1>2, HeadMessage
<1>4. CASE m.cmd = "changed" /\ ReceiveFile(n, s, m)
  BY <1>4, ReceiveFileStep
<1>5. CASE m.cmd = "deleted" /\ DeleteLocalFile(n, m.name)
  <2>1. m.name \in Files /\ receivers' = receivers
    BY <1>5 DEF Message, DeleteLocalFile
  <2>2. CASE disk' = disk
    BY <2>1, <2>2, CopiesStay DEF R!vars
  <2>3. CASE Applies(n) /\ Unlink(n, m.name)
    <3>1. n \in DeleteApply /\ disk' = [disk EXCEPT ![n][m.name] = Absent]
      BY <2>3 DEF Applies, Unlink
    <3>2. R!Remove(n, m.name)
      BY <2>1, <3>1, RemoveFileStep
    <3>3. QED
      BY <2>1, <3>2
  <2>4. QED
    BY <1>5, <2>2, <2>3 DEF DeleteLocalFile
<1>6. QED
  BY <1>1, <1>3, <1>4, <1>5 DEF ReceiveMessage

LEMMA LocalReplica ==
    ASSUME IInv, NEW n \in Nodes, Local(n)
    PROVE  \/ UNCHANGED R!vars
           \/ \E f \in Files : R!Write(n, f) \/ R!Remove(n, f)
<1>1. PICK f \in Files : LocalWrite(n, f) \/ LocalClose(n, f)
                         \/ LocalDelete(n, f)
  BY DEF Local
<1>2. CASE LocalWrite(n, f)
  BY <1>2, WriteStep
<1>3. CASE LocalClose(n, f)
  BY <1>3, CopiesStay DEF LocalClose, R!vars
<1>4. CASE LocalDelete(n, f)
  BY <1>4, RemoveFileStep DEF LocalDelete
<1>5. QED
  BY <1>1, <1>2, <1>3, <1>4

LEMMA ReplicaStep ==
    ASSUME IInv, IdInv, [Next]_vars
    PROVE  [R!Next]_(R!vars)
<1>1. CASE UNCHANGED vars
  BY <1>1, CopiesStay DEF vars, R!vars
<1>2. ASSUME NEW n \in Nodes, Local(n) PROVE [R!Next]_(R!vars)
  BY <1>2, LocalReplica DEF R!Next
<1>3. ASSUME NEW n \in Nodes, ProcessEvent(n) \/ Timeout(n)
      PROVE  [R!Next]_(R!vars)
  BY <1>3, CopiesStay DEF ProcessEvent, Timeout, ProcessTimeout, R!vars
<1>4. ASSUME NEW n \in Nodes, Receive(n) PROVE [R!Next]_(R!vars)
  BY <1>4, ReceiveStep DEF R!Next
<1>5. ASSUME NEW n \in Nodes, Transfer(n) PROVE [R!Next]_(R!vars)
  BY <1>5, ServeStep, GiveUpStep, InstallStep DEF Transfer, R!Next
<1>6. ASSUME NEW n \in Nodes, Failure(n) PROVE [R!Next]_(R!vars)
  <2>1. CASE \E k \in DOMAIN receivers[n] : StreamFails(n, k)
    BY <2>1, GiveUpStep DEF R!Next
  <2>2. CASE \E s \in Nodes : LoseMessage(n, s)
    BY <2>2, CopiesStay DEF LoseMessage, R!vars
  <2>3. CASE Restart(n)
    BY <2>3, RestartStep DEF R!Next
  <2>4. QED
    BY <1>6, <2>1, <2>2, <2>3 DEF Failure
<1>7. QED
  BY <1>1, <1>2, <1>3, <1>4, <1>5, <1>6 DEF Next

LEMMA ReplicaInit ==
    ASSUME Init
    PROVE  R!Init
<1>1. \A n \in Nodes, f \in Files : CopiesOf(receivers[n], f) = {}
  BY DEF Init, CopiesOf
<1>2. copies = [n \in Nodes |-> [f \in Files |-> {}]]
  BY <1>1, CopiesAre
<1>3. QED
  BY <1>2 DEF Init, R!Init, Absent

\* The daemons of any cluster, whatever fails, only ever put into a file a
\* whole version of the same name that another computer had when data_sender
\* opened it, on a computer that receives, and only remove one where
\* deletions are applied.
THEOREM DaemonsImplementReplica == Spec => ImplementsReplica
<1>1. Init => R!Init
  BY ReplicaInit
<1>2. IInv /\ IdInv /\ [Next]_vars => [R!Next]_(R!vars)
  BY ReplicaStep
<1>3. QED
  BY <1>1, <1>2, Invariance, IdentifiersKeepTheirNames, PTL
     DEF Spec, ImplementsReplica, R!Spec

-----------------------------------------------------------------------------
(* Deletions. *)

\* The daemon of a computer that does not watch for deletions neither has one
\* to process nor tells of one.
DeletionsWatched ==
    \A d \in Nodes :
        \/ WatchesDeletion(d)
        \/ /\ \A k \in DOMAIN events[d] : events[d][k].kind # "deleted"
           /\ \A n \in Nodes : \A k \in DOMAIN channel[d][n] :
                  channel[d][n][k].cmd # "deleted"

\* The events that are queued after a step, and the messages.
EventsKept ==
    \A d \in Nodes : \A k \in DOMAIN events'[d] :
        \/ \E j \in DOMAIN events[d] : events'[d][k] = events[d][j]
        \/ events'[d][k].kind # "deleted"
        \/ WatchesDeletion(d)
DeletionsKept ==
    \A s, d \in Nodes : \A k \in DOMAIN channel'[s][d] :
        \/ \E j \in DOMAIN channel[s][d] : channel'[s][d][k] = channel[s][d][j]
        \/ channel'[s][d][k].cmd # "deleted"
        \/ WatchesDeletion(s)

LEMMA WatchedStep ==
    ASSUME DeletionsWatched, EventsKept, DeletionsKept
    PROVE  DeletionsWatched'
<1>1. ASSUME NEW d \in Nodes, ~ WatchesDeletion(d)
      PROVE  /\ \A k \in DOMAIN events'[d] : events'[d][k].kind # "deleted"
             /\ \A n \in Nodes : \A k \in DOMAIN channel'[d][n] :
                    channel'[d][n][k].cmd # "deleted"
  <2>1. /\ \A k \in DOMAIN events[d] : events[d][k].kind # "deleted"
        /\ \A n \in Nodes : \A k \in DOMAIN channel[d][n] :
               channel[d][n][k].cmd # "deleted"
    BY <1>1 DEF DeletionsWatched
  <2>2. \A k \in DOMAIN events'[d] : events'[d][k].kind # "deleted"
    BY <1>1, <2>1 DEF EventsKept
  <2>3. \A n \in Nodes : \A k \in DOMAIN channel'[d][n] :
            channel'[d][n][k].cmd # "deleted"
    BY <1>1, <2>1 DEF DeletionsKept
  <2>4. QED
    BY <2>2, <2>3
<1>2. QED
  BY <1>1 DEF DeletionsWatched, WatchesDeletion, Watched

LEMMA NotifyKeeps ==
    ASSUME IInv, NEW n \in Nodes, NEW f \in Files,
           NEW k \in {"modified", "updated", "deleted"},
           Notify(n, f, k) \/ events' = events,
           k # "deleted" \/ WatchesDeletion(n) \/ events' = events
    PROVE  EventsKept
<1>1. CASE events' = events
  BY <1>1 DEF EventsKept
<1>2. CASE Notify(n, f, k) /\ (k # "deleted" \/ WatchesDeletion(n))
  <2> DEFINE e == [name |-> f, kind |-> k]
             q == Queue(events[n], e)
  <2>1. events \in [Nodes -> Seq(Event)] /\ e.kind = k
    BY DEF IInv, TypeOK
  <2>2. /\ events'[n] = q
        /\ \A d \in Nodes \ {n} : events'[d] = events[d]
    BY <1>2, <2>1 DEF Notify
  <2> HIDE DEF e
  <2>3. \A j \in DOMAIN q : (j \in DOMAIN events[n] /\ q[j] = events[n][j])
                             \/ q[j] = e
    BY <2>1 DEF Queue
  <2> HIDE DEF q
  <2>4. ASSUME NEW d \in Nodes, NEW j \in DOMAIN events'[d]
        PROVE  \/ \E i \in DOMAIN events[d] : events'[d][j] = events[d][i]
               \/ events'[d][j].kind # "deleted"
               \/ WatchesDeletion(d)
    <3>1. CASE d = n
      BY <1>2, <2>1, <2>2, <2>3, <2>4, <3>1
    <3>2. CASE d # n
      BY <2>2, <2>4, <3>2
    <3>3. QED
      BY <3>1, <3>2
  <2>5. QED
    BY <2>4 DEF EventsKept
<1>3. QED
  BY <1>1, <1>2

LEMMA OldDeletions ==
    ASSUME IInv, IdInv,
           \/ channel' = channel
           \/ \E s, n \in Nodes :
                  /\ channel[s][n] # << >>
                  /\ channel' = [channel EXCEPT ![s][n] = Tail(@)]
           \/ \E n \in Nodes : channel' =
                  [s \in Nodes |-> [channel[s] EXCEPT ![n] = << >>]]
    PROVE  DeletionsKept
  BY ChannelShrinks DEF OldMessages, DeletionsKept

LEMMA AnnouncedDeletions ==
    ASSUME IInv, IdInv, NEW n \in Nodes, Announces(n)
    PROVE  DeletionsKept
<1>1. CASE channel' = channel
  BY <1>1, OldDeletions
<1>2. CASE channel' # channel
  <2>1. PICK msgs \in Seq(Message) :
            /\ Broadcast(n, msgs)
            /\ \A k \in DOMAIN msgs : msgs[k].cmd = "changed"
    BY <1>2 DEF Announces
  <2>2. QED
    BY <2>1, BroadcastAdds DEF DeletionsKept
<1>3. QED
  BY <1>1, <1>2

LEMMA WatchedLocal ==
    ASSUME IInv, IdInv, NEW n \in Nodes, Local(n)
    PROVE  EventsKept /\ DeletionsKept
<1>1. PICK f \in Files : LocalWrite(n, f) \/ LocalClose(n, f)
                         \/ LocalDelete(n, f)
  BY DEF Local
<1>2. channel' = channel
  BY <1>1 DEF LocalWrite, LocalClose, LocalDelete
<1>3. \/ Notify(n, f, "modified") \/ Notify(n, f, "updated")
      \/ events' = events
      \/ WatchesDeletion(n) /\ Notify(n, f, "deleted")
  BY <1>1 DEF LocalWrite, LocalClose, LocalDelete, NotifyWhen
<1>4. EventsKept
  BY <1>3, NotifyKeeps
<1>5. QED
  BY <1>2, <1>4, OldDeletions

LEMMA WatchedEvent ==
    ASSUME IInv, IdInv, DeletionsWatched, NEW n \in Nodes, ProcessEvent(n)
    PROVE  EventsKept /\ DeletionsKept
<1>1. /\ events[n] # << >> /\ clock' = clock
      /\ events' = [events EXCEPT ![n] = Tail(@)]
  BY DEF ProcessEvent
<1>2. events \in [Nodes -> Seq(Event)]
  BY DEF IInv, TypeOK
<1>3. PICK e \in Event : e = events[n][1] /\ e = Head(events[n])
                         /\ 1 \in DOMAIN events[n]
  BY <1>1, <1>2
<1>4. e.name \in Files
  BY DEF Event
<1>5. EventsKept
  <2>1. /\ events'[n] = Tail(events[n])
        /\ \A d \in Nodes \ {n} : events'[d] = events[d]
    BY <1>1, <1>2
  <2>2. \A k \in DOMAIN Tail(events[n]) :
            /\ k + 1 \in DOMAIN events[n]
            /\ Tail(events[n])[k] = events[n][k + 1]
    BY <1>1, <1>2
  <2>3. ASSUME NEW d \in Nodes, NEW k \in DOMAIN events'[d]
        PROVE  \E j \in DOMAIN events[d] : events'[d][k] = events[d][j]
    <3>1. CASE d = n
      <4>1. /\ k + 1 \in DOMAIN events[n]
            /\ events'[n][k] = events[n][k + 1]
        BY <2>1, <2>2, <2>3, <3>1
      <4>2. QED
        BY <3>1, <4>1
    <3>2. CASE d # n
      BY <2>1, <2>3, <3>2
    <3>3. QED
      BY <3>1, <3>2
  <2>4. QED
    BY <2>3 DEF EventsKept
<1>6. CASE \E u \in BOOLEAN : UpdatedFile(n, e.name, u)
  <2>1. PICK u \in BOOLEAN : UpdatedFile(n, e.name, u)
    BY <1>6
  <2>2. Announces(n)
    BY <1>1, <1>4, <2>1, UpdatedFileIds
  <2>3. QED
    BY <1>5, <2>2, AnnouncedDeletions
<1>7. CASE e.kind = "deleted" /\ DeletedFile(n, e.name)
  <2>1. WatchesDeletion(n)
    BY <1>3, <1>7 DEF DeletionsWatched
  <2>2. PICK m : m = DeletedMessage(e.name)
    OBVIOUS
  <2>3. << m >> \in Seq(Message)
    BY <1>4, <2>2 DEF DeletedMessage, Message
  <2>4. Broadcast(n, << m >>)
    BY <1>7, <2>2 DEF DeletedFile
  <2>5. \A s, d \in Nodes : \A k \in DOMAIN channel'[s][d] :
            \/ \E j \in DOMAIN channel[s][d] :
                   channel'[s][d][k] = channel[s][d][j]
            \/ s = n
    BY <2>3, <2>4, BroadcastAdds
  <2>6. DeletionsKept
    BY <2>1, <2>5 DEF DeletionsKept
  <2>7. QED
    BY <1>5, <2>6
<1>8. QED
  BY <1>3, <1>6, <1>7 DEF ProcessEvent

LEMMA WatchedReceive ==
    ASSUME IInv, IdInv, NEW n \in Nodes, NEW s \in Nodes, ReceiveMessage(n, s)
    PROVE  EventsKept /\ DeletionsKept
<1>1. /\ channel[s][n] # << >>
      /\ channel' = [channel EXCEPT ![s][n] = Tail(@)]
  BY DEF ReceiveMessage
<1>2. PICK m \in Message : m = Head(channel[s][n])
  BY <1>1, HeadMessage
<1>3. PICK f \in Files : f = m.name
  BY DEF Message
<1>4. \/ events' = events
      \/ WatchesDeletion(n) /\ Notify(n, f, "deleted")
  <2>1. ReceiveFile(n, s, m) => events' = events
    BY DEF ReceiveFile
  <2>2. DeleteLocalFile(n, f) =>
            \/ events' = events
            \/ WatchesDeletion(n) /\ Notify(n, f, "deleted")
    BY DEF DeleteLocalFile, Unlink, NotifyWhen
  <2>3. QED
    BY <1>2, <1>3, <2>1, <2>2 DEF ReceiveMessage
<1>5. EventsKept
  BY <1>4, NotifyKeeps
<1>6. QED
  BY <1>1, <1>5, OldDeletions

LEMMA WatchedTransfer ==
    ASSUME IInv, IdInv, NEW n \in Nodes, NEW k \in DOMAIN receivers[n],
           \/ Serve(n, k) \/ Refuse(n, k) \/ Install(n, k)
           \/ StreamFails(n, k)
    PROVE  EventsKept /\ DeletionsKept
<1>1. channel' = channel
  BY DEF Serve, Refuse, Install, StreamFails
<1>2. PICK f \in Files : f = receivers[n][k].name
  <2>1. receivers[n][k] \in Receiver
    BY DEF IInv, TypeOK
  <2>2. QED
    BY <2>1 DEF Receiver
<1>3. events' = events \/ Notify(n, f, "modified")
  BY <1>2 DEF Serve, Refuse, Install, StreamFails, NotifyWhen
<1>4. QED
  BY <1>1, <1>3, NotifyKeeps, OldDeletions

LEMMA WatchedRestart ==
    ASSUME IInv, IdInv, NEW n \in Nodes, Restart(n)
    PROVE  EventsKept /\ DeletionsKept
<1>1. channel' = [s \in Nodes |-> [channel[s] EXCEPT ![n] = << >>]]
  BY DEF Restart
<1>2. PICK order : events' = [events EXCEPT ![n] =
               [k \in DOMAIN order |-> [name |-> order[k],
                                        kind |-> "modified"]]]
  BY DEF Restart
<1>3. events \in [Nodes -> Seq(Event)]
  BY DEF IInv, TypeOK
<1>4. /\ \A k \in DOMAIN events'[n] : events'[n][k].kind = "modified"
      /\ \A d \in Nodes \ {n} : events'[d] = events[d]
  BY <1>2, <1>3
<1>5. EventsKept
  BY <1>4 DEF EventsKept
<1>6. QED
  BY <1>1, <1>5, OldDeletions

LEMMA WatchedNext ==
    ASSUME IInv, IdInv, DeletionsWatched, [Next]_vars
    PROVE  DeletionsWatched'
<1>1. CASE UNCHANGED vars
  BY <1>1, OldDeletions, WatchedStep DEF vars, EventsKept
<1>2. ASSUME NEW n \in Nodes, Local(n) PROVE DeletionsWatched'
  BY <1>2, WatchedLocal, WatchedStep
<1>3. ASSUME NEW n \in Nodes, ProcessEvent(n) PROVE DeletionsWatched'
  BY <1>3, WatchedEvent, WatchedStep
<1>4. ASSUME NEW n \in Nodes, Timeout(n) PROVE DeletionsWatched'
  <2>1. PICK due \in SUBSET Pending(n) : ProcessTimeout(n, due)
    BY <1>4 DEF Timeout
  <2>2. DeletionsKept
    BY <2>1, TimeoutAnnounces, AnnouncedDeletions
  <2>3. EventsKept
    BY <2>1 DEF ProcessTimeout, EventsKept
  <2>4. QED
    BY <2>2, <2>3, WatchedStep
<1>5. ASSUME NEW n \in Nodes, Receive(n) PROVE DeletionsWatched'
  BY <1>5, WatchedReceive, WatchedStep DEF Receive
<1>6. ASSUME NEW n \in Nodes, Transfer(n) PROVE DeletionsWatched'
  BY <1>6, WatchedTransfer, WatchedStep DEF Transfer
<1>7. ASSUME NEW n \in Nodes, Failure(n) PROVE DeletionsWatched'
  <2>1. ASSUME NEW s \in Nodes, LoseMessage(n, s) PROVE DeletionsWatched'
    <3>1. EventsKept
      BY <2>1 DEF LoseMessage, EventsKept
    <3>2. DeletionsKept
      BY <2>1, OldDeletions DEF LoseMessage
    <3>3. QED
      BY <3>1, <3>2, WatchedStep
  <2>2. QED
    BY <1>7, <2>1, WatchedTransfer, WatchedRestart, WatchedStep DEF Failure
<1>8. QED
  BY <1>1, <1>2, <1>3, <1>4, <1>5, <1>6, <1>7 DEF Next

\* In any cluster, whatever fails, an RFS_FILE_DELETED only ever comes from a
\* computer whose listener watches for deletions.
THEOREM OnlyWatchersTellOfDeletions == Spec => []DeletionsWatched
<1>1. Init => DeletionsWatched
  BY DEF Init, DeletionsWatched
<1>2. IInv /\ IdInv /\ DeletionsWatched /\ [Next]_vars => DeletionsWatched'
  BY WatchedNext
<1>3. QED
  BY <1>1, <1>2, Invariance, IdentifiersKeepTheirNames, PTL DEF Spec

\* No other computer watches for deletions when the only one with services
\* applies those it hears of.  When another does, a deletion of the services
\* comes back as that computer's own, and the daemon removes what they wrote
\* again meanwhile.
NoOtherWatchesDeletions ==
    \A n, d \in Nodes : Users = {n} /\ Applies(n) /\ WatchesDeletion(d)
                            => d = n

LEMMA SoleUserStep ==
    ASSUME NoOtherWatchesDeletions, IInv, IdInv, DeletionsWatched, [Next]_vars,
           NEW n \in Nodes, NEW f \in Files, Users = {n},
           disk[n][f] # Absent, disk'[n][f] = Absent
    PROVE  LocalDelete(n, f)
<1>1. /\ disk \in [Nodes -> [Files -> Nat]] /\ clock \in Nat
      /\ disk' # disk
  BY DEF IInv, TypeOK
<1>2. PICK m \in Nodes :
          Local(m) \/ Receive(m) \/ \E k \in DOMAIN receivers[m] : Install(m, k)
  BY <1>1 DEF vars, Next, ProcessEvent, Timeout, ProcessTimeout, Transfer,
              Serve, Refuse, Failure, StreamFails, LoseMessage, Restart
<1>3. CASE Local(m)
  <2>1. PICK g \in Files : LocalWrite(m, g) \/ LocalDelete(m, g)
    BY <1>1, <1>3 DEF Local, LocalClose
  <2>2. CASE LocalWrite(m, g)
    <3>1. disk'[n][f] = disk[n][f] \/ disk'[n][f] = clock + 1
      BY <1>1, <2>2 DEF LocalWrite
    <3>2. QED
      BY <1>1, <3>1 DEF Absent
  <2>3. CASE LocalDelete(m, g)
    <3>1. m = n /\ g = f
      BY <1>1, <2>3 DEF LocalDelete
    <3>2. QED
      BY <2>3, <3>1
  <2>4. QED
    BY <2>1, <2>2, <2>3
<1>4. CASE Receive(m)
  <2>1. PICK s \in Nodes : ReceiveMessage(m, s)
    BY <1>4 DEF Receive
  <2>2. channel[s][m] # << >>
    BY <2>1 DEF ReceiveMessage
  <2>3. PICK x \in Message : x = Head(channel[s][m])
    BY <2>2, HeadMessage
  <2>4. 1 \in DOMAIN channel[s][m] /\ x = channel[s][m][1]
    <3>1. channel[s][m] \in Seq(Message)
      BY DEF IInv, TypeOK
    <3>2. QED
      BY <2>2, <2>3, <3>1
  <2>5. x.cmd = "deleted" /\ Applies(m) /\ Unlink(m, x.name)
    BY <1>1, <2>1, <2>3 DEF ReceiveMessage, ReceiveFile, DeleteLocalFile
  <2>6. m = n
    BY <1>1, <2>5 DEF Unlink
  <2>7. WatchesDeletion(s)
    BY <2>4, <2>5 DEF DeletionsWatched
  <2>8. s = n
    BY <2>5, <2>6, <2>7 DEF NoOtherWatchesDeletions
  <2>9. QED
    BY <2>2, <2>6, <2>8 DEF IdInv, NoMessageToSelf
<1>5. CASE \E k \in DOMAIN receivers[m] : Install(m, k)
  <2>1. PICK k \in DOMAIN receivers[m] : Install(m, k)
    BY <1>5
  <2>2. PICK v, g : v = receivers[m][k].version /\ g = receivers[m][k].name
    OBVIOUS
  <2>3. v # Absent /\ disk' = [disk EXCEPT ![m][g] = v]
    BY <2>1, <2>2 DEF Install
  <2>4. disk'[n][f] = disk[n][f] \/ disk'[n][f] = v
    BY <1>1, <2>3
  <2>5. QED
    BY <2>3, <2>4
<1>6. QED
  BY <1>2, <1>3, <1>4, <1>5

\* In any cluster, whatever fails, the daemon of the only computer with
\* services never removes one of their files, unless another computer watches
\* for deletions too.
THEOREM SoleUserFilesKept ==
    NoOtherWatchesDeletions => (Spec => SoleUserKeepsFiles)
<1> SUFFICES ASSUME NoOtherWatchesDeletions PROVE Spec => SoleUserKeepsFiles
  OBVIOUS
<1>1. IInv /\ IdInv /\ DeletionsWatched /\ [Next]_vars
          => [\A n \in Nodes, f \in Files :
                  Users = {n} /\ disk[n][f] # Absent /\ disk'[n][f] = Absent
                      => LocalDelete(n, f)]_vars
  BY SoleUserStep
<1>2. QED
  BY <1>1, Invariance, IdentifiersKeepTheirNames, OnlyWatchersTellOfDeletions,
     PTL DEF Spec, SoleUserKeepsFiles
=============================================================================
