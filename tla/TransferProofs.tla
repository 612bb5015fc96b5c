--------------------------- MODULE TransferProofs ---------------------------
(***************************************************************************)
(* What is installed comes from one data_sender that read to the end: it   *)
(* is what that one read unless a write() failed, and has the time it sent *)
(* unless utimensat() did, for any connections, sizes, buffers, writes and *)
(* failures.                                                               *)
(***************************************************************************)
EXTENDS Transfer, SequenceTheorems, TLAPS

\* Whether the time a sender sent is still known.
Live(s) == s.phase \notin {"closed", "silent"} \/ s.f_sent_footer

\* A piece says of the sender s what is so.
Genuine(s, u) ==
    /\ u.kind = "header" /\ Live(s) => u.value[1] = s.f_mtime
    /\ u.kind = "murmur3" => s.f_sent_footer /\ u.value = s.read

\* The receiver r has the whole header: the names come next, or did come.
HeaderWhole(r) == r.got > 0 /\ (r.got = 1 \/ r.opened)

\* All pieces on their way on connection c are genuine, and what the receiver
\* took from them.
StreamOK(c) ==
    /\ \A k \in DOMAIN sender[c].f_buffer :
           Genuine(sender[c], sender[c].f_buffer[k])
    /\ \A k \in DOMAIN wire[c] : Genuine(sender[c], wire[c][k])
    /\ Genuine(sender[c], receiver[c].f_footer)
    /\ HeaderWhole(receiver[c]) /\ Live(sender[c])
           => receiver[c].f_mtime = sender[c].f_mtime

\* Before the file is open nothing was sent.
Waiting(s) == s.phase = "none" \/ (s.phase = "open" /\ s.f_input = NoInode)
QuietBefore(c) ==
    Waiting(sender[c]) => /\ ~ sender[c].f_sent_footer
                          /\ wire[c] = << >>
                          /\ receiver[c].got = 0
                          /\ receiver[c].f_footer = End

\* A receiver has a temporary file of its own, which holds what it hashed as
\* long as no write() failed.
TempOK(c) ==
    /\ receiver[c].got = 0 => receiver[c].temp = 0
    /\ receiver[c].got < 2 => /\ receiver[c].read = << >>
                              /\ ~ receiver[c].opened /\ receiver[c].good
    /\ receiver[c].got > 0 => receiver[c].temp \in DOMAIN temp
    /\ receiver[c].got > 1 /\ receiver[c].opened =>
           IF receiver[c].good
           THEN temp[receiver[c].temp].content = receiver[c].read
           ELSE "write" \in Faults
TempsApart ==
    \A c, d \in Conns :
        c # d /\ receiver[c].got > 0 /\ receiver[d].got > 0
            => receiver[c].temp # receiver[d].temp

\* No other call failed for the file in place than those that may fail.
FailedOK == target.failed \subseteq Faults

IInv ==
    /\ TypeOK
    /\ \A c \in Conns : StreamOK(c)
    /\ \A c \in Conns : QuietBefore(c)
    /\ \A c \in Conns : TempOK(c)
    /\ TempsApart
    /\ FailedOK
    /\ InstalledAsRead

-----------------------------------------------------------------------------
(* Shapes. *)

\* t comes after s: what was read and its time stay as they were sent.
Sent(s, t) == s.f_sent_footer => /\ t.f_sent_footer
                                 /\ t.read = s.read
                                 /\ t.f_mtime = s.f_mtime
\* And the time that was sent stays so from the start.
Keeps(s, t) ==
    /\ Live(t) => Live(s) /\ t.f_mtime = s.f_mtime
    /\ Sent(s, t)

LEMMA GenuineKept ==
    ASSUME NEW s, NEW t, NEW u, Keeps(s, t), Genuine(s, u)
    PROVE  Genuine(t, u)
BY DEF Keeps, Sent, Genuine

LEMMA UnitType ==
    /\ End \in Unit /\ Names \in Unit /\ Zeros \in Unit
    /\ \A t, n \in Nat : Header(t, n) \in Unit
    /\ \A read \in Content : Murmur3(read) \in Unit
    /\ Piece \subseteq Unit
BY DEF End, Names, Zeros, Header, Murmur3, Unit, Piece

\* A receiver whose connection was closed.
Gone(r) == /\ r \in Receiver
           /\ r.got = 0 /\ r.temp = 0 /\ ~ r.opened /\ r.good /\ r.read = << >>
           /\ r.f_footer = End

LEMMA NoReceiverGone ==
    ASSUME NEW p \in {"connected", "installed", "failed", "gone"}
    PROVE  Gone([NoReceiver EXCEPT !.phase = p])
<1>1. << >> \in Seq(Unit)
  BY EmptySeq
<1>2. QED
  BY <1>1, UnitType DEF Gone, NoReceiver, Receiver

LEMMA EndedKeeps ==
    ASSUME NEW s \in Sender, NEW p \in {"closed", "silent"}
    PROVE  /\ Ended(s, p) \in Sender
           /\ Ended(s, p).phase = p /\ Ended(s, p).f_input = NoInode
           /\ Ended(s, p).f_buffer = << >> /\ Ended(s, p).f_position = 0
           /\ Keeps(s, Ended(s, p))
<1>1. << >> \in Seq(Unit) /\ << >> \in Content
  BY EmptySeq DEF Content
<1>2. NoSender \in Sender
  BY <1>1 DEF NoSender, Sender, NoInode
<1>3. s.read \in Content /\ s.f_mtime \in Nat /\ s.f_sent_footer \in BOOLEAN
  BY DEF Sender
<1>4. CASE s.f_sent_footer
  BY <1>1, <1>2, <1>3, <1>4 DEF Ended, NoSender, Sender, Keeps, Sent, Live, NoInode
<1>5. CASE ~ s.f_sent_footer
  BY <1>1, <1>2, <1>3, <1>5 DEF Ended, NoSender, Sender, Keeps, Sent, Live, NoInode
<1>6. QED
  BY <1>4, <1>5

LEMMA ClosedKeeps ==
    ASSUME NEW s \in Sender
    PROVE  /\ Closed(s) \in Sender
           /\ Closed(s).phase = "closed" /\ Closed(s).f_input = NoInode
           /\ Closed(s).f_buffer = << >> /\ Closed(s).f_position = 0
           /\ Keeps(s, Closed(s))
BY EndedKeeps DEF Closed

-----------------------------------------------------------------------------
(* The parts of the invariant, for one connection. *)

\* Nothing happened on connection d.
LEMMA StreamSame ==
    ASSUME NEW d \in Conns, StreamOK(d), QuietBefore(d),
           sender'[d] = sender[d], receiver'[d] = receiver[d],
           wire'[d] = wire[d]
    PROVE  StreamOK(d)' /\ QuietBefore(d)'
BY DEF StreamOK, QuietBefore

\* The receiver of connection d is gone, and maybe the sender.
LEMMA StreamReset ==
    ASSUME NEW d \in Conns, StreamOK(d), QuietBefore(d),
           sender[d] \in Sender,
           sender'[d] = sender[d] \/ sender'[d] = Closed(sender[d]),
           Gone(receiver'[d]), wire'[d] = << >>
    PROVE  StreamOK(d)' /\ QuietBefore(d)'
<1>1. CASE sender'[d] = sender[d]
  BY <1>1 DEF StreamOK, QuietBefore, Gone, Genuine, End, HeaderWhole
<1>2. CASE sender'[d] = Closed(sender[d])
  <2>1. /\ sender'[d].phase = "closed" /\ sender'[d].f_buffer = << >>
    BY <1>2, ClosedKeeps
  <2>2. QED
    BY <2>1 DEF StreamOK, QuietBefore, Gone, Genuine, End, Waiting,
                  HeaderWhole
<1>3. QED
  BY <1>1, <1>2

\* The sender of connection d does something after the file is open, or closes.
LEMMA StreamKept ==
    ASSUME NEW d \in Conns, StreamOK(d),
           Keeps(sender[d], sender'[d]), ~ Waiting(sender'[d]),
           receiver'[d] = receiver[d],
           \A k \in DOMAIN sender'[d].f_buffer :
               Genuine(sender'[d], sender'[d].f_buffer[k]),
           \A k \in DOMAIN wire'[d] : Genuine(sender[d], wire'[d][k])
    PROVE  StreamOK(d)' /\ QuietBefore(d)'
<1>1. \A u : Genuine(sender[d], u) => Genuine(sender'[d], u)
  BY GenuineKept
<1>2. StreamOK(d)'
  BY <1>1 DEF StreamOK, Keeps
<1>3. QED
  BY <1>2 DEF QuietBefore

\* The receiver of connection c is gone, and at most its temporary file has
\* changed.
LEMMA TempsReset ==
    ASSUME NEW c \in Conns, TypeOK, \A d \in Conns : TempOK(d), TempsApart,
           Gone(receiver'[c]),
           \A d \in Conns \ {c} : receiver'[d] = receiver[d],
           DOMAIN temp' = DOMAIN temp,
           \A g \in DOMAIN temp \ {TempOf(c)} : temp'[g] = temp[g]
    PROVE  (\A d \in Conns : TempOK(d))' /\ TempsApart'
<1>1. \A d \in Conns : receiver[d].got \in Nat
  BY DEF TypeOK, Receiver
<1>2. ASSUME NEW d \in Conns PROVE TempOK(d)'
  <2>1. CASE d = c
    BY <2>1 DEF TempOK, Gone
  <2>2. CASE d # c
    <3>1. receiver'[d] = receiver[d] /\ TempOK(d) /\ TempOK(c)
      BY <2>2
    <3>2. CASE receiver[d].got > 0
      <4>1. receiver[d].temp \in DOMAIN temp /\ 0 \notin DOMAIN temp
        BY <3>1, <3>2 DEF TempOK, TypeOK
      <4>2. receiver[d].temp # TempOf(c)
        BY <1>1, <2>2, <3>1, <3>2, <4>1 DEF TempOK, TempsApart, TempOf
      <4>3. temp'[receiver[d].temp] = temp[receiver[d].temp]
        BY <4>1, <4>2
      <4>4. QED
        BY <3>1, <4>1, <4>3 DEF TempOK
    <3>3. CASE ~ receiver[d].got > 0
      BY <1>1, <3>1, <3>3 DEF TempOK
    <3>4. QED
      BY <3>2, <3>3
  <2>3. QED
    BY <2>1, <2>2
<1>3. TempsApart'
  BY DEF TempsApart, Gone
<1>4. QED
  BY <1>2, <1>3

\* Nothing is installed.
LEMMA InstalledSame ==
    ASSUME InstalledAsRead, target' = target,
           \A d \in Conns : Sent(sender[d], sender'[d])
    PROVE  InstalledAsRead'
BY DEF InstalledAsRead, Sent

-----------------------------------------------------------------------------
(* The initial states, and the local services. *)

LEMMA InitInv == Init => IInv
<1> SUFFICES ASSUME Init PROVE IInv
  OBVIOUS
<1>1. << >> \in Seq(Unit) /\ << >> \in Content
  BY EmptySeq DEF Content
<1>2. Data(1) \in Piece
  BY DEF Data, Piece
<1>3. inodes \in Seq(Inode) /\ Len(inodes) = 1
  BY <1>2 DEF Init, Inode, Content
<1>4. NoSender \in Sender /\ NoReceiver \in Receiver
  BY <1>1, UnitType DEF NoSender, Sender, NoInode, NoReceiver, Receiver
<1>5. SocketBuffer \in Nat
  BY SizeAssumption
<1>6. TypeOK
  <2>1. temp \in Seq([there : BOOLEAN, content : Seq(Unit)])
    BY EmptySeq DEF Init
  <2>2. \A c \in Conns : /\ sender[c].f_input <= Len(inodes)
                         /\ sender[c].f_position <= Len(sender[c].f_buffer)
                         /\ Len(wire[c]) <= SocketBuffer
    BY <1>3, <1>5 DEF Init, NoSender, NoInode
  <2>3. QED
    BY <1>1, <1>3, <1>4, <2>1, <2>2 DEF Init, TypeOK, NoFile, File
<1>7. \A c \in Conns : StreamOK(c) /\ QuietBefore(c) /\ TempOK(c)
  BY DEF Init, StreamOK, QuietBefore, TempOK, NoSender, NoReceiver, Genuine, End
<1>8. TempsApart /\ FailedOK /\ InstalledAsRead
  BY DEF Init, TempsApart, FailedOK, InstalledAsRead, NoReceiver, NoFile
<1>9. QED
  BY <1>6, <1>7, <1>8 DEF IInv

\* A step that changes the files of the source only.
LEMMA FilesStep ==
    ASSUME IInv, clock' \in Nat, inodes' \in Seq(Inode),
           Len(inodes) <= Len(inodes'), source' \in 0..Len(inodes'),
           UNCHANGED << sender, wire, receiver, temp, target, sender_up >>
    PROVE  IInv'
<1>1. TypeOK'
  <2>1. \A c \in Conns : sender[c].f_input <= Len(inodes')
    <3>1. \A c \in Conns : sender[c].f_input \in Nat
      BY DEF IInv, TypeOK, Sender
    <3>2. Len(inodes) \in Nat /\ Len(inodes') \in Nat
      BY DEF IInv, TypeOK
    <3>3. QED
      BY <3>1, <3>2 DEF IInv, TypeOK
  <2>2. QED
    BY <2>1 DEF IInv, TypeOK
<1>2. \A c \in Conns : StreamOK(c)' /\ QuietBefore(c)'
  BY StreamSame DEF IInv
<1>3. QED
  BY <1>1, <1>2 DEF IInv, TempOK, TempsApart, FailedOK, InstalledAsRead

LEMMA ServiceInv == ASSUME IInv, Service PROVE IInv'
<1>1. /\ clock \in Nat /\ inodes \in Seq(Inode) /\ source \in 0..Len(inodes)
      /\ Len(inodes) \in Nat
  BY DEF IInv, TypeOK
<1>2. Data(clock + 1) \in Piece
  BY <1>1 DEF Data, Piece
<1>3. ASSUME source # NoInode
      PROVE  source \in 1..Len(inodes) /\ inodes[source] \in Inode
  BY <1>1, <1>3 DEF NoInode
<1>4. ASSUME NEW size \in 0..MaxSize, NEW readable \in BOOLEAN,
             Replace(size, readable)
      PROVE  IInv'
  <2>1. [k \in 1..size |-> Data(clock + 1)] \in Content
    BY <1>2 DEF Content
  <2> DEFINE new == [content |-> [k \in 1..size |-> Data(clock + 1)],
                     mtime |-> clock + 1, readable |-> readable]
  <2>2. new \in Inode
    BY <1>1, <2>1 DEF Inode
  <2>3. inodes' = Append(inodes, new)
    BY <1>4 DEF Replace
  <2> HIDE DEF new
  <2>4. inodes' \in Seq(Inode) /\ Len(inodes') = Len(inodes) + 1
    BY <1>1, <2>2, <2>3
  <2>5. QED
    BY <1>1, <1>4, <2>4, FilesStep DEF Replace, Tick
<1>5. ASSUME NEW k \in 1..MaxSize, Rewrite(k) PROVE IInv'
  <2> DEFINE old == inodes[source].content
             new == [j \in 1..(IF k > Len(old) THEN k ELSE Len(old)) |->
                         IF j = k THEN Data(clock + 1) ELSE old[j]]
  <2>1. source \in 1..Len(inodes) /\ inodes[source] \in Inode
    BY <1>3, <1>5 DEF Rewrite
  <2>2. old \in Seq(Piece) /\ Len(old) \in Nat /\ k \in Nat \ {0}
    BY <2>1, SizeAssumption DEF Inode, Content
  <2>3. k <= Len(old) + 1
    BY <1>5 DEF Rewrite
  <2>4. new \in Seq(Piece)
    <3> DEFINE m == IF k > Len(old) THEN k ELSE Len(old)
    <3>1. m \in Nat
      BY <2>2
    <3>2. \A j \in 1..m : (IF j = k THEN Data(clock + 1) ELSE old[j]) \in Piece
      BY <1>2, <2>2, <2>3
    <3>3. new \in [1..m -> Piece]
      BY <3>2
    <3> HIDE DEF m, new
    <3>4. QED
      BY <3>1, <3>3
  <2>5. inodes' = [inodes EXCEPT ![source].content = new,
                                 ![source].mtime = clock + 1]
    BY <1>5 DEF Rewrite
  <2> HIDE DEF new, old
  <2>6. inodes' \in Seq(Inode) /\ Len(inodes') = Len(inodes)
    <3>1. new \in Content
      BY <2>4 DEF Content
    <3> DEFINE rec == [inodes[source] EXCEPT !.content = new,
                                             !.mtime = clock + 1]
    <3>2. rec \in Inode
      <4>1. PICK i \in Inode : i = inodes[source]
        BY <2>1
      <4>2. clock + 1 \in Nat
        BY <1>1
      <4>3. [i EXCEPT !.content = new, !.mtime = clock + 1] \in Inode
        BY <3>1, <4>2 DEF Inode
      <4>4. QED
        BY <4>1, <4>3
    <3>3. inodes' = [inodes EXCEPT ![source] = rec]
      BY <1>1, <2>1, <2>5
    <3> HIDE DEF rec
    <3>4. QED
      BY <1>1, <2>1, <3>2, <3>3
  <2>7. QED
    BY <1>1, <1>5, <2>6, FilesStep DEF Rewrite, Tick
<1>6. CASE Truncate
  <2>1. source \in 1..Len(inodes) /\ inodes[source] \in Inode
    BY <1>3, <1>6 DEF Truncate
  <2>2. << >> \in Content
    BY EmptySeq DEF Content
  <2>3. inodes' \in Seq(Inode) /\ Len(inodes') = Len(inodes)
    BY <1>1, <1>6, <2>1, <2>2 DEF Truncate, Inode
  <2>4. QED
    BY <1>1, <1>6, <2>3, FilesStep DEF Truncate, Tick
<1>7. CASE Remove
  BY <1>1, <1>7, FilesStep DEF Remove, NoInode
<1>8. QED
  BY <1>4, <1>5, <1>6, <1>7 DEF Service

-----------------------------------------------------------------------------
(* The sender's side. *)

\* A step of one sender.
LEMMA SenderStep ==
    ASSUME IInv, NEW c \in Conns,
           UNCHANGED << files, receiver, temp, target, sender_up >>,
           NEW t \in Sender, t.f_input <= Len(inodes),
           t.f_position <= Len(t.f_buffer),
           NEW w \in Seq(Unit), Len(w) <= SocketBuffer,
           sender' = [sender EXCEPT ![c] = t],
           wire' = [wire EXCEPT ![c] = w],
           Sent(sender[c], t), StreamOK(c)' /\ QuietBefore(c)'
    PROVE  IInv'
<1>1. TypeOK'
  BY DEF IInv, TypeOK, files
<1>2. sender'[c] = t /\ \A d \in Conns \ {c} : sender'[d] = sender[d]
                                               /\ wire'[d] = wire[d]
  BY DEF IInv, TypeOK
<1>3. \A d \in Conns : StreamOK(d)' /\ QuietBefore(d)'
  BY <1>2, StreamSame DEF IInv
<1>4. \A d \in Conns : Sent(sender[d], sender'[d])
  BY <1>2 DEF Sent
<1>5. InstalledAsRead'
  BY <1>4, InstalledSame DEF IInv
<1>6. QED
  BY <1>1, <1>3, <1>5 DEF IInv, TempOK, TempsApart, FailedOK

\* What TypeOK says of one connection.
LEMMA ConnType ==
    ASSUME TypeOK, NEW c \in Conns
    PROVE  /\ sender[c] \in Sender
           /\ sender[c].f_input <= Len(inodes)
           /\ sender[c].f_position <= Len(sender[c].f_buffer)
           /\ receiver[c] \in Receiver
           /\ wire[c] \in Seq(Unit) /\ Len(wire[c]) \in Nat
           /\ Len(wire[c]) <= SocketBuffer
           /\ inodes \in Seq(Inode) /\ Len(inodes) \in Nat
           /\ SocketBuffer \in Nat
BY SizeAssumption DEF TypeOK

LEMMA SenderCloses ==
    ASSUME IInv, NEW c \in Conns,
           UNCHANGED << files, wire, receiver, temp, target, sender_up >>,
           sender' = [sender EXCEPT ![c] = Closed(sender[c])]
    PROVE  IInv'
<1>1. TypeOK /\ StreamOK(c)
  BY DEF IInv
<1>2. sender[c] \in Sender /\ wire[c] \in Seq(Unit)
      /\ Len(wire[c]) <= SocketBuffer /\ Len(inodes) \in Nat
  BY <1>1, ConnType
<1> DEFINE t == Closed(sender[c])
<1>3. /\ t \in Sender /\ t.phase = "closed" /\ t.f_input = NoInode
      /\ t.f_buffer = << >> /\ t.f_position = 0 /\ Keeps(sender[c], t)
  BY <1>2, ClosedKeeps
<1>4. sender'[c] = t /\ wire'[c] = wire[c] /\ receiver'[c] = receiver[c]
  BY <1>1 DEF TypeOK
<1> HIDE DEF t
<1>5. StreamOK(c)' /\ QuietBefore(c)'
  <2>1. ~ Waiting(t)
    BY <1>3 DEF Waiting
  <2>2. \A k \in DOMAIN wire[c] : Genuine(sender[c], wire[c][k])
    BY <1>1 DEF StreamOK
  <2>3. DOMAIN t.f_buffer = {}
    BY <1>3
  <2>4. QED
    BY <1>1, <1>3, <1>4, <2>1, <2>2, <2>3, StreamKept
<1>6. wire' = [wire EXCEPT ![c] = wire[c]]
  BY <1>1 DEF TypeOK
<1>7. t.f_input <= Len(inodes) /\ t.f_position <= Len(t.f_buffer)
  BY <1>2, <1>3 DEF NoInode
<1>8. Sent(sender[c], t)
  BY <1>3 DEF Keeps
<1>9. sender' = [sender EXCEPT ![c] = t]
  BY DEF t
<1>10. QED
  BY <1>2, <1>3, <1>5, <1>6, <1>7, <1>8, <1>9, SenderStep

LEMMA SenderHupInv ==
    ASSUME IInv, NEW c \in Conns, SenderHup(c) \/ SenderFails(c)
    PROVE  IInv'
BY SenderCloses DEF SenderHup, SenderFails

LEMMA ProcessAcceptInv ==
    ASSUME IInv, NEW c \in Conns, ProcessAccept(c)
    PROVE  IInv'
<1>1. TypeOK /\ StreamOK(c) /\ QuietBefore(c)
  BY DEF IInv
<1>2. PICK s \in Sender : s = sender[c]
  BY <1>1, ConnType
<1> DEFINE t == [s EXCEPT !.phase = "open"]
<1>3. /\ t \in Sender /\ t.f_input = s.f_input /\ t.f_position = s.f_position
      /\ t.f_buffer = s.f_buffer /\ t.f_mtime = s.f_mtime /\ t.read = s.read
      /\ t.f_sent_footer = s.f_sent_footer /\ t.phase = "open"
  BY DEF Sender
<1>4. /\ sender' = [sender EXCEPT ![c] = t] /\ s.phase = "none"
      /\ UNCHANGED << files, wire, receiver, temp, target, sender_up >>
  BY <1>2 DEF ProcessAccept
<1> HIDE DEF t
<1>5. sender'[c] = t /\ wire'[c] = wire[c] /\ receiver'[c] = receiver[c]
  BY <1>1, <1>4 DEF TypeOK
<1>6. Live(s) /\ Live(t) /\ Waiting(s)
  BY <1>3, <1>4 DEF Live, Waiting
<1>7. Keeps(s, t) /\ Sent(s, t)
  BY <1>3, <1>6 DEF Keeps, Sent
<1>8. \A u : Genuine(s, u) => Genuine(t, u)
  BY <1>7, GenuineKept
<1>9. StreamOK(c)'
  BY <1>1, <1>2, <1>3, <1>5, <1>6, <1>8 DEF StreamOK
<1>10. QuietBefore(c)'
  BY <1>1, <1>2, <1>3, <1>5, <1>6 DEF QuietBefore
<1>11. wire' = [wire EXCEPT ![c] = wire[c]]
  BY <1>1, <1>4 DEF TypeOK
<1>12. /\ wire[c] \in Seq(Unit) /\ Len(wire[c]) <= SocketBuffer
       /\ t.f_input <= Len(inodes) /\ t.f_position <= Len(t.f_buffer)
  BY <1>1, <1>2, <1>3, ConnType
<1>13. QED
  BY <1>2, <1>3, <1>4, <1>7, <1>9, <1>10, <1>11, <1>12, SenderStep

-----------------------------------------------------------------------------
\* A sender that was waiting for the request has its file open, or does not
\* have it for good, with something in its buffer or nothing.
LEMMA WaitingStep ==
    ASSUME IInv, NEW c \in Conns, Waiting(sender[c]),
           UNCHANGED << files, wire, receiver, temp, target, sender_up >>,
           NEW t \in Sender, sender' = [sender EXCEPT ![c] = t],
           t.f_input <= Len(inodes), t.f_position <= Len(t.f_buffer),
           ~ t.f_sent_footer,
           \A k \in DOMAIN t.f_buffer : Genuine(t, t.f_buffer[k])
    PROVE  IInv'
<1>1. TypeOK /\ QuietBefore(c)
  BY DEF IInv
<1>2. /\ ~ sender[c].f_sent_footer /\ wire[c] = << >>
      /\ receiver[c].got = 0 /\ receiver[c].f_footer = End
  BY <1>1 DEF QuietBefore
<1>3. sender'[c] = t /\ wire'[c] = << >> /\ receiver'[c] = receiver[c]
  BY <1>1, <1>2 DEF TypeOK
<1>4. StreamOK(c)' /\ QuietBefore(c)'
  BY <1>2, <1>3 DEF StreamOK, QuietBefore, Genuine, End, HeaderWhole
<1>5. wire' = [wire EXCEPT ![c] = wire[c]]
  BY <1>1 DEF TypeOK
<1>6. wire[c] \in Seq(Unit) /\ Len(wire[c]) <= SocketBuffer
  BY <1>1, ConnType
<1>7. Sent(sender[c], t)
  BY <1>2 DEF Sent
<1>8. QED
  BY <1>4, <1>5, <1>6, <1>7, SenderStep

LEMMA ProcessRequestInv ==
    ASSUME IInv, NEW c \in Conns, ProcessRequest(c)
    PROVE  IInv'
<1>1. TypeOK /\ QuietBefore(c)
  BY DEF IInv
<1>2. PICK s \in Sender : s = sender[c]
  BY <1>1, ConnType
<1>3. /\ s.phase = "open" /\ s.f_input = NoInode /\ s.f_buffer = << >>
      /\ UNCHANGED << files, wire, receiver, temp, target, sender_up >>
  BY <1>2 DEF ProcessRequest, Asked
<1>4. Waiting(sender[c]) /\ ~ s.f_sent_footer
  BY <1>1, <1>2, <1>3 DEF Waiting, QuietBefore
<1>5. /\ s.f_position <= Len(s.f_buffer) /\ s.f_position \in Nat
      /\ inodes \in Seq(Inode) /\ Len(inodes) \in Nat
  BY <1>1, <1>2, ConnType DEF Sender
<1>6. s.f_position = 0
  BY <1>3, <1>5
<1>7. CASE source # NoInode /\ sender' = [sender EXCEPT ![c] = OpenFile(s)]
  <2>1. source \in 1..Len(inodes)
    BY <1>1, <1>7 DEF TypeOK, NoInode
  <2>2. PICK inode \in Inode : inode = inodes[source]
    BY <1>5, <2>1
  <2>3. inode.mtime \in Nat /\ Len(inode.content) \in Nat
    BY DEF Inode, Content
  <2>0. PICK size \in Nat : size = Len(inode.content) % SizeLimit
    BY <2>3, SizeAssumption
  <2> DEFINE header == Header(inode.mtime, size)
             buffer == << header, Names >>
             t == [s EXCEPT !.f_input = source, !.f_mtime = inode.mtime,
                            !.f_buffer = buffer]
  <2>4. header \in Unit /\ Names \in Unit
    BY <2>3, UnitType
  <2>5. /\ header.kind = "header" /\ header.value[1] = inode.mtime
        /\ Names.kind = "names"
    BY DEF Header, Names
  <2>6. sender' = [sender EXCEPT ![c] = t]
    BY <1>7, <2>2, <2>0 DEF OpenFile
  <2> HIDE DEF header
  <2>7. /\ buffer \in Seq(Unit) /\ Len(buffer) = 2 /\ DOMAIN buffer = 1..2
        /\ buffer[1] = header /\ buffer[2] = Names
    BY <2>4
  <2> HIDE DEF buffer
  <2>8. /\ t \in Sender /\ t.f_input = source /\ t.f_buffer = buffer
        /\ t.f_mtime = inode.mtime /\ t.f_sent_footer = s.f_sent_footer
        /\ t.f_position = s.f_position
    <3>1. source \in Nat
      BY <2>1
    <3>2. QED
      BY <2>3, <2>7, <3>1 DEF Sender
  <2> HIDE DEF t
  <2>9. Genuine(t, header) /\ Genuine(t, Names)
    BY <2>5, <2>8 DEF Genuine
  <2>10. \A k \in DOMAIN t.f_buffer : Genuine(t, t.f_buffer[k])
    BY <2>7, <2>8, <2>9
  <2>11. t.f_input <= Len(inodes) /\ t.f_position <= Len(t.f_buffer)
    BY <1>5, <1>6, <2>1, <2>7, <2>8
  <2>12. QED
    BY <1>3, <1>4, <2>6, <2>8, <2>10, <2>11, WaitingStep
<1>8. CASE sender' = [sender EXCEPT ![c] = OpenFails(s)]
  <2> DEFINE buffer == << Zeros, Zeros >>
             t == [s EXCEPT !.f_buffer = buffer]
  <2>1. /\ buffer \in Seq(Unit) /\ Len(buffer) = 2 /\ DOMAIN buffer = 1..2
        /\ buffer[1] = Zeros /\ buffer[2] = Zeros /\ Zeros.kind = "zeros"
    BY UnitType DEF Zeros
  <2> HIDE DEF buffer
  <2>2. /\ t \in Sender /\ t.f_input = s.f_input /\ t.f_buffer = buffer
        /\ t.f_sent_footer = s.f_sent_footer /\ t.f_position = s.f_position
    BY <2>1 DEF Sender
  <2>3. sender' = [sender EXCEPT ![c] = t]
    BY <1>8 DEF OpenFails, buffer
  <2> HIDE DEF t
  <2>4. Genuine(t, Zeros)
    BY <2>1 DEF Genuine
  <2>5. \A k \in DOMAIN t.f_buffer : Genuine(t, t.f_buffer[k])
    BY <2>1, <2>2, <2>4
  <2>6. t.f_input <= Len(inodes) /\ t.f_position <= Len(t.f_buffer)
    BY <1>3, <1>5, <1>6, <2>1, <2>2 DEF NoInode
  <2>7. QED
    BY <1>3, <1>4, <2>2, <2>3, <2>5, <2>6, WaitingStep
<1>9. CASE sender' = [sender EXCEPT ![c] = Closed(s)]
  BY <1>2, <1>3, <1>9, SenderCloses
<1>10. CASE sender' = [sender EXCEPT ![c].phase = "idle"]
  <2> DEFINE t == [s EXCEPT !.phase = "idle"]
  <2>1. /\ t \in Sender /\ t.f_input = s.f_input /\ t.f_buffer = s.f_buffer
        /\ t.f_sent_footer = s.f_sent_footer /\ t.f_position = s.f_position
    BY DEF Sender
  <2>2. sender' = [sender EXCEPT ![c] = t]
    BY <1>2, <1>10
  <2> HIDE DEF t
  <2>3. DOMAIN t.f_buffer = {}
    BY <1>3, <2>1
  <2>4. t.f_input <= Len(inodes) /\ t.f_position <= Len(t.f_buffer)
    BY <1>3, <1>5, <2>1 DEF NoInode
  <2>5. QED
    BY <1>3, <1>4, <2>1, <2>2, <2>3, <2>4, WaitingStep
<1>11. QED
  BY <1>2, <1>7, <1>8, <1>9, <1>10 DEF ProcessRequest, Asked

-----------------------------------------------------------------------------
LEMMA BlockType ==
    ASSUME inodes \in Seq(Inode), NEW s \in Sender,
           s.f_input \in 1..Len(inodes)
    PROVE  Block(s) \in Content
<1>1. PICK inode \in Inode : inode = inodes[s.f_input]
  OBVIOUS
<1> DEFINE content == inode.content
           last == Least(s.offset + BufferSize, Len(content))
<1>2. content \in Seq(Piece) /\ Len(content) \in Nat /\ s.offset \in Nat
  BY DEF Inode, Content, Sender
<1>3. last \in Int /\ last <= Len(content)
  BY <1>2, SizeAssumption DEF Least
<1>4. Block(s) = SubSeq(content, s.offset + 1, last)
  BY <1>1 DEF Block
<1> HIDE DEF last, content
<1>5. \A i \in (s.offset + 1)..last : content[i] \in Piece
  BY <1>2, <1>3
<1>6. SubSeq(content, s.offset + 1, last) \in Seq(Piece)
  BY <1>2, <1>3, <1>5, SubSeqProperties
<1>7. QED
  BY <1>4, <1>6 DEF Content

\* A sender with another buffer, from its start.
Refill(s, b, o, r, e, f) ==
    [s EXCEPT !.f_buffer = b, !.f_position = 0, !.offset = o, !.read = r,
              !.eof = e, !.f_sent_footer = f]

LEMMA Refilled ==
    ASSUME NEW s \in Sender, NEW b \in Seq(Unit), NEW o \in Nat,
           NEW r \in Content, NEW e \in BOOLEAN, NEW f \in BOOLEAN
    PROVE  LET t == Refill(s, b, o, r, e, f)
           IN  /\ t \in Sender /\ t.phase = s.phase /\ t.f_input = s.f_input
               /\ t.f_position = 0 /\ t.f_buffer = b /\ t.f_sent_footer = f
               /\ t.read = r /\ t.f_mtime = s.f_mtime
<1>1. Refill(s, b, o, r, e, f) \in Sender
  BY DEF Refill, Sender
<1>2. /\ Refill(s, b, o, r, e, f).phase = s.phase
      /\ Refill(s, b, o, r, e, f).f_input = s.f_input
      /\ Refill(s, b, o, r, e, f).f_mtime = s.f_mtime
  BY DEF Refill, Sender
<1>3. /\ Refill(s, b, o, r, e, f).f_buffer = b
      /\ Refill(s, b, o, r, e, f).f_position = 0
      /\ Refill(s, b, o, r, e, f).read = r
  BY DEF Refill, Sender
<1>4. Refill(s, b, o, r, e, f).f_sent_footer = f
  BY DEF Refill, Sender
<1>5. QED
  BY <1>1, <1>2, <1>3, <1>4

\* The next buffer only has pieces that say what is so.
LEMMA NextBufferStep ==
    ASSUME inodes \in Seq(Inode), NEW s \in Sender, s.phase = "open",
           s.f_input \in 1..Len(inodes), ~ s.f_sent_footer,
           NEW t, t = NextBuffer(s)
    PROVE  /\ t \in Sender /\ t.phase = "open" /\ t.f_input = s.f_input
           /\ t.f_position = 0 /\ Keeps(s, t)
           /\ \A k \in DOMAIN t.f_buffer : Genuine(t, t.f_buffer[k])
<1>1. s.read \in Content
  BY DEF Sender
<1>2. CASE t = Footer(s)
  <2> DEFINE hash == Murmur3(s.read)
             buffer == << hash, End >>
  <2>1. hash \in Unit /\ End \in Unit
    BY <1>1, UnitType
  <2>2. hash.kind = "murmur3" /\ hash.value = s.read /\ End.kind = "end"
    BY DEF Murmur3, End
  <2>3. t = [s EXCEPT !.f_buffer = buffer, !.f_position = 0, !.eof = TRUE,
                      !.f_sent_footer = TRUE]
    BY <1>2 DEF Footer
  <2> HIDE DEF hash
  <2>4. /\ buffer \in Seq(Unit) /\ DOMAIN buffer = 1..2
        /\ buffer[1] = hash /\ buffer[2] = End
    BY <2>1
  <2> HIDE DEF buffer
  <2>5. /\ t \in Sender /\ t.phase = s.phase /\ t.f_input = s.f_input
        /\ t.f_position = 0 /\ t.f_buffer = buffer /\ t.f_sent_footer
        /\ t.read = s.read /\ t.f_mtime = s.f_mtime
    <3>1. PICK yes \in BOOLEAN : yes = TRUE
      OBVIOUS
    <3>2. s.offset \in Nat
      BY DEF Sender
    <3>3. t = Refill(s, buffer, s.offset, s.read, yes, yes)
      BY <2>3, <3>1 DEF Sender, Refill
    <3>4. /\ t \in Sender /\ t.phase = s.phase /\ t.f_input = s.f_input
          /\ t.f_position = 0 /\ t.f_buffer = buffer
          /\ t.read = s.read /\ t.f_mtime = s.f_mtime
      BY <1>1, <2>4, <3>2, <3>3, Refilled
    <3>5. t.f_sent_footer
      BY <2>3 DEF Sender
    <3>6. QED
      BY <3>4, <3>5
  <2>6. Genuine(t, hash) /\ Genuine(t, End)
    BY <2>2, <2>5 DEF Genuine
  <2>7. \A k \in DOMAIN t.f_buffer : Genuine(t, t.f_buffer[k])
    BY <2>4, <2>5, <2>6
  <2>8. Keeps(s, t)
    BY <2>5 DEF Keeps, Sent, Live
  <2>9. QED
    BY <2>5, <2>7, <2>8
<1>3. CASE t = FillBuffer(s)
  <2> DEFINE block == Block(s)
  <2>1. block \in Content
    BY BlockType
  <2>2. t = [s EXCEPT !.f_buffer = block, !.f_position = 0,
                      !.offset = s.offset + Len(block),
                      !.read = s.read \o block,
                      !.eof = Len(block) < BufferSize]
    BY <1>3 DEF FillBuffer
  <2> HIDE DEF block
  <2>3. /\ block \in Seq(Piece) /\ Len(block) \in Nat
        /\ s.read \o block \in Content
    BY <1>1, <2>1 DEF Content
  <2>4. block \in Seq(Unit)
    BY <2>3, UnitType, SeqMonotonic
  <2>5. s.offset + Len(block) \in Nat
    BY <2>3 DEF Sender
  <2>6. /\ t \in Sender /\ t.phase = s.phase /\ t.f_input = s.f_input
        /\ t.f_position = 0 /\ t.f_buffer = block
        /\ t.f_sent_footer = s.f_sent_footer /\ t.f_mtime = s.f_mtime
    <3> DEFINE e == Len(block) < BufferSize
    <3>1. e \in BOOLEAN
      OBVIOUS
    <3> HIDE DEF e
    <3>2. PICK f \in BOOLEAN : f = s.f_sent_footer
      BY DEF Sender
    <3>3. PICK o \in Nat : o = s.offset + Len(block)
      BY <2>5
    <3>4. PICK r \in Content : r = s.read \o block
      BY <2>3
    <3>5. t = Refill(s, block, o, r, e, f)
      BY <2>2, <3>2, <3>3, <3>4 DEF Sender, Refill, e
    <3>6. QED
      BY <2>4, <3>1, <3>2, <3>5, Refilled
  <2>7. \A k \in DOMAIN block : block[k].kind = "data"
    <3>1. \A k \in DOMAIN block : block[k] \in Piece
      BY <2>3
    <3>2. QED
      BY <3>1 DEF Piece
  <2>8. \A k \in DOMAIN t.f_buffer : Genuine(t, t.f_buffer[k])
    BY <2>6, <2>7 DEF Genuine
  <2>9. Keeps(s, t)
    BY <2>6 DEF Keeps, Sent, Live
  <2>10. QED
    BY <2>6, <2>8, <2>9
<1>4. QED
  BY <1>2, <1>3 DEF NextBuffer

LEMMA ProcessWriteInv ==
    ASSUME IInv, NEW c \in Conns, ProcessWrite(c)
    PROVE  IInv'
<1>1. TypeOK /\ StreamOK(c)
  BY DEF IInv
<1>2. PICK s \in Sender : s = sender[c]
  BY <1>1, ConnType
<1>3. /\ s.f_input <= Len(inodes) /\ s.f_position <= Len(s.f_buffer)
      /\ s.f_position \in Nat /\ s.f_input \in Nat
      /\ s.f_buffer \in Seq(Unit) /\ Len(s.f_buffer) \in Nat
      /\ inodes \in Seq(Inode) /\ Len(inodes) \in Nat
      /\ wire[c] \in Seq(Unit) /\ Len(wire[c]) \in Nat
      /\ Len(wire[c]) <= SocketBuffer /\ SocketBuffer \in Nat
  BY <1>1, <1>2, ConnType DEF Sender
<1>4. s.f_input # NoInode /\ s.phase = "open"
  BY <1>2 DEF ProcessWrite
<1>5. s.f_input \in 1..Len(inodes)
  BY <1>3, <1>4 DEF NoInode
<1> DEFINE left == Len(s.f_buffer) - s.f_position
           n == Least(left, Room(c))
           written == [s EXCEPT !.f_position = s.f_position + n]
           w == wire[c] \o Written(s, n)
<1>6. /\ wire' = [wire EXCEPT ![c] = w]
      /\ sender' = [sender EXCEPT ![c] =
             IF n < left THEN written
             ELSE IF s.f_sent_footer THEN Closed(s) ELSE NextBuffer(written)]
      /\ UNCHANGED << files, receiver, temp, target, sender_up >>
  BY <1>2 DEF ProcessWrite
<1>7. n \in Nat /\ n <= left /\ n <= SocketBuffer - Len(wire[c])
      /\ left \in Nat /\ left <= Len(s.f_buffer)
  <2>1. left \in Nat /\ left <= Len(s.f_buffer)
    BY <1>3
  <2>2. n > 0
    BY <1>2 DEF ProcessWrite
  <2>3. Room(c) = SocketBuffer - Len(wire[c]) /\ Room(c) \in Int
    BY <1>3 DEF Room
  <2>4. n \in Int /\ n <= left /\ n <= Room(c)
    BY <2>1, <2>3 DEF Least
  <2>5. QED
    BY <2>1, <2>2, <2>3, <2>4
<1> HIDE DEF n
<1>8. /\ Written(s, n) \in Seq(Unit) /\ Len(Written(s, n)) = n
      /\ \A k \in 1..n : Written(s, n)[k] = s.f_buffer[k]
  <2>1. \A i \in 1..n : s.f_buffer[i] \in Unit
    BY <1>3, <1>7
  <2>2. /\ SubSeq(s.f_buffer, 1, n) \in Seq(Unit)
        /\ Len(SubSeq(s.f_buffer, 1, n)) = IF 1 <= n THEN n - 1 + 1 ELSE 0
        /\ \A k \in 1..(n - 1 + 1) :
               SubSeq(s.f_buffer, 1, n)[k] = s.f_buffer[1 + k - 1]
    BY <1>7, <2>1, SubSeqProperties
  <2>3. QED
    BY <1>7, <2>2 DEF Written
<1>9. /\ w \in Seq(Unit) /\ Len(w) <= SocketBuffer
      /\ \A k \in DOMAIN w : Genuine(s, w[k])
  <2> DEFINE x == Written(s, n)
  <2>1. \A k \in 1..n : Genuine(s, x[k])
    BY <1>1, <1>2, <1>3, <1>7, <1>8 DEF StreamOK
  <2>2. \A k \in 1..Len(wire[c]) : Genuine(s, wire[c][k])
    BY <1>1, <1>2, <1>3 DEF StreamOK
  <2>3. x \in Seq(Unit) /\ Len(x) = n
    BY <1>8
  <2> HIDE DEF x
  <2>4. /\ wire[c] \o x \in Seq(Unit) /\ Len(wire[c] \o x) = Len(wire[c]) + n
        /\ \A k \in 1..(Len(wire[c]) + n) : (wire[c] \o x)[k] =
               IF k <= Len(wire[c]) THEN wire[c][k] ELSE x[k - Len(wire[c])]
    BY ZenonT(30), <1>3, <2>3, ConcatProperties
  <2>5. \A k \in 1..(Len(wire[c]) + n) : Genuine(s, (wire[c] \o x)[k])
    <3> DEFINE y == wire[c] \o x
    <3> SUFFICES ASSUME NEW k \in 1..(Len(wire[c]) + n)
                 PROVE  Genuine(s, y[k])
      OBVIOUS
    <3>1. ASSUME k <= Len(wire[c]) PROVE Genuine(s, y[k])
      BY <1>3, <1>7, <2>2, <2>4, <3>1
    <3>2. ASSUME ~ k <= Len(wire[c]) PROVE Genuine(s, y[k])
      <4>1. k - Len(wire[c]) \in 1..n
        BY <1>3, <1>7, <3>2
      <4>2. y[k] = x[k - Len(wire[c])]
        BY <1>3, <1>7, <2>4, <3>2
      <4>3. QED
        BY <2>1, <4>1, <4>2 DEF x
    <3> HIDE DEF y
    <3>3. QED
      BY <3>1, <3>2
  <2>6. QED
    BY SMTT(30), <1>3, <1>7, <2>4, <2>5 DEF x
<1> HIDE DEF w
<1>10. /\ written \in Sender /\ written.phase = s.phase
       /\ written.f_input = s.f_input /\ written.f_buffer = s.f_buffer
       /\ written.f_position = s.f_position + n
       /\ written.f_sent_footer = s.f_sent_footer
       /\ written.f_mtime = s.f_mtime /\ written.read = s.read
  <2>1. s.f_position + n \in Nat
    BY <1>3, <1>7
  <2>2. QED
    BY <2>1 DEF Sender
<1>11. Keeps(s, written) /\ \A u : Genuine(s, u) => Genuine(written, u)
  <2>1. Keeps(s, written)
    BY <1>10 DEF Keeps, Sent, Live
  <2>2. QED
    BY <2>1, GenuineKept
<1> HIDE DEF written
<1>12. ASSUME NEW t \in Sender, sender' = [sender EXCEPT ![c] = t],
              t.f_input <= Len(inodes), t.f_position <= Len(t.f_buffer),
              ~ Waiting(t), Keeps(s, t),
              \A k \in DOMAIN t.f_buffer : Genuine(t, t.f_buffer[k])
       PROVE  IInv'
  <2>1. sender'[c] = t /\ wire'[c] = w /\ receiver'[c] = receiver[c]
    BY <1>1, <1>6, <1>12 DEF TypeOK
  <2>2. StreamOK(c)' /\ QuietBefore(c)'
    BY <1>1, <1>2, <1>9, <1>12, <2>1, StreamKept
  <2>3. Sent(sender[c], t)
    BY <1>2, <1>12 DEF Keeps
  <2>4. QED
    BY <1>6, <1>9, <1>12, <2>2, <2>3, SenderStep
<1>13. CASE sender' = [sender EXCEPT ![c] = written]
  <2>1. \A k \in DOMAIN written.f_buffer :
            Genuine(written, written.f_buffer[k])
    BY <1>1, <1>2, <1>10, <1>11 DEF StreamOK
  <2>2. ~ Waiting(written)
    BY <1>4, <1>10 DEF Waiting
  <2>3. written.f_position <= Len(written.f_buffer)
    BY <1>3, <1>7, <1>10
  <2>4. QED
    BY <1>3, <1>10, <1>11, <1>12, <1>13, <2>1, <2>2, <2>3
<1>14. CASE sender' = [sender EXCEPT ![c] = Closed(s)]
  <2> DEFINE t == Closed(s)
  <2>1. /\ t \in Sender /\ t.phase = "closed" /\ t.f_input = NoInode
        /\ t.f_buffer = << >> /\ t.f_position = 0 /\ Keeps(s, t)
    BY ClosedKeeps
  <2> HIDE DEF t
  <2>2. DOMAIN t.f_buffer = {} /\ t.f_position <= Len(t.f_buffer)
    BY <2>1
  <2>3. ~ Waiting(t)
    BY <2>1 DEF Waiting
  <2>4. t.f_input <= Len(inodes)
    BY <1>3, <2>1 DEF NoInode
  <2>5. sender' = [sender EXCEPT ![c] = t]
    BY <1>14 DEF t
  <2>6. QED
    BY <1>12, <2>1, <2>2, <2>3, <2>4, <2>5
<1>15. CASE ~ s.f_sent_footer
            /\ sender' = [sender EXCEPT ![c] = NextBuffer(written)]
  <2>1. PICK t : t = NextBuffer(written)
    OBVIOUS
  <2>2. /\ t \in Sender /\ t.phase = "open" /\ t.f_input = s.f_input
        /\ t.f_position = 0 /\ Keeps(written, t)
        /\ \A k \in DOMAIN t.f_buffer : Genuine(t, t.f_buffer[k])
    BY <1>3, <1>4, <1>5, <1>10, <1>15, <2>1, NextBufferStep
  <2>3. ~ Waiting(t)
    BY <1>4, <2>2 DEF Waiting
  <2>4. Keeps(s, t)
    BY <1>11, <2>2 DEF Keeps, Sent
  <2>5. t.f_buffer \in Seq(Unit)
    BY <2>2 DEF Sender
  <2>6. t.f_position <= Len(t.f_buffer)
    BY <2>2, <2>5
  <2>7. QED
    BY <1>3, <1>12, <1>15, <2>1, <2>2, <2>3, <2>4, <2>6
<1>16. QED
  BY <1>6, <1>13, <1>14, <1>15

-----------------------------------------------------------------------------
LEMMA SenderStopsInv ==
    ASSUME IInv, SenderStops,
           UNCHANGED << files, wire, receiver, temp, target >>
    PROVE  IInv'
<1>1. /\ UNCHANGED << files, wire, receiver, temp, target >>
      /\ sender' = [d \in Conns |-> IF sender[d].phase = "silent"
                                    THEN sender[d] ELSE Closed(sender[d])]
      /\ sender_up' = FALSE
  BY DEF SenderStops
<1>2. ASSUME NEW d \in Conns
      PROVE  /\ sender'[d] \in Sender /\ Sent(sender[d], sender'[d])
             /\ sender'[d].f_input <= Len(inodes)
             /\ sender'[d].f_position <= Len(sender'[d].f_buffer)
             /\ StreamOK(d)' /\ QuietBefore(d)'
  <2>1. TypeOK /\ StreamOK(d) /\ QuietBefore(d)
    BY DEF IInv
  <2>2. sender[d] \in Sender /\ Len(inodes) \in Nat
    BY <2>1, ConnType
  <2>3. CASE sender[d].phase = "silent"
    <3>1. /\ sender'[d] = sender[d] /\ wire'[d] = wire[d]
          /\ receiver'[d] = receiver[d]
      BY <1>1, <2>3
    <3>2. StreamOK(d)' /\ QuietBefore(d)'
      BY <2>1, <3>1, StreamSame
    <3>3. QED
      BY <2>1, <2>2, <3>1, <3>2, ConnType DEF Sent
  <2>4. CASE sender[d].phase # "silent"
    <3> DEFINE t == Closed(sender[d])
    <3>1. /\ t \in Sender /\ t.phase = "closed" /\ t.f_input = NoInode
          /\ t.f_buffer = << >> /\ t.f_position = 0 /\ Keeps(sender[d], t)
      BY <2>2, ClosedKeeps
    <3>2. sender'[d] = t /\ wire'[d] = wire[d] /\ receiver'[d] = receiver[d]
      BY <1>1, <2>4
    <3> HIDE DEF t
    <3>3. ~ Waiting(t) /\ DOMAIN t.f_buffer = {}
      BY <3>1 DEF Waiting
    <3>4. \A k \in DOMAIN wire[d] : Genuine(sender[d], wire[d][k])
      BY <2>1 DEF StreamOK
    <3>5. StreamOK(d)' /\ QuietBefore(d)'
      BY <2>1, <3>1, <3>2, <3>3, <3>4, StreamKept
    <3>6. QED
      BY <2>2, <3>1, <3>2, <3>5 DEF Keeps, NoInode
  <2>5. QED
    BY <2>3, <2>4
<1>3. TypeOK'
  <2>1. sender' \in [Conns -> Sender]
    BY <1>1, <1>2
  <2>2. QED
    BY <1>1, <1>2, <2>1 DEF IInv, TypeOK, files
<1>4. InstalledAsRead'
  BY <1>1, <1>2, InstalledSame DEF IInv
<1>5. QED
  BY <1>1, <1>2, <1>3, <1>4 DEF IInv, TempOK, TempsApart, FailedOK

\* Nothing comes from the sender of c any more; the start of what was on its way
\* does.
LEMMA SilenceInv ==
    ASSUME IInv, NEW c \in Conns, Silence(c)
    PROVE  IInv'
<1>1. TypeOK /\ StreamOK(c)
  BY DEF IInv
<1>2. PICK w \in Seq(Unit) : w = wire[c]
  BY <1>1, ConnType
<1>3. PICK n \in 0..Len(w) : wire' = [wire EXCEPT ![c] = SubSeq(w, 1, n)]
  BY <1>2 DEF Silence
<1>4. sender[c] \in Sender /\ Len(inodes) \in Nat /\ Len(w) \in Nat
      /\ Len(w) <= SocketBuffer /\ SocketBuffer \in Nat
  BY <1>1, <1>2, ConnType
<1> DEFINE t == Silent(sender[c])
<1>5. /\ t \in Sender /\ t.phase = "silent" /\ t.f_input = NoInode
      /\ t.f_buffer = << >> /\ t.f_position = 0 /\ Keeps(sender[c], t)
  BY <1>4, EndedKeeps DEF Silent
<1>6. /\ sender' = [sender EXCEPT ![c] = t]
      /\ UNCHANGED << files, receiver, temp, target, sender_up >>
  BY DEF Silence
<1> HIDE DEF t
<1> DEFINE v == SubSeq(w, 1, n)
<1>7. /\ v \in Seq(Unit) /\ Len(v) <= SocketBuffer /\ DOMAIN v = 1..n
      /\ \A k \in 1..n : k \in DOMAIN w /\ v[k] = w[k]
  BY <1>4
<1>8. wire' = [wire EXCEPT ![c] = v]
  BY <1>3
<1> HIDE DEF v
<1>9. sender'[c] = t /\ wire'[c] = v /\ receiver'[c] = receiver[c]
  BY <1>1, <1>6, <1>8 DEF TypeOK
<1>10. StreamOK(c)' /\ QuietBefore(c)'
  <2>1. ~ Waiting(t) /\ DOMAIN t.f_buffer = {}
    BY <1>5 DEF Waiting
  <2>2. \A k \in DOMAIN v : Genuine(sender[c], v[k])
    BY <1>1, <1>2, <1>7 DEF StreamOK
  <2>3. QED
    BY <1>1, <1>5, <1>9, <2>1, <2>2, StreamKept
<1>11. t.f_input <= Len(inodes) /\ t.f_position <= Len(t.f_buffer)
  BY <1>4, <1>5 DEF NoInode
<1>12. Sent(sender[c], t)
  BY <1>5 DEF Keeps
<1>13. QED
  BY <1>5, <1>6, <1>7, <1>8, <1>10, <1>11, <1>12, SenderStep

-----------------------------------------------------------------------------
(* The receiver's side. *)

Temp == [there : BOOLEAN, content : Seq(Unit)]

\* A step of one receiver, and of what it reads.
LEMMA ReceiverStep ==
    ASSUME IInv, NEW c \in Conns, UNCHANGED << files, sender, sender_up >>,
           NEW r \in Receiver, receiver' = [receiver EXCEPT ![c] = r],
           NEW w \in Seq(Unit), Len(w) <= SocketBuffer,
           wire' = [wire EXCEPT ![c] = w],
           temp' \in Seq(Temp), target' \in File,
           StreamOK(c)' /\ QuietBefore(c)',
           \A d \in Conns : TempOK(d)', TempsApart', FailedOK', InstalledAsRead'
    PROVE  IInv'
<1>1. TypeOK'
  BY DEF IInv, TypeOK, files, Temp
<1>2. \A d \in Conns \ {c} : receiver'[d] = receiver[d] /\ wire'[d] = wire[d]
  BY DEF IInv, TypeOK
<1>3. \A d \in Conns : StreamOK(d)' /\ QuietBefore(d)'
  BY <1>2, StreamSame DEF IInv
<1>4. QED
  BY <1>1, <1>3 DEF IInv

\* The first piece on its way, and the others.
LEMMA HeadAndTail ==
    ASSUME IInv, NEW c \in Conns, Reading(c)
    PROVE  /\ Head(wire[c]) \in Unit /\ Genuine(sender[c], Head(wire[c]))
           /\ Tail(wire[c]) \in Seq(Unit)
           /\ Len(Tail(wire[c])) <= SocketBuffer
           /\ \A k \in DOMAIN Tail(wire[c]) :
                  Genuine(sender[c], Tail(wire[c])[k])
           /\ ~ Waiting(sender[c])
<1>1. TypeOK /\ StreamOK(c) /\ QuietBefore(c)
  BY DEF IInv
<1>2. PICK w \in Seq(Unit) : w = wire[c]
  BY <1>1, ConnType
<1>3. w # << >> /\ Len(w) \in Nat /\ Len(w) <= SocketBuffer
      /\ SocketBuffer \in Nat
  BY <1>1, <1>2, ConnType DEF Reading
<1>4. \A k \in 1..Len(w) : Genuine(sender[c], w[k])
  BY <1>1, <1>2 DEF StreamOK
<1>5. Len(w) >= 1 /\ Head(w) = w[1] /\ w[1] \in Unit
  BY <1>3
<1>6. /\ Tail(w) \in Seq(Unit) /\ Len(Tail(w)) = Len(w) - 1
      /\ \A k \in 1..(Len(w) - 1) : Tail(w)[k] = w[k + 1]
  BY <1>3, <1>5
<1>7. \A k \in 1..(Len(w) - 1) : k + 1 \in 1..Len(w)
  BY <1>3
<1>8. DOMAIN Tail(w) = 1..(Len(w) - 1)
  BY <1>6
<1>9. \A k \in DOMAIN Tail(w) : Genuine(sender[c], Tail(w)[k])
  <2> SUFFICES ASSUME NEW k \in 1..(Len(w) - 1)
               PROVE  Genuine(sender[c], Tail(w)[k])
    BY <1>8
  <2>1. Tail(w)[k] = w[k + 1] /\ k + 1 \in 1..Len(w)
    BY <1>6, <1>7
  <2>2. Genuine(sender[c], w[k + 1])
    BY <1>4, <2>1
  <2>3. QED
    BY <2>1, <2>2
<1>10. ~ Waiting(sender[c])
  BY <1>1, <1>2, <1>3 DEF QuietBefore
<1>11. Len(Tail(w)) <= SocketBuffer
  BY <1>3, <1>6
<1>12. QED
  BY <1>2, <1>3, <1>4, <1>5, <1>6, <1>9, <1>10, <1>11

-----------------------------------------------------------------------------
\* Only the temporary file of c may have changed, and it is as it should be.
LEMMA TempsMoved ==
    ASSUME NEW c \in Conns, TypeOK, \A d \in Conns : TempOK(d), TempsApart,
           \A d \in Conns \ {c} : receiver'[d] = receiver[d],
           receiver'[c].temp = receiver[c].temp,
           receiver'[c].got > 0 => receiver[c].got > 0,
           DOMAIN temp' = DOMAIN temp,
           \A g \in DOMAIN temp \ {TempOf(c)} : temp'[g] = temp[g],
           TempOK(c)'
    PROVE  (\A d \in Conns : TempOK(d)') /\ TempsApart'
<1>1. \A d \in Conns : receiver[d].got \in Nat
  BY DEF TypeOK, Receiver
<1>2. ASSUME NEW d \in Conns, d # c PROVE TempOK(d)'
  <2>1. receiver'[d] = receiver[d] /\ TempOK(d) /\ TempOK(c)
    BY <1>2
  <2>2. CASE receiver[d].got > 0
    <3>1. receiver[d].temp \in DOMAIN temp /\ 0 \notin DOMAIN temp
      BY <2>1, <2>2 DEF TempOK, TypeOK
    <3>2. receiver[d].temp # TempOf(c)
      BY <1>1, <1>2, <2>1, <2>2, <3>1 DEF TempOK, TempsApart, TempOf
    <3>3. temp'[receiver[d].temp] = temp[receiver[d].temp]
      BY <3>1, <3>2
    <3>4. QED
      BY <2>1, <3>1, <3>3 DEF TempOK
  <2>3. CASE ~ receiver[d].got > 0
    BY <1>1, <2>1, <2>3 DEF TempOK
  <2>4. QED
    BY <2>2, <2>3
<1>3. TempsApart'
  BY DEF TempsApart
<1>4. QED
  BY <1>2, <1>3

LEMMA ConnectInv ==
    ASSUME IInv, NEW c \in Conns, Connect(c) \/ SendRequest(c)
    PROVE  IInv'
<1>1. TypeOK /\ StreamOK(c) /\ QuietBefore(c) /\ TempOK(c)
  BY DEF IInv
<1>2. PICK r \in Receiver : r = receiver[c]
  BY <1>1, ConnType
<1>3. PICK q \in Receiver : /\ receiver' = [receiver EXCEPT ![c] = q]
                            /\ q.got = r.got /\ q.temp = r.temp
                            /\ q.opened = r.opened /\ q.good = r.good
                            /\ q.read = r.read /\ q.f_footer = r.f_footer
                            /\ q.f_mtime = r.f_mtime
  <2>1. CASE Connect(c)
    <3> DEFINE q == [r EXCEPT !.phase = "connected"]
    <3>1. /\ q \in Receiver /\ q.got = r.got /\ q.temp = r.temp
          /\ q.opened = r.opened /\ q.good = r.good
          /\ q.read = r.read /\ q.f_footer = r.f_footer
          /\ q.f_mtime = r.f_mtime
      BY DEF Receiver
    <3>2. receiver' = [receiver EXCEPT ![c] = q]
      BY <1>2, <2>1 DEF Connect
    <3>3. QED
      BY <3>1, <3>2
  <2>2. CASE SendRequest(c)
    <3> DEFINE q == [r EXCEPT !.asked = TRUE]
    <3>1. /\ q \in Receiver /\ q.got = r.got /\ q.temp = r.temp
          /\ q.opened = r.opened /\ q.good = r.good
          /\ q.read = r.read /\ q.f_footer = r.f_footer
          /\ q.f_mtime = r.f_mtime
      BY DEF Receiver
    <3>2. receiver' = [receiver EXCEPT ![c] = q]
      BY <1>2, <2>2 DEF SendRequest
    <3>3. QED
      BY <3>1, <3>2
  <2>3. QED
    BY <2>1, <2>2
<1>4. UNCHANGED << files, sender, wire, temp, target, sender_up >>
  BY DEF Connect, SendRequest
<1>5. /\ receiver'[c] = q /\ wire' = [wire EXCEPT ![c] = wire[c]]
      /\ \A d \in Conns \ {c} : receiver'[d] = receiver[d]
  BY <1>1, <1>3, <1>4 DEF TypeOK
<1>6. StreamOK(c)' /\ QuietBefore(c)'
  BY <1>1, <1>2, <1>3, <1>4, <1>5 DEF StreamOK, QuietBefore, HeaderWhole
<1>7. TempOK(c)'
  BY <1>1, <1>2, <1>3, <1>4, <1>5 DEF TempOK
<1>8. (\A d \in Conns : TempOK(d)') /\ TempsApart'
  BY <1>2, <1>3, <1>4, <1>5, <1>7, TempsMoved DEF IInv
<1>9. temp' \in Seq(Temp) /\ target' \in File
  BY <1>1, <1>4 DEF TypeOK, Temp
<1>10. FailedOK' /\ InstalledAsRead'
  BY <1>4, InstalledSame DEF IInv, Sent, FailedOK
<1>11. wire[c] \in Seq(Unit) /\ Len(wire[c]) <= SocketBuffer
  BY <1>1, ConnType
<1>12. QED
  BY <1>3, <1>4, <1>5, <1>6, <1>8, <1>9, <1>10, <1>11, ReceiverStep

\* The receiver takes the first piece of the wire, or leaves it there for now,
\* and does not install.
LEMMA TakeStep ==
    ASSUME IInv, NEW c \in Conns, Reading(c),
           UNCHANGED << files, sender, target, sender_up >>,
           wire' = [wire EXCEPT ![c] = Tail(@)] \/ wire' = wire,
           NEW r \in Receiver, receiver' = [receiver EXCEPT ![c] = r],
           Genuine(sender[c], r.f_footer),
           HeaderWhole(r) /\ Live(sender[c]) => r.f_mtime = sender[c].f_mtime,
           temp' \in Seq(Temp),
           \A d \in Conns : TempOK(d)', TempsApart'
    PROVE  IInv'
<1>1. TypeOK /\ StreamOK(c)
  BY DEF IInv
<1>2. PICK w \in Seq(Unit) : /\ wire' = [wire EXCEPT ![c] = w]
                             /\ Len(w) <= SocketBuffer
                             /\ \A k \in DOMAIN w : Genuine(sender[c], w[k])
  <2>1. CASE wire' = [wire EXCEPT ![c] = Tail(@)]
    BY <2>1, HeadAndTail
  <2>2. CASE wire' = wire
    <3>1. wire' = [wire EXCEPT ![c] = wire[c]]
      BY <1>1, <2>2 DEF TypeOK
    <3>2. wire[c] \in Seq(Unit) /\ Len(wire[c]) <= SocketBuffer
      BY <1>1, ConnType
    <3>3. \A k \in DOMAIN wire[c] : Genuine(sender[c], wire[c][k])
      BY <1>1 DEF StreamOK
    <3>4. QED
      BY <3>1, <3>2, <3>3
  <2>3. QED
    BY <2>1, <2>2
<1>3. /\ receiver'[c] = r /\ wire'[c] = w /\ sender'[c] = sender[c]
  BY <1>1, <1>2 DEF TypeOK
<1>4. StreamOK(c)'
  BY <1>1, <1>2, <1>3 DEF StreamOK
<1>5. QuietBefore(c)'
  BY <1>3, HeadAndTail DEF QuietBefore
<1>6. FailedOK' /\ InstalledAsRead' /\ target' \in File
  BY <1>1, InstalledSame DEF IInv, Sent, TypeOK, FailedOK
<1>7. QED
  BY <1>2, <1>3, <1>4, <1>5, <1>6, ReceiverStep

-----------------------------------------------------------------------------
Phases == {"connected", "installed", "failed", "gone"}

\* The receiver of c closes its connection; its sender may, too.
LEMMA CloseStep ==
    ASSUME IInv, NEW c \in Conns, NEW p \in Phases, Close(c, p),
           UNCHANGED << files, sender_up >>,
           \/ sender' = sender
           \/ sender' = [sender EXCEPT ![c] = Closed(sender[c])],
           temp' \in Seq(Temp), DOMAIN temp' = DOMAIN temp,
           \A g \in DOMAIN temp \ {TempOf(c)} : temp'[g] = temp[g],
           target' \in File, FailedOK', InstalledAsRead'
    PROVE  IInv'
<1>1. TypeOK
  BY DEF IInv
<1>2. sender[c] \in Sender /\ Len(inodes) \in Nat /\ SocketBuffer \in Nat
  BY <1>1, ConnType
<1> DEFINE r == [NoReceiver EXCEPT !.phase = p]
<1>3. Gone(r)
  BY NoReceiverGone DEF Phases
<1>4. receiver' = [receiver EXCEPT ![c] = r] /\ wire' = [wire EXCEPT ![c] = << >>]
  BY DEF Close
<1> HIDE DEF r
<1>5. /\ receiver'[c] = r /\ wire'[c] = << >>
      /\ \A d \in Conns \ {c} : receiver'[d] = receiver[d] /\ wire'[d] = wire[d]
  BY <1>1, <1>4 DEF TypeOK
<1>6. PICK t \in Sender : /\ sender' = [sender EXCEPT ![c] = t]
                          /\ t = sender[c] \/ t = Closed(sender[c])
                          /\ t.f_input <= Len(inodes)
                          /\ t.f_position <= Len(t.f_buffer)
  <2>1. CASE sender' = sender
    BY <1>1, <1>2, <2>1, ConnType DEF TypeOK
  <2>2. CASE sender' = [sender EXCEPT ![c] = Closed(sender[c])]
    <3> DEFINE t == Closed(sender[c])
    <3>1. /\ t \in Sender /\ t.f_input = NoInode
          /\ t.f_buffer = << >> /\ t.f_position = 0
      BY <1>2, ClosedKeeps
    <3>2. t.f_input <= Len(inodes) /\ t.f_position <= Len(t.f_buffer)
      BY <1>2, <3>1 DEF NoInode
    <3>3. QED
      BY <2>2, <3>1, <3>2
  <2>3. QED
    BY <2>1, <2>2
<1>7. sender'[c] = t /\ \A d \in Conns \ {c} : sender'[d] = sender[d]
  BY <1>1, <1>6 DEF TypeOK
<1>8. TypeOK'
  <2>1. r \in Receiver /\ << >> \in Seq(Unit) /\ Len(<< >>) <= SocketBuffer
    BY <1>2, <1>3, EmptySeq DEF Gone
  <2>2. /\ sender' \in [Conns -> Sender]
        /\ receiver' \in [Conns -> Receiver]
        /\ wire' \in [Conns -> Seq(Unit)]
    BY <1>1, <1>4, <1>6, <2>1 DEF TypeOK
  <2>3. \A d \in Conns : /\ sender'[d].f_input <= Len(inodes)
                         /\ sender'[d].f_position <= Len(sender'[d].f_buffer)
                         /\ Len(wire'[d]) <= SocketBuffer
    <3> SUFFICES ASSUME NEW d \in Conns
                 PROVE  /\ sender'[d].f_input <= Len(inodes)
                        /\ sender'[d].f_position <= Len(sender'[d].f_buffer)
                        /\ Len(wire'[d]) <= SocketBuffer
      OBVIOUS
    <3>1. CASE d = c
      BY <1>5, <1>6, <1>7, <2>1, <3>1
    <3>2. CASE d # c
      BY <1>1, <1>5, <1>7, <3>2, ConnType
    <3>3. QED
      BY <3>1, <3>2
  <2>4. QED
    BY <1>1, <2>2, <2>3 DEF TypeOK, files, Temp
<1>9. \A d \in Conns : StreamOK(d)' /\ QuietBefore(d)'
  <2>1. StreamOK(c)' /\ QuietBefore(c)'
    BY <1>2, <1>3, <1>5, <1>6, <1>7, StreamReset DEF IInv
  <2>2. ASSUME NEW d \in Conns, d # c PROVE StreamOK(d)' /\ QuietBefore(d)'
    BY <1>5, <1>7, <2>2, StreamSame DEF IInv
  <2>3. QED
    BY <2>1, <2>2
<1>10. (\A d \in Conns : TempOK(d))' /\ TempsApart'
  BY <1>3, <1>5, TempsReset DEF IInv
<1>11. QED
  BY <1>8, <1>9, <1>10 DEF IInv

\* process_error(), or nobody calling it.
LEMMA LostInv ==
    ASSUME IInv, NEW c \in Conns,
           \/ ProcessError(c)
           \/ Close(c, "gone") /\ UNCHANGED << temp, target >>,
           UNCHANGED << files, sender_up >>,
           \/ sender' = sender
           \/ sender' = [sender EXCEPT ![c] = Closed(sender[c])]
    PROVE  IInv'
<1>1. temp \in Seq(Temp) /\ target \in File
  BY DEF IInv, TypeOK, Temp
<1>2. \E p \in Phases : Close(c, p)
  BY DEF Phases, ProcessError
<1>3. target' = target
  BY DEF ProcessError
<1>4. /\ temp' \in Seq(Temp) /\ DOMAIN temp' = DOMAIN temp
      /\ \A g \in DOMAIN temp \ {TempOf(c)} : temp'[g] = temp[g]
  <2>1. CASE temp' = temp
    BY <1>1, <2>1
  <2>2. CASE temp' = [g \in DOMAIN temp |-> IF g = TempOf(c) THEN NoTemp
                                                          ELSE temp[g]]
    <3>1. NoTemp \in Temp
      BY EmptySeq DEF NoTemp, Temp
    <3>2. DOMAIN temp = 1..Len(temp) /\ Len(temp) \in Nat
      BY <1>1
    <3>3. \A g \in 1..Len(temp) : temp[g] \in Temp
      BY <1>1
    <3> DEFINE x == [g \in 1..Len(temp) |-> IF g = TempOf(c) THEN NoTemp
                                                          ELSE temp[g]]
    <3>4. x \in [1..Len(temp) -> Temp]
      BY <3>1, <3>3
    <3>5. temp' = x
      BY <2>2, <3>2
    <3> HIDE DEF x
    <3>6. x \in Seq(Temp)
      BY <3>2, <3>4
    <3>7. QED
      BY <2>2, <3>5, <3>6
  <2>3. QED
    BY <2>1, <2>2 DEF ProcessError
<1>5. \A d \in Conns : Sent(sender[d], sender'[d])
  <2> SUFFICES ASSUME NEW d \in Conns PROVE Sent(sender[d], sender'[d])
    OBVIOUS
  <2>1. Keeps(sender[d], Closed(sender[d])) /\ sender \in [Conns -> Sender]
    BY ClosedKeeps, ConnType DEF IInv, TypeOK
  <2>2. sender'[d] = sender[d] \/ sender'[d] = Closed(sender[d])
    BY <2>1
  <2>3. QED
    BY <2>1, <2>2 DEF Keeps, Sent
<1>6. FailedOK' /\ InstalledAsRead'
  BY <1>3, <1>5, InstalledSame DEF IInv, FailedOK
<1>7. QED
  BY <1>1, <1>2, <1>3, <1>4, <1>6, CloseStep

-----------------------------------------------------------------------------
\* The receiver of c read a header and has the name of its temporary file; if
\* it has the whole header, the time is the one the sender found.
LEMMA HeaderStep ==
    ASSUME IInv, NEW c \in Conns, Reading(c), receiver[c].got = 0,
           UNCHANGED << files, sender, target, sender_up >>,
           temp' = Append(temp, NoTemp),
           wire' = [wire EXCEPT ![c] = Tail(@)],
           NEW k \in {1, 2}, NEW t \in Nat, NEW n \in Nat,
           receiver' = [receiver EXCEPT ![c].got = k,
                                        ![c].temp = Len(temp'),
                                        ![c].f_mtime = t, ![c].f_size = n],
           k = 1 /\ Live(sender[c]) => t = sender[c].f_mtime
    PROVE  IInv'
<1>1. TypeOK /\ StreamOK(c) /\ TempOK(c)
  BY DEF IInv
<1>2. PICK g \in Nat : g = Len(temp') /\ g = Len(temp) + 1 /\ Len(temp) \in Nat
  <2>1. temp \in Seq([there : BOOLEAN, content : Seq(Unit)])
    BY <1>1 DEF TypeOK
  <2>2. QED
    BY <2>1
<1>3. temp \in Seq(Temp) /\ NoTemp \in Temp
  BY <1>1, EmptySeq DEF TypeOK, Temp, NoTemp
<1>4. /\ temp' \in Seq(Temp) /\ g \in DOMAIN temp' /\ g \notin DOMAIN temp
      /\ \A i \in DOMAIN temp : i \in DOMAIN temp' /\ temp'[i] = temp[i]
  BY <1>2, <1>3
<1>5. PICK s \in Receiver : s = receiver[c]
  BY <1>1, ConnType
<1>6. s.read = << >> /\ ~ s.opened /\ s.good
  BY <1>1, <1>5 DEF TempOK
<1> DEFINE r == [s EXCEPT !.got = k, !.temp = g, !.f_mtime = t, !.f_size = n]
<1>7. /\ r \in Receiver /\ r.got = k /\ r.temp = g /\ r.f_mtime = t
      /\ r.opened = s.opened /\ r.read = s.read /\ r.f_footer = s.f_footer
      /\ r.good = s.good
  <2>1. k \in Nat
    OBVIOUS
  <2>2. QED
    BY <2>1 DEF Receiver
<1>8. receiver' = [receiver EXCEPT ![c] = r]
  BY <1>1, <1>2, <1>5 DEF TypeOK
<1> HIDE DEF r
<1>9. receiver'[c] = r /\ \A d \in Conns \ {c} : receiver'[d] = receiver[d]
  BY <1>1, <1>8 DEF TypeOK
<1>10. Genuine(sender[c], r.f_footer)
  BY <1>1, <1>5, <1>7 DEF StreamOK
<1>11. HeaderWhole(r) /\ Live(sender[c]) => r.f_mtime = sender[c].f_mtime
  BY <1>6, <1>7 DEF HeaderWhole
<1>12. \A d \in Conns : receiver[d].got \in Nat
  BY <1>1 DEF TypeOK, Receiver
<1>13. \A d \in Conns : TempOK(d)'
  <2> SUFFICES ASSUME NEW d \in Conns PROVE TempOK(d)'
    OBVIOUS
  <2>1. CASE d = c
    <3>1. receiver'[c] = r /\ r.got # 0
      BY <1>7, <1>9
    <3>2. r.temp \in DOMAIN temp' /\ r.read = << >> /\ ~ r.opened /\ r.good
      BY <1>4, <1>6, <1>7
    <3>3. QED
      BY <2>1, <3>1, <3>2 DEF TempOK
  <2>2. CASE d # c
    <3>1. receiver'[d] = receiver[d] /\ TempOK(d)
      BY <1>9, <2>2 DEF IInv
    <3>2. receiver[d].got \in Nat
      BY <1>12
    <3>3. CASE receiver[d].got = 0
      BY <3>1, <3>3 DEF TempOK
    <3>4. CASE receiver[d].got > 0
      <4>1. /\ receiver[d].temp \in DOMAIN temp'
            /\ temp'[receiver[d].temp] = temp[receiver[d].temp]
        <5>1. receiver[d].temp \in DOMAIN temp
          BY <3>1, <3>4 DEF TempOK
        <5>2. QED
          BY <1>4, <5>1
      <4>2. QED
        BY <3>1, <3>4, <4>1 DEF TempOK
    <3>5. QED
      BY <3>2, <3>3, <3>4
  <2>3. QED
    BY <2>1, <2>2
<1>14. TempsApart'
  <2> SUFFICES ASSUME NEW d \in Conns, NEW e \in Conns, d # e,
                      receiver'[d].got > 0, receiver'[e].got > 0
               PROVE  receiver'[d].temp # receiver'[e].temp
    BY DEF TempsApart
  <2>1. \A f \in Conns \ {c} : receiver'[f].got > 0
                                   => receiver'[f].temp \in DOMAIN temp
    BY <1>9 DEF IInv, TempOK
  <2>2. CASE d = c \/ e = c
    <3>1. receiver'[c].temp = g /\ g \notin DOMAIN temp
      BY <1>4, <1>7, <1>9
    <3>2. QED
      BY <2>1, <2>2, <3>1
  <2>3. CASE d # c /\ e # c
    <3>1. receiver'[d] = receiver[d] /\ receiver'[e] = receiver[e]
      BY <1>9, <2>3
    <3>2. TempsApart
      BY DEF IInv
    <3>3. QED
      BY <3>1, <3>2 DEF TempsApart
  <2>4. QED
    BY <2>2, <2>3
<1>15. QED
  BY <1>4, <1>7, <1>8, <1>10, <1>11, <1>13, <1>14, TakeStep

\* What a header at the start of the wire says.
LEMMA HeaderValue ==
    ASSUME IInv, NEW c \in Conns, Reading(c), Head(wire[c]).kind = "header"
    PROVE  /\ Head(wire[c]).value[1] \in Nat /\ Head(wire[c]).value[2] \in Nat
           /\ Live(sender[c]) => Head(wire[c]).value[1] = sender[c].f_mtime
<1>1. PICK u \in Unit : u = Head(wire[c]) /\ Genuine(sender[c], u)
  BY HeadAndTail
<1>2. u.kind = "header"
  BY <1>1
<1>3. u.value \in Nat \X Nat
  BY <1>2 DEF Unit, Piece
<1>4. PICK t \in Nat, n \in Nat : u.value[1] = t /\ u.value[2] = n
  BY <1>3
<1>5. QED
  BY <1>1, <1>2, <1>4 DEF Genuine

LEMMA ReadHeaderInv ==
    ASSUME IInv, NEW c \in Conns, ReadHeader(c)
    PROVE  IInv'
<1>1. CASE ProcessError(c)
  BY <1>1, LostInv DEF ReadHeader
<1>2. CASE ~ ProcessError(c)
  <2>1. /\ Reading(c) /\ receiver[c].got = 0 /\ Head(wire[c]).kind = "header"
        /\ temp' = Append(temp, NoTemp)
        /\ receiver' = [receiver EXCEPT
              ![c].got = 1, ![c].temp = Len(temp'),
              ![c].f_mtime = Head(wire[c]).value[1],
              ![c].f_size = Head(wire[c]).value[2]]
        /\ wire' = [wire EXCEPT ![c] = Tail(@)]
        /\ UNCHANGED << files, sender, target, sender_up >>
    BY <1>2 DEF ReadHeader, NextIdentifier
  <2>2. QED
    BY <2>1, HeaderValue, HeaderStep
<1>3. QED
  BY <1>1, <1>2

\* Writing the temporary file of c.
LEMMA TempWritten ==
    ASSUME TypeOK, NEW g \in DOMAIN temp, NEW x \in Temp,
           temp' = [temp EXCEPT ![g] = x]
    PROVE  /\ temp' \in Seq(Temp) /\ DOMAIN temp' = DOMAIN temp
           /\ temp'[g] = x
           /\ \A k \in DOMAIN temp \ {g} : temp'[k] = temp[k]
<1>1. temp \in Seq(Temp)
  BY DEF TypeOK, Temp
<1>2. QED
  BY <1>1

LEMMA ReadNamesInv ==
    ASSUME IInv, NEW c \in Conns, ReadNames(c)
    PROVE  IInv'
<1>1. TypeOK /\ StreamOK(c) /\ TempOK(c)
  BY DEF IInv
<1>2. CASE ProcessError(c)
  BY <1>2, LostInv DEF ReadNames
<1>3. CASE ~ ProcessError(c)
  <2> DEFINE x == [there |-> TRUE, content |-> << >>]
  <2>1. PICK s \in Receiver : s = receiver[c]
    BY <1>1, ConnType
  <2>2. /\ Reading(c) /\ s.got = 1 /\ UNCHANGED << files, sender, target, sender_up >>
        /\ receiver' = [receiver EXCEPT ![c].got = 2, ![c].opened = TRUE]
        /\ temp' = [temp EXCEPT ![TempOf(c)] = x]
        /\ wire' = [wire EXCEPT ![c] = Tail(@)] \/ wire' = wire
    BY <1>3, <2>1 DEF ReadNames, HeaderPieces
  <2>3. x \in Temp /\ x.content = << >>
    BY EmptySeq DEF Temp
  <2> HIDE DEF x
  <2> DEFINE r == [s EXCEPT !.got = 2, !.opened = TRUE]
  <2>4. /\ r \in Receiver /\ r.got = 2 /\ r.temp = s.temp /\ r.read = s.read
        /\ r.opened /\ r.f_footer = s.f_footer /\ r.f_mtime = s.f_mtime
        /\ r.good = s.good
    BY DEF Receiver
  <2>5. receiver' = [receiver EXCEPT ![c] = r]
    BY <2>1, <2>2
  <2> HIDE DEF r
  <2>6. receiver'[c] = r /\ \A d \in Conns \ {c} : receiver'[d] = receiver[d]
    BY <1>1, <2>5 DEF TypeOK
  <2>7. TempOf(c) = s.temp /\ s.temp \in DOMAIN temp /\ s.read = << >> /\ s.good
    BY <1>1, <2>1, <2>2 DEF TempOf, TempOK
  <2>8. /\ temp' \in Seq(Temp) /\ DOMAIN temp' = DOMAIN temp
        /\ temp'[s.temp] = x
        /\ \A k \in DOMAIN temp \ {TempOf(c)} : temp'[k] = temp[k]
    BY <1>1, <2>2, <2>3, <2>7, TempWritten
  <2>9. TempOK(c)'
    <3>1. r.got # 0 /\ ~ r.got < 2 /\ r.temp \in DOMAIN temp'
      BY <2>4, <2>7, <2>8
    <3>2. r.good /\ temp'[r.temp].content = r.read
      BY <2>3, <2>4, <2>7, <2>8
    <3>3. QED
      BY <2>6, <3>1, <3>2 DEF TempOK
  <2>10. (\A d \in Conns : TempOK(d)') /\ TempsApart'
    <3>1. /\ receiver'[c].temp = receiver[c].temp
          /\ receiver'[c].got > 0 => receiver[c].got > 0
      BY <2>1, <2>2, <2>4, <2>6
    <3>2. (\A d \in Conns : TempOK(d)) /\ TempsApart
      BY DEF IInv
    <3>3. QED
      BY <1>1, <2>6, <2>8, <2>9, <3>1, <3>2, TempsMoved
  <2>11. /\ Genuine(sender[c], r.f_footer)
         /\ HeaderWhole(r) /\ Live(sender[c]) => r.f_mtime = sender[c].f_mtime
    BY <1>1, <2>1, <2>2, <2>4 DEF StreamOK, HeaderWhole
  <2>12. QED
    BY ZenonT(30), <2>2, <2>4, <2>5, <2>8, <2>10, <2>11, TakeStep
<1>4. QED
  BY <1>2, <1>3

-----------------------------------------------------------------------------
LEMMA ReadContentInv ==
    ASSUME IInv, NEW c \in Conns, ReadContent(c)
    PROVE  IInv'
<1>1. TypeOK /\ StreamOK(c) /\ TempOK(c)
  BY DEF IInv
<1>2. PICK s \in Receiver : s = receiver[c]
  BY <1>1, ConnType
<1>3. PICK u \in Unit : u = Head(wire[c])
  BY HeadAndTail DEF ReadContent
<1>4. /\ Reading(c) /\ UNCHANGED << files, sender, target, sender_up >>
      /\ s.got \in HeaderPieces..(HeaderPieces + s.f_size - 1)
      /\ Write(c, u)
      /\ wire' = [wire EXCEPT ![c] = Tail(@)]
  BY <1>2, <1>3 DEF ReadContent
<1>5. s.got \in Nat /\ s.got > 1 /\ s.read \in Seq(Unit)
  <2>1. s.got \in Nat /\ s.f_size \in Nat /\ s.read \in Seq(Unit)
    BY DEF Receiver
  <2>2. HeaderPieces = 2
    BY DEF HeaderPieces
  <2>3. QED
    BY <1>4, <2>1, <2>2
<1>6. PICK read \in Seq(Unit), n \in Nat : /\ read = Append(s.read, u)
                                           /\ n = s.got + 1
  <2>1. PICK q \in Seq(Unit) : q = s.read
    BY <1>5
  <2>2. Append(q, u) \in Seq(Unit)
    OBVIOUS
  <2>3. s.got + 1 \in Nat
    BY <1>5
  <2>4. QED
    BY <2>1, <2>2, <2>3
\* w is whether the piece was written, and all before.
<1>7. PICK w \in BOOLEAN :
           /\ receiver' = [receiver EXCEPT ![c].got = @ + 1,
                                           ![c].read = Append(@, u),
                                           ![c].good = w]
           /\ w => s.opened /\ s.good
           /\ ~ w => ~ s.opened \/ ~ s.good \/ "write" \in Faults
           /\ temp' = IF w THEN [temp EXCEPT ![TempOf(c)].content = Append(@, u)]
                           ELSE temp
  <2>1. CASE /\ s.opened /\ s.good
             /\ receiver' = [receiver EXCEPT ![c].got = @ + 1,
                                             ![c].read = Append(@, u)]
             /\ temp' = [temp EXCEPT ![TempOf(c)].content = Append(@, u)]
    <3>1. [s EXCEPT !.got = @ + 1, !.read = Append(@, u)]
              = [s EXCEPT !.got = @ + 1, !.read = Append(@, u), !.good = TRUE]
      BY <2>1 DEF Receiver
    <3>2. receiver' = [receiver EXCEPT ![c] =
              [s EXCEPT !.got = @ + 1, !.read = Append(@, u), !.good = TRUE]]
      BY <1>2, <2>1, <3>1
    <3>3. receiver' = [receiver EXCEPT ![c].got = @ + 1,
                                       ![c].read = Append(@, u),
                                       ![c].good = TRUE]
      BY <1>2, <3>2
    <3>4. QED
      BY <2>1, <3>3
  <2>2. CASE /\ ~ s.opened \/ ~ s.good \/ "write" \in Faults
             /\ receiver' = [receiver EXCEPT ![c].got = @ + 1,
                                             ![c].read = Append(@, u),
                                             ![c].good = FALSE]
             /\ temp' = temp
    BY <2>2
  <2>3. QED
    BY <1>2, <1>4, <2>1, <2>2 DEF Write
<1> DEFINE r == [s EXCEPT !.got = n, !.read = read, !.good = w]
<1>8. /\ r \in Receiver /\ r.got = n /\ r.temp = s.temp
      /\ r.opened = s.opened /\ r.read = read /\ r.f_footer = s.f_footer
      /\ r.f_mtime = s.f_mtime /\ r.good = w
  BY DEF Receiver
<1>9. receiver' = [receiver EXCEPT ![c] = r]
  BY <1>1, <1>2, <1>6, <1>7 DEF TypeOK
<1> HIDE DEF r
<1>10. receiver'[c] = r /\ \A d \in Conns \ {c} : receiver'[d] = receiver[d]
  BY <1>1, <1>9 DEF TypeOK
<1>11. /\ TempOf(c) = s.temp /\ s.temp \in DOMAIN temp
       /\ s.opened => IF s.good THEN temp[s.temp].content = s.read
                                ELSE "write" \in Faults
  BY <1>1, <1>2, <1>5 DEF TempOf, TempOK
<1>12. PICK y \in Temp : y = temp[s.temp]
  <2>1. temp \in Seq(Temp)
    BY <1>1 DEF TypeOK, Temp
  <2>2. QED
    BY <1>11, <2>1
<1> DEFINE x == [y EXCEPT !.content = read]
<1>13. x \in Temp /\ x.content = read
  BY DEF Temp
<1> HIDE DEF x
<1>14. /\ temp' \in Seq(Temp) /\ DOMAIN temp' = DOMAIN temp
       /\ w => temp'[s.temp] = x
       /\ \A k \in DOMAIN temp \ {TempOf(c)} : temp'[k] = temp[k]
  <2>1. CASE w
    <3>1. temp' = [temp EXCEPT ![s.temp] = x]
      BY <1>1, <1>6, <1>7, <1>11, <1>12, <2>1 DEF TypeOK, x
    <3>2. QED
      BY <1>1, <1>11, <1>13, <3>1, TempWritten
  <2>2. CASE ~ w
    BY <1>1, <1>7, <2>2 DEF TypeOK, Temp
  <2>3. QED
    BY <2>1, <2>2
<1>15. r.got > 1 /\ r.got # 0 /\ ~ r.got < 2 /\ r.temp = s.temp
  BY <1>5, <1>6, <1>8
<1>16. TempOK(c)'
  <2>1. r.temp \in DOMAIN temp'
    BY <1>11, <1>14, <1>15
  <2>2. ASSUME r.opened, r.good
        PROVE  temp'[r.temp].content = r.read
    <3>1. temp'[s.temp] = x
      BY <1>8, <1>14, <2>2
    <3>2. QED
      BY <1>8, <1>13, <3>1
  <2>3. ASSUME r.opened, ~ r.good
        PROVE  "write" \in Faults
    BY <1>7, <1>8, <1>11, <2>3
  <2>4. QED
    BY <1>10, <1>15, <2>1, <2>2, <2>3 DEF TempOK
<1>17. (\A d \in Conns : TempOK(d)') /\ TempsApart'
  BY <1>1, <1>2, <1>5, <1>8, <1>10, <1>14, <1>16, TempsMoved DEF IInv
<1>18. /\ Genuine(sender[c], r.f_footer)
       /\ HeaderWhole(r) /\ Live(sender[c]) => r.f_mtime = sender[c].f_mtime
  BY <1>1, <1>2, <1>5, <1>8, <1>15 DEF StreamOK, HeaderWhole
<1>19. QED
  BY <1>4, <1>8, <1>9, <1>14, <1>17, <1>18, TakeStep

LEMMA ReadPartOfFooterInv ==
    ASSUME IInv, NEW c \in Conns, ReadPartOfFooter(c)
    PROVE  IInv'
<1>1. TypeOK /\ StreamOK(c) /\ TempOK(c)
  BY DEF IInv
<1>2. PICK s \in Receiver : s = receiver[c]
  BY <1>1, ConnType
<1>3. PICK u \in Unit : u = Head(wire[c]) /\ Genuine(sender[c], u)
  BY HeadAndTail DEF ReadPartOfFooter
<1>4. /\ Reading(c) /\ UNCHANGED << files, sender, temp, target, sender_up >>
      /\ s.got = HeaderPieces + s.f_size
      /\ receiver' = [receiver EXCEPT ![c].got = @ + 1, ![c].f_footer = u]
      /\ wire' = [wire EXCEPT ![c] = Tail(@)]
  BY <1>2, <1>3 DEF ReadPartOfFooter, AtFooter
<1>5. s.got \in Nat /\ s.got > 1 /\ s.got + 1 \in Nat
  <2>1. s.f_size \in Nat /\ s.got = 2 + s.f_size
    BY <1>4 DEF Receiver, HeaderPieces
  <2>2. QED
    BY <2>1
<1>6. PICK n \in Nat : n = s.got + 1
  BY <1>5
<1> DEFINE r == [s EXCEPT !.got = n, !.f_footer = u]
<1>7. /\ r \in Receiver /\ r.got = n /\ r.temp = s.temp
      /\ r.opened = s.opened /\ r.read = s.read /\ r.f_footer = u
      /\ r.f_mtime = s.f_mtime /\ r.good = s.good
  BY DEF Receiver
<1>8. receiver' = [receiver EXCEPT ![c] = r]
  BY <1>1, <1>2, <1>4, <1>6 DEF TypeOK
<1> HIDE DEF r
<1>9. receiver'[c] = r /\ \A d \in Conns \ {c} : receiver'[d] = receiver[d]
  BY <1>1, <1>8 DEF TypeOK
<1>10. TempOK(c)'
  BY <1>1, <1>2, <1>4, <1>5, <1>7, <1>9, <1>6 DEF TempOK
<1>11. (\A d \in Conns : TempOK(d)') /\ TempsApart'
  <2>1. /\ receiver'[c].temp = receiver[c].temp /\ receiver[c].got > 0
        /\ temp' = temp
    BY <1>2, <1>4, <1>5, <1>7, <1>9
  <2>2. QED
    BY <1>1, <1>9, <1>10, <2>1, TempsMoved DEF IInv
<1>12. /\ Genuine(sender[c], r.f_footer)
       /\ HeaderWhole(r) /\ Live(sender[c]) => r.f_mtime = sender[c].f_mtime
  <2>1. r.got # 1
    BY <1>5, <1>6, <1>7
  <2>2. QED
    BY <1>1, <1>2, <1>3, <1>5, <1>7, <2>1 DEF StreamOK, HeaderWhole
<1>13. temp' \in Seq(Temp)
  BY <1>1, <1>4 DEF TypeOK, Temp
<1>14. QED
  BY <1>4, <1>7, <1>8, <1>11, <1>12, <1>13, TakeStep

-----------------------------------------------------------------------------
LEMMA FinishInv ==
    ASSUME IInv, NEW c \in Conns, receiver[c].got > 1,
           NEW hash \in Unit, Genuine(sender[c], hash),
           NEW mark, Finish(c, hash, mark),
           UNCHANGED << files, sender, sender_up >>
    PROVE  IInv'
<1>1. TypeOK /\ StreamOK(c) /\ TempOK(c)
  BY DEF IInv
<1>2. CASE ProcessError(c)
  BY <1>2, LostInv
<1>3. CASE Accepted(receiver[c], hash, mark) /\ receiver[c].opened /\ Rename(c)
  <2>1. PICK s \in Receiver : s = receiver[c]
    BY <1>1, ConnType
  <2>2. s.got \in Nat /\ s.got > 1 /\ s.f_mtime \in Nat
    BY <2>1 DEF Receiver
  <2>3. /\ TempOf(c) = s.temp /\ s.temp \in DOMAIN temp
        /\ IF s.good THEN temp[s.temp].content = s.read
                     ELSE "write" \in Faults
    BY <1>1, <1>3, <2>1, <2>2 DEF TempOf, TempOK
  <2>4. sender[c].f_sent_footer /\ sender[c].read = s.read
    BY <1>3, <2>1 DEF Accepted, Genuine
  <2>5. sender[c].f_mtime = s.f_mtime
    BY <1>1, <1>3, <2>1, <2>2, <2>4 DEF StreamOK, Live, HeaderWhole
  <2>6. PICK y \in Temp : y = temp[s.temp]
    <3>1. temp \in Seq(Temp)
      BY <1>1 DEF TypeOK, Temp
    <3>2. QED
      BY <2>3, <3>1
  <2>7. PICK failed \in SUBSET (Faults \cap {"utimensat"}) :
            target' = [there |-> TRUE, content |-> y.content,
                       mtime |-> IF failed = {} THEN s.f_mtime ELSE clock + 1,
                       failed |-> failed \cup
                           (IF s.good THEN {} ELSE {"write"})]
    BY <1>3, <2>1, <2>3, <2>6 DEF Rename
  <2>8. /\ target'.there /\ target'.content = y.content
        /\ target'.failed \subseteq {"write", "utimensat"} \cap Faults
        /\ "utimensat" \notin target'.failed => target'.mtime = s.f_mtime
        /\ "write" \notin target'.failed => s.good
    <3>1. "utimensat" \notin failed => failed = {}
      OBVIOUS
    <3>2. QED
      BY <2>3, <2>7, <3>1
  <2>9. target' \in File
    <3>1. y.content \in Seq(Unit) /\ clock + 1 \in Nat
      BY <1>1, <2>6 DEF Temp, TypeOK
    <3>2. QED
      BY <2>2, <2>7, <3>1 DEF File
  <2>10. FailedOK' /\ InstalledAsRead'
    BY <2>3, <2>4, <2>5, <2>6, <2>8 DEF FailedOK, InstalledAsRead
  <2>11. temp' = [temp EXCEPT ![s.temp] = NoTemp] /\ Close(c, "installed")
    BY <1>3, <2>3 DEF Rename
  <2>12. NoTemp \in Temp
    BY EmptySeq DEF NoTemp, Temp
  <2>13. /\ temp' \in Seq(Temp) /\ DOMAIN temp' = DOMAIN temp
         /\ \A g \in DOMAIN temp \ {TempOf(c)} : temp'[g] = temp[g]
    BY <1>1, <2>3, <2>11, <2>12, TempWritten
  <2>14. QED
    BY <2>9, <2>10, <2>11, <2>13, CloseStep DEF Phases
<1>4. QED
  BY <1>2, <1>3 DEF Finish

LEMMA ReadFooterInv ==
    ASSUME IInv, NEW c \in Conns, ReadFooter(c)
    PROVE  IInv'
<1>1. TypeOK /\ StreamOK(c)
  BY DEF IInv
<1>2. PICK w \in Seq(Unit) : w = wire[c]
  BY <1>1, ConnType
<1>3. Len(w) >= 2 /\ Len(w) \in Nat
  BY <1>2 DEF ReadFooter, FooterPieces
<1>4. PICK hash \in Unit : hash = w[1] /\ Genuine(sender[c], hash)
  <2>1. 1 \in DOMAIN w
    BY <1>3
  <2>2. w[1] \in Unit /\ Genuine(sender[c], w[1])
    BY <1>1, <1>2, <2>1 DEF StreamOK
  <2>3. QED
    BY <2>2
<1>5. receiver[c].got > 1
  <2>1. PICK s \in Receiver : s = receiver[c]
    BY <1>1, ConnType
  <2>2. s.f_size \in Nat /\ s.got = 2 + s.f_size
    BY <2>1 DEF ReadFooter, AtFooter, HeaderPieces, Receiver
  <2>3. QED
    BY <2>1, <2>2
<1>6. PICK mark : mark = w[2]
  OBVIOUS
<1>7. Finish(c, hash, mark) /\ UNCHANGED << files, sender, sender_up >>
  BY <1>2, <1>4, <1>6 DEF ReadFooter
<1>8. QED
  BY <1>4, <1>5, <1>7, FinishInv

\* The daemon of the receiver stops, and all its connections are gone.
LEMMA AllGoneInv ==
    ASSUME IInv, UNCHANGED << files, sender, temp, target, sender_up >>,
           receiver' \in [Conns -> Receiver], wire' \in [Conns -> Seq(Unit)],
           \A d \in Conns : /\ Gone(receiver'[d]) \/ receiver'[d] = receiver[d]
                            /\ wire'[d] = << >>
    PROVE  IInv'
<1>1. TypeOK'
  <2>1. Len(<< >>) = 0 /\ SocketBuffer \in Nat
    BY SizeAssumption
  <2>2. \A d \in Conns : Len(wire'[d]) <= SocketBuffer
    BY <2>1
  <2>3. QED
    BY <2>2 DEF IInv, TypeOK, files
<1>2. ASSUME NEW d \in Conns
      PROVE  StreamOK(d)' /\ QuietBefore(d)' /\ TempOK(d)'
  <2>1. StreamOK(d) /\ QuietBefore(d) /\ TempOK(d) /\ sender[d] \in Sender
    BY ConnType DEF IInv
  <2>2. CASE Gone(receiver'[d])
    BY <2>1, <2>2, StreamReset DEF TempOK, Gone
  <2>3. CASE receiver'[d] = receiver[d]
    BY <2>1, <2>3 DEF StreamOK, QuietBefore, TempOK
  <2>4. QED
    BY <2>2, <2>3
<1>3. TempsApart'
  BY DEF IInv, TempsApart, Gone
<1>4. FailedOK' /\ InstalledAsRead'
  BY InstalledSame DEF IInv, Sent, FailedOK
<1>5. QED
  BY <1>1, <1>2, <1>3, <1>4 DEF IInv

LEMMA ReceiverStopsInv ==
    ASSUME IInv, ReceiverStops, UNCHANGED << files, sender, sender_up >>
    PROVE  IInv'
<1> DEFINE gone == [NoReceiver EXCEPT !.phase = "gone"]
<1>1. Gone(gone)
  BY NoReceiverGone
<1>2. /\ UNCHANGED << temp, target >>
      /\ receiver' = [d \in Conns |-> IF receiver[d].phase = "connected"
                                      THEN gone ELSE receiver[d]]
      /\ wire' = [d \in Conns |-> << >>]
  BY DEF ReceiverStops
<1> HIDE DEF gone
<1>3. receiver' \in [Conns -> Receiver] /\ wire' \in [Conns -> Seq(Unit)]
  BY <1>1, <1>2, EmptySeq DEF IInv, TypeOK, Gone
<1>4. \A d \in Conns : /\ Gone(receiver'[d]) \/ receiver'[d] = receiver[d]
                       /\ wire'[d] = << >>
  BY <1>1, <1>2
<1>5. QED
  BY <1>2, <1>3, <1>4, AllGoneInv

LEMMA ReadCutHeaderInv ==
    ASSUME IInv, NEW c \in Conns, ReadCutHeader(c)
    PROVE  IInv'
<1>1. CASE ProcessError(c)
  BY <1>1, LostInv DEF ReadCutHeader
<1>2. CASE ReceiverStops
  BY <1>2, ReceiverStopsInv DEF ReadCutHeader
<1>3. CASE ~ ProcessError(c) /\ ~ ReceiverStops
  <2>1. /\ Reading(c) /\ receiver[c].got = 0 /\ Head(wire[c]).kind = "header"
        /\ temp' = Append(temp, NoTemp)
        /\ wire' = [wire EXCEPT ![c] = Tail(@)]
        /\ UNCHANGED << files, sender, target, sender_up >>
    BY <1>3 DEF ReadCutHeader, NextIdentifier
  <2>2. PICK v \in Nat, m \in Nat : /\ v = Head(wire[c]).value[1]
                                    /\ m = Head(wire[c]).value[2]
    BY <2>1, HeaderValue
  <2>3. \E t \in {0, v}, n \in 0..m :
            receiver' = [receiver EXCEPT
                ![c].got = 2, ![c].temp = Len(temp'),
                ![c].f_mtime = t, ![c].f_size = n]
    <3>1. \E t \in {0, Head(wire[c]).value[1]},
             n \in 0..Head(wire[c]).value[2] :
              receiver' = [receiver EXCEPT
                  ![c].got = HeaderPieces, ![c].temp = Len(temp'),
                  ![c].f_mtime = t, ![c].f_size = n]
      <4>1. \E t \in {0, Head(wire[c]).value[1]},
               n \in 0..Head(wire[c]).value[2] :
                /\ temp' = NextIdentifier
                /\ receiver' = [receiver EXCEPT
                    ![c].got = HeaderPieces, ![c].temp = Len(temp'),
                    ![c].f_mtime = t, ![c].f_size = n]
                /\ wire' = [wire EXCEPT ![c] = Tail(@)]
                /\ UNCHANGED target
        BY <1>3, Zenon DEF ReadCutHeader
      <4>2. QED
        BY <4>1, Zenon
    <3>2. QED
      BY <2>2, <3>1, Zenon DEF HeaderPieces
  <2>5. PICK t \in Nat, n \in Nat :
            receiver' = [receiver EXCEPT
                ![c].got = 2, ![c].temp = Len(temp'),
                ![c].f_mtime = t, ![c].f_size = n]
    <3>1. {0, v} \subseteq Nat /\ 0..m \subseteq Nat
      OBVIOUS
    <3>2. QED
      BY <2>3, <3>1, Zenon
  <2>4. QED
    <3>1. PICK k \in {1, 2} : k = 2 /\ k # 1
      OBVIOUS
    <3>2. receiver' = [receiver EXCEPT ![c].got = k, ![c].temp = Len(temp'),
                                       ![c].f_mtime = t, ![c].f_size = n]
      BY <2>5, <3>1, Zenon
    <3>3. QED
      BY <2>1, <3>1, <3>2, HeaderStep
<1>4. QED
  BY <1>1, <1>2, <1>3

LEMMA ReadRestOfFooterInv ==
    ASSUME IInv, NEW c \in Conns, ReadRestOfFooter(c)
    PROVE  IInv'
<1>1. TypeOK /\ StreamOK(c)
  BY DEF IInv
<1>2. PICK s \in Receiver : s = receiver[c]
  BY <1>1, ConnType
<1>3. s.f_footer \in Unit /\ Genuine(sender[c], s.f_footer)
  BY <1>1, <1>2 DEF StreamOK, Receiver
<1>4. receiver[c].got > 1
  <2>1. s.f_size \in Nat /\ s.got = 2 + s.f_size + 1
    BY <1>2 DEF ReadRestOfFooter, HeaderPieces, Receiver
  <2>2. QED
    BY <1>2, <2>1
<1>5. CASE Finish(c, s.f_footer, End)
  BY <1>3, <1>4, <1>5, FinishInv DEF ReadRestOfFooter
<1>6. CASE ProcessError(c)
  BY <1>6, LostInv DEF ReadRestOfFooter
<1>7. CASE ReceiverStops
  BY <1>7, ReceiverStopsInv DEF ReadRestOfFooter
<1>8. QED
  BY <1>2, <1>5, <1>6, <1>7 DEF ReadRestOfFooter

-----------------------------------------------------------------------------
(* The theorems. *)

LEMMA ServeInv ==
    ASSUME IInv, NEW c \in Conns, Serve(c)
    PROVE  IInv'
<1>1. CASE ProcessAccept(c)
  BY <1>1, ProcessAcceptInv
<1>2. CASE ProcessRequest(c)
  BY <1>2, ProcessRequestInv
<1>3. CASE ProcessWrite(c)
  BY <1>3, ProcessWriteInv
<1>4. CASE ProcessWriteThrows(c)
  BY <1>4, SenderStopsInv DEF ProcessWriteThrows
<1>5. CASE SenderHup(c)
  BY <1>5, SenderHupInv
<1>6. CASE ProcessCutRequest(c)
  BY <1>6, SenderStopsInv, SenderCloses DEF ProcessCutRequest
<1>7. QED
  BY <1>1, <1>2, <1>3, <1>4, <1>5, <1>6 DEF Serve

LEMMA ReceiveInv ==
    ASSUME IInv, NEW c \in Conns, Receive(c)
    PROVE  IInv'
<1>1. CASE SendRequest(c)
  BY <1>1, ConnectInv
<1>2. CASE ReadHeader(c)
  BY <1>2, ReadHeaderInv
<1>3. CASE ReadNames(c)
  BY <1>3, ReadNamesInv
<1>4. CASE ReadContent(c)
  BY <1>4, ReadContentInv
<1>5. CASE ReadFooter(c)
  BY <1>5, ReadFooterInv
<1>6. CASE ReadPartOfFooter(c)
  BY <1>6, ReadPartOfFooterInv
<1>7. CASE ReadRestOfFooter(c)
  BY <1>7, ReadRestOfFooterInv
<1>8. CASE ReceiverHup(c)
  BY <1>8, LostInv DEF ReceiverHup
<1>9. CASE ReadCutHeader(c)
  BY <1>9, ReadCutHeaderInv
<1>10. QED
  BY <1>1, <1>2, <1>3, <1>4, <1>5, <1>6, <1>7, <1>8, <1>9 DEF Receive

LEMMA NextInv == ASSUME IInv, [Next]_vars PROVE IInv'
<1>1. CASE Service
  BY <1>1, ServiceInv
<1>2. ASSUME NEW c \in Conns,
             \/ Connect(c) \/ Serve(c) \/ Receive(c)
             \/ SenderFails(c) \/ Break(c) \/ Silence(c)
      PROVE  IInv'
  <2>1. CASE Connect(c)
    BY <2>1, ConnectInv
  <2>2. CASE Serve(c)
    BY <2>2, ServeInv
  <2>3. CASE Receive(c)
    BY <2>3, ReceiveInv
  <2>4. CASE SenderFails(c)
    BY <2>4, SenderHupInv
  <2>5. CASE Break(c)
    BY <2>5, LostInv DEF Break
  <2>6. CASE Silence(c)
    BY <2>6, SilenceInv
  <2>7. QED
    BY <1>2, <2>1, <2>2, <2>3, <2>4, <2>5, <2>6
<1>3. CASE UNCHANGED vars
  BY <1>3 DEF vars, files, IInv, TypeOK, StreamOK, QuietBefore, TempOK,
              TempsApart, FailedOK, InstalledAsRead, TempOf
<1>4. QED
  BY <1>1, <1>2, <1>3 DEF Next

\* The invariant of the transfers holds all along: what is in the sockets and
\* in the buffers is what the sender read, and every receiver hashes what it
\* received and has a file of its own, which holds just that unless a write()
\* failed, as it may only where writes do fail.
THEOREM TransferInvariance == Spec => []IInv
<1>1. IInv /\ [Next]_vars => IInv'
  BY NextInv
<1>2. QED
  BY InitInv, <1>1, PTL DEF Spec

\* data_receiver only ever puts in place a file that comes from one data_sender
\* that read to the end: it is, piece by piece, what that one read unless a
\* write() failed, and has the time it sent unless utimensat() failed, for any
\* number of connections, any sizes of the files, of f_buffer and of the
\* sockets, and whatever is written, breaks or falls silent.
THEOREM InstalledWhole == Spec => []InstalledAsRead
<1>1. IInv => InstalledAsRead
  BY DEF IInv
<1>2. QED
  BY TransferInvariance, <1>1, PTL

\* The two ends, the files and the temporary files keep their shape.
THEOREM TransferTypeCorrect == Spec => []TypeOK
<1>1. IInv => TypeOK
  BY DEF IInv
<1>2. QED
  BY TransferInvariance, <1>1, PTL

-----------------------------------------------------------------------------
=============================================================================
