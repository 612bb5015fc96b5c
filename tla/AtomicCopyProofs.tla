-------------------------- MODULE AtomicCopyProofs --------------------------
(***************************************************************************)
(* Services that only move whole files into place: the copy is always one  *)
(* of these files, whatever breaks or falls silent, if write() and         *)
(* utimensat() work, whose results nobody acts on; and when nothing fails, *)
(* every transfer that was started installs its file and leaves nothing    *)
(* behind.                                                                 *)
(***************************************************************************)
EXTENDS TransferProofs

\* Services never write to a file that is there, and what data_receiver does to
\* its temporary file works.
Moved ==
    /\ Writes \cap {"rewrite", "truncate"} = {}
    /\ Faults \cap {"write", "utimensat"} = {}

\* What a data_sender that has this file open read of it: all when it met its
\* end, as it did when it sends the footer.
ReadSoFar(s, inode) ==
    /\ s.offset <= Len(inode.content)
    /\ s.read = SubSeq(inode.content, 1, s.offset)
    /\ s.f_mtime = inode.mtime
    /\ s.eof => s.offset = Len(inode.content)

ReadWhole(s, inode) == s.read = inode.content /\ s.f_mtime = inode.mtime

\* A data_sender reads one of the files, from its start.
ReadOK(s, all) ==
    /\ s.f_input # NoInode => ReadSoFar(s, all[s.f_input])
    /\ s.f_input = NoInode /\ ~ s.f_sent_footer
           => s.offset = 0 /\ s.read = << >> /\ ~ s.eof
    /\ s.f_sent_footer => \E i \in DOMAIN all : ReadWhole(s, all[i])

WholeReads == \A c \in Conns : ReadOK(sender[c], inodes)

-----------------------------------------------------------------------------
(* Reading. *)

\* A file that was there is there as it was.
Grown(all, more) ==
    \A i \in DOMAIN all : i \in DOMAIN more /\ more[i] = all[i]

LEMMA ReadKept ==
    ASSUME NEW all \in Seq(Inode), NEW more, Grown(all, more),
           NEW s \in Sender, s.f_input <= Len(all), ReadOK(s, all)
    PROVE  ReadOK(s, more)
<1>1. s.f_input # NoInode => s.f_input \in DOMAIN all
  BY DEF Sender, NoInode
<1>2. QED
  BY <1>1 DEF ReadOK, Grown

LEMMA ReadEnded ==
    ASSUME NEW all, NEW s \in Sender, NEW p, ReadOK(s, all)
    PROVE  ReadOK(Ended(s, p), all)
<1>1. CASE s.f_sent_footer
  <2> DEFINE t == Ended(s, p)
  <2>1. /\ t.f_input = NoInode /\ t.f_sent_footer
        /\ t.read = s.read /\ t.f_mtime = s.f_mtime
    BY <1>1 DEF Ended, NoSender
  <2> HIDE DEF t
  <2>2. ReadOK(t, all)
    BY <1>1, <2>1 DEF ReadOK, ReadWhole
  <2>3. QED
    BY <2>2 DEF t
<1>2. CASE ~ s.f_sent_footer
  BY <1>2 DEF Ended, NoSender, ReadOK
<1>3. QED
  BY <1>1, <1>2

LEMMA ReadClosed ==
    ASSUME NEW all, NEW s \in Sender, ReadOK(s, all)
    PROVE  ReadOK(Closed(s), all) /\ ReadOK(Silent(s), all)
BY ReadEnded DEF Closed, Silent

\* What is left for the next block: nothing once the end was met, a part of
\* the rest before.
LEMMA BlockOf ==
    ASSUME NEW inode \in Inode, NEW s \in Sender,
           inode = inodes[s.f_input], ReadSoFar(s, inode)
    PROVE  /\ Block(s) = SubSeq(inode.content, s.offset + 1,
                                s.offset + Len(Block(s)))
           /\ Block(s) \in Seq(Piece)
           /\ s.offset + Len(Block(s)) <= Len(inode.content)
           /\ \A k \in 1..Len(Block(s)) :
                  Block(s)[k] = inode.content[s.offset + k]
           /\ Len(Block(s)) < BufferSize
                  => s.offset + Len(Block(s)) = Len(inode.content)
           /\ s.eof \/ Block(s) = << >>
                  => s.offset = Len(inode.content) /\ s.read = inode.content
<1> DEFINE content == inode.content
           last == Least(s.offset + BufferSize, Len(content))
<1>1. /\ content \in Seq(Piece) /\ Len(content) \in Nat /\ s.offset \in Nat
      /\ s.offset <= Len(content) /\ s.read = SubSeq(content, 1, s.offset)
      /\ s.eof => s.offset = Len(content)
  BY DEF Inode, Content, Sender, ReadSoFar
<1>2. BufferSize \in Nat /\ BufferSize > 0
  BY SizeAssumption
<1>3. /\ last \in Nat /\ last <= Len(content) /\ last >= s.offset
      /\ last < s.offset + BufferSize => last = Len(content)
      /\ last = s.offset => s.offset = Len(content)
  BY <1>1, <1>2 DEF Least
<1>4. Block(s) = SubSeq(content, s.offset + 1, last)
  BY DEF Block
<1> HIDE DEF last, content
<1>5. /\ Len(Block(s)) = last - s.offset /\ Block(s) \in Seq(Piece)
      /\ \A k \in 1..(last - s.offset) : Block(s)[k] = content[s.offset + k]
  <2>1. \A i \in (s.offset + 1)..last : content[i] \in Piece
    BY <1>1, <1>3
  <2> DEFINE block == SubSeq(content, s.offset + 1, last)
  <2>2. /\ block \in Seq(Piece)
        /\ Len(block) = IF s.offset + 1 <= last
                        THEN last - (s.offset + 1) + 1 ELSE 0
        /\ \A k \in 1..(last - (s.offset + 1) + 1) :
               block[k] = content[s.offset + 1 + k - 1]
    BY <1>1, <1>3, <2>1, SubSeqProperties
  <2> HIDE DEF block
  <2>3. Len(block) = last - s.offset
    BY <1>1, <1>3, <2>2
  <2>4. \A k \in 1..(last - s.offset) : block[k] = content[s.offset + k]
    BY SMTT(30), <1>1, <1>3, <2>2
  <2>5. QED
    BY <1>4, <2>2, <2>3, <2>4 DEF block
<1>6. s.offset + Len(Block(s)) = last
  BY <1>1, <1>3, <1>5
<1>7. s.eof \/ Block(s) = << >> => s.offset = Len(content)
  BY <1>1, <1>3, <1>5
<1>8. s.offset = Len(content) => s.read = content
  BY <1>1, SubSeqFull
<1>9. Len(Block(s)) < BufferSize => last = Len(content)
  BY <1>1, <1>2, <1>3, <1>5
<1>10. QED
  BY <1>1, <1>3, <1>4, <1>5, <1>6, <1>7, <1>8, <1>9 DEF content

\* data_sender reads on: what it has stays the start of the file.
LEMMA ReadOn ==
    ASSUME inodes \in Seq(Inode), NEW s \in Sender,
           s.f_input \in 1..Len(inodes), ~ s.f_sent_footer,
           ReadSoFar(s, inodes[s.f_input])
    PROVE  ReadOK(NextBuffer(s), inodes)
<1>1. PICK inode \in Inode : inode = inodes[s.f_input]
  OBVIOUS
<1> DEFINE content == inode.content
           last == s.offset + Len(Block(s))
<1>2. /\ content \in Seq(Piece) /\ Len(content) \in Nat /\ s.offset \in Nat
      /\ s.offset <= Len(content) /\ s.read = SubSeq(content, 1, s.offset)
      /\ s.f_mtime = inode.mtime /\ ReadSoFar(s, inode)
  <2>1. content \in Seq(Piece) /\ Len(content) \in Nat
    BY DEF Inode, Content
  <2>2. s.offset \in Nat
    BY DEF Sender
  <2>3. ReadSoFar(s, inode)
    BY <1>1
  <2>4. QED
    BY <2>1, <2>2, <2>3 DEF ReadSoFar
<1>3. /\ last \in Nat /\ s.offset <= last /\ last <= Len(content)
      /\ Block(s) = SubSeq(content, s.offset + 1, last)
      /\ Len(Block(s)) < BufferSize => last = Len(content)
      /\ s.eof \/ Block(s) = << >> => s.offset = Len(content)
                                      /\ s.read = content
  <2>1. /\ Block(s) = SubSeq(content, s.offset + 1, last)
        /\ Block(s) \in Seq(Piece)
        /\ last <= Len(content)
        /\ Len(Block(s)) < BufferSize => last = Len(content)
        /\ s.eof \/ Block(s) = << >> => s.offset = Len(content)
                                        /\ s.read = content
    BY <1>1, <1>2, BlockOf
  <2>2. Len(Block(s)) \in Nat
    BY <2>1
  <2> HIDE DEF content
  <2>3. QED
    BY <1>2, <2>1, <2>2
<1> HIDE DEF content, last
<1>6. s.f_input # NoInode /\ s.f_input \in DOMAIN inodes
  BY DEF NoInode
<1>7. CASE s.eof \/ Block(s) = << >>
  <2> DEFINE t == Footer(s)
  <2>3. /\ t.f_input = s.f_input /\ t.f_mtime = s.f_mtime /\ t.read = s.read
        /\ t.offset = s.offset /\ t.f_sent_footer
    BY DEF Footer, Sender
  <2>4. NextBuffer(s) = t
    BY <1>7 DEF NextBuffer
  <2> HIDE DEF t
  <2>5. ReadSoFar(t, inode) /\ ReadWhole(t, inode)
    BY <1>2, <1>3, <1>7, <2>3 DEF ReadSoFar, ReadWhole, content
  <2>6. QED
    BY <1>1, <1>6, <2>3, <2>4, <2>5 DEF ReadOK
<1>8. CASE ~ (s.eof \/ Block(s) = << >>)
  <2> DEFINE t == FillBuffer(s)
  <2>1. /\ t.f_input = s.f_input /\ t.f_mtime = s.f_mtime
        /\ t.read = s.read \o Block(s) /\ t.offset = last
        /\ t.eof = (Len(Block(s)) < BufferSize)
        /\ t.f_sent_footer = s.f_sent_footer
    BY DEF FillBuffer, Sender, last
  <2>2. NextBuffer(s) = t
    BY <1>8 DEF NextBuffer
  <2> HIDE DEF t
  <2>4. t.read = SubSeq(content, 1, last)
    <3>1. PICK m \in 1..(Len(content) + 1) : m = 1
      BY <1>2
    <3>2. s.offset \in (m - 1)..Len(content) /\ last \in s.offset..Len(content)
      BY <1>2, <1>3, <3>1
    <3>3. SubSeq(content, m, s.offset) \o SubSeq(content, s.offset + 1, last)
              = SubSeq(content, m, last)
      BY <1>2, <3>2, ConcatAdjacentSubSeq
    <3>4. QED
      BY <1>2, <1>3, <2>1, <3>1, <3>3
  <2>5. t.eof => last = Len(content)
    BY <1>3, <2>1
  <2>6. ReadSoFar(t, inode)
    BY <1>2, <1>3, <2>1, <2>4, <2>5 DEF ReadSoFar, content
  <2>7. QED
    BY <1>1, <1>6, <2>1, <2>2, <2>6 DEF ReadOK
<1>9. QED
  BY <1>7, <1>8

-----------------------------------------------------------------------------
(* Steps. *)

\* What a step does to the files of the source, and to the copy.
LEMMA FilesOfStep ==
    ASSUME IInv, Moved, [Next]_vars
    PROVE  \/ inodes' = inodes /\ (target' = target \/ target'.there)
           \/ /\ \E inode \in Inode : inodes' = Append(inodes, inode)
              /\ target' = target /\ sender' = sender
<1>1. CASE Service
  <2>1. ASSUME NEW size \in 0..MaxSize, NEW readable \in BOOLEAN,
               Replace(size, readable)
        PROVE  \E inode \in Inode : inodes' = Append(inodes, inode)
    <3> DEFINE inode == [content |-> [k \in 1..size |-> Data(clock + 1)],
                         mtime |-> clock + 1, readable |-> readable]
    <3>1. clock + 1 \in Nat
      BY DEF IInv, TypeOK
    <3>2. Data(clock + 1) \in Piece
      BY <3>1 DEF Data, Piece
    <3>3. [k \in 1..size |-> Data(clock + 1)] \in Content
      BY <3>2 DEF Content
    <3>4. inode \in Inode
      BY <3>1, <3>3 DEF Inode
    <3>5. inodes' = Append(inodes, inode)
      BY <2>1 DEF Replace
    <3> HIDE DEF inode
    <3>6. QED
      BY <3>4, <3>5
  <2>2. ASSUME NEW size \in 0..MaxSize, NEW readable \in BOOLEAN,
               Replace(size, readable)
        PROVE  target' = target /\ sender' = sender
    BY <2>2 DEF Replace
  <2>3. CASE Remove
    BY <2>3 DEF Remove
  <2>4. ASSUME NEW k, Rewrite(k) PROVE FALSE
    BY <2>4 DEF Rewrite, Moved
  <2>5. CASE Truncate
    BY <2>5 DEF Truncate, Moved
  <2>6. QED
    BY <1>1, <2>1, <2>2, <2>3, <2>4, <2>5 DEF Service
<1>2. ASSUME NEW c \in Conns,
             \/ Connect(c) \/ Serve(c) \/ Receive(c)
             \/ SenderFails(c) \/ Break(c) \/ Silence(c)
      PROVE  inodes' = inodes /\ (target' = target \/ target'.there)
  <2>1. CASE Connect(c) \/ SenderFails(c) \/ Silence(c)
    BY <2>1 DEF Connect, SenderFails, Silence, files
  <2>2. CASE Break(c)
    BY <2>2 DEF Break, ProcessError, files
  <2>3. CASE Serve(c)
    BY <2>3 DEF Serve, ProcessAccept, ProcessRequest, ProcessCutRequest,
                ProcessWrite, ProcessWriteThrows, SenderHup, files
  <2>4. ASSUME NEW hash, NEW mark, Finish(c, hash, mark)
        PROVE  target' = target \/ target'.there
    BY <2>4 DEF Finish, ProcessError, Rename
  <2>5. CASE ReadFooter(c) \/ ReadRestOfFooter(c)
    BY <2>4, <2>5 DEF ReadFooter, ReadRestOfFooter, ProcessError,
                      ReceiverStops, files
  <2>6. CASE Receive(c) /\ ~ (ReadFooter(c) \/ ReadRestOfFooter(c))
    BY <2>6 DEF Receive, SendRequest, ReadHeader, ReadCutHeader, ReadNames,
                ReadContent, ReadPartOfFooter, ReceiverHup, ProcessError,
                ReceiverStops, files
  <2>7. QED
    BY <1>2, <2>1, <2>2, <2>3, <2>5, <2>6
<1>3. CASE UNCHANGED vars
  BY <1>3 DEF vars, files
<1>4. QED
  BY <1>1, <1>2, <1>3 DEF Next

\* A step of one sender, that it takes as it should.
LEMMA ReadOneStep ==
    ASSUME IInv, WholeReads, inodes' = inodes, NEW c \in Conns, NEW t,
           sender' = [sender EXCEPT ![c] = t], ReadOK(t, inodes)
    PROVE  WholeReads'
<1>1. sender'[c] = t /\ \A d \in Conns \ {c} : sender'[d] = sender[d]
  BY DEF IInv, TypeOK
<1>2. QED
  BY <1>1 DEF WholeReads

LEMMA ReadAllStep ==
    ASSUME IInv, WholeReads, inodes' = inodes, SenderStops
    PROVE  WholeReads'
<1>1. \A d \in Conns : sender[d] \in Sender /\ ReadOK(sender[d], inodes)
  BY ConnType DEF IInv, WholeReads
<1>2. \A d \in Conns : sender'[d] \in {sender[d], Closed(sender[d])}
  BY DEF SenderStops
<1>3. QED
  BY <1>1, <1>2, ReadClosed DEF WholeReads

\* open(), or what process_read() does instead.
LEMMA ReadRequestStep ==
    ASSUME IInv, WholeReads, inodes' = inodes, NEW c \in Conns,
           ProcessRequest(c)
    PROVE  WholeReads'
<1>1. TypeOK /\ QuietBefore(c)
  BY DEF IInv
<1>2. PICK s \in Sender : s = sender[c]
  BY <1>1, ConnType
<1>3. /\ s.phase = "open" /\ s.f_input = NoInode /\ ~ s.f_sent_footer
      /\ ReadOK(s, inodes)
  BY <1>1, <1>2 DEF ProcessRequest, Asked, QuietBefore, Waiting, WholeReads
<1>4. s.offset = 0 /\ s.read = << >> /\ ~ s.eof
  BY <1>3 DEF ReadOK
<1>5. ASSUME source # NoInode PROVE ReadOK(OpenFile(s), inodes)
  <2> DEFINE t == OpenFile(s)
  <2>1. source \in 1..Len(inodes) /\ inodes \in Seq(Inode)
    BY <1>1, <1>5 DEF TypeOK, NoInode
  <2>2. PICK inode \in Inode : inode = inodes[source]
    BY <2>1
  <2>3. /\ t.f_input = source /\ t.f_mtime = inode.mtime
        /\ t.offset = s.offset /\ t.read = s.read /\ t.eof = s.eof
        /\ t.f_sent_footer = s.f_sent_footer
    BY <2>2 DEF OpenFile, Sender
  <2> HIDE DEF t
  <2>4. Len(inode.content) \in Nat /\ SubSeq(inode.content, 1, 0) = << >>
    BY SubSeqEmpty DEF Inode, Content
  <2>5. ReadSoFar(t, inode)
    BY <1>4, <2>3, <2>4 DEF ReadSoFar
  <2>6. ReadOK(t, inodes)
    BY <1>3, <1>5, <2>2, <2>3, <2>5 DEF ReadOK
  <2>7. QED
    BY <2>6 DEF t
<1>6. ReadOK(OpenFails(s), inodes)
  BY <1>3, <1>4 DEF OpenFails, ReadOK, Sender
<1>7. ReadOK([s EXCEPT !.phase = "idle"], inodes)
  BY <1>3, <1>4 DEF ReadOK, Sender
<1>8. ReadOK(Closed(s), inodes)
  BY <1>3, ReadClosed
<1>9. CASE source # NoInode /\ sender' = [sender EXCEPT ![c] = OpenFile(s)]
  BY <1>5, <1>9, ReadOneStep
<1>10. CASE sender' = [sender EXCEPT ![c] = OpenFails(s)]
  BY <1>6, <1>10, ReadOneStep
<1>11. CASE sender' = [sender EXCEPT ![c] = Closed(s)]
  BY <1>8, <1>11, ReadOneStep
<1>12. CASE sender' = [sender EXCEPT ![c].phase = "idle"]
  <2>1. sender' = [sender EXCEPT ![c] = [s EXCEPT !.phase = "idle"]]
    BY <1>2, <1>12
  <2>2. QED
    BY <1>7, <2>1, ReadOneStep
<1>13. QED
  BY <1>2, <1>9, <1>10, <1>11, <1>12 DEF ProcessRequest, Asked

\* process_write(): the next block is read when all of the last one is written.
LEMMA ReadWriteStep ==
    ASSUME IInv, WholeReads, inodes' = inodes, NEW c \in Conns,
           ProcessWrite(c)
    PROVE  WholeReads'
<1>1. TypeOK
  BY DEF IInv
<1>2. PICK s \in Sender : s = sender[c]
  BY <1>1, ConnType
<1>3. /\ s.f_input # NoInode /\ s.f_input <= Len(inodes)
      /\ inodes \in Seq(Inode) /\ s.f_position \in Nat
      /\ s.f_position <= Len(s.f_buffer) /\ s.f_buffer \in Seq(Unit)
      /\ wire[c] \in Seq(Unit) /\ Len(wire[c]) \in Nat /\ SocketBuffer \in Nat
      /\ ReadOK(s, inodes)
  BY <1>1, <1>2, ConnType DEF ProcessWrite, Sender, WholeReads
<1> DEFINE left == Len(s.f_buffer) - s.f_position
           n == Least(left, Room(c))
           written == [s EXCEPT !.f_position = s.f_position + n]
<1>4. sender' = [sender EXCEPT ![c] =
          IF n < left THEN written
          ELSE IF s.f_sent_footer THEN Closed(s) ELSE NextBuffer(written)]
  BY <1>2 DEF ProcessWrite
<1>5. s.f_position + n \in Nat
  <2>1. n > 0
    BY <1>2 DEF ProcessWrite
  <2>2. left \in Int /\ Room(c) \in Int
    BY <1>3 DEF Room
  <2>3. n \in Nat
    BY <2>1, <2>2 DEF Least
  <2>4. QED
    BY <1>3, <2>3
<1>6. /\ written \in Sender /\ written.f_input = s.f_input
      /\ written.offset = s.offset /\ written.read = s.read
      /\ written.f_mtime = s.f_mtime /\ written.eof = s.eof
      /\ written.f_sent_footer = s.f_sent_footer
  BY <1>5 DEF Sender
<1> HIDE DEF n, left, written
<1>7. CASE sender' = [sender EXCEPT ![c] = written]
  <2>1. ReadOK(written, inodes)
    BY <1>3, <1>6 DEF ReadOK, ReadSoFar, ReadWhole
  <2>2. QED
    BY <1>7, <2>1, ReadOneStep
<1>8. CASE sender' = [sender EXCEPT ![c] = Closed(s)]
  <2>1. ReadOK(Closed(s), inodes)
    BY <1>3, ReadClosed
  <2>2. QED
    BY <1>8, <2>1, ReadOneStep
<1>9. CASE ~ s.f_sent_footer
           /\ sender' = [sender EXCEPT ![c] = NextBuffer(written)]
  <2>1. written.f_input \in 1..Len(inodes)
    BY <1>3, <1>6 DEF Sender, NoInode
  <2>2. ReadSoFar(written, inodes[written.f_input])
    BY <1>3, <1>6 DEF ReadOK, ReadSoFar
  <2>3. ReadOK(NextBuffer(written), inodes)
    BY <1>3, <1>6, <1>9, <2>1, <2>2, ReadOn
  <2>4. QED
    BY <1>9, <2>3, ReadOneStep
<1>10. QED
  BY <1>4, <1>7, <1>8, <1>9

LEMMA WholeReadsNext ==
    ASSUME Moved, IInv, WholeReads, [Next]_vars
    PROVE  WholeReads'
<1>1. CASE sender' = sender
  <2>1. inodes \in Seq(Inode)
    BY DEF IInv, TypeOK
  <2>2. Grown(inodes, inodes')
    <3>1. ASSUME NEW inode \in Inode, inodes' = Append(inodes, inode)
          PROVE  Grown(inodes, inodes')
      BY <2>1, <3>1 DEF Grown
    <3>2. QED
      BY <3>1, FilesOfStep DEF Grown
  <2>3. \A d \in Conns : ReadOK(sender[d], inodes')
    BY <2>1, <2>2, ReadKept, ConnType DEF IInv, WholeReads
  <2>4. QED
    BY <1>1, <2>3 DEF WholeReads
<1>2. CASE inodes' = inodes
  <2>1. ASSUME NEW c \in Conns,
               \/ sender' = [sender EXCEPT ![c] = Closed(sender[c])]
               \/ sender' = [sender EXCEPT ![c] = Silent(sender[c])]
        PROVE  WholeReads'
    <3>1. ReadOK(Closed(sender[c]), inodes) /\ ReadOK(Silent(sender[c]), inodes)
      BY ReadClosed, ConnType DEF IInv, WholeReads
    <3>2. QED
      BY <1>2, <2>1, <3>1, ReadOneStep
  <2>2. ASSUME NEW c \in Conns, ProcessAccept(c) PROVE WholeReads'
    <3>1. PICK s \in Sender : s = sender[c] /\ ReadOK(s, inodes)
      BY ConnType DEF IInv, WholeReads
    <3> DEFINE t == [s EXCEPT !.phase = "open"]
    <3>2. ReadOK(t, inodes)
      BY <3>1 DEF ReadOK, ReadSoFar, ReadWhole, Sender
    <3>3. sender' = [sender EXCEPT ![c] = t]
      BY <2>2, <3>1 DEF ProcessAccept
    <3> HIDE DEF t
    <3>4. QED
      BY <1>2, <3>2, <3>3, ReadOneStep
  <2>3. ASSUME NEW c \in Conns, Serve(c) PROVE WholeReads'
    BY <1>2, <2>1, <2>2, <2>3, ReadRequestStep, ReadWriteStep, ReadAllStep
       DEF Serve, ProcessCutRequest, ProcessWriteThrows, SenderHup
  <2>4. ASSUME NEW c \in Conns, SenderFails(c) \/ Break(c) \/ Silence(c)
        PROVE  WholeReads'
    BY <2>1, <2>4 DEF SenderFails, Break, Silence
  <2>5. CASE UNCHANGED sender
    BY <1>1, <2>5
  <2>6. ASSUME NEW c \in Conns, Connect(c) \/ Receive(c)
        PROVE  UNCHANGED sender
    BY <2>6 DEF Connect, Receive, SendRequest, ReadHeader, ReadCutHeader,
                ReadNames, ReadContent, ReadFooter, ReadPartOfFooter,
                ReadRestOfFooter, ReceiverHup
  <2>7. ASSUME Service PROVE UNCHANGED sender
    BY <2>7 DEF Service, Replace, Rewrite, Truncate, Remove
  <2>8. QED
    BY <2>3, <2>4, <2>5, <2>6, <2>7 DEF Next, vars
<1>3. QED
  BY <1>1, <1>2, FilesOfStep

LEMMA WholeReadsInit == Init => WholeReads
BY DEF Init, WholeReads, ReadOK, NoSender, NoInode

-----------------------------------------------------------------------------
(* The refinement. *)

LEMMA AtomicInit == Init => Atomic!Init
<1> SUFFICES ASSUME Init PROVE Atomic!Init
  OBVIOUS
<1> DEFINE versions == [i \in DOMAIN inodes |->
                           << inodes[i].content, inodes[i].mtime >>]
<1>1. DOMAIN inodes = 1..1 /\ ~ target.there
  BY DEF Init, NoFile
<1>2. Len(versions) = 1
  BY <1>1
<1>3. QED
  BY <1>1, <1>2 DEF Atomic!Init

LEMMA AtomicStep ==
    ASSUME IInv, IInv', WholeReads', Moved, [Next]_vars
    PROVE  [Atomic!Next]_(Atomic!vars)
<1> DEFINE Versions(all) == [i \in DOMAIN all |->
                                << all[i].content, all[i].mtime >>]
           Copy(file) == IF file.there THEN << file.content, file.mtime >>
                                       ELSE << >>
<1>1. CASE inodes' = inodes /\ (target' = target \/ target'.there)
  <2>1. Versions(inodes') = Versions(inodes)
    BY <1>1
  <2>2. CASE target' = target
    BY <2>1, <2>2 DEF Atomic!vars
  <2>3. CASE target'.there
    <3>0. PICK c \in Conns : /\ sender'[c].f_sent_footer
                             /\ target'.content = sender'[c].read
                             /\ target'.mtime = sender'[c].f_mtime
      <4>1. "write" \notin target'.failed /\ "utimensat" \notin target'.failed
        BY DEF IInv, FailedOK, Moved
      <4>2. QED
        BY <2>3, <4>1 DEF IInv, InstalledAsRead
    <3>1. PICK i \in DOMAIN inodes' : /\ target'.content = inodes'[i].content
                                      /\ target'.mtime = inodes'[i].mtime
      BY <3>0 DEF WholeReads, ReadOK, ReadWhole
    <3>2. i \in DOMAIN Versions(inodes) /\ Copy(target') = Versions(inodes)[i]
      BY <1>1, <2>3, <3>1
    <3>3. Copy(target') \in {Versions(inodes)[k] : k \in DOMAIN Versions(inodes)}
      BY <3>2
    <3>4. Atomic!Install
      BY <2>1, <3>3 DEF Atomic!Install
    <3>5. QED
      BY <3>4 DEF Atomic!Next
  <2>4. QED
    BY <1>1, <2>2, <2>3
<1>2. ASSUME NEW inode \in Inode, inodes' = Append(inodes, inode),
             target' = target
      PROVE  Atomic!NewVersion
  <2>1. inodes \in Seq(Inode) /\ Len(inodes) \in Nat
    BY DEF IInv, TypeOK
  <2> DEFINE n == Len(inodes)
             old == Versions(inodes)
             new == Versions(inodes')
  <2>2. DOMAIN inodes = 1..n /\ DOMAIN inodes' = 1..(n + 1)
    BY <1>2, <2>1
  <2>3. DOMAIN old = 1..n /\ DOMAIN new = 1..(n + 1)
    BY <2>2
  <2>4. Len(old) = n /\ Len(new) = n + 1
    BY <2>1, <2>3
  <2>5. \A i \in 1..n : new[i] = old[i]
    BY <1>2, <2>1, <2>2
  <2>6. SubSeq(new, 1, n) = old
    <3> DEFINE S == Content \X Nat
    <3>1. \A i \in 1..n : inodes[i].content \in Content /\ inodes[i].mtime \in Nat
      <4>1. \A i \in 1..n : inodes[i] \in Inode
        BY <2>1
      <4> HIDE DEF n
      <4>2. QED
        BY <4>1 DEF Inode
    <3>2. \A i \in 1..n : old[i] \in S
      BY <2>2, <3>1
    <3>3. old \in [1..n -> S]
      BY <2>3, <3>2
    <3> HIDE DEF S, old, new
    <3>4. old \in Seq(S)
      BY <2>1, <3>3
    <3>5. /\ SubSeq(new, 1, n) \in Seq(S)
          /\ Len(SubSeq(new, 1, n)) = IF 1 <= n THEN n - 1 + 1 ELSE 0
          /\ \A i \in 1..(n - 1 + 1) : SubSeq(new, 1, n)[i] = new[1 + i - 1]
      BY <2>1, <2>5, <3>2, SubSeqProperties
    <3>6. QED
      BY <2>1, <2>4, <2>5, <3>4, <3>5, SeqEqual
  <2>7. QED
    BY <1>2, <2>4, <2>6 DEF Atomic!NewVersion
<1>3. QED
  BY <1>1, <1>2, FilesOfStep DEF Atomic!Next

\* When services only move whole files into place, the copy changes from one
\* of these files to another at once and is never anything else: for any sizes
\* and connections, and whatever breaks, falls silent or comes in parts on the
\* way, as long as no write() of the temporary file and no utimensat() fails.
\* After a write() that failed data_receiver does install a part of a file.
THEOREM MovedFilesAreCopiedAtOnce == Moved => (Spec => ImplementsAtomicCopy)
<1> SUFFICES ASSUME Moved PROVE Spec => ImplementsAtomicCopy
  OBVIOUS
<1>1. Init => WholeReads
  BY WholeReadsInit
<1>2. IInv /\ WholeReads /\ [Next]_vars => WholeReads'
  BY WholeReadsNext
<1>3. Init => Atomic!Init
  BY AtomicInit
<1>4. IInv /\ IInv' /\ WholeReads' /\ [Next]_vars
          => [Atomic!Next]_(Atomic!vars)
  BY AtomicStep
<1>5. QED
  BY TransferInvariance, <1>1, <1>2, <1>3, <1>4, PTL
     DEF Spec, ImplementsAtomicCopy, Atomic!Spec

-----------------------------------------------------------------------------
(***************************************************************************)
(* Nothing breaks, comes in parts or is too big, and the sockets take a    *)
(* whole file (process_write() sends the start of f_buffer again when they *)
(* do not).                                                                *)
(***************************************************************************)
Undisturbed ==
    /\ Writes \subseteq {"replace"} /\ Faults = {} /\ Cuts = {}
    /\ 1 <= MaxSize /\ MaxSize < SizeLimit
    /\ MaxSize + HeaderPieces + FooterPieces <= SocketBuffer

\* The k-th piece of a connection that carries the file f, and their number.
Stream(f, k) ==
    LET size == Len(f.content)
    IN  IF k = 1 THEN Header(f.mtime, size % SizeLimit)
        ELSE IF k = 2 THEN Names
        ELSE IF k <= size + 2 THEN f.content[k - 2]
        ELSE IF k = size + 3 THEN Murmur3(f.content) ELSE End
Total(f) == Len(f.content) + 4

\* q is what comes in the stream after its first n pieces.
Part(q, f, n) == \A k \in 1..Len(q) : q[k] = Stream(f, n + k)

\* The first pieces of f were written, and the next are in f_buffer: the end of
\* them with the footer, the content that was read without; all was written
\* when the connection is closed.
Sends(s, f, sent) ==
    /\ s.phase = "open" =>
           /\ s.f_position = 0 /\ s.f_buffer # << >>
           /\ sent + Len(s.f_buffer) <= Total(f)
           /\ Part(s.f_buffer, f, sent)
           /\ IF s.f_sent_footer THEN sent + Len(s.f_buffer) = Total(f)
                                 ELSE sent + Len(s.f_buffer) = 2 + s.offset
    /\ s.phase = "closed" => sent = Total(f)

\* The header and the content of f, up to there, have been received.
Takes(r, f) ==
    /\ r.got <= Len(f.content) + 2
    /\ r.got > 0 => r.f_mtime = f.mtime /\ r.f_size = Len(f.content)
    /\ r.got > 1 => r.opened /\ r.read = SubSeq(f.content, 1, r.got - 2)

Streams(s, r, w, f) ==
    /\ r.phase = "connected"
    /\ Part(w, f, r.got)
    /\ Sends(s, f, r.got + Len(w))
    /\ Takes(r, f)

\* Nothing is sent yet.
Begins(s, r) ==
    /\ s.phase = "none" \/ (s.phase = "open" /\ r.phase = "connected")
    /\ r.phase \in {"none", "connected"}
    /\ s.f_buffer = << >> /\ s.f_input = NoInode /\ s.f_position = 0

\* A connection carries one file to its end.
Flows(s, r, w, all) ==
    \/ Begins(s, r)
    \/ /\ s.phase = "open" /\ s.f_input # NoInode
       /\ Streams(s, r, w, all[s.f_input])
    \/ /\ s.phase = "closed" /\ r.phase = "connected"
       /\ \E i \in DOMAIN all : Streams(s, r, w, all[i])
    \/ s.phase = "closed" /\ r.phase = "installed"

FilesFit ==
    /\ sender_up /\ source # NoInode
    /\ \A i \in DOMAIN inodes : /\ inodes[i].readable
                                /\ Len(inodes[i].content) <= MaxSize

AllFlow == \A c \in Conns : Flows(sender[c], receiver[c], wire[c], inodes)

UInv == IInv /\ WholeReads /\ FilesFit /\ AllFlow /\ NoStrayTemp

-----------------------------------------------------------------------------
(* Streams. *)

LEMMA StreamAt ==
    ASSUME NEW f \in Inode
    PROVE  /\ Stream(f, 1) = Header(f.mtime, Len(f.content) % SizeLimit)
           /\ Stream(f, 2) = Names
           /\ \A k \in 1..Len(f.content) : Stream(f, k + 2) = f.content[k]
           /\ Stream(f, Len(f.content) + 3) = Murmur3(f.content)
           /\ Stream(f, Len(f.content) + 4) = End
<1>1. PICK n \in Nat : n = Len(f.content)
  BY DEF Inode, Content
<1>2. \A k : Stream(f, k) =
          IF k = 1 THEN Header(f.mtime, n % SizeLimit)
          ELSE IF k = 2 THEN Names
          ELSE IF k <= n + 2 THEN f.content[k - 2]
          ELSE IF k = n + 3 THEN Murmur3(f.content) ELSE End
  BY <1>1 DEF Stream
<1>3. ASSUME NEW k \in 1..n PROVE Stream(f, k + 2) = f.content[k]
  <2>1. k + 2 # 1 /\ k + 2 # 2 /\ k + 2 <= n + 2 /\ k + 2 - 2 = k
    OBVIOUS
  <2>2. QED
    BY <1>2, <2>1
<1>4. Stream(f, n + 3) = Murmur3(f.content) /\ Stream(f, n + 4) = End
  <2>1. /\ n + 3 # 1 /\ n + 3 # 2 /\ ~ n + 3 <= n + 2
        /\ n + 4 # 1 /\ n + 4 # 2 /\ ~ n + 4 <= n + 2 /\ n + 4 # n + 3
    OBVIOUS
  <2>2. QED
    BY <1>2, <2>1
<1>5. QED
  BY <1>1, <1>2, <1>3, <1>4

LEMMA FlowsKept ==
    ASSUME NEW all \in Seq(Inode), NEW more, Grown(all, more),
           NEW s \in Sender, s.f_input <= Len(all), NEW r, NEW w,
           Flows(s, r, w, all)
    PROVE  Flows(s, r, w, more)
<1>1. s.f_input # NoInode => s.f_input \in DOMAIN all
  BY DEF Sender, NoInode
<1>2. CASE Begins(s, r) \/ (s.phase = "closed" /\ r.phase = "installed")
  BY <1>2 DEF Flows
<1>3. CASE /\ s.phase = "open" /\ s.f_input # NoInode
           /\ Streams(s, r, w, all[s.f_input])
  BY <1>1, <1>3 DEF Flows, Grown
<1>4. CASE /\ s.phase = "closed" /\ r.phase = "connected"
           /\ \E i \in DOMAIN all : Streams(s, r, w, all[i])
  <2>1. PICK i \in DOMAIN all : Streams(s, r, w, all[i])
    BY <1>4
  <2>2. i \in DOMAIN more /\ more[i] = all[i]
    BY <2>1 DEF Grown
  <2>3. QED
    BY <1>4, <2>1, <2>2 DEF Flows
<1>5. QED
  BY <1>2, <1>3, <1>4 DEF Flows

\* A connection something arrives on carries one of the files.
LEMMA FlowingFile ==
    ASSUME UInv, NEW c \in Conns, Reading(c)
    PROVE  \E f \in Inode :
               /\ Streams(sender[c], receiver[c], wire[c], f)
               /\ Len(f.content) <= MaxSize
               /\ \A r, w : Streams(sender[c], r, w, f)
                                => Flows(sender[c], r, w, inodes)
               /\ sender[c].phase \in {"open", "closed"}
<1>1. TypeOK /\ QuietBefore(c) /\ FilesFit
      /\ Flows(sender[c], receiver[c], wire[c], inodes)
  BY DEF UInv, IInv, AllFlow
<1>2. receiver[c].phase = "connected" /\ wire[c] # << >>
  BY DEF Reading
<1>3. /\ inodes \in Seq(Inode) /\ sender[c] \in Sender
      /\ sender[c].f_input <= Len(inodes)
  BY <1>1, ConnType
<1>4. ~ Begins(sender[c], receiver[c])
  BY <1>1, <1>2 DEF QuietBefore, Waiting, Begins
<1>5. CASE /\ sender[c].phase = "open" /\ sender[c].f_input # NoInode
           /\ Streams(sender[c], receiver[c], wire[c], inodes[sender[c].f_input])
  <2>1. sender[c].f_input \in DOMAIN inodes
    BY <1>3, <1>5 DEF Sender, NoInode
  <2>2. inodes[sender[c].f_input] \in Inode
    BY <1>3, <2>1
  <2>3. QED
    BY <1>1, <1>5, <2>1, <2>2 DEF Flows, FilesFit
<1>6. CASE sender[c].phase = "closed"
           /\ \E i \in DOMAIN inodes :
                  Streams(sender[c], receiver[c], wire[c], inodes[i])
  <2>1. PICK i \in DOMAIN inodes :
                  Streams(sender[c], receiver[c], wire[c], inodes[i])
    BY <1>6
  <2>2. inodes[i] \in Inode
    BY <1>3, <2>1
  <2>3. \A r, w : Streams(sender[c], r, w, inodes[i])
                      => Flows(sender[c], r, w, inodes)
    BY <1>6 DEF Flows, Streams
  <2>4. QED
    BY <1>1, <1>6, <2>1, <2>2, <2>3 DEF FilesFit
<1>7. QED
  BY <1>1, <1>2, <1>4, <1>5, <1>6 DEF Flows

\* The receiver takes one piece more.
LEMMA StreamsHead ==
    ASSUME NEW f, NEW s, NEW r \in Receiver,
           NEW w \in Seq(Unit), w # << >>, Streams(s, r, w, f)
    PROVE  Head(w) = Stream(f, r.got + 1)
<1>1. Len(w) \in Nat /\ Len(w) >= 1 /\ Head(w) = w[1]
  OBVIOUS
<1>2. QED
  BY <1>1 DEF Streams, Part

LEMMA StreamsOn ==
    ASSUME NEW f, NEW s, NEW r \in Receiver,
           NEW w \in Seq(Unit), w # << >>, Streams(s, r, w, f),
           NEW q \in Receiver, q.phase = "connected", q.got = r.got + 1,
           Takes(q, f)
    PROVE  Streams(s, q, Tail(w), f)
<1>1. r.got \in Nat /\ Len(w) \in Nat /\ Len(w) >= 1
  BY DEF Receiver
<1>2. /\ Tail(w) \in Seq(Unit) /\ Len(Tail(w)) = Len(w) - 1
      /\ \A k \in 1..(Len(w) - 1) : Tail(w)[k] = w[k + 1]
  BY <1>1
<1>3. \A k \in 1..Len(w) : w[k] = Stream(f, r.got + k)
  BY DEF Streams, Part
<1>4. Part(Tail(w), f, q.got)
  <2> SUFFICES ASSUME NEW k \in 1..(Len(w) - 1)
               PROVE  Tail(w)[k] = Stream(f, q.got + k)
    BY <1>2 DEF Part
  <2>1. k + 1 \in 1..Len(w) /\ r.got + (k + 1) = q.got + k
    BY <1>1
  <2>2. QED
    BY <1>2, <1>3, <2>1
<1>5. q.got + Len(Tail(w)) = r.got + Len(w)
  BY <1>1, <1>2
<1>6. QED
  BY <1>4, <1>5 DEF Streams

-----------------------------------------------------------------------------
(* The steps of a sender. *)

\* A step of one connection.
LEMMA FlowOneStep ==
    ASSUME AllFlow, inodes' = inodes, NEW c \in Conns,
           \A d \in Conns \ {c} : /\ sender'[d] = sender[d]
                                  /\ receiver'[d] = receiver[d]
                                  /\ wire'[d] = wire[d],
           Flows(sender'[c], receiver'[c], wire'[c], inodes)
    PROVE  AllFlow'
BY DEF AllFlow

\* The temporary files stay with their receivers.
LEMMA StraySame ==
    ASSUME NoStrayTemp, temp' = temp,
           \A d \in Conns : receiver[d].phase = "connected" =>
               /\ receiver'[d].phase = "connected"
               /\ receiver'[d].temp = receiver[d].temp
    PROVE  NoStrayTemp'
BY DEF NoStrayTemp, TempOf

LEMMA FlowAccept ==
    ASSUME UInv, NEW c \in Conns, ProcessAccept(c)
    PROVE  AllFlow'
<1>1. TypeOK /\ Flows(sender[c], receiver[c], wire[c], inodes)
  BY DEF UInv, IInv, AllFlow
<1>2. PICK s \in Sender : s = sender[c]
  BY <1>1, ConnType
<1>3. /\ s.phase = "none" /\ receiver[c].phase = "connected"
      /\ sender' = [sender EXCEPT ![c] = [s EXCEPT !.phase = "open"]]
      /\ UNCHANGED << files, wire, receiver, temp, target, sender_up >>
  BY <1>2 DEF ProcessAccept
<1> DEFINE t == [s EXCEPT !.phase = "open"]
<1>4. Begins(s, receiver[c])
  BY <1>1, <1>2, <1>3 DEF Flows
<1>5. Begins(t, receiver[c])
  BY <1>3, <1>4 DEF Begins, Sender
<1> HIDE DEF t
<1>6. /\ sender'[c] = t
      /\ \A d \in Conns \ {c} : sender'[d] = sender[d]
  BY <1>1, <1>3 DEF TypeOK, t
<1>7. QED
  BY <1>3, <1>5, <1>6, FlowOneStep DEF UInv, Flows, files

LEMMA FlowRequest ==
    ASSUME Undisturbed, UInv, NEW c \in Conns, ProcessRequest(c)
    PROVE  AllFlow'
<1>1. /\ TypeOK /\ QuietBefore(c) /\ FilesFit /\ ReadOK(sender[c], inodes)
      /\ Flows(sender[c], receiver[c], wire[c], inodes)
  BY DEF UInv, IInv, AllFlow, WholeReads
<1>2. PICK s \in Sender : s = sender[c]
  BY <1>1, ConnType
<1>3. /\ s.phase = "open" /\ s.f_input = NoInode
      /\ UNCHANGED << files, wire, receiver, temp, target, sender_up >>
  BY <1>2 DEF ProcessRequest, Asked
<1>4. Begins(s, receiver[c])
  BY <1>1, <1>2, <1>3 DEF Flows
<1>5. /\ wire[c] = << >> /\ receiver[c].got = 0 /\ ~ s.f_sent_footer
      /\ s.offset = 0
  BY <1>1, <1>2, <1>3 DEF QuietBefore, Waiting, ReadOK
<1>6. source \in 1..Len(inodes) /\ inodes \in Seq(Inode)
  BY <1>1 DEF TypeOK, FilesFit, NoInode
<1>7. PICK f \in Inode : f = inodes[source] /\ f.readable
  BY <1>1, <1>6 DEF FilesFit
<1>8. sender' = [sender EXCEPT ![c] = OpenFile(s)]
  BY <1>1, <1>2, <1>7 DEF ProcessRequest, FilesFit, Undisturbed
<1> DEFINE t == OpenFile(s)
           buffer == << Header(f.mtime, Len(f.content) % SizeLimit), Names >>
<1>9. /\ t.phase = "open" /\ t.f_input = source /\ t.f_buffer = buffer
      /\ t.f_position = 0 /\ ~ t.f_sent_footer /\ t.offset = 0
  BY <1>3, <1>4, <1>5, <1>7 DEF OpenFile, Sender, Begins
<1> HIDE DEF t
<1>10. Len(f.content) \in Nat
  BY DEF Inode, Content
<1>11. Len(buffer) = 2 /\ buffer # << >> /\ Part(buffer, f, 0)
  <2>1. /\ Len(buffer) = 2 /\ buffer # << >> /\ buffer[2] = Names
        /\ buffer[1] = Header(f.mtime, Len(f.content) % SizeLimit)
    OBVIOUS
  <2> HIDE DEF buffer
  <2>2. QED
    BY <1>10, <2>1, StreamAt DEF Part
<1> HIDE DEF buffer
<1>12. Streams(t, receiver[c], << >>, f)
  <2>1. receiver[c].phase = "connected"
    BY <1>3, <1>4 DEF Begins
  <2>2. Takes(receiver[c], f)
    BY <1>5, <1>10 DEF Takes
  <2>3. Sends(t, f, 0)
    BY <1>9, <1>10, <1>11 DEF Sends, Total
  <2>4. QED
    BY <1>5, <2>1, <2>2, <2>3 DEF Streams, Part
<1>13. Flows(t, receiver[c], wire[c], inodes)
  BY <1>5, <1>6, <1>7, <1>9, <1>12 DEF Flows, NoInode
<1>14. sender'[c] = t /\ \A d \in Conns \ {c} : sender'[d] = sender[d]
  BY <1>1, <1>8 DEF TypeOK, t
<1>15. QED
  BY <1>3, <1>13, <1>14, FlowOneStep DEF UInv, files

\* All of f_buffer is always written at once.
LEMMA FlowWrite ==
    ASSUME Undisturbed, UInv, NEW c \in Conns, ProcessWrite(c)
    PROVE  AllFlow'
<1>1. /\ TypeOK /\ FilesFit /\ ReadOK(sender[c], inodes)
      /\ Flows(sender[c], receiver[c], wire[c], inodes)
  BY DEF UInv, IInv, AllFlow, WholeReads
<1>2. PICK s \in Sender : s = sender[c]
  BY <1>1, ConnType
<1>3. PICK r \in Receiver : r = receiver[c]
  BY <1>1, ConnType
<1>4. PICK w \in Seq(Unit) : w = wire[c]
  BY <1>1, ConnType
<1>5. /\ s.phase = "open" /\ s.f_input # NoInode /\ s.f_buffer # << >>
      /\ UNCHANGED << files, receiver, temp, target, sender_up >>
  BY <1>2 DEF ProcessWrite
<1>6. s.f_input \in 1..Len(inodes) /\ inodes \in Seq(Inode)
  BY <1>1, <1>2, <1>5, ConnType DEF Sender, NoInode
<1>7. PICK f \in Inode : f = inodes[s.f_input] /\ Len(f.content) <= MaxSize
  BY <1>1, <1>6 DEF FilesFit
<1>8. Streams(s, r, w, f)
  BY <1>1, <1>2, <1>3, <1>4, <1>5, <1>7 DEF Flows, Begins
<1>9. /\ r.got \in Nat /\ Len(w) \in Nat /\ Len(f.content) \in Nat
      /\ s.f_buffer \in Seq(Unit) /\ Len(s.f_buffer) \in Nat /\ s.offset \in Nat
      /\ f.content \in Seq(Piece) /\ MaxSize \in Nat /\ SocketBuffer \in Nat
  <2>1. MaxSize \in Nat /\ SocketBuffer \in Nat
    BY SizeAssumption
  <2>2. r.got \in Nat /\ Len(w) \in Nat
    BY DEF Receiver
  <2>3. f.content \in Seq(Piece) /\ Len(f.content) \in Nat
    BY DEF Inode, Content
  <2>4. s.f_buffer \in Seq(Unit) /\ s.offset \in Nat
    BY DEF Sender
  <2>5. QED
    BY <2>1, <2>2, <2>3, <2>4
<1> DEFINE sent == r.got + Len(w)
           size == Len(s.f_buffer)
           v == w \o s.f_buffer
           written == [s EXCEPT !.f_position = size]
<1>10. /\ s.f_position = 0 /\ sent + size <= Len(f.content) + 4
       /\ IF s.f_sent_footer THEN sent + size = Len(f.content) + 4
                             ELSE sent + size = 2 + s.offset
       /\ \A k \in 1..size : s.f_buffer[k] = Stream(f, sent + k)
       /\ \A k \in 1..Len(w) : w[k] = Stream(f, r.got + k)
  BY <1>5, <1>8 DEF Streams, Sends, Total, Part
<1>11. Least(size - 0, Room(c)) = size
  <2>1. Room(c) = SocketBuffer - Len(w)
    BY <1>4 DEF Room
  <2>2. size <= SocketBuffer - Len(w)
    <3>1. MaxSize + 2 + 2 <= SocketBuffer
      BY DEF Undisturbed, HeaderPieces, FooterPieces
    <3>2. PICK g \in Nat, l \in Nat, b \in Nat, n \in Nat :
              g = r.got /\ l = Len(w) /\ b = size /\ n = Len(f.content)
      BY <1>9
    <3>3. g + l + b <= n + 4 /\ n <= MaxSize
      BY <1>7, <1>10, <3>2
    <3>4. MaxSize \in Nat /\ SocketBuffer \in Nat
      BY <1>9
    <3>5. b <= SocketBuffer - l
      BY <3>1, <3>3, <3>4
    <3>6. QED
      BY <3>2, <3>5
  <2>0. SocketBuffer - Len(w) \in Int /\ size \in Nat
    BY <1>9
  <2>3. PICK room \in Int, b \in Nat : room = Room(c) /\ b = size
    BY <2>0, <2>1
  <2>4. b - 0 = b /\ b <= room
    BY <2>1, <2>2, <2>3
  <2>5. Least(b - 0, room) = b
    BY <2>4 DEF Least
  <2>6. QED
    BY <2>3, <2>5
<1>12. Written(s, size) = s.f_buffer
  BY <1>9, SubSeqFull DEF Written
<1>13. wire' = [wire EXCEPT ![c] = v]
  BY <1>2, <1>4, <1>10, <1>11, <1>12 DEF ProcessWrite
<1>14. sender' = [sender EXCEPT ![c] = IF s.f_sent_footer THEN Closed(s)
                                       ELSE NextBuffer(written)]
  <2>1. ~ size < size - 0
    BY <1>9
  <2>2. [s EXCEPT !.f_position = s.f_position + size] = written
    BY <1>9, <1>10
  <2>3. QED
    BY <1>2, <1>9, <1>10, <1>11, <2>1, <2>2 DEF ProcessWrite
<1> HIDE DEF v, written
<1>15. v \in Seq(Unit) /\ Len(v) = Len(w) + size /\ Part(v, f, r.got)
  <2>1. /\ v \in Seq(Unit) /\ Len(v) = Len(w) + size
        /\ \A k \in 1..(Len(w) + size) :
               v[k] = IF k <= Len(w) THEN w[k] ELSE s.f_buffer[k - Len(w)]
    BY <1>9, ConcatProperties DEF v
  <2>2. ASSUME NEW k \in 1..(Len(w) + size) PROVE v[k] = Stream(f, r.got + k)
    <3>1. CASE k <= Len(w)
      BY <1>9, <1>10, <2>1, <3>1
    <3>2. CASE ~ k <= Len(w)
      <4>1. k - Len(w) \in 1..size /\ sent + (k - Len(w)) = r.got + k
        BY <1>9, <3>2
      <4>2. s.f_buffer[k - Len(w)] = Stream(f, sent + (k - Len(w)))
        BY <1>10, <4>1
      <4>3. QED
        BY <2>1, <3>2, <4>1, <4>2
    <3>3. QED
      BY <3>1, <3>2
  <2>3. QED
    BY <2>1, <2>2 DEF Part
<1>16. r.phase = "connected" /\ Takes(r, f)
  BY <1>8 DEF Streams
<1>17. /\ wire'[c] = v /\ receiver'[c] = r
       /\ \A d \in Conns \ {c} : sender'[d] = sender[d] /\ wire'[d] = wire[d]
                                 /\ receiver'[d] = receiver[d]
  BY <1>1, <1>3, <1>5, <1>13, <1>14 DEF TypeOK
<1>18. ASSUME NEW t, sender'[c] = t, Flows(t, r, v, inodes) PROVE AllFlow'
  BY <1>5, <1>17, <1>18, FlowOneStep DEF UInv, files
<1>19. r.got + Len(v) = sent + size
  BY <1>9, <1>15
<1>20. CASE s.f_sent_footer
  <2> DEFINE t == Closed(s)
  <2>1. t.phase = "closed"
    BY ClosedKeeps
  <2>2. sender'[c] = t
    BY <1>1, <1>14, <1>20 DEF TypeOK
  <2> HIDE DEF t
  <2>3. Streams(t, r, v, f)
    BY <1>10, <1>15, <1>16, <1>19, <1>20, <2>1 DEF Streams, Sends, Total
  <2>4. QED
    BY <1>6, <1>7, <1>16, <1>18, <2>1, <2>2, <2>3 DEF Flows
<1>21. CASE ~ s.f_sent_footer
  <2> DEFINE t == NextBuffer(written)
  <2>1. /\ written \in Sender /\ written.f_input = s.f_input
        /\ written.offset = s.offset /\ written.read = s.read
        /\ written.f_mtime = s.f_mtime /\ written.eof = s.eof
        /\ written.f_sent_footer = s.f_sent_footer /\ written.phase = "open"
    BY <1>5, <1>9 DEF Sender, written
  <2>2. ReadSoFar(written, f)
    BY <1>1, <1>2, <1>5, <1>7, <2>1 DEF ReadOK, ReadSoFar
  <2>3. sender'[c] = t
    BY <1>1, <1>14, <1>21 DEF TypeOK
  <2>4. PICK block \in Seq(Piece) :
            /\ block = Block(written)
            /\ s.offset + Len(block) <= Len(f.content)
            /\ \A k \in 1..Len(block) : block[k] = f.content[s.offset + k]
            /\ s.eof \/ block = << >> => s.offset = Len(f.content)
                                         /\ s.read = f.content
    BY SMTT(30), <1>7, <2>1, <2>2, BlockOf
  <2>5. Len(block) \in Nat
    OBVIOUS
  <2>6. CASE s.eof \/ block = << >>
    <3> DEFINE buffer == << Murmur3(f.content), End >>
    <3>1. t = Footer(written) /\ s.offset = Len(f.content)
      BY <2>1, <2>4, <2>6 DEF NextBuffer
    <3>2. /\ t.phase = "open" /\ t.f_input = s.f_input /\ t.f_position = 0
          /\ t.f_sent_footer /\ t.f_buffer = buffer
      BY <2>1, <2>4, <2>6, <3>1 DEF Footer, Sender
    <3> HIDE DEF t
    <3>3. /\ Len(buffer) = 2 /\ buffer # << >>
          /\ buffer[1] = Murmur3(f.content) /\ buffer[2] = End
      OBVIOUS
    <3> HIDE DEF buffer
    <3>4. Part(buffer, f, sent + size)
      <4>1. /\ sent + size + 1 = Len(f.content) + 3
            /\ sent + size + 2 = Len(f.content) + 4
        BY <1>9, <1>10, <1>21, <3>1
      <4>2. /\ buffer[1] = Stream(f, sent + size + 1)
            /\ buffer[2] = Stream(f, sent + size + 2)
        BY <3>3, <4>1, StreamAt
      <4>3. QED
        BY <3>3, <4>2 DEF Part
    <3>5. Sends(t, f, sent + size)
      BY <1>9, <1>10, <1>21, <3>1, <3>2, <3>3, <3>4 DEF Sends, Total
    <3>6. Streams(t, r, v, f)
      BY <1>15, <1>16, <1>19, <3>5 DEF Streams
    <3>7. QED
      BY <1>5, <1>7, <1>18, <2>3, <3>2, <3>6 DEF Flows
  <2>7. CASE ~ (s.eof \/ block = << >>)
    <3>1. t = FillBuffer(written)
      BY <2>1, <2>4, <2>7 DEF NextBuffer
    <3>2. /\ t.phase = "open" /\ t.f_input = s.f_input /\ t.f_position = 0
          /\ ~ t.f_sent_footer /\ t.f_buffer = block
          /\ t.offset = s.offset + Len(block)
      BY <1>21, <2>1, <2>4, <3>1 DEF FillBuffer, Sender
    <3> HIDE DEF t
    <3>3. Part(block, f, sent + size)
      <4> SUFFICES ASSUME NEW k \in 1..Len(block)
                   PROVE  block[k] = Stream(f, sent + size + k)
        BY DEF Part
      <4>1. /\ sent + size + k = 2 + s.offset + k
            /\ s.offset + k <= Len(f.content) /\ s.offset + k > 0
        BY SMTT(30), <1>9, <1>10, <1>21, <2>4, <2>5
      <4>2. block[k] = f.content[s.offset + k]
        BY <2>4
      <4>3. s.offset + k \in 1..Len(f.content)
        BY SMTT(30), <1>9, <4>1
      <4>4. Stream(f, (s.offset + k) + 2) = f.content[s.offset + k]
        BY <4>3, StreamAt
      <4>5. sent + size + k = (s.offset + k) + 2
        BY <1>9, <1>10, <1>21
      <4>6. QED
        BY <4>2, <4>4, <4>5
    <3>4. Sends(t, f, sent + size)
      <4>1. sent + size + Len(block) = 2 + (s.offset + Len(block))
        BY <1>9, <1>10, <1>21, <2>5
      <4>2. sent + size + Len(block) <= Len(f.content) + 4
        BY SMTT(30), <1>9, <2>4, <2>5, <4>1
      <4>3. QED
        BY <2>7, <3>2, <3>3, <4>1, <4>2 DEF Sends, Total
    <3>5. Streams(t, r, v, f)
      BY <1>15, <1>16, <1>19, <3>4 DEF Streams
    <3>6. QED
      BY <1>5, <1>7, <1>18, <2>3, <3>2, <3>5 DEF Flows
  <2>8. QED
    BY <2>6, <2>7
<1>22. QED
  BY <1>20, <1>21

-----------------------------------------------------------------------------
(* The steps of a receiver. *)

LEMMA FlowTake ==
    ASSUME UInv, NEW c \in Conns, UNCHANGED << inodes, sender >>,
           NEW q, receiver' = [receiver EXCEPT ![c] = q],
           NEW w, wire' = [wire EXCEPT ![c] = w],
           Flows(sender[c], q, w, inodes)
    PROVE  AllFlow'
<1>1. /\ receiver'[c] = q /\ wire'[c] = w
      /\ \A d \in Conns \ {c} : receiver'[d] = receiver[d] /\ wire'[d] = wire[d]
  BY DEF UInv, IInv, TypeOK
<1>2. QED
  BY <1>1, FlowOneStep DEF UInv

LEMMA FlowConnect ==
    ASSUME UInv, NEW c \in Conns, Connect(c) \/ SendRequest(c)
    PROVE  AllFlow' /\ NoStrayTemp'
<1>1. TypeOK /\ Flows(sender[c], receiver[c], wire[c], inodes)
  BY DEF UInv, IInv, AllFlow
<1>2. PICK r \in Receiver : r = receiver[c]
  BY <1>1, ConnType
<1>3. UNCHANGED << files, sender, wire, temp, target, sender_up >>
  BY DEF Connect, SendRequest
<1>4. wire' = [wire EXCEPT ![c] = wire[c]]
  BY <1>1, <1>3 DEF TypeOK
<1>5. CASE Connect(c)
  <2> DEFINE q == [r EXCEPT !.phase = "connected"]
  <2>1. receiver' = [receiver EXCEPT ![c] = q] /\ r.phase = "none"
    BY <1>2, <1>5 DEF Connect
  <2>2. q.phase = "connected"
    BY DEF Receiver
  <2> HIDE DEF q
  <2>3. Begins(sender[c], r)
    BY <1>1, <1>2, <2>1 DEF Flows, Streams
  <2>4. Begins(sender[c], q)
    BY <2>2, <2>3 DEF Begins
  <2>5. AllFlow'
    BY <1>3, <1>4, <2>1, <2>4, FlowTake DEF Flows, files
  <2>6. \A d \in Conns \ {c} : receiver'[d] = receiver[d]
    BY <1>1, <2>1 DEF TypeOK
  <2>7. QED
    BY <1>2, <1>3, <2>1, <2>5, <2>6, StraySame DEF UInv
<1>6. CASE SendRequest(c)
  <2> DEFINE q == [r EXCEPT !.asked = TRUE]
  <2>1. receiver' = [receiver EXCEPT ![c] = q]
    BY <1>2, <1>6 DEF SendRequest
  <2>2. /\ q.phase = r.phase /\ q.got = r.got /\ q.f_mtime = r.f_mtime
        /\ q.f_size = r.f_size /\ q.opened = r.opened /\ q.read = r.read
        /\ q.temp = r.temp
    BY DEF Receiver
  <2> HIDE DEF q
  <2>3. Flows(sender[c], q, wire[c], inodes)
    BY <1>1, <1>2, <2>2 DEF Flows, Begins, Streams, Takes
  <2>4. AllFlow'
    BY <1>3, <1>4, <2>1, <2>3, FlowTake DEF files
  <2>5. receiver'[c] = q /\ \A d \in Conns \ {c} : receiver'[d] = receiver[d]
    BY <1>1, <2>1 DEF TypeOK
  <2>6. QED
    BY <1>2, <1>3, <2>2, <2>4, <2>5, StraySame DEF UInv
<1>7. QED
  BY <1>5, <1>6

LEMMA SmallModulo ==
    ASSUME NEW n \in Nat, NEW m \in Nat, n < m
    PROVE  n % m = n
OBVIOUS

\* What f_size holds is the size.
LEMMA SizeFits ==
    ASSUME Undisturbed, NEW f \in Inode, Len(f.content) <= MaxSize
    PROVE  Len(f.content) % SizeLimit = Len(f.content)
<1>1. PICK n \in Nat : n = Len(f.content)
  BY DEF Inode, Content
<1>2. PICK m \in Nat : m = SizeLimit
  BY SizeAssumption
<1>3. n < m
  <2>1. MaxSize \in Nat
    BY SizeAssumption
  <2>2. QED
    BY <1>1, <1>2, <2>1 DEF Undisturbed
<1>4. n % m = n
  BY <1>3, SmallModulo
<1>5. QED
  BY <1>1, <1>2, <1>4

LEMMA FlowHeader ==
    ASSUME Undisturbed, UInv, NEW c \in Conns, ReadHeader(c)
    PROVE  AllFlow' /\ NoStrayTemp'
<1>1. TypeOK /\ TempOK(c) /\ NoStrayTemp /\ Reading(c)
  BY DEF UInv, IInv, ReadHeader
<1>2. PICK r \in Receiver : r = receiver[c]
  BY <1>1, ConnType
<1>3. PICK w \in Seq(Unit) : w = wire[c]
  BY <1>1, ConnType
<1>4. PICK f \in Inode : /\ Streams(sender[c], r, w, f)
                         /\ Len(f.content) <= MaxSize
                         /\ \A q, v : Streams(sender[c], q, v, f)
                                          => Flows(sender[c], q, v, inodes)
  BY <1>1, <1>2, <1>3, FlowingFile
<1>5. r.got = 0 /\ r.temp = 0 /\ w # << >> /\ r.phase = "connected"
  BY <1>1, <1>2, <1>3 DEF ReadHeader, TempOK, Reading
<1>6. Head(w) = Header(f.mtime, Len(f.content))
  <2>1. Head(w) = Stream(f, 1)
    BY <1>4, <1>5, StreamsHead
  <2>2. QED
    BY <1>4, <2>1, StreamAt, SizeFits
<1>7. /\ temp' = Append(temp, NoTemp)
      /\ receiver' = [receiver EXCEPT
            ![c].got = 1, ![c].temp = Len(temp'),
            ![c].f_mtime = f.mtime, ![c].f_size = Len(f.content)]
      /\ wire' = [wire EXCEPT ![c] = Tail(w)]
      /\ UNCHANGED << files, sender, sender_up >>
  <2>1. /\ Head(wire[c]).kind = "header"
        /\ Head(wire[c]).value[1] = f.mtime
        /\ Head(wire[c]).value[2] = Len(f.content)
    BY <1>3, <1>6 DEF Header
  <2>2. ~ (Head(wire[c]).kind # "header" \/ "break" \in Faults)
    BY <2>1 DEF Undisturbed
  <2>3. /\ temp' = NextIdentifier
        /\ receiver' = [receiver EXCEPT
              ![c].got = 1, ![c].temp = Len(temp'),
              ![c].f_mtime = Head(wire[c]).value[1],
              ![c].f_size = Head(wire[c]).value[2]]
        /\ wire' = [wire EXCEPT ![c] = Tail(@)]
        /\ UNCHANGED << files, sender, sender_up >>
    BY <2>2, Zenon DEF ReadHeader
  <2>4. QED
    BY <1>3, <2>1, <2>3 DEF NextIdentifier
<1>8. Len(temp') \in Nat /\ f.mtime \in Nat /\ Len(f.content) \in Nat
  BY <1>1, <1>7 DEF TypeOK, Inode, Content
<1> DEFINE q == [r EXCEPT !.got = 1, !.temp = Len(temp'),
                          !.f_mtime = f.mtime, !.f_size = Len(f.content)]
<1>9. receiver' = [receiver EXCEPT ![c] = q]
  BY <1>1, <1>2, <1>7 DEF TypeOK
<1>10. /\ q \in Receiver /\ q.got = 1 /\ q.f_mtime = f.mtime
       /\ q.f_size = Len(f.content) /\ q.phase = r.phase
  BY <1>8 DEF Receiver
<1> HIDE DEF q
<1>11. Takes(q, f)
  BY <1>8, <1>10 DEF Takes
<1>12. Streams(sender[c], q, Tail(w), f)
  BY <1>4, <1>5, <1>10, <1>11, StreamsOn
<1>13. AllFlow'
  BY <1>4, <1>7, <1>9, <1>12, FlowTake DEF files
<1>14. NoStrayTemp'
  <2> SUFFICES ASSUME NEW g \in DOMAIN temp', temp'[g].there
               PROVE  \E d \in Conns : /\ receiver'[d].phase = "connected"
                                       /\ receiver'[d].temp = g
    BY DEF NoStrayTemp, TempOf
  <2>1. g \in DOMAIN temp /\ temp'[g] = temp[g] /\ g # 0
    <3>1. temp \in Seq(Temp) /\ Len(temp) \in Nat
      BY <1>1 DEF TypeOK, Temp
    <3>2. /\ DOMAIN temp' = 1..(Len(temp) + 1) /\ DOMAIN temp = 1..Len(temp)
          /\ \A i \in 1..Len(temp) : temp'[i] = temp[i]
          /\ temp'[Len(temp) + 1] = NoTemp
      BY <1>7, <3>1
    <3>3. g # Len(temp) + 1
      BY <3>2 DEF NoTemp
    <3>4. QED
      BY <3>1, <3>2, <3>3
  <2>2. PICK d \in Conns : receiver[d].phase = "connected" /\ receiver[d].temp = g
    BY <1>1, <2>1 DEF NoStrayTemp, TempOf
  <2>3. receiver'[d] = receiver[d]
    BY <1>1, <1>2, <1>5, <1>9, <2>1, <2>2 DEF TypeOK
  <2>4. QED
    BY <2>2, <2>3
<1>15. QED
  BY <1>13, <1>14

\* The receiver stays, and no temporary file appears but its own.
LEMMA StrayKept ==
    ASSUME TypeOK, NoStrayTemp, NEW c \in Conns,
           NEW q, receiver' = [receiver EXCEPT ![c] = q],
           q.phase = "connected", q.temp = receiver[c].temp,
           receiver[c].phase = "connected",
           DOMAIN temp' = DOMAIN temp,
           \A g \in DOMAIN temp : temp'[g].there =>
               temp[g].there \/ g = receiver[c].temp
    PROVE  NoStrayTemp'
<1>1. receiver'[c] = q /\ \A d \in Conns \ {c} : receiver'[d] = receiver[d]
  BY DEF TypeOK
<1>2. QED
  BY <1>1 DEF NoStrayTemp, TempOf

LEMMA FlowNames ==
    ASSUME Undisturbed, UInv, NEW c \in Conns, ReadNames(c)
    PROVE  AllFlow' /\ NoStrayTemp'
<1>1. TypeOK /\ TempOK(c) /\ NoStrayTemp /\ Reading(c)
  BY DEF UInv, IInv, ReadNames
<1>2. PICK r \in Receiver : r = receiver[c]
  BY <1>1, ConnType
<1>3. PICK w \in Seq(Unit) : w = wire[c]
  BY <1>1, ConnType
<1>4. PICK f \in Inode : /\ Streams(sender[c], r, w, f)
                         /\ \A q, v : Streams(sender[c], q, v, f)
                                          => Flows(sender[c], q, v, inodes)
  BY <1>1, <1>2, <1>3, FlowingFile
<1>5. /\ r.got = 1 /\ r.read = << >> /\ w # << >> /\ r.phase = "connected"
      /\ r.temp \in DOMAIN temp
  BY <1>1, <1>2, <1>3 DEF ReadNames, TempOK, Reading
<1>6. /\ temp' = [temp EXCEPT ![r.temp] = [there |-> TRUE, content |-> << >>]]
      /\ receiver' = [receiver EXCEPT ![c].got = 2, ![c].opened = TRUE]
      /\ wire' = [wire EXCEPT ![c] = Tail(w)]
      /\ UNCHANGED << files, sender, sender_up >>
  BY <1>2, <1>3 DEF ReadNames, Undisturbed, HeaderPieces, TempOf
<1> DEFINE q == [r EXCEPT !.got = 2, !.opened = TRUE]
<1>7. receiver' = [receiver EXCEPT ![c] = q]
  BY <1>1, <1>2, <1>6 DEF TypeOK
<1>8. /\ q \in Receiver /\ q.got = 2 /\ q.f_mtime = r.f_mtime /\ q.opened
      /\ q.f_size = r.f_size /\ q.phase = r.phase /\ q.read = r.read
      /\ q.temp = r.temp
  BY DEF Receiver
<1> HIDE DEF q
<1>9. Len(f.content) \in Nat /\ SubSeq(f.content, 1, 0) = << >>
  BY SubSeqEmpty DEF Inode, Content
<1>10. Takes(q, f)
  BY <1>4, <1>5, <1>8, <1>9 DEF Takes, Streams
<1>11. Streams(sender[c], q, Tail(w), f)
  BY <1>4, <1>5, <1>8, <1>10, StreamsOn
<1>12. AllFlow'
  BY <1>4, <1>6, <1>7, <1>11, FlowTake DEF files
<1>13. /\ DOMAIN temp' = DOMAIN temp
       /\ \A g \in DOMAIN temp : temp'[g].there =>
              temp[g].there \/ g = receiver[c].temp
  BY <1>2, <1>6
<1>14. NoStrayTemp'
  BY <1>1, <1>2, <1>5, <1>7, <1>8, <1>13, StrayKept
<1>15. QED
  BY <1>12, <1>14

LEMMA FlowContent ==
    ASSUME Undisturbed, UInv, NEW c \in Conns, ReadContent(c)
    PROVE  AllFlow' /\ NoStrayTemp'
<1>1. TypeOK /\ TempOK(c) /\ NoStrayTemp /\ Reading(c)
  BY DEF UInv, IInv, ReadContent
<1>2. PICK r \in Receiver : r = receiver[c]
  BY <1>1, ConnType
<1>3. PICK w \in Seq(Unit) : w = wire[c]
  BY <1>1, ConnType
<1>4. PICK f \in Inode : /\ Streams(sender[c], r, w, f)
                         /\ \A q, v : Streams(sender[c], q, v, f)
                                          => Flows(sender[c], q, v, inodes)
  BY <1>1, <1>2, <1>3, FlowingFile
<1>5. w # << >> /\ r.phase = "connected" /\ r.got \in Nat
      /\ r.got >= 2 /\ r.got <= 2 + r.f_size - 1 /\ r.f_size \in Nat
  <2>1. r.got \in Nat /\ r.f_size \in Nat
    BY DEF Receiver
  <2>2. r.got \in 2..(2 + r.f_size - 1)
    BY <1>2 DEF ReadContent, HeaderPieces
  <2>3. QED
    BY <1>1, <1>2, <1>3, <2>1, <2>2 DEF Reading
<1>6. /\ r.opened /\ r.read = SubSeq(f.content, 1, r.got - 2)
      /\ r.f_mtime = f.mtime /\ r.f_size = Len(f.content)
  BY <1>4, <1>5 DEF Streams, Takes
<1> DEFINE n == r.got - 1
<1>7. n \in 1..Len(f.content) /\ f.content \in Seq(Piece)
  BY <1>5, <1>6 DEF Inode, Content
<1>8. Head(w) = f.content[n]
  <2>1. Head(w) = Stream(f, r.got + 1)
    BY <1>4, <1>5, StreamsHead
  <2>2. r.got + 1 = n + 2
    BY <1>5
  <2> HIDE DEF n
  <2>3. QED
    BY <1>7, <2>1, <2>2, StreamAt
<1>9. Append(r.read, Head(w)) = SubSeq(f.content, 1, n)
  <2>1. r.got - 2 = n - 1
    BY <1>5
  <2> HIDE DEF n
  <2>2. PICK m \in 1..Len(f.content) : m = 1 /\ n \in m..Len(f.content)
    BY <1>7
  <2>3. SubSeq(f.content, m, n) =
            SubSeq(f.content, m, n - 1) \o << f.content[n] >>
    BY <1>7, <2>2, SubSeqRecursiveSecond
  <2>4. r.read = SubSeq(f.content, m, n - 1)
    BY <1>6, <2>1, <2>2
  <2>5. r.read \in Seq(Unit) /\ Head(w) \in Unit
    BY <1>5, HeadTailProperties DEF Receiver
  <2>6. Append(r.read, Head(w)) = r.read \o << Head(w) >>
    BY <2>5, AppendIsConcat
  <2>7. QED
    BY <1>8, <2>2, <2>3, <2>4, <2>6
<1>10. /\ temp' = [temp EXCEPT ![r.temp].content = Append(@, Head(w))]
       /\ receiver' = [receiver EXCEPT ![c].got = r.got + 1,
                            ![c].read = Append(r.read, Head(w))]
       /\ wire' = [wire EXCEPT ![c] = Tail(w)]
       /\ UNCHANGED << files, sender, sender_up >>
  <2>1. r.good /\ "write" \notin Faults
    BY <1>1, <1>2, <1>5, <1>6 DEF TempOK, Undisturbed
  <2>2. QED
    BY <1>2, <1>3, <1>6, <2>1 DEF ReadContent, Write, TempOf
<1> DEFINE q == [r EXCEPT !.got = r.got + 1, !.read = Append(r.read, Head(w))]
<1>11. receiver' = [receiver EXCEPT ![c] = q]
  BY <1>1, <1>2, <1>10 DEF TypeOK
<1>12. /\ q \in Receiver /\ q.got = r.got + 1 /\ q.f_mtime = r.f_mtime
       /\ q.opened = r.opened /\ q.f_size = r.f_size /\ q.phase = r.phase
       /\ q.read = Append(r.read, Head(w)) /\ q.temp = r.temp
  <2>1. r.read \in Seq(Unit) /\ Head(w) \in Unit
    BY <1>5, HeadTailProperties DEF Receiver
  <2>2. Append(r.read, Head(w)) \in Seq(Unit) /\ r.got + 1 \in Nat
    BY <1>5, <2>1
  <2>3. QED
    BY <2>2 DEF Receiver
<1> HIDE DEF q
<1>13. Takes(q, f)
  <2>1. q.got - 2 = n /\ q.got <= Len(f.content) + 2
    BY <1>5, <1>6, <1>12
  <2>2. QED
    BY <1>6, <1>9, <1>12, <2>1 DEF Takes
<1>14. Streams(sender[c], q, Tail(w), f)
  BY <1>4, <1>5, <1>12, <1>13, StreamsOn
<1>15. AllFlow'
  BY <1>4, <1>10, <1>11, <1>14, FlowTake DEF files
<1>16. \A g \in DOMAIN temp : temp'[g].there => temp[g].there
  <2>1. temp \in Seq(Temp)
    BY <1>1 DEF TypeOK, Temp
  <2>2. \A g \in DOMAIN temp : temp[g] \in Temp
    BY <2>1
  <2>3. \A g \in DOMAIN temp :
            [temp[g] EXCEPT !.content = Append(@, Head(w))].there = temp[g].there
    BY <2>2 DEF Temp
  <2>4. QED
    BY <1>10, <2>3
<1>17. NoStrayTemp'
  <2>1. DOMAIN temp' = DOMAIN temp
    BY <1>10
  <2>2. QED
    BY <1>1, <1>2, <1>5, <1>11, <1>12, <1>16, <2>1, StrayKept
<1>18. QED
  BY <1>15, <1>17

LEMMA FlowFooter ==
    ASSUME Undisturbed, UInv, NEW c \in Conns, ReadFooter(c)
    PROVE  AllFlow' /\ NoStrayTemp'
<1>1. TypeOK /\ TempOK(c) /\ NoStrayTemp /\ Reading(c)
  BY DEF UInv, IInv, ReadFooter
<1>2. PICK r \in Receiver : r = receiver[c]
  BY <1>1, ConnType
<1>3. PICK w \in Seq(Unit) : w = wire[c]
  BY <1>1, ConnType
<1>4. PICK f \in Inode : Streams(sender[c], r, w, f)
  BY <1>1, <1>2, <1>3, FlowingFile
<1>5. /\ Len(w) >= 2 /\ r.got = 2 + r.f_size /\ r.phase = "connected"
      /\ r.f_size \in Nat
  BY <1>1, <1>2, <1>3 DEF ReadFooter, AtFooter, HeaderPieces, FooterPieces,
                          Reading, Receiver
<1>6. /\ r.f_size = Len(f.content) /\ r.opened
      /\ r.read = SubSeq(f.content, 1, r.got - 2)
  BY <1>4, <1>5 DEF Streams, Takes
<1>7. r.got - 2 = Len(f.content) /\ f.content \in Seq(Piece)
  BY <1>5, <1>6 DEF Inode, Content
<1>8. r.read = f.content
  BY <1>6, <1>7, SubSeqFull
<1>9. w[1] = Murmur3(f.content) /\ w[2] = End
  <2>1. w[1] = Stream(f, r.got + 1) /\ w[2] = Stream(f, r.got + 2)
    BY <1>4, <1>5 DEF Streams, Part
  <2>2. r.got + 1 = Len(f.content) + 3 /\ r.got + 2 = Len(f.content) + 4
    BY <1>5, <1>6
  <2>3. QED
    BY <2>1, <2>2, StreamAt
<1>10. Accepted(r, w[1], w[2])
  BY <1>8, <1>9 DEF Accepted, Murmur3, End
<1>11. Rename(c) /\ UNCHANGED << files, sender, sender_up >>
  BY <1>2, <1>3, <1>6, <1>10 DEF ReadFooter, Finish, Undisturbed
<1>12. sender[c].phase = "closed"
  <2>1. PICK s \in Sender : s = sender[c]
    BY <1>1, ConnType
  <2>2. s.f_buffer \in Seq(Unit)
    BY DEF Sender
  <2>3. PICK n \in Nat, l \in Nat, b \in Nat :
            n = Len(f.content) /\ l = Len(w) /\ b = Len(s.f_buffer)
    BY <1>7, <2>2
  <2>4. ASSUME s.phase = "open" PROVE FALSE
    <3>1. s.f_buffer # << >> /\ r.got + l + b <= n + 4
      BY <1>4, <2>1, <2>3, <2>4 DEF Streams, Sends, Total
    <3>2. b > 0
      BY <2>2, <2>3, <3>1
    <3>3. r.got = 2 + n /\ l >= 2
      BY <1>5, <1>6, <2>3
    <3>4. QED
      BY <3>1, <3>2, <3>3
  <2>5. s.phase \in {"open", "closed"}
    BY <1>1, <2>1, FlowingFile
  <2>6. QED
    BY <2>1, <2>4, <2>5
<1> DEFINE q == [NoReceiver EXCEPT !.phase = "installed"]
<1>13. /\ receiver' = [receiver EXCEPT ![c] = q]
       /\ wire' = [wire EXCEPT ![c] = << >>]
       /\ temp' = [temp EXCEPT ![r.temp] = NoTemp]
  BY <1>2, <1>11 DEF Rename, Close, TempOf
<1>14. q.phase = "installed"
  BY DEF NoReceiver
<1> HIDE DEF q
<1>15. Flows(sender[c], q, << >>, inodes)
  BY <1>12, <1>14 DEF Flows
<1>16. AllFlow'
  BY <1>11, <1>13, <1>15, FlowTake DEF files
<1>17. r.temp \in DOMAIN temp
  BY <1>1, <1>2, <1>5 DEF TempOK
<1>18. NoStrayTemp'
  <2> SUFFICES ASSUME NEW g \in DOMAIN temp', temp'[g].there
               PROVE  \E d \in Conns : /\ receiver'[d].phase = "connected"
                                       /\ receiver'[d].temp = g
    BY DEF NoStrayTemp, TempOf
  <2>1. g \in DOMAIN temp /\ temp'[g] = temp[g] /\ g # r.temp
    BY <1>13, <1>17 DEF NoTemp
  <2>2. PICK d \in Conns : receiver[d].phase = "connected" /\ receiver[d].temp = g
    BY <1>1, <2>1 DEF NoStrayTemp, TempOf
  <2>3. receiver'[d] = receiver[d]
    BY <1>1, <1>2, <1>13, <2>1, <2>2 DEF TypeOK
  <2>4. QED
    BY <2>2, <2>3
<1>19. QED
  BY <1>16, <1>18

-----------------------------------------------------------------------------
(* The theorems about transfers that nothing disturbs. *)

LEMMA FlowHup ==
    ASSUME UInv, NEW c \in Conns
    PROVE  /\ ~ SenderHup(c)
           /\ ~ ProcessWriteThrows(c)
           /\ ~ ReadRestOfFooter(c)
           /\ ~ ReceiverHup(c)
<1>1. TypeOK /\ Flows(sender[c], receiver[c], wire[c], inodes)
  BY DEF UInv, IInv, AllFlow
<1>2. ~ SenderHup(c) /\ ~ ProcessWriteThrows(c)
  BY <1>1 DEF SenderHup, ProcessWriteThrows, Flows, Begins, Streams
<1>3. PICK r \in Receiver : r = receiver[c]
  BY <1>1, ConnType
<1>4. PICK w \in Seq(Unit) : w = wire[c]
  BY <1>1, ConnType
<1>5. r.got \in Nat /\ r.f_size \in Nat /\ Len(w) \in Nat
  BY DEF Receiver
<1>6. ASSUME ReadRestOfFooter(c) PROVE FALSE
  <2>1. PICK f \in Inode : Streams(sender[c], r, w, f)
    BY <1>3, <1>4, <1>6, FlowingFile DEF ReadRestOfFooter
  <2>2. Len(f.content) \in Nat
    BY DEF Inode, Content
  <2>3. r.got = 2 + r.f_size + 1
    BY <1>3, <1>6 DEF ReadRestOfFooter, HeaderPieces
  <2>4. r.f_size = Len(f.content) /\ r.got <= Len(f.content) + 2
    BY <1>5, <2>1, <2>3 DEF Streams, Takes
  <2>5. QED
    BY <2>2, <2>3, <2>4
<1>7. ASSUME ReceiverHup(c) PROVE FALSE
  <2>1. sender[c].phase = "closed" /\ r.phase = "connected"
    BY <1>3, <1>7 DEF ReceiverHup
  <2>2. PICK i \in DOMAIN inodes : Streams(sender[c], r, w, inodes[i])
    BY <1>1, <1>3, <1>4, <2>1 DEF Flows, Begins
  <2>3. PICK n \in Nat : n = Len(inodes[i].content)
    <3>1. inodes[i] \in Inode
      BY <1>1 DEF TypeOK
    <3>2. QED
      BY <3>1 DEF Inode, Content
  <2>4. r.got <= n + 2 /\ r.got + Len(w) = n + 4
    BY <2>1, <2>2, <2>3 DEF Streams, Sends, Takes, Total
  <2>5. Len(w) >= 2
    BY <1>5, <2>4
  <2>6. QED
    BY <1>4, <1>7, <2>5 DEF ReceiverHup, FooterPieces
<1>8. QED
  BY <1>2, <1>6, <1>7

LEMMA FlowServices ==
    ASSUME Undisturbed, UInv, Service
    PROVE  FilesFit' /\ AllFlow' /\ NoStrayTemp'
<1>1. /\ inodes \in Seq(Inode) /\ Len(inodes) \in Nat
      /\ clock + 1 \in Nat /\ FilesFit
  BY DEF UInv, IInv, TypeOK
<1>2. PICK size \in 0..MaxSize, readable \in BOOLEAN : Replace(size, readable)
  BY DEF Service, Undisturbed, Rewrite, Truncate, Remove
<1> DEFINE content == [k \in 1..size |-> Data(clock + 1)]
           f == [content |-> content, mtime |-> clock + 1,
                 readable |-> readable]
<1>3. /\ inodes' = Append(inodes, f) /\ source' = Len(inodes') /\ readable
      /\ UNCHANGED << sender, wire, receiver, temp, target, sender_up >>
  BY <1>2 DEF Replace, Undisturbed
<1>4. Len(content) = size /\ content \in Content
  <2>1. Data(clock + 1) \in Piece
    BY <1>1 DEF Data, Piece
  <2>2. size \in Nat
    BY SizeAssumption
  <2>3. QED
    BY <2>1, <2>2 DEF Content
<1> HIDE DEF content
<1>5. f \in Inode /\ f.readable = readable /\ f.content = content
  BY <1>1, <1>4 DEF Inode
<1> HIDE DEF f
<1>6. /\ Len(inodes') = Len(inodes) + 1 /\ DOMAIN inodes' = 1..(Len(inodes) + 1)
      /\ inodes'[Len(inodes) + 1] = f
      /\ \A i \in 1..Len(inodes) : inodes'[i] = inodes[i]
  BY <1>1, <1>3, <1>5
<1>7. FilesFit'
  <2>1. ASSUME NEW i \in DOMAIN inodes'
        PROVE  inodes'[i].readable /\ Len(inodes'[i].content) <= MaxSize
    <3>1. CASE i = Len(inodes) + 1
      <4>1. inodes'[i] = f /\ f.readable /\ Len(f.content) = size
        BY <1>3, <1>4, <1>5, <1>6, <3>1
      <4>2. size <= MaxSize
        OBVIOUS
      <4>3. QED
        BY <4>1, <4>2
    <3>2. CASE i # Len(inodes) + 1
      <4>1. i \in DOMAIN inodes /\ inodes'[i] = inodes[i]
        BY <1>1, <1>6, <3>2
      <4>2. QED
        BY <1>1, <4>1 DEF FilesFit
    <3>3. QED
      BY <3>1, <3>2
  <2>2. source' # NoInode
    BY <1>1, <1>3, <1>6 DEF NoInode
  <2>3. QED
    BY <1>1, <1>3, <2>1, <2>2 DEF FilesFit
<1>8. AllFlow'
  <2>1. Grown(inodes, inodes')
    BY <1>1, <1>6 DEF Grown
  <2>2. \A c \in Conns : Flows(sender[c], receiver[c], wire[c], inodes')
    BY <1>1, <2>1, FlowsKept, ConnType DEF UInv, IInv, AllFlow
  <2>3. QED
    BY <1>3, <2>2 DEF AllFlow
<1>9. QED
  BY <1>3, <1>7, <1>8, StraySame DEF UInv

LEMMA FlowNext ==
    ASSUME Undisturbed, UInv, [Next]_vars
    PROVE  FilesFit' /\ AllFlow' /\ NoStrayTemp'
<1>1. FilesFit /\ AllFlow /\ NoStrayTemp
  BY DEF UInv
<1>2. ASSUME NEW c \in Conns, UNCHANGED files, sender_up' = sender_up
      PROVE  FilesFit'
  BY <1>1, <1>2 DEF FilesFit, files
<1>3. ASSUME NEW c \in Conns, Serve(c)
      PROVE  FilesFit' /\ AllFlow' /\ NoStrayTemp'
  <2>1. ProcessAccept(c) \/ ProcessRequest(c) \/ ProcessWrite(c)
    BY <1>3, FlowHup DEF Serve, ProcessCutRequest, Undisturbed
  <2>2. AllFlow'
    BY <2>1, FlowAccept, FlowRequest, FlowWrite
  <2>3. UNCHANGED << files, receiver, temp, sender_up >>
    BY <2>1 DEF ProcessAccept, ProcessRequest, ProcessWrite
  <2>4. QED
    BY <1>1, <1>2, <2>2, <2>3, StraySame
<1>4. ASSUME NEW c \in Conns, Receive(c) \/ Connect(c)
      PROVE  FilesFit' /\ AllFlow' /\ NoStrayTemp'
  <2>1. \/ Connect(c) \/ SendRequest(c) \/ ReadHeader(c) \/ ReadNames(c)
        \/ ReadContent(c) \/ ReadFooter(c)
    BY <1>4, FlowHup DEF Receive, ReadCutHeader, ReadPartOfFooter, Undisturbed
  <2>2. AllFlow' /\ NoStrayTemp'
    BY <2>1, FlowConnect, FlowHeader, FlowNames, FlowContent, FlowFooter
  <2>3. UNCHANGED << files, sender_up >>
    BY <2>1 DEF Connect, SendRequest, ReadHeader, ReadNames, ReadContent,
                ReadFooter
  <2>4. QED
    BY <1>2, <2>2, <2>3
<1>5. ASSUME NEW c \in Conns PROVE ~ SenderFails(c) /\ ~ Break(c) /\ ~ Silence(c)
  BY DEF SenderFails, Break, Silence, Undisturbed
<1>6. CASE UNCHANGED vars
  BY <1>1, <1>6 DEF vars, files, FilesFit, AllFlow, NoStrayTemp, TempOf
<1>7. QED
  BY <1>3, <1>4, <1>5, <1>6, FlowServices DEF Next

LEMMA FlowInit ==
    ASSUME Undisturbed, Init
    PROVE  FilesFit /\ AllFlow /\ NoStrayTemp
<1>1. FilesFit
  <2>1. /\ DOMAIN inodes = 1..1 /\ inodes[1].readable
        /\ Len(inodes[1].content) = 1
    BY DEF Init
  <2>2. QED
    <3>1. \A i \in DOMAIN inodes : i = 1
      BY <2>1
    <3>2. 1 <= MaxSize
      BY DEF Undisturbed
    <3>3. \A i \in DOMAIN inodes : /\ inodes[i].readable
                                   /\ Len(inodes[i].content) <= MaxSize
      BY <2>1, <3>1, <3>2
    <3>4. QED
      BY <3>3 DEF Init, FilesFit, NoInode
<1>2. AllFlow
  BY DEF Init, AllFlow, Flows, Begins, NoSender, NoReceiver
<1>3. NoStrayTemp
  BY DEF Init, NoStrayTemp
<1>4. QED
  BY <1>1, <1>2, <1>3

\* Undisturbed, what is in the buffers and the sockets of a connection is all
\* the time the next part of header, names, one file that a service moved into
\* place, hash and mark, and its receiver has the part before it.
THEOREM UndisturbedInvariance == Undisturbed => (Spec => []UInv)
<1> SUFFICES ASSUME Undisturbed PROVE Spec => []UInv
  OBVIOUS
<1>1. Moved
  BY DEF Undisturbed, Moved
<1>2. Init => WholeReads /\ FilesFit /\ AllFlow /\ NoStrayTemp
  BY WholeReadsInit, FlowInit
<1>3. IInv /\ WholeReads /\ FilesFit /\ AllFlow /\ NoStrayTemp /\ [Next]_vars
          => WholeReads' /\ FilesFit' /\ AllFlow' /\ NoStrayTemp'
  BY <1>1, WholeReadsNext, FlowNext DEF UInv
<1>4. IInv /\ WholeReads /\ FilesFit /\ AllFlow /\ NoStrayTemp => UInv
  BY DEF UInv
<1>5. QED
  BY TransferInvariance, <1>2, <1>3, <1>4, PTL DEF Spec

\* Services that only move files into place never see a transfer fail or hang
\* up that nothing breaks: for any connections, buffers and files that f_size
\* can hold, the sockets taking all that process_write() gives them.
THEOREM UndisturbedTransfersSucceed ==
    Undisturbed => (Spec => []UndisturbedSucceeds)
<1> SUFFICES ASSUME Undisturbed PROVE Spec => []UndisturbedSucceeds
  OBVIOUS
<1>1. Spec => []UInv
  BY UndisturbedInvariance
<1>2. UInv => UndisturbedSucceeds
  BY DEF UInv, AllFlow, Flows, Begins, Streams, UndisturbedSucceeds
<1>3. QED
  BY <1>1, <1>2, PTL

\* And none of them leaves a temporary file behind: each of these belongs to a
\* data_receiver that is still at work.
THEOREM UndisturbedLeavesNoTemp == Undisturbed => (Spec => []NoStrayTemp)
<1> SUFFICES ASSUME Undisturbed PROVE Spec => []NoStrayTemp
  OBVIOUS
<1>1. Spec => []UInv
  BY UndisturbedInvariance
<1>2. UInv => NoStrayTemp
  BY DEF UInv
<1>3. QED
  BY <1>1, <1>2, PTL

=============================================================================
