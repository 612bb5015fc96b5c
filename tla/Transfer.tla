------------------------------ MODULE Transfer ------------------------------
(***************************************************************************)
(* The transfer of one file from the computer that announced it to one     *)
(* that heard of it: daemon/data_sender.cpp and daemon/data_receiver.cpp   *)
(* on the two ends of a TCP connection, the local services that write the  *)
(* file meanwhile, and several connections for the same file at once, as   *)
(* several announcements make them.  A connection carries                  *)
(*                                                                         *)
(*     header  names  content ...  murmur3  END!                           *)
(*                                                                         *)
(* and each of these is one piece here, the content being a sequence of    *)
(* them.  The socket takes and gives whole pieces, of any number; a read   *)
(* that gives a part of a piece matters only where the code does not store *)
(* the rest where it belongs, and Cuts says whether that happens.          *)
(***************************************************************************)
EXTENDS Integers, Sequences, FiniteSets

CONSTANTS
    Conns,          \* the connections, each used once
    Writes,         \* what services do: "replace", "rewrite", "truncate",
                    \* "remove", "restrict"
    Faults,         \* what fails: "break" (connections, and each call whose
                    \* result the code looks at), "write" and "utimensat" (whose
                    \* results it does not act on), "silence" (a computer or
                    \* the network, without a word)
    Cuts,           \* what may arrive in two reads: "request", "header",
                    \* "names", "footer"
    SocketBuffer,   \* pieces the sockets hold that nobody read
    BufferSize,     \* pieces data_sender::f_buffer holds
    SizeLimit,      \* the first size data_header::f_size cannot hold, 2^32
    MaxSize,        \* bound: pieces in a file
    MaxClock        \* bound: times the file is written

ASSUME SwitchAssumption ==
    /\ Faults \subseteq {"break", "write", "utimensat", "silence"}
    /\ Cuts \subseteq {"request", "header", "names", "footer"}
ASSUME SizeAssumption ==
    /\ {SocketBuffer, BufferSize, SizeLimit} \subseteq Nat \ {0}
    /\ {MaxSize, MaxClock} \subseteq Nat

VARIABLES
    inodes,         \* inodes[i]: a file that has or had the name at the source
    source,         \* the inode that has the name now, or NoInode
    clock,          \* the latest modification time
    sender,         \* sender[c]: the data_sender of connection c
    wire,           \* wire[c]: what was written to c and not read yet
    receiver,       \* receiver[c]: the data_receiver of connection c
    temp,           \* temp[g]: the temporary file with g_identifier g
    target,         \* the file of that name at the other computer
    sender_up       \* whether the daemon of the source runs

files == << inodes, source, clock >>
vars == << inodes, source, clock, sender, wire, receiver, temp, target,
           sender_up >>

-----------------------------------------------------------------------------
(* Data. *)

\* A piece of content is the time of the write it comes from.
Data(v)        == [kind |-> "data", value |-> v]
Header(t, n)   == [kind |-> "header", value |-> << t, n >>]
Names          == [kind |-> "names", value |-> << >>]
Murmur3(read)  == [kind |-> "murmur3", value |-> read]
End            == [kind |-> "end", value |-> << >>]
\* What f_buffer holds before anything was put in it.
Zeros          == [kind |-> "zeros", value |-> << >>]

NoInode == 0

\* data_sender: f_input is the inode that f_input has open; f_mtime is the
\* time open() found; offset and eof are the state of the ifstream; read is
\* what was added to f_murmur3, two sequences having one hash only if equal.
NoSender == [phase |-> "none", f_input |-> NoInode, f_mtime |-> 0,
             f_buffer |-> << >>, f_position |-> 0, offset |-> 0,
             eof |-> FALSE, read |-> << >>, f_sent_footer |-> FALSE]

\* data_receiver: asked is f_request.empty(); got counts the pieces in
\* f_received_bytes; f_mtime and f_size are from f_header; temp is the number
\* in f_receiving_filename, 0 for an empty name; opened is f_output.is_open();
\* good is f_output.good(); read is what was added to f_murmur3; f_footer is
\* what is in there of the hash, nothing at first.
NoReceiver == [phase |-> "none", asked |-> FALSE, got |-> 0, f_mtime |-> 0,
               f_size |-> 0, temp |-> 0, opened |-> FALSE, good |-> TRUE,
               read |-> << >>, f_footer |-> End]

\* failed says which of the calls that made the file failed all the same.
NoFile == [there |-> FALSE, content |-> << >>, mtime |-> 0, failed |-> {}]
NoTemp == [there |-> FALSE, content |-> << >>]

\* The data_sender is gone; of one that sent everything, what it read and the
\* time it sent are kept to be compared with.
Ended(s, phase) ==
    IF s.f_sent_footer
    THEN [NoSender EXCEPT !.phase = phase, !.f_mtime = s.f_mtime,
                          !.read = s.read, !.f_sent_footer = TRUE]
    ELSE [NoSender EXCEPT !.phase = phase]

\* The connection is closed; or nothing comes from it any more, not even that.
Closed(s) == Ended(s, "closed")
Silent(s) == Ended(s, "silent")

\* The room of the sockets, and the pieces of the header and of the footer.
Room(c) == SocketBuffer - Len(wire[c])
HeaderPieces == 2
FooterPieces == 2

Least(a, b) == IF a < b THEN a ELSE b

-----------------------------------------------------------------------------
Init ==
    /\ clock = 1
    /\ inodes = << [content |-> << Data(1) >>, mtime |-> 1,
                    readable |-> TRUE] >>
    /\ source = 1
    /\ sender = [c \in Conns |-> NoSender]
    /\ wire = [c \in Conns |-> << >>]
    /\ receiver = [c \in Conns |-> NoReceiver]
    /\ temp = << >>
    /\ target = NoFile
    /\ sender_up = TRUE

(***************************************************************************)
(* The local services of the source (external).                            *)
(***************************************************************************)
Tick == clock < MaxClock /\ clock' = clock + 1

\* A new file is moved to the name; who has the old one open keeps it.
Replace(size, readable) ==
    /\ Tick
    /\ "replace" \in Writes
    /\ readable \/ "restrict" \in Writes
    /\ inodes' = Append(inodes,
                    [content |-> [k \in 1..size |-> Data(clock + 1)],
                     mtime |-> clock + 1, readable |-> readable])
    /\ source' = Len(inodes')
    /\ UNCHANGED << sender, wire, receiver, temp, target, sender_up >>

\* The file is written at piece k, in place.
Rewrite(k) ==
    /\ Tick
    /\ "rewrite" \in Writes
    /\ source # NoInode
    /\ k <= Len(inodes[source].content) + 1
    /\ LET old == inodes[source].content
       IN  inodes' = [inodes EXCEPT
             ![source].content = [j \in 1..(IF k > Len(old) THEN k
                                                            ELSE Len(old)) |->
                                     IF j = k THEN Data(clock + 1)
                                              ELSE old[j]],
             ![source].mtime = clock + 1]
    /\ UNCHANGED << source, sender, wire, receiver, temp, target, sender_up >>

\* The file is opened again with O_TRUNC.
Truncate ==
    /\ Tick
    /\ "truncate" \in Writes
    /\ source # NoInode
    /\ inodes' = [inodes EXCEPT ![source].content = << >>,
                                ![source].mtime = clock + 1]
    /\ UNCHANGED << source, sender, wire, receiver, temp, target, sender_up >>

Remove ==
    /\ "remove" \in Writes
    /\ source # NoInode
    /\ source' = NoInode
    /\ UNCHANGED << inodes, clock, sender, wire, receiver, temp, target,
                    sender_up >>

-----------------------------------------------------------------------------
(***************************************************************************)
(* Connecting and asking for the file.                                     *)
(***************************************************************************)

\* receive_file() makes a data_receiver, which connects.
Connect(c) ==
    /\ receiver[c].phase = "none"
    /\ sender_up
    /\ receiver' = [receiver EXCEPT ![c].phase = "connected"]
    /\ UNCHANGED << files, sender, wire, temp, target, sender_up >>

\* data_receiver::process_write(): the request leaves.
SendRequest(c) ==
    /\ receiver[c].phase = "connected"
    /\ ~ receiver[c].asked
    /\ receiver' = [receiver EXCEPT ![c].asked = TRUE]
    /\ UNCHANGED << files, sender, wire, temp, target, sender_up >>

\* data_server::process_accept().
ProcessAccept(c) ==
    /\ sender_up
    /\ sender[c].phase = "none"
    /\ receiver[c].phase = "connected"
    /\ sender' = [sender EXCEPT ![c].phase = "open"]
    /\ UNCHANGED << files, wire, receiver, temp, target, sender_up >>

(***************************************************************************)
(* data_sender::open().                                                    *)
(***************************************************************************)

\* The stat() and the opening of the file work: the header and the names are
\* in f_buffer, with what f_size can hold of the size.
OpenFile(s) ==
    LET inode == inodes[source]
    IN  [s EXCEPT !.f_input = source, !.f_mtime = inode.mtime,
                  !.f_buffer = << Header(inode.mtime,
                                         Len(inode.content) % SizeLimit),
                                  Names >>]

\* f_size is set, and f_input.open() fails after that.
OpenFails(s) == [s EXCEPT !.f_buffer = << Zeros, Zeros >>]

\* The sender's daemon ends, and with it all its connections.
SenderStops ==
    /\ sender_up' = FALSE
    /\ sender' = [d \in Conns |-> IF sender[d].phase = "silent"
                                  THEN sender[d] ELSE Closed(sender[d])]

\* There is a request to read.
Asked(c) ==
    /\ sender_up
    /\ sender[c].phase = "open"
    /\ sender[c].f_input = NoInode /\ sender[c].f_buffer = << >>
    /\ receiver[c].asked

\* data_sender::process_read(): the request came; the identifier is not in
\* the table any more, or open() is called, and nothing is done if it fails.
ProcessRequest(c) ==
    /\ Asked(c)
    /\ \/ source # NoInode /\ inodes[source].readable
          /\ sender' = [sender EXCEPT ![c] = OpenFile(@)]
       \/ source # NoInode /\ ~ inodes[source].readable
          /\ sender' = [sender EXCEPT ![c] = OpenFails(@)]
       \* deleted_file() took the entry away
       \/ source = NoInode
          /\ sender' = [sender EXCEPT ![c] = Closed(@)]
       \* it did not yet, and stat() fails; or the owner of the file has no name
       \/ (source = NoInode \/ "break" \in Faults)
          /\ sender' = [sender EXCEPT ![c].phase = "idle"]
    /\ UNCHANGED << files, wire, receiver, temp, target, sender_up >>

\* The rest of the request is stored behind f_file_request, since the pointer
\* moves by whole requests: the end of f_id is missing, and no file has such
\* an identifier; or what is written over, f_filename first, ends the daemon.
ProcessCutRequest(c) ==
    /\ "request" \in Cuts
    /\ Asked(c)
    /\ \/ SenderStops
       \/ sender' = [sender EXCEPT ![c] = Closed(@)] /\ UNCHANGED sender_up
    /\ UNCHANGED << files, wire, receiver, temp, target >>

(***************************************************************************)
(* data_sender::process_write().                                           *)
(***************************************************************************)

\* The footer, once there is nothing more to read.
Footer(s) == [s EXCEPT !.f_buffer = << Murmur3(s.read), End >>,
                       !.f_position = 0, !.eof = TRUE, !.f_sent_footer = TRUE]

\* The next block of the file; read() sets eof when it asks for more than
\* there is.
Block(s) ==
    LET content == inodes[s.f_input].content
    IN  SubSeq(content, s.offset + 1,
               Least(s.offset + BufferSize, Len(content)))
FillBuffer(s) ==
    [s EXCEPT !.f_buffer = Block(s), !.f_position = 0,
              !.offset = @ + Len(Block(s)), !.read = @ \o Block(s),
              !.eof = Len(Block(s)) < BufferSize]
\* Mutants: an empty block at the end of the file is not taken for the end;
\* the position is not reset; the file is thought to end with its first block.
NextBufferNotEmpty(s) ==
    IF s.eof \/ Block(s) # << >> THEN IF s.eof THEN Footer(s) ELSE FillBuffer(s)
    ELSE [s EXCEPT !.f_buffer = << >>, !.eof = TRUE]
NextBufferKeepsPosition(s) ==
    IF s.eof \/ Block(s) = << >> THEN Footer(s)
    ELSE [FillBuffer(s) EXCEPT !.f_position = s.f_position]
NextBufferOnce(s) ==
    IF s.eof \/ Block(s) = << >> THEN Footer(s)
    ELSE [FillBuffer(s) EXCEPT !.eof = TRUE]
NextBuffer(s) ==
    IF s.eof \/ Block(s) = << >> THEN Footer(s) ELSE FillBuffer(s)

\* What a write() of n pieces takes: always the start of f_buffer.
Written(s, n) == SubSeq(s.f_buffer, 1, n)

\* One turn of the loop: write, and prepare the next buffer or close the
\* connection when this one is all written.
ProcessWrite(c) ==
    LET s == sender[c]
        left == Len(s.f_buffer) - s.f_position
        n == Least(left, Room(c))
        written == [s EXCEPT !.f_position = @ + n]
    IN  /\ sender_up
        /\ receiver[c].phase = "connected"
        /\ s.phase = "open" /\ s.f_buffer # << >>
        /\ s.f_input # NoInode
        /\ n > 0
        /\ wire' = [wire EXCEPT ![c] = @ \o Written(s, n)]
        /\ sender' = [sender EXCEPT ![c] =
               IF n < left THEN written
               ELSE IF s.f_sent_footer THEN Closed(s)
               ELSE NextBuffer(written)]
        /\ UNCHANGED << files, receiver, temp, target, sender_up >>

\* The file is not open: a logic_error that nobody catches before main().
ProcessWriteThrows(c) ==
    /\ sender_up
    /\ sender[c].phase = "open" /\ sender[c].f_buffer # << >>
    /\ sender[c].f_input = NoInode
    /\ SenderStops
    /\ UNCHANGED << files, wire, receiver, temp, target >>

\* A write() or the read() of the file fails: data_sender::process_error().
SenderFails(c) ==
    /\ "break" \in Faults
    /\ sender_up
    /\ sender[c].phase = "open" /\ sender[c].f_buffer # << >>
    /\ sender[c].f_input # NoInode
    /\ sender' = [sender EXCEPT ![c] = Closed(@)]
    /\ UNCHANGED << files, wire, receiver, temp, target, sender_up >>

\* The other end is gone: write() fails, or the connection hangs up.
SenderHup(c) ==
    /\ sender_up
    /\ sender[c].phase \in {"open", "idle"}
    /\ receiver[c].phase # "connected"
    /\ sender' = [sender EXCEPT ![c] = Closed(@)]
    /\ UNCHANGED << files, wire, receiver, temp, target, sender_up >>

-----------------------------------------------------------------------------
(***************************************************************************)
(* data_receiver::process_read(), one action for each block of its code.   *)
(* It reads as long as there is something to read; that the loop may get   *)
(* here again in one call or in several makes no difference to the state.  *)
(* Where the code adds to a pointer to a whole structure, the rest of one  *)
(* that comes in two reads is stored behind it, and may end the daemon.    *)
(***************************************************************************)
TempOf(c) == receiver[c].temp

\* The connection of c is closed, and what was under way in it is lost.
Close(c, phase) ==
    /\ receiver' = [receiver EXCEPT ![c] = [NoReceiver EXCEPT !.phase = phase]]
    /\ wire' = [wire EXCEPT ![c] = << >>]

\* data_receiver::process_error(): the temporary file is unlinked.
\* Mutant: it is not.
ProcessErrorKeepsTemp(c) ==
    /\ Close(c, "failed")
    /\ UNCHANGED << temp, target >>
ProcessError(c) ==
    /\ Close(c, "failed")
    /\ temp' = [g \in DOMAIN temp |-> IF g = TempOf(c) THEN NoTemp ELSE temp[g]]
    /\ UNCHANGED target

\* The receiver's daemon ends, and with it all its connections.
ReceiverStops ==
    /\ receiver' = [d \in Conns |->
           IF receiver[d].phase = "connected"
           THEN [NoReceiver EXCEPT !.phase = "gone"] ELSE receiver[d]]
    /\ wire' = [d \in Conns |-> << >>]
    /\ UNCHANGED << temp, target >>

Reading(c) == receiver[c].phase = "connected" /\ wire[c] # << >>

\* ++g_identifier, for a name no other connection has.
\* Mutant: every connection for the file uses one temporary name.
SameIdentifier == IF temp = << >> THEN << NoTemp >> ELSE temp
NextIdentifier == Append(temp, NoTemp)

\* The magic and the identifier are looked at; the read may fail.
ReadHeader(c) ==
    LET u == Head(wire[c])
    IN  /\ Reading(c)
        /\ receiver[c].got = 0
        /\ \/ (u.kind # "header" \/ "break" \in Faults) /\ ProcessError(c)
           \/ /\ u.kind = "header"
              /\ temp' = NextIdentifier
              /\ receiver' = [receiver EXCEPT
                    ![c].got = 1, ![c].temp = Len(temp'),
                    ![c].f_mtime = u.value[1], ![c].f_size = u.value[2]]
              /\ wire' = [wire EXCEPT ![c] = Tail(@)]
              /\ UNCHANGED target
        /\ UNCHANGED << files, sender, sender_up >>

\* The fields behind the cut keep their defaults: the identifier is 0, which
\* no file has; or at least the lengths of the names are, and the block that
\* reads the names and opens the temporary file is passed over.
ReadCutHeader(c) ==
    LET u == Head(wire[c])
    IN  /\ "header" \in Cuts
        /\ Reading(c)
        /\ receiver[c].got = 0 /\ u.kind = "header"
        /\ \/ ProcessError(c)
           \/ ReceiverStops
           \/ \E t \in {0, u.value[1]}, n \in 0..u.value[2] :
                 /\ temp' = NextIdentifier
                 /\ receiver' = [receiver EXCEPT
                       ![c].got = HeaderPieces, ![c].temp = Len(temp'),
                       ![c].f_mtime = t, ![c].f_size = n]
                 /\ wire' = [wire EXCEPT ![c] = Tail(@)]
                 /\ UNCHANGED target
        /\ UNCHANGED << files, sender, sender_up >>

\* The login is compared, and the temporary file opened and truncated; the
\* login of a sender may be another, as may one in names that are stored over
\* each other, and the file may fail to open.  After a header that was cut
\* behind the length of the user's name only that is read here, and the names
\* are, in part, still to come.
ReadNames(c) ==
    /\ Reading(c)
    /\ receiver[c].got = 1
    /\ \/ ("break" \in Faults \/ "names" \in Cuts) /\ ProcessError(c)
       \/ /\ receiver' = [receiver EXCEPT ![c].got = HeaderPieces,
                                          ![c].opened = TRUE]
          /\ temp' = [temp EXCEPT ![TempOf(c)] =
                         [there |-> TRUE, content |-> << >>]]
          /\ \/ wire' = [wire EXCEPT ![c] = Tail(@)]
             \/ "header" \in Cuts /\ UNCHANGED wire
          /\ UNCHANGED target
    /\ UNCHANGED << files, sender, sender_up >>

\* f_output.write(): the piece u goes nowhere if f_output is not open, and
\* from the write that fails on nothing does.  What close() could not write is
\* taken for a write that failed when its turn was.
Write(c, u) ==
    \/ /\ receiver[c].opened /\ receiver[c].good
       /\ receiver' = [receiver EXCEPT ![c].got = @ + 1,
                                       ![c].read = Append(@, u)]
       /\ temp' = [temp EXCEPT ![TempOf(c)].content = Append(@, u)]
    \/ /\ ~ receiver[c].opened \/ ~ receiver[c].good \/ "write" \in Faults
       /\ receiver' = [receiver EXCEPT ![c].got = @ + 1,
                                       ![c].read = Append(@, u),
                                       ![c].good = FALSE]
       /\ UNCHANGED temp

\* A piece of content, whatever it was when it was sent: what was received is
\* added to the hash, and nobody looks at how the write() went.
ReadContent(c) ==
    /\ Reading(c)
    /\ receiver[c].got \in HeaderPieces..(HeaderPieces + receiver[c].f_size - 1)
    /\ Write(c, Head(wire[c]))
    /\ wire' = [wire EXCEPT ![c] = Tail(@)]
    /\ UNCHANGED << files, sender, target, sender_up >>

\* Whether the footer received, hash and mark, is the one expected.
\* Mutant: the mark is looked at, the hash is not.
AcceptedUnchecked(r, hash, mark) == mark.kind = "end"
Accepted(r, hash, mark) ==
    mark.kind = "end" /\ hash.kind = "murmur3" /\ hash.value = r.read

\* The owner, the mode and the time are set; then rename(), whatever failed of
\* that or of the writes before.  Without utimensat() the time is the one of the
\* last write, by the clock here, which is later than what was received.
Rename(c) ==
    /\ \E failed \in SUBSET (Faults \cap {"utimensat"}) :
           target' = [there |-> TRUE, content |-> temp[TempOf(c)].content,
                      mtime |-> IF failed = {} THEN receiver[c].f_mtime
                                               ELSE clock + 1,
                      failed |-> failed \cup
                          (IF receiver[c].good THEN {} ELSE {"write"})]
    /\ temp' = [temp EXCEPT ![TempOf(c)] = NoTemp]
    /\ Close(c, "installed")

\* There is a file to rename, unless it was never opened; rename() may fail.
Finish(c, hash, mark) ==
    \/ ~ Accepted(receiver[c], hash, mark) /\ ProcessError(c)
    \/ /\ Accepted(receiver[c], hash, mark)
       /\ \/ receiver[c].opened /\ Rename(c)
          \/ ("break" \in Faults \/ ~ receiver[c].opened)
             /\ ProcessError(c)

AtFooter(c) == receiver[c].got = HeaderPieces + receiver[c].f_size

ReadFooter(c) ==
    /\ Reading(c)
    /\ AtFooter(c)
    /\ Len(wire[c]) >= FooterPieces
    /\ Finish(c, wire[c][1], wire[c][2])
    /\ UNCHANGED << files, sender, sender_up >>

\* A read gives a part of the footer only.
ReadPartOfFooter(c) ==
    /\ "footer" \in Cuts
    /\ Reading(c)
    /\ AtFooter(c)
    /\ receiver' = [receiver EXCEPT ![c].got = @ + 1,
                                    ![c].f_footer = Head(wire[c])]
    /\ wire' = [wire EXCEPT ![c] = Tail(@)]
    /\ UNCHANGED << files, sender, temp, target, sender_up >>

\* The rest of the footer is stored behind f_footer: the mark is the one
\* f_footer was made with, and the hash may lack its end.
ReadRestOfFooter(c) ==
    /\ Reading(c)
    /\ receiver[c].got = HeaderPieces + receiver[c].f_size + 1
    /\ \/ Finish(c, receiver[c].f_footer, End)
       \/ ProcessError(c)
       \/ ReceiverStops
    /\ UNCHANGED << files, sender, sender_up >>

\* The sender closed the connection, and what came does not make a block:
\* the connection is removed, and the temporary file stays.
ReceiverHup(c) ==
    /\ receiver[c].phase = "connected"
    /\ sender[c].phase = "closed"
    /\ \/ wire[c] = << >>
       \/ AtFooter(c) /\ Len(wire[c]) < FooterPieces
    /\ Close(c, "gone")
    /\ UNCHANGED << files, sender, temp, target, sender_up >>

(***************************************************************************)
(* The connection breaks: each end finds an error or a hang up.            *)
(***************************************************************************)
Break(c) ==
    /\ "break" \in Faults
    /\ receiver[c].phase = "connected"
    /\ sender[c].phase # "none"
    /\ sender' = [sender EXCEPT ![c] = Closed(@)]
    /\ \/ ProcessError(c)
       \/ Close(c, "gone") /\ UNCHANGED << temp, target >>
    /\ UNCHANGED << files, sender_up >>

(***************************************************************************)
(* The computer of the sender, or the network, is gone without a word.     *)
(* What was on its way arrives, or the start of it; the receiver is not    *)
(* told, and has no timeout.  The sender's own end of a broken network is  *)
(* left out.                                                               *)
(***************************************************************************)
Silence(c) ==
    /\ "silence" \in Faults
    /\ receiver[c].phase = "connected"
    /\ sender[c].phase # "silent"
    /\ sender' = [sender EXCEPT ![c] = Silent(@)]
    /\ \E n \in 0..Len(wire[c]) : wire' = [wire EXCEPT ![c] = SubSeq(@, 1, n)]
    /\ UNCHANGED << files, receiver, temp, target, sender_up >>

-----------------------------------------------------------------------------
Service ==
    \/ \E size \in 0..MaxSize, readable \in BOOLEAN : Replace(size, readable)
    \/ \E k \in 1..MaxSize : Rewrite(k)
    \/ Truncate
    \/ Remove

\* What the event loops of the two daemons do for a connection.
Serve(c) ==
    \/ ProcessAccept(c)
    \/ ProcessRequest(c)
    \/ ProcessCutRequest(c)
    \/ ProcessWrite(c)
    \/ ProcessWriteThrows(c)
    \/ SenderHup(c)
Receive(c) ==
    \/ SendRequest(c)
    \/ ReadHeader(c)
    \/ ReadCutHeader(c)
    \/ ReadNames(c)
    \/ ReadContent(c)
    \/ ReadFooter(c)
    \/ ReadPartOfFooter(c)
    \/ ReadRestOfFooter(c)
    \/ ReceiverHup(c)

Next ==
    \/ Service
    \/ \E c \in Conns :
           \/ Connect(c)
           \/ Serve(c)
           \/ Receive(c)
           \/ SenderFails(c)
           \/ Break(c)
           \/ Silence(c)

Spec == Init /\ [][Next]_vars

(***************************************************************************)
(* Both event loops serve every connection that poll() returns, for        *)
(* reading, for writing while is_writer() says so, or hung up.             *)
(***************************************************************************)
Fairness == \A c \in Conns : WF_vars(Serve(c)) /\ WF_vars(Receive(c))

FairSpec == Spec /\ Fairness

-----------------------------------------------------------------------------
(* Properties. *)

Piece == [kind : {"data"}, value : Nat]
Content == Seq(Piece)
Unit == Piece \cup [kind : {"header"}, value : Nat \X Nat]
              \cup [kind : {"murmur3"}, value : Content]
              \cup [kind : {"names", "end", "zeros"}, value : {<< >>}]

Inode == [content : Content, mtime : Nat, readable : BOOLEAN]
Sender == [phase : {"none", "open", "idle", "closed", "silent"}, f_input : Nat,
           f_mtime : Nat, f_buffer : Seq(Unit), f_position : Nat,
           offset : Nat, eof : BOOLEAN, read : Content,
           f_sent_footer : BOOLEAN]
Receiver == [phase : {"none", "connected", "installed", "failed", "gone"},
             asked : BOOLEAN, got : Nat, f_mtime : Nat, f_size : Nat,
             temp : Nat, opened : BOOLEAN, good : BOOLEAN, read : Seq(Unit),
             f_footer : Unit]
File == [there : BOOLEAN, content : Seq(Unit), mtime : Nat,
         failed : SUBSET {"write", "utimensat"}]

\* The two ends, the files and the temporary files have the shape the code
\* gives them; a sender has open only a file that is or was there, its
\* position is in its buffer, and nobody writes more than the sockets take.
TypeOK ==
    /\ clock \in Nat
    /\ inodes \in Seq(Inode)
    /\ source \in 0..Len(inodes)
    /\ sender \in [Conns -> Sender]
    /\ receiver \in [Conns -> Receiver]
    /\ wire \in [Conns -> Seq(Unit)]
    /\ temp \in Seq([there : BOOLEAN, content : Seq(Unit)])
    /\ target \in File
    /\ sender_up \in BOOLEAN
    /\ \A c \in Conns :
           /\ sender[c].f_input <= Len(inodes)
           /\ sender[c].f_position <= Len(sender[c].f_buffer)
           /\ Len(wire[c]) <= SocketBuffer

\* The file of the other computer comes from one data_sender that read up to
\* the end of its file: it is, piece by piece, what that one read unless a
\* write() failed, and has the time of that file unless utimensat() did,
\* whatever is written twice, read in parts, cut, broken off or hung up on the
\* way, too big for f_size, and however many transfers of the file go on.
\* The hash is of what was received: it keeps nothing of what was not written
\* from being installed.
InstalledAsRead ==
    target.there => \E c \in Conns :
        /\ sender[c].f_sent_footer
        /\ "write" \notin target.failed => target.content = sender[c].read
        /\ "utimensat" \notin target.failed => target.mtime = sender[c].f_mtime

\* Services that only move whole files into place never see a transfer fail
\* that nothing breaks, if f_size can hold the sizes.
UndisturbedSucceeds ==
    Writes \subseteq {"replace"} /\ Faults = {} /\ MaxSize < SizeLimit
        => \A c \in Conns : receiver[c].phase \notin {"failed", "gone"}

\* A temporary file belongs to a transfer that is under way.
NoStrayTemp ==
    \A g \in DOMAIN temp : temp[g].there =>
        \E c \in Conns : receiver[c].phase = "connected" /\ TempOf(c) = g

\* Whatever fails, only a transfer whose sender hung up too early, or whose
\* own daemon ended, leaves a temporary file: no more of them are there than
\* transfers that are under way or ended so.
StraysOfHangups ==
    Cardinality({g \in DOMAIN temp : temp[g].there})
        <= Cardinality({c \in Conns : receiver[c].phase \in {"connected", "gone"}})

\* process_write() is only called with the file open, as it says it expects:
\* is_writer() is false in a connection that has not opened it.
WriterIsOpen ==
    \A c \in Conns : sender[c].phase = "open" /\ sender[c].f_buffer # << >>
                         => sender[c].f_input # NoInode

\* A transfer that was started comes to an end, whatever is written to the
\* file or breaks meanwhile, but for two cases.  If stat() failed in open(),
\* process_read() does not look at what open() returns, and then nothing ever
\* happens; and nothing does if the other end is gone without a word, for
\* want of the timeout that TODO.md:16-18 asks for.
TransferEnds ==
    \A c \in Conns :
        receiver[c].phase = "connected"
            ~> \/ receiver[c].phase # "connected"
               \/ sender[c].phase \in {"idle", "silent"}

\* The transfers of one file, seen from the directories only.
Atomic == INSTANCE AtomicCopy WITH
    versions <- [i \in DOMAIN inodes |->
                    << inodes[i].content, inodes[i].mtime >>],
    copy <- IF target.there THEN << target.content, target.mtime >> ELSE << >>

\* When services only move whole files into place, the other computer only
\* ever has one of these files, whole and with its own time.
ImplementsAtomicCopy == Atomic!Spec
=============================================================================
