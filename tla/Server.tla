------------------------------- MODULE Server -------------------------------
(***************************************************************************)
(* The snaprfs daemons of a cluster, one per node: the table of shared     *)
(* files and the modified_timer of daemon/server.cpp, the messages that    *)
(* daemon/messenger.cpp dispatches, the inotify events that                *)
(* daemon/file_listener.cpp turns into calls of the server, and the life   *)
(* of a transfer as far as the server sees it.  Each daemon is a single    *)
(* threaded event loop, so one handler is one action; what interleaves is  *)
(* the handlers of different nodes, the local services that write in the   *)
(* watched directories, and the transfers.                                 *)
(***************************************************************************)
EXTENDS Integers, Sequences, FiniteSets, SequencesExt

CONSTANTS
    Nodes,          \* the computers of the cluster, one daemon each
    Files,          \* the file names the local services use
    Ids,            \* the values a shared_file::f_id takes
    NoName,         \* the name of a shared_file that does not exist
    SendOnly,       \* nodes whose path has path_mode=send-only
    ReceiveOnly,    \* ... path_mode=receive-only
    Latest,         \* ... path_mode=latest
    DeleteApply,    \* nodes whose path has delete_mode=apply
    Users,          \* nodes with local services that touch the files
    Faults,         \* whether messages, transfers and daemons fail
    Overtaking,     \* whether two transfers of one file finish in any order
    MaxClock,       \* bound: versions written by local services
    MaxEvents,      \* bound: inotify events waiting on a node
    MaxMessages,    \* bound: messages waiting between two nodes
    MaxReceivers    \* bound: data_receiver connections of a node

ASSUME FiniteAssumption == IsFiniteSet(Ids) /\ IsFiniteSet(Files)
ASSUME NameAssumption == NoName \notin Files
ASSUME ModeAssumption ==
    /\ SendOnly \cup ReceiveOnly \cup Latest \cup DeleteApply \cup Users
           \subseteq Nodes
    /\ SendOnly \cap ReceiveOnly = {}
    /\ SendOnly \cap Latest = {}
    /\ ReceiveOnly \cap Latest = {}
ASSUME BoundAssumption ==
    /\ {Faults, Overtaking} \subseteq BOOLEAN
    /\ {MaxClock, MaxEvents, MaxMessages, MaxReceivers} \subseteq Nat

VARIABLES
    clock,              \* the latest modification time a local write used
    disk,               \* disk[n][f]: modification time of f on n, or Absent
    local,              \* ghost: a local service of n wrote disk[n][f]
    events,             \* events[n]: inotify events process_event has not seen
    file,               \* file[n][i]: the shared_file of n with identifier i
    f_files,            \* f_files[n]: identifiers in the server's table
    f_modified_files,   \* f_modified_files[n]: identifiers in the timer's set
    channel,            \* channel[s][d]: messages from s that d has not read
    receivers           \* receivers[n]: the data_receiver connections of n

vars == << clock, disk, local, events, file, f_files, f_modified_files,
           channel, receivers >>

-----------------------------------------------------------------------------
(***************************************************************************)
(* Data.  A version of a file is its modification time: every write gets a *)
(* time of its own, and a copy keeps the time of its original, so two      *)
(* files of one name and one time have the same content.                   *)
(***************************************************************************)
Absent == 0

\* f_stat is the version in the last stat() that worked, Absent before the
\* first one; updated is f_last_updated > f_start_sharing; shared is the
\* version that was on disk at f_start_sharing when it was last announced.
SharedFile == [name: Files \cup {NoName}, stat: Nat, updated: BOOLEAN,
               shared: Nat]
NoFile == [name |-> NoName, stat |-> Absent, updated |-> FALSE,
           shared |-> Absent]
NewFile(f) == [NoFile EXCEPT !.name = f]

\* modified stands for WRITE, CREATED and EXISTS, updated for UPDATED.
Event == [name: Files, kind: {"modified", "updated", "deleted"}]

\* msg_file_changed() refuses a time that is not above 0.
Message == [cmd: {"changed"}, name: Files, id: Ids, mtime: Nat \ {Absent}]
           \cup [cmd: {"deleted"}, name: Files]
DeletedMessage(f) == [cmd |-> "deleted", name |-> f]

\* version is the one the sender opened, Absent until it did.
Receiver == [name: Files, src: Nodes, id: Ids, version: Nat]

\* load_setup() watches every path that is not receive-only, and watches for
\* deletions when delete_mode is apply; a node in no mode has no such path.
\* Mutant: the path_mode is not looked at.
WatchedAnyMode(n) == n \in SendOnly \cup ReceiveOnly \cup Latest
Watched(n)  == n \in SendOnly \cup Latest
Receives(n) == n \in ReceiveOnly \cup Latest
Applies(n)  == n \in DeleteApply /\ (Watched(n) \/ Receives(n))
WatchesDeletion(n) == Watched(n) /\ n \in DeleteApply

\* inotify queues an event unless it equals the last one still queued.
Queue(q, e) == IF q # << >> /\ q[Len(q)] = e THEN q ELSE Append(q, e)

\* A change of kind k of file f on node n reaches the listener.
Notify(n, f, k) ==
    LET q == Queue(events[n], [name |-> f, kind |-> k])
    IN  /\ Len(q) <= MaxEvents
        /\ events' = [events EXCEPT ![n] = q]
NotifyWhen(watched, n, f, k) ==
    IF watched THEN Notify(n, f, k) ELSE UNCHANGED events

\* send_message() to the other snaprfs services of the cluster.
Broadcast(n, msgs) ==
    /\ \A d \in Nodes \ {n} : Len(channel[n][d] \o msgs) <= MaxMessages
    /\ channel' = [channel EXCEPT ![n] = [d \in Nodes |->
                      IF d = n THEN channel[n][d] ELSE channel[n][d] \o msgs]]

-----------------------------------------------------------------------------
(***************************************************************************)
(* The table of shared files.                                              *)
(***************************************************************************)
Referenced(n) == f_files[n] \cup f_modified_files[n]

\* The identifiers someone still holds for a file of n.
InUse(n) ==
    Referenced(n)
    \cup {m.id : m \in {x \in UNION {Range(channel[n][d]) : d \in Nodes} :
                            x.cmd = "changed"}}
    \cup {r.id : r \in {x \in UNION {Range(receivers[d]) : d \in Nodes} :
                            x.src = n}}

Named(n, f) == {i \in f_files[n] : file[n][i].name = f}

\* get_file(filename): the entry of that name, or one under a random
\* identifier.  f_files is searched for a clash; that a 32 bit random number
\* misses the identifiers only held elsewhere is an assumption of the model.
\* Mutants: the name is not looked for; identifiers are given by a counter
\* that f_files alone is compared with.
GetFileUnsearched(n, f) == Ids \ InUse(n)
GetFileReused(n, f) ==
    IF Named(n, f) # {} THEN Named(n, f) ELSE Ids \ f_files[n]
GetFile(n, f) ==
    IF Named(n, f) # {} THEN Named(n, f) ELSE Ids \ InUse(n)
\* Mutant: the new object is not given its name.
EntryUnnamed(n, f, i) == file[n][i]
Entry(n, f, i) == IF i \in f_files[n] THEN file[n][i] ELSE NewFile(f)

\* The tables that remain when find_if() and erase() are done with f.
EraseFile(n, f) ==
    IF Named(n, f) = {} THEN {f_files[n]}
                        ELSE {f_files[n] \ {i} : i \in Named(n, f)}

\* The table, the timer's set and the objects after a handler; an object
\* goes with the last pointer to it.
Store(n, table, timer, objects) ==
    /\ f_files' = [f_files EXCEPT ![n] = table]
    /\ f_modified_files' = [f_modified_files EXCEPT ![n] = timer]
    /\ file' = [file EXCEPT ![n] = [i \in Ids |->
                   IF i \in table \cup timer THEN objects[i] ELSE NoFile]]

\* set_last_updated() with version v on disk: false when stat() fails or
\* nothing changed since the last time.
\* Mutants: only the first stat() counts; the time is set without the stat;
\* the stat is set without the time.
SameStatOnce(o, v) == v = Absent \/ o.stat # Absent
SetLastUpdatedTimeOnly(o, v) == [o EXCEPT !.updated = TRUE]
SetLastUpdatedStatOnly(o, v) == [o EXCEPT !.stat = v]
SameStat(o, v) == v = Absent \/ v = o.stat
SetLastUpdated(o, v) == [o EXCEPT !.stat = v, !.updated = TRUE]

\* set_start_sharing(): the time is set even when stat() then fails.
SetStartSharing(o, v) ==
    IF v = Absent THEN [o EXCEPT !.updated = FALSE]
                  ELSE [o EXCEPT !.stat = v, !.updated = FALSE, !.shared = v]

-----------------------------------------------------------------------------
Init ==
    /\ clock = 0
    /\ disk = [n \in Nodes |-> [f \in Files |-> Absent]]
    /\ local = [n \in Nodes |-> [f \in Files |-> FALSE]]
    /\ events = [n \in Nodes |-> << >>]
    /\ file = [n \in Nodes |-> [i \in Ids |-> NoFile]]
    /\ f_files = [n \in Nodes |-> {}]
    /\ f_modified_files = [n \in Nodes |-> {}]
    /\ channel = [s \in Nodes |-> [d \in Nodes |-> << >>]]
    /\ receivers = [n \in Nodes |-> << >>]

daemon == << file, f_files, f_modified_files >>

(***************************************************************************)
(* The local services (external).                                          *)
(***************************************************************************)

\* A service writes f: a new version, and a CREATED or WRITE event.
LocalWrite(n, f) ==
    /\ n \in Users
    /\ clock < MaxClock
    /\ clock' = clock + 1
    /\ disk' = [disk EXCEPT ![n][f] = clock + 1]
    /\ local' = [local EXCEPT ![n][f] = TRUE]
    /\ NotifyWhen(Watched(n), n, f, "modified")
    /\ UNCHANGED << daemon, channel, receivers >>

\* A service closes f after it was open for writing: an UPDATED event.
LocalClose(n, f) ==
    /\ n \in Users
    /\ disk[n][f] # Absent
    /\ Watched(n)
    /\ Notify(n, f, "updated")
    /\ UNCHANGED << clock, disk, local, daemon, channel, receivers >>

\* A service removes f, or moves it away: a DELETED event.
LocalDelete(n, f) ==
    /\ n \in Users
    /\ disk[n][f] # Absent
    /\ disk' = [disk EXCEPT ![n][f] = Absent]
    /\ local' = [local EXCEPT ![n][f] = FALSE]
    /\ NotifyWhen(WatchesDeletion(n), n, f, "deleted")
    /\ UNCHANGED << clock, daemon, channel, receivers >>

(***************************************************************************)
(* inotify events: file_listener::process_event().                         *)
(***************************************************************************)

\* What broadcast_file_changed() says of object o with identifier i.
ChangedMessage(o, i) == [cmd |-> "changed", name |-> o.name, id |-> i,
                         mtime |-> o.stat]

UpdatedFile(n, f, updated) ==
    \E i \in GetFile(n, f) :
        LET o == Entry(n, f, i)
            v == disk[n][f]
            table == f_files[n] \cup {i}
            touched == SetLastUpdated(o, v)
            shared == SetStartSharing(touched, v)
        IN  \/ /\ SameStat(o, v)
               /\ Store(n, table, f_modified_files[n],
                        [file[n] EXCEPT ![i] = o])
               /\ UNCHANGED channel
            \/ /\ ~ SameStat(o, v)
               /\ updated
               /\ Store(n, table, f_modified_files[n],
                        [file[n] EXCEPT ![i] = shared])
               /\ Broadcast(n, << ChangedMessage(shared, i) >>)
            \/ /\ ~ SameStat(o, v)
               /\ ~ updated
               /\ Store(n, table, f_modified_files[n] \cup {i},
                        [file[n] EXCEPT ![i] = touched])
               /\ UNCHANGED channel

\* The object is not taken out of the timer's set.
DeletedFile(n, f) ==
    /\ \E table \in EraseFile(n, f) :
           Store(n, table, f_modified_files[n], file[n])
    /\ Broadcast(n, << DeletedMessage(f) >>)

ProcessEvent(n) ==
    /\ events[n] # << >>
    /\ events' = [events EXCEPT ![n] = Tail(@)]
    /\ LET e == Head(events[n])
       IN  \/ e.kind = "modified" /\ UpdatedFile(n, e.name, FALSE)
           \/ e.kind = "updated" /\ UpdatedFile(n, e.name, TRUE)
           \/ e.kind = "deleted" /\ DeletedFile(n, e.name)
    /\ UNCHANGED << clock, disk, local, receivers >>

(***************************************************************************)
(* modified_timer::process_timeout().  The objects of "due" were last      *)
(* updated transfer_after_sec ago; how long ago an object was updated is   *)
(* not kept, so any of them may be due.  An object of the set that was     *)
(* shared since it was updated is dropped.  The set is in the order of the *)
(* objects' addresses, so the messages leave in any order.                 *)
(***************************************************************************)
Pending(n) == {i \in f_modified_files[n] : file[n][i].updated}

\* The objects whose file is there when stat() looks for it.
Found(n, due) == {i \in due : disk[n][file[n][i].name] # Absent}

ProcessTimeout(n, due) ==
    LET dropped == f_modified_files[n] \ Pending(n)
        shared == [i \in Ids |->
                     IF i \in due
                     THEN SetStartSharing(file[n][i], disk[n][file[n][i].name])
                     ELSE file[n][i]]
    IN  /\ due \cup dropped # {}
        /\ Store(n, f_files[n], Pending(n) \ due, shared)
        /\ \E order \in SetToSeqs(Found(n, due)) :
               Broadcast(n, [k \in DOMAIN order |->
                                ChangedMessage(shared[order[k]], order[k])])
        /\ UNCHANGED << clock, disk, local, events, receivers >>

(***************************************************************************)
(* Messages: messenger::msg_file_changed() and msg_file_deleted().         *)
(***************************************************************************)

\* receive_file() stops here when the copy of this node is as recent.
\* Mutants: any copy is recent enough; times are compared in whole seconds.
IsNewerAny(o, m) == o.stat # Absent
IsNewerSeconds(o, m) == o.stat >= m.mtime - 1
IsNewer(o, m) == o.stat >= m.mtime

Connect(n, s, m) ==
    /\ Len(receivers[n]) < MaxReceivers
    /\ receivers' = [receivers EXCEPT ![n] = Append(@,
            [name |-> m.name, src |-> s, id |-> m.id, version |-> Absent])]

ReceiveFile(n, s, m) ==
    /\ UNCHANGED << disk, local, events >>
    /\ \/ ~ Receives(n) /\ UNCHANGED << daemon, receivers >>
       \/ /\ Receives(n)
          /\ \E i \in GetFile(n, m.name) :
                LET o == Entry(n, m.name, i)
                IN  /\ Store(n, f_files[n] \cup {i}, f_modified_files[n],
                             [file[n] EXCEPT ![i] = o])
                    /\ \/ IsNewer(o, m) /\ UNCHANGED receivers
                       \/ ~ IsNewer(o, m) /\ Connect(n, s, m)
                       \* no address of the sender could be connected to
                       \/ ~ IsNewer(o, m) /\ Faults /\ UNCHANGED receivers

\* unlink() works or there was no such file, so the entry goes.
Unlink(n, f) ==
    /\ disk' = [disk EXCEPT ![n][f] = Absent]
    /\ local' = [local EXCEPT ![n][f] = FALSE]
    /\ NotifyWhen(WatchesDeletion(n) /\ disk[n][f] # Absent, n, f, "deleted")
    /\ \E table \in EraseFile(n, f) :
           Store(n, table, f_modified_files[n], file[n])

DeleteLocalFile(n, f) ==
    /\ UNCHANGED receivers
    /\ \/ ~ Applies(n) /\ UNCHANGED << disk, local, events, daemon >>
       \/ Applies(n) /\ Unlink(n, f)
       \* unlink() failed for another reason than ENOENT
       \/ /\ Applies(n) /\ disk[n][f] # Absent /\ Faults
          /\ UNCHANGED << disk, local, events, daemon >>

ReceiveMessage(n, s) ==
    /\ channel[s][n] # << >>
    /\ channel' = [channel EXCEPT ![s][n] = Tail(@)]
    /\ LET m == Head(channel[s][n])
       IN  \/ m.cmd = "changed" /\ ReceiveFile(n, s, m)
           \/ m.cmd = "deleted" /\ DeleteLocalFile(n, m.name)
    /\ UNCHANGED clock

(***************************************************************************)
(* Transfers.  One data_sender of the source answers the request of one    *)
(* data_receiver.                                                          *)
(***************************************************************************)
Turn(n, k) ==
    \/ Overtaking
    \/ \A j \in 1..(k - 1) : receivers[n][j].name # receivers[n][k].name

\* The version data_sender::open() finds under the identifier, or Absent.
Served(s, i) ==
    IF i \in f_files[s] THEN disk[s][file[s][i].name] ELSE Absent

\* data_sender::process_read() gets the request and opens the file.
Serve(n, k) ==
    LET r == receivers[n][k]
    IN  /\ r.version = Absent
        /\ Turn(n, k)
        /\ Served(r.src, r.id) # Absent
        /\ receivers' = [receivers EXCEPT
                            ![n][k].version = Served(r.src, r.id)]
        /\ UNCHANGED << clock, disk, local, events, daemon, channel >>

\* The identifier is unknown, or the file is gone: nothing ever comes.
Refuse(n, k) ==
    LET r == receivers[n][k]
    IN  /\ r.version = Absent
        /\ Turn(n, k)
        /\ Served(r.src, r.id) = Absent
        /\ receivers' = [receivers EXCEPT ![n] = RemoveAt(@, k)]
        /\ UNCHANGED << clock, disk, local, events, daemon, channel >>

\* The whole file came with its footer: process_read() gives the temporary
\* file the time of the original, renames it, and calls refresh_file().
Install(n, k) ==
    LET r == receivers[n][k]
        f == r.name
    IN  /\ r.version # Absent
        /\ Turn(n, k)
        /\ disk' = [disk EXCEPT ![n][f] = r.version]
        /\ local' = [local EXCEPT ![n][f] = FALSE]
        /\ NotifyWhen(Watched(n), n, f, "modified")
        /\ \E i \in GetFile(n, f) :
               Store(n, f_files[n] \cup {i}, f_modified_files[n],
                     [file[n] EXCEPT
                         ![i] = [Entry(n, f, i) EXCEPT !.stat = r.version]])
        /\ receivers' = [receivers EXCEPT ![n] = RemoveAt(@, k)]
        /\ UNCHANGED << clock, channel >>

(***************************************************************************)
(* Failures.                                                               *)
(***************************************************************************)

\* The connection breaks, or the murmur3 footer does not match.
StreamFails(n, k) ==
    /\ Faults
    /\ receivers' = [receivers EXCEPT ![n] = RemoveAt(@, k)]
    /\ UNCHANGED << clock, disk, local, events, daemon, channel >>

\* communicatord drops the message.
LoseMessage(n, s) ==
    /\ Faults
    /\ channel[s][n] # << >>
    /\ channel' = [channel EXCEPT ![s][n] = Tail(@)]
    /\ UNCHANGED << clock, disk, local, events, daemon, receivers >>

\* The daemon stops and starts again.  Its tables were in memory only, the
\* messages sent meanwhile are lost, and the listener gets an EXISTS event
\* for every file it finds in a watched path.
Restart(n) ==
    /\ Faults
    /\ Store(n, {}, {}, file[n])
    /\ receivers' = [receivers EXCEPT ![n] = << >>]
    /\ channel' = [s \in Nodes |-> [channel[s] EXCEPT ![n] = << >>]]
    /\ \E order \in SetToSeqs({f \in Files :
                                  Watched(n) /\ disk[n][f] # Absent}) :
           events' = [events EXCEPT ![n] =
               [k \in DOMAIN order |-> [name |-> order[k],
                                        kind |-> "modified"]]]
    /\ UNCHANGED << clock, disk, local >>

-----------------------------------------------------------------------------
Local(n) == \E f \in Files : LocalWrite(n, f) \/ LocalClose(n, f)
                             \/ LocalDelete(n, f)
Timeout(n) == \E due \in SUBSET Pending(n) : ProcessTimeout(n, due)
Receive(n) == \E s \in Nodes : ReceiveMessage(n, s)
Transfer(n) == \E k \in DOMAIN receivers[n] :
                   Serve(n, k) \/ Refuse(n, k) \/ Install(n, k)
Failure(n) ==
    \/ \E k \in DOMAIN receivers[n] : StreamFails(n, k)
    \/ \E s \in Nodes : LoseMessage(n, s)
    \/ Restart(n)

Next == \E n \in Nodes : Local(n) \/ ProcessEvent(n) \/ Timeout(n)
                         \/ Receive(n) \/ Transfer(n) \/ Failure(n)

Spec == Init /\ [][Next]_vars

(***************************************************************************)
(* The event loop never starves a handler: poll() returns every connection *)
(* and timer that is ready.  The timer's set is examined once a second,    *)
(* and an object nobody updates any more is due transfer_after_sec after   *)
(* its last update, so an examination that finds everything due must come. *)
(* No fairness is asked of the local services or of the failures.          *)
(***************************************************************************)
Fairness == \A n \in Nodes :
    /\ WF_vars(ProcessEvent(n))
    /\ WF_vars(ProcessTimeout(n, Pending(n)))
    /\ WF_vars(Receive(n))
    /\ WF_vars(Transfer(n))

FairSpec == Spec /\ Fairness

-----------------------------------------------------------------------------
(* Properties. *)

\* Every variable has the shape the code gives it, no pointer of the table or
\* of the timer's set dangles, and no RFS_FILE_CHANGED is sent that the other
\* side would refuse for its time.
TypeOK ==
    /\ clock \in Nat
    /\ disk \in [Nodes -> [Files -> Nat]]
    /\ local \in [Nodes -> [Files -> BOOLEAN]]
    /\ events \in [Nodes -> Seq(Event)]
    /\ file \in [Nodes -> [Ids -> SharedFile]]
    /\ f_files \in [Nodes -> SUBSET Ids]
    /\ f_modified_files \in [Nodes -> SUBSET Ids]
    /\ \A n \in Nodes : \A i \in Referenced(n) : file[n][i].name \in Files
    /\ channel \in [Nodes -> [Nodes -> Seq(Message)]]
    /\ receivers \in [Nodes -> Seq(Receiver)]

\* The table never holds two objects of one name, although it is indexed by
\* identifier: the find_if() loops of get_file(), deleted_file() and
\* delete_local_file() stop at the first entry and are only right if so.
OneEntryPerName ==
    \A n \in Nodes : \A i, j \in f_files[n] :
        file[n][i].name = file[n][j].name => i = j

\* A queued event says that f exists and no later one says that it does not.
NoticedIn(q, f) ==
    \E k \in DOMAIN q :
        /\ q[k].name = f
        /\ q[k].kind # "deleted"
        /\ \A j \in DOMAIN q :
               j > k /\ q[j].name = f => q[j].kind # "deleted"
DeletedIn(q, f) == \E k \in DOMAIN q : q[k].name = f /\ q[k].kind = "deleted"

\* The table knows the version on disk, and either the timer will announce
\* it or it was announced under an identifier that data_sender still finds.
Tracked(n, f) ==
    \E i \in f_files[n] :
        /\ file[n][i].name = f
        /\ file[n][i].stat = disk[n][f]
        /\ \/ i \in Pending(n)
           \/ file[n][i].shared = disk[n][f]

\* updated_file(), deleted_file(), the timer and the messages of the other
\* nodes never between them lose a change of a local service: what a service
\* left on disk is about to be noticed, or is in the timer's set, or was
\* announced under an identifier the table still has.
LocalChangeNotLost ==
    \A n \in Nodes, f \in Files :
        Watched(n) /\ disk[n][f] # Absent /\ local[n][f]
            => NoticedIn(events[n], f) \/ Tracked(n, f)

\* Every file of a watched path, received or written here, is about to be
\* noticed, or the table knows its version and no event is about to make it
\* forget.
Known(n, f) == \E i \in Named(n, f) : file[n][i].stat = disk[n][f]
KnownOrNoticed ==
    \A n \in Nodes, f \in Files :
        Watched(n) /\ disk[n][f] # Absent
            => \/ NoticedIn(events[n], f)
               \/ Known(n, f) /\ ~ DeletedIn(events[n], f)

\* An object that knows the version a local service wrote is in the timer's
\* set as updated or was announced with that version.
KnownIsShared ==
    \A n \in Nodes : \A i \in f_files[n] :
        LET f == file[n][i].name
        IN  local[n][f] /\ disk[n][f] # Absent /\ file[n][i].stat = disk[n][f]
                => i \in Pending(n) \/ file[n][i].shared = disk[n][f]

\* No version is later than the last one a local service wrote.
TimesOK ==
    /\ \A n \in Nodes, f \in Files : disk[n][f] <= clock
    /\ \A n \in Nodes, i \in Ids : file[n][i].stat <= clock
    /\ \A n \in Nodes : \A k \in DOMAIN receivers[n] :
           receivers[n][k].version <= clock

\* LocalChangeNotLost is not inductive: an event can find that nothing
\* changed, or take away the object that kept the change.  This is.
IInv == TypeOK /\ OneEntryPerName /\ TimesOK /\ KnownIsShared /\ KnownOrNoticed

\* The daemon of a node whose services are the only ones to touch the files
\* never removes one of their files: a deletion it hears of is not its own
\* deletion that comes back.
SoleUserKeepsFiles ==
    [][\A n \in Nodes, f \in Files :
         Users = {n} /\ disk[n][f] # Absent /\ disk'[n][f] = Absent
             => LocalDelete(n, f)]_vars

\* Nothing is left to do.
Quiet ==
    \A n \in Nodes :
        /\ events[n] = << >>
        /\ Pending(n) = {}
        /\ \A d \in Nodes : channel[n][d] = << >>
        /\ receivers[n] = << >>

\* When the daemons have nothing left to do, a receive-only computer has the
\* versions of the source computer.
QuietConverged ==
    Quiet => \A p \in SendOnly, s \in ReceiveOnly, f \in Files :
                 disk[p][f] # Absent => disk[s][f] = disk[p][f]

\* What the services of the source computer leave in place in the end gets to
\* every receive-only computer and stays there.
EventuallyReplicated ==
    \A p \in SendOnly, s \in ReceiveOnly, f \in Files, v \in 1..MaxClock :
        <>[](disk[p][f] = v) => <>[](disk[s][f] = v)

\* A computer in path_mode=latest never gets an older version in the place of
\* a newer one.
LatestNeverGoesBack ==
    [][\A n \in Latest, f \in Files :
         disk'[n][f] # Absent => disk'[n][f] >= disk[n][f]]_vars
=============================================================================
