# snaprfs: a verification project

TLA+ modules that model the snaprfs daemons, the TLC runs that check them on
small clusters, and proofs, checked by TLAPS, of what holds for every cluster.
Paths and line numbers below are relative to the root of the repository.

## 1. The system

A `snaprfs` daemon runs on every computer of a cluster and keeps the files of
some directories the same on all of them. One daemon is one process with one
event loop (`ed::communicator`, started by `server::run()`), so its handlers
never overlap; what interleaves is the handlers of different daemons, the local
services that write in the watched directories, and the transfers.

| Part | State | Operations |
|---|---|---|
| `server`: shared files (`daemon/server.cpp`, `server.h`) | `f_files`: identifier to `shared_file` (name, `f_stat`, `f_last_updated`, `f_start_sharing`) | `get_file`, `refresh_file`, `updated_file`, `deleted_file`, `broadcast_file_changed`, `receive_file`, `delete_local_file` |
| `modified_timer` (`server.cpp:284-403`) | `f_modified_files`: a set of pointers to `shared_file`s | `add_file`, `process_timeout` every second; `remove_file` is never called |
| life cycle (`server.cpp:598-844`) | the connections of the process, the pointers to them, `f_force_restart` | `ready`, `restart`, `stop`, `run` |
| `messenger` (`daemon/messenger.cpp`) | none | `RFS_FILE_CHANGED`, `RFS_FILE_DELETED`, through `communicatord` |
| `file_listener` (`daemon/file_listener.cpp`) | `f_path_info`: paths with their modes | `load_setup` at start, `find_path_info`, `process_event` for each inotify event |
| `data_server`, `data_sender` | per connection: the request, the open file, a buffer and its position, the hash | `process_accept`; `process_read`, `open`, `process_write` |
| `data_receiver` | per connection: what was received so far, the temporary file, the hash | constructor; `process_write`, `process_read`, `process_error` |
| orders (`snaprfs/order.cpp`, `connection.cpp`), `rfs` (`tools/rfs.cpp`) | an order: source, destination, flags; the words of the command line | setters and flags, `send_order`; `tools::run`, one message for each turn of a loop |
| client (`snaprfs/client.cpp`) | `f_message_id` | ten functions that send a numbered message |

How a change travels:

1. A service writes a file; inotify queues an event; `process_event()` calls
   `updated_file()`.
2. `updated_file()` finds or makes the `shared_file` and compares a new `stat()`
   with the last one. If they differ it broadcasts at once (the file was closed)
   or puts the object in the timer's set (it may still be open).
3. `RFS_FILE_CHANGED` has the name, the identifier, the time and the addresses.
   `receive_file()` on another computer checks the mode of the path and that its
   own `f_stat` is older, and opens a `data_receiver`, which asks for the
   *identifier*.
4. A `data_sender` looks the identifier up *at that moment* and sends the file
   as it is *at that moment*.
5. The `data_receiver` writes a temporary file, gives it the time of the
   original, renames it over the file and calls `refresh_file()`. If the path
   is watched, the rename raises an event too, and `updated_file()` is expected
   to find that nothing changed.
6. A deletion is the same without a transfer: `deleted_file()` broadcasts, and
   `delete_local_file()` unlinks where `delete_mode=apply`.

What makes it hard: the decision of step 3 uses a `stat()` remembered earlier;
steps 3, 4 and 5 each look at a different moment of the file; several transfers
of one file run at once; the daemon's own `rename()` and `unlink()` raise
events; the table is in memory only; nothing is acknowledged or sent again. A
daemon that is told to stop goes on until its last connection is gone, and
handles what still comes with some of its parts already taken away. A read of a
socket may give any part of a structure.

The `ORDER` messages and those of a client go the other way, from programs to
the daemon of their computer. No daemon handles them yet
(`daemon/messenger.cpp:93-107`), so there is nothing behind them to compose with.

What makes each part correct:

- shared files: one entry per name; no local change forgotten; an identifier
  never means another file to someone who holds it;
- timer: what is put in the set is announced once it is quiet, and once only;
- life cycle: a daemon only announces what it serves, and ends when told to;
- listener and messenger: the right mode for a path; events applied so that the
  table ends up with what is on disk;
- transfers: a file is only ever replaced by a whole copy of one version;
- the cluster: copies converge, deletions get through, a daemon never removes
  what nobody deleted;
- the tool and the library: exactly what was asked for is sent, the exit code
  tells whether all of it was, and no two messages share a number.

## 2. The modules

| Module | What it is |
|---|---|
| `Server` | the daemons of a cluster: tables, timer, events, messages, transfers as the server sees them, failures; the properties |
| `Replica` | what the daemons promise about the files alone |
| `ServerReplica` | the refinement mapping from `Server` to `Replica` |
| `MCServer` | symmetry for TLC |
| `ServerProofs` | the inductive invariant of `Server` and the theorems |
| `ReplicaProofs` | that identifiers keep their names, that `Server` implements `Replica`, and what becomes of deletions |
| `ConvergeProofs` | that one source and its receive-only computers agree when all is quiet |
| `Transfer` | the two ends of the connections that carry one file, piece by piece, the services that write the file meanwhile, and the failures |
| `AtomicCopy` | what `rename(2)` promises those who read the copy; `Transfer` implements it |
| `TransferProofs` | the inductive invariant of `Transfer` and the theorems |
| `AtomicCopyProofs` | that `Transfer` implements `AtomicCopy`, and that undisturbed transfers succeed |
| `PathInfo` | the sections of the `watch_dirs` files, and which of them decides about a file |
| `PathInfoProofs` | that a directory's own section decides |
| `ModifiedTimer` | the clock, the times of the `shared_file`s and the set of `modified_timer` |
| `Daemon` | one process from READY to its end, with the timer in it: which connections it has, which messages it handles when |
| `DaemonProofs` | the invariants of both, that `Daemon` implements the timer, and the theorems |
| `Orders` | an order of the library, and the `rfs` command that sends orders |
| `Client` | the numbers of a client's messages |
| `Requests` | `Orders` and `Client` side by side; they share nothing |
| `RequestsProofs` | the theorems about both |

`Server` looks at a transfer from the table: it has a source, an identifier and
the version the sender opened, and it lands or fails as a whole. `Transfer`
opens that step: it is about one file and leaves out why the transfers were
asked for. `PathInfo` does the same for the mode of a path, a constant of
`Server`, and `ModifiedTimer` for what is due. `Daemon` looks at one process
from the side: what a message does to its files and tables is left to `Server`,
and what a transfer does to `Transfer`.

### `Server`: state

| Variable | Code |
|---|---|
| `disk[n][f]` | the file, as its modification time; `Absent` is 0 |
| `clock`, `local` | the latest time a service wrote with; ghost: a service, not a transfer, wrote what is on disk |
| `events[n]` | the inotify queue of the listener |
| `file[n][i]` | the `shared_file` with `f_id = i`: its name, `stat`, `updated` (`was_updated()`), `shared` (ghost: the version last announced) |
| `f_files[n]`, `f_modified_files[n]` | the two containers, as sets of identifiers. An object taken out of the table lives on while the timer's set points to it, as the `shared_ptr` does |
| `channel[s][d]` | messages on their way through `communicatord` |
| `receivers[n]` | `data_receiver` connections: name, source, identifier, and the version the sender opened |

### `Server`: actions

| Action | Code |
|---|---|
| `LocalWrite`, `LocalClose`, `LocalDelete` | a service; CREATED or WRITE, UPDATED, DELETED events, if `load_setup()` watches for them |
| `ProcessEvent` | `file_listener::process_event()` with all of `updated_file()` or `deleted_file()` |
| `ProcessTimeout` | `modified_timer::process_timeout()`; `due` is what passes `LU <= N - TA` |
| `ReceiveMessage` | `msg_file_changed()` with `receive_file()`, `msg_file_deleted()` with `delete_local_file()` |
| `Serve`, `Refuse` | `data_sender::process_read()` and `open()`: the version found, or none |
| `Install` | the end of `data_receiver::process_read()`: time, rename, `refresh_file()` |
| `StreamFails`, `LoseMessage`, `Restart` | a broken transfer, a lost message, a daemon that stops and starts again |

### Decisions

- *A version is its modification time.* Every write gets a time of its own and
  times only grow, on all computers: the code assumes synchronised clocks with
  nanoseconds when it compares times. Time and content are taken together; a
  file that is written while it is sent is left to a module of its own (plan).
- *Handlers are atomic*, because the loop has one thread. What they do to the
  file system is atomic with them, except that transfers are split where the
  loop takes over (connect, serve, install). The window between `rename()` and
  the `stat()` of `refresh_file()` is closed in `Server`; it is on the hazard
  list and in the plan.
- *One path per computer*, with one mode; which entry `find_path_info()` picks
  is another module's question. `LocalWrite` stands for services that replace
  files by ordinary writes or by moving them in.
- *Time since the last update is not kept*: any subset of the pending objects
  may be due. This allows every behaviour of the code and more; that the timer
  gets to each of them, and to none twice, is shown with the clock in
  `ModifiedTimer`.
- *Identifiers*: `GetFile` gives any identifier nobody holds. The code compares
  with `f_files` only; that 32 random bits miss the few identifiers that only
  messages, receivers or the timer still hold is an assumption.
- *`Refuse` ends the receiver* also where the code would leave it waiting for
  ever (`open()` failing): the server never hears of either again.
- *Addresses*: trying them one after the other is one attempt that works or not.
- *`Restart`* empties the tables and the node's incoming messages, closes its
  receivers, and queues an EXISTS event for each watched file. Its outgoing
  messages stay with `communicatord`. Transfers it was serving may still
  complete if all bytes were sent, or fail (`StreamFails`); requests with an
  old identifier are refused.

### `Replica`

The abstract system has only files and copies under way: a service writes a
newer version, someone removes a file, a node that receives takes a copy of the
version another node has *at that moment*, a copy lands as a whole or is given
up. `ServerReplica` maps the served receivers of a node to its copies.
`ImplementsReplica` then says that, through all the tables, identifiers and
messages, a file is only filled with a version of *the same name* that another
computer really had, and only where the mode receives.

### `Transfer`: state

| Variable | Code |
|---|---|
| `inodes`, `source`, `clock` | the files that have or had the name at the source, which of them has it now, the latest time of a write. A service that moves a new file into place leaves the old inode to whoever has it open |
| `sender[c]` | the `data_sender`: `f_input` (the inode, and `offset` and `eof` of the stream), `f_mtime`, `f_buffer`, `f_position`, what went into `f_murmur3` (`read`), `f_sent_footer`; `phase` is the life of the connection |
| `wire[c]` | what was written and not yet read: at most `SocketBuffer` pieces |
| `receiver[c]` | the `data_receiver`: request sent, `f_received_bytes` (`got`), time and size from `f_header`, temporary name, whether it was opened and every write to it worked (`opened`, `good`), what went into its hash, `f_footer` |
| `temp`, `target` | the temporary files by the number in their name; the file itself at the receiver, with a ghost (`failed`): which of `write()` and `utimensat()` failed while it was made |
| `sender_up` | whether the sending daemon still runs |

### `Transfer`: actions

| Action | Code |
|---|---|
| `Replace`, `Rewrite`, `Truncate`, `Remove` | services at the source |
| `Connect`, `SendRequest` | `data_receiver`'s constructor and `process_write()` |
| `ProcessAccept` | `data_server::process_accept()` |
| `ProcessRequest`, `ProcessCutRequest` | `data_sender::process_read()` with `open()`, its failures included; the request in two reads |
| `ProcessWrite`, `ProcessWriteThrows`, `SenderFails` | `data_sender::process_write()`: a partial or whole `write()` with the next buffer, its `logic_error`, its errors |
| `SenderHup`, `ReceiverHup`, `Break` | the connection ends on either side |
| `Silence` | the sender's computer, or the network, is gone without a word |
| `ReadHeader`, `ReadCutHeader`, `ReadNames`, `ReadContent`, `ReadFooter`, `ReadPartOfFooter`, `ReadRestOfFooter` | the blocks of `data_receiver::process_read()`; `Write` is what `f_output.write()` does, `Finish` the end, with `Rename` or `ProcessError` |

Decisions:

- *A piece is a unit of data*: the header, the names, each piece of content, the
  hash and the END mark. A piece of content is named by the write it comes
  from, so a mix of two versions is told apart from both.
- *Cuts inside a piece* (`Cuts`). The content may be cut anywhere, since the code
  adds what it gets to the file. For the request, the header and the footer it
  adds the number of bytes to a pointer to the whole structure
  (`data_sender.cpp:261`, `data_receiver.cpp:174`, `:336`), so the rest of one
  that comes in two reads is stored that many *structures* behind it. What is
  then in the structure is its first part and the defaults of the rest, which
  is modelled: an identifier that is not complete is no file's; a header without
  its lengths makes the receiver skip the names and never open the temporary
  file, so it has nothing to rename; the hash may lack its end. What the rest is
  stored over is undefined: the daemon may go on or end (`SenderStops`,
  `ReceiverStops`); that it goes on with other values in its memory is left out.
  The names that come in two reads are stored over each other: here the login
  may then not fit; the owner that is set from them is not modelled.
- *`f_size` has 32 bits* (`data_sender.cpp:208`): the header carries the size
  modulo `SizeLimit`.
- *Two sequences have one hash only if they are equal.* The hash is not
  cryptographic, but nobody forges content here.
- *An end that is closed*: a `write()` to a closed connection fails, unread
  data can still be read, and then there is a hang-up. `process_error()`
  removes the temporary file; a hang-up does not.
- *An exception nobody catches* stops the whole daemon, and all its
  connections with it (`main()` catches, logs and ends). Its next start is a
  matter of `Server`.
- *Temporary names* are numbered on after a daemon stopped, whereas the code
  starts its counter again; since the code truncates a temporary file when it
  opens it, and no receiver of the stopped daemon writes any more, nothing
  depends on it.
- *Failures* (`Faults`). `"break"` has connections break and every call fail
  whose result the code looks at. Two results it does not act on.
  `f_output.write()` and `close()` are not looked at (`data_receiver.cpp:324-326`,
  `:352`), and the hash is taken of the buffer that was received: with `"write"`
  a piece may not get to the temporary file, nor then any after it, and the
  transfer goes on; what `close()` could not write is taken for a `write()` that
  failed when its turn was. A part of the buffer of the stream that gets to the
  disk twice is not modelled. A `utimensat()` that fails is logged and the
  rename goes on (`:440-454`): with `"utimensat"` the file may have the time of
  its last write here, which is later than that of the original. `chownnm()` and
  `chmod()` are treated alike by the code; owner and mode are not modelled.
- *Silence*: with `"silence"` the sending end may stop at any moment without
  closing anything. Some of what was on its way still arrives. There is no
  timeout in the code (`TODO.md:16-18` asks for one), so the receiver may wait
  for ever. What the sender's own end of a broken network does is left out.
- *Closing keeps ghosts*: of a sender that sent everything, what it read and the
  time are kept to state `InstalledAsRead`; nothing reads them in an action.

### `PathInfo`

`LoadSection` is one turn of the loop of `load_setup()`, `Start` the end of the
constructor, `ReceiveFile` and `DeleteLocalFile` the two handlers up to their
check of the mode. A path is a sequence of names and whether it ends with a
slash; names are numbers in the order of their strings, and no name is the
start of another, so that comparing names stands for comparing characters.
`MatchPath` counts the slashes two paths have in common, as `match_path()` does,
and `FindPathInfo` takes the first best in the order of the set.

### `ModifiedTimer` and `Daemon`: state

| Variable | Code |
|---|---|
| `now`, `set_back` | `CLOCK_REALTIME`, which may be set back once; ghost: it was |
| `f_last_updated[o]`, `f_start_sharing[o]` | the two times of a `shared_file` |
| `f_modified_files`, `timer`, `timeout_date` | the set of the timer, whether `g_modified_timer` is made and in the communicator, when it fires next |
| `pending` | ghost: changed, and since then neither announced nor found gone |
| `config` | what `ready()` finds: its listen options (absent, in error, bound by another, good) and its paths; chosen at the start and kept |
| `process`, `f_force_restart` | running, or how it ended; what `run()` returns |
| `messenger`, `connections`, `transfer` | the connections in the communicator: the messenger, the listener and the servers, the `data_sender`s and `data_receiver`s |
| `f_file_listener`, `f_data_server`, `f_secure_data_server` | whether the pointers are set |

### `ModifiedTimer` and `Daemon`: actions

| Action | Code |
|---|---|
| `Elapse`, `StepBack` | the clock |
| `UpdatedFile` | `server::updated_file()` of a file that did change: `add_file()`, or `broadcast_file_changed()` at once |
| `ProcessTimeout` | `modified_timer::process_timeout()` |
| `Ready` | `server::ready()`: a constructor that throws, the returns that call `stop()`, the connections it adds |
| `DispatchStop` | STOP, QUITTING and RESTART: `server::stop()`, `restart()` |
| `MsgFileChanged` | the loop of `msg_file_changed()` over the addresses, up to the first `receive_file()` that connects |
| `DispatchWithoutListener` | the same message once `f_file_listener` is reset |
| `ProcessAccept`, `TransferEnds`, `TransferHangs`, `HungUp` | transfers as connections |
| `MessengerLeaves`, `RunReturns` | `communicator::run()`, which returns when it has no connection |

Decisions:

- *The loop gets to a timer that fires before the clock moves on* (`Overdue`):
  handlers are short compared with a second. A timer fires within a second of
  the time it fired last.
- *Each change has a time of its own*: the clock moves between a change and what
  was there before. It may be set back, since the code compares two readings
  of the real time and not of a monotonic clock.
- *`ready()` acts once.* READY comes again when `communicatord` is connected to
  again; `g_modified_timer` is never reset and `ready()` returns at once
  (`server.cpp:623`), also after a `stop()`.
- *`stop()` takes the servers out of the communicator and keeps the pointers*,
  except `f_file_listener`, which it resets.
- *Transfers that hang* are those where `open()` failed (`data_sender.cpp:300`)
  and those of a computer that went without a word; no code gives them up.

### `Orders` and `Client`

`Run` is `tools::run()` up to its `switch`, `SendOrder` a turn of one of its
loops, `SendThrows` one in which `send_order()` throws, which `main()` makes an
exit code of 1. `LibraryStep` is any other program that changes and sends an
order. A word of the command line is its position, so that "which word went
where" is all the model has to say. What `advgetopt` makes of the command line
is taken as given. A message counts as sent when the connection took it: the
tool never runs an event loop, so what becomes of it is not in this code. The
order is one object that is set again and again, as in the code, and a message
keeps the flags it was meant to have as a ghost.

`Client` has `set_message_id()`, which the ten functions call: numbers of a fixed
`Width`, 2^32 in the code, without 0. `used` is a ghost: which message had a
number last.

## 3. What the runs check

`CHECK_DEADLOCK FALSE` is set everywhere: when no service writes any more and
everything is replicated, the daemons just wait; a connection of `Transfer` is
used once; a daemon without paths stops, and one that is told to ends; the tool
exits.

| Run | Instance | Checks |
|---|---|---|
| `primary_secondary` | a send-only and a receive-only computer, 2 files, deletions applied on both, lost messages, broken transfers and restarts | `TypeOK`, `OneEntryPerName`, `LocalChangeNotLost`, `SoleUserKeepsFiles`, `ImplementsReplica` |
| `latest` | two computers in `latest` with services on both, deletions applied, overtaking transfers | `OneEntryPerName`, `LocalChangeNotLost`, `KnownOrNoticed` |
| `converge` | a send-only and a receive-only computer, no failures, transfers in order, fairness | `QuietConverged`, `EventuallyReplicated` |
| `transfer` | one connection, every kind of write, every member of `Faults`, a socket smaller than the stream, everything that can be cut read in two parts, a file too big for `f_size`, fairness | `TypeOK`, `InstalledAsRead`, `StraysOfHangups`, `TransferEnds` |
| `atomic_copy` | two connections at once, services that move whole files into place, no failures, sockets that take whatever is written | `InstalledAsRead`, `UndisturbedSucceeds`, `NoStrayTemp`, `ImplementsAtomicCopy` |
| `daemon` | one process with every configuration, one file, one transfer, a clock that is set back, messages at any time until the end, fairness | `TypeOK`, `NothingForgotten`, `AnnouncedInTime`, `AnnouncedOncePerChange`, `AnnouncesWhatItServes`, `CrashOnlyWhenStopping`, `StopEnds`, `ImplementsTimer` |
| `orders` | every command line of up to five words, a connection that fails at any message, any other program that sends one order, a client whose numbers start again | `TypeOK`, `OnlyWhatWasAsked`, `ExitTells`, `FlagsSurvive`, `NumbersLast` |
| `paths` | any two sections with valid and invalid modes, paths two names deep, orders for any directory | `TypeOK`, `OwnSectionDecides` |

The first three are of `MCServer` (`Server` with symmetry), `orders` is of
`Requests`, the others of `Transfer`, `Daemon` and `PathInfo` themselves. The
properties:

- `TypeOK`: shapes, no dangling reference, no announcement with time 0 (which
  the other side would refuse).
- `OneEntryPerName`: the loops that stop at the first entry of a name are right.
- `LocalChangeNotLost`: what a service left on disk in a watched path is going
  to be noticed, waits in the timer's set, or was announced under an identifier
  the table still has. It is broken by any bookkeeping that lets an event find
  no difference although the version was never announced.
- `KnownOrNoticed`: the same for what the table knows of any watched file, also
  one that was received.
- `SoleUserKeepsFiles`: if the services of one computer only touch the files,
  its daemon never removes one.
- `ImplementsReplica`: see above.
- `QuietConverged`: when nothing is left to do, the copies are equal.
- `EventuallyReplicated`: what stays in place at the source gets to the copy
  and stays there.
- `InstalledAsRead`: what is put in place comes from one sender that read up to
  the end of its file. It is, piece by piece, what that one read unless a
  `write()` failed, and has the time that sender found unless `utimensat()`
  failed, whatever was written twice, read in parts, cut, broken off, too big for
  `f_size` or mixed up between connections on the way. The two exceptions are
  what the code does: it installs a file that a full disk cut short.
- `UndisturbedSucceeds`: with services that replace files whole, sizes that
  `f_size` holds, and nothing that fails (`Faults = {}`), no transfer fails:
  empty files, files that end with a full buffer and files replaced while they
  are sent included.
- `NoStrayTemp`: in the same circumstances no temporary file is left over. Where
  connections break one may be: a hang-up does not remove it.
- `StraysOfHangups`: whatever fails, there are no more temporary files than
  transfers that are under way, hung up or ended with their daemon: a transfer
  that fails in any other way, or succeeds, leaves none.
- `ImplementsAtomicCopy`: in the same circumstances the copy only ever is one
  of the files of the source, whole and with its own time.
- `TransferEnds`: a transfer that began ends, even if it is disturbed, except
  where `open()` failed and nobody looked (`data_sender.cpp:300`) and where the
  other end is gone without a word, for want of a timeout (`TODO.md:16-18`). The
  property names both.
- `OwnSectionDecides`: for a file in a directory with a section of its own, the
  other sections do not matter.
- `NothingForgotten`: a change that was not announced waits in the timer's set,
  unless its file was gone when it was to be announced, or the clock was set
  back: `was_updated()` compares two readings of the clock, and the code then
  does forget changes.
- `AnnouncedInTime`: nothing in the set has been left alone for longer than
  `transfer_after_sec` and one tick of the timer, whenever it came.
- `AnnouncedOncePerChange`: what was announced at once, as its service closed it,
  is not announced again by the timer that may still hold it.
- `AnnouncesWhatItServes`: while something may be announced, every address in the
  announcement is one the daemon accepts connections on, and there is one. The
  pointers the addresses are taken from stay when the servers are gone.
- `CrashOnlyWhenStopping`: a message finds the listener's pointer reset only
  after `stop()` was called. (It may then: STOP, with a message behind it, ends
  the process by a null pointer.)
- `StopEnds`: a daemon that was told to stop, or stops because of its
  configuration, ends, unless a transfer hangs.
- `ImplementsTimer`: in the process, `ModifiedTimer` goes on as it does alone.
- `OnlyWhatWasAsked`: each order the tool sends is for a source and a destination
  that were named as such, and none is sent twice, although one object is used
  for all of them.
- `ExitTells`: the exit code is 0 exactly if every pair that was asked for was
  taken by the connection, with the loops of all modes and failures at any turn.
- `FlagsSurvive`: the names in a message are read back as the flags that were set
  when it was sent, after any additions and removals.
- `NumbersLast`: a number is used again only after all the others, never as 0,
  however often the counter came round.

Each property has a mutant in `PROJECT.json`: an operator next to the one it
replaces, changed as a bug would, for which the property is violated.

### Disagreements with the documentation

Four runs expect a violation: the code does something else than its
documentation or an assertion of its own says. Each is a behaviour of a few
steps.

| Run | Property | What happens |
|---|---|---|
| `latest_regress` | `LatestNeverGoesBack` | a service's newer version, whose event is not processed yet, is replaced by an older one received |
| `short_write` | `UndisturbedSucceeds` | after a partial `write()` the start of the buffer is sent again in the place of its end, and the transfer fails |
| `unreadable` | `WriterIsOpen` | a file that may not be read leaves `f_size` set and `f_input` closed; `process_write()` throws and the daemon ends |
| `unmanaged` | `OnlyManagedPaths` | a path that shares its first slashes with a section, and is not below it, is managed by that section |

`PROJECT.json` quotes the sentence each of them contradicts. Three more are known
and have no run of their own: a comment in `data_receiver.cpp:391-392` says that
the file is "considered invalid until verified otherwise by the murmur3
checksum", but the checksum is of what was received, not of the file, and a
file whose `write()` failed passes (the ghost `failed` in `transfer`); if both computers send and apply deletions, the
other one's `unlink()` is announced as a deletion of its own and may remove the
file the only writer has written again, which is why `SoleUserKeepsFiles` is
checked where the other one only receives, and proved with
`NoOtherWatchesDeletions` as its hypothesis; and an object that waits in
the timer's set is announced with the version that was received meanwhile.

### Bounds

- Two computers: every property relates a pair, and a message goes to each
  computer on a channel of its own. Files: 1, and 2 in `primary_secondary`, so
  that identifiers can be confused between names.
- `Ids`: 4 values. In `latest` and `converge` they never run out;
  with restarts in `primary_secondary` they may, which only cuts behaviours of
  many restarts off.
- `MaxClock` (2, and 3 in `converge`): versions written; three versions make an
  older one overtake a newer one with one in between. `MaxEvents` 2, so that a
  deletion and a creation wait together. `MaxMessages` 1 to 3 and
  `MaxReceivers` 1 or 2: a deletion behind an announcement, two transfers of one
  file. `converge` needs `MaxMessages` 3, because three objects of one file,
  two of them no longer in the table, can be due at once and the timer sends
  all of their messages in one step.
- The bounds are guards: a step that would exceed one is not taken until there
  is room. With the bounds above that never stops `converge` for good, as its
  liveness property would show.
- `Transfer`: `BufferSize` 2 with `MaxSize` 3 has files that are empty, shorter
  than a buffer, equal to one, and longer. `SocketBuffer` is 3 in `transfer`, so
  that buffers are written in parts, and 7 in `atomic_copy`, the longest stream
  of a file of 3 pieces, so that they never are. Two connections are what two
  announcements of a file make; the theorem has any number.
- In `transfer`, `SizeLimit` is `MaxSize`: the longest file has a size of 0 in
  its header, as one of 2^32 bytes.
- `Daemon`: `Second` 2, so that things happen between two ticks;
  `TransferAfterSec` 0, which the code makes 3 seconds; `MaxNow` 10 leaves room
  for a change, its delay and another change. `MaxStepBack` 1 is enough for two
  times to be equal, or in the wrong order. One file, since the timer treats
  each by itself, and one transfer, since they only count while they last.
  `MaxAddresses` 2 has each scheme before each other one. The theorems have any
  of these.
- `Orders`: five words have three sources or destinations in every mode, one more
  than it takes for a first, a middle and a last turn of the loops. `Width` 4
  with `MaxSends` 8 goes round the counter twice.
- `PathInfo`: paths of up to two names from two, each with and without a slash
  at the end, and two sections, give all the ways two sections relate to a
  directory: the same, above, below, beside, apart.

Each cfg states the instance; all bounds are constants named in the modules.

### Fairness

`converge` assumes weak fairness of `ProcessEvent`, of an examination of the
timer's set that finds everything pending due, of `Receive` and of `Transfer`,
for each node. The event loop returns every connection and timer that is ready.
An object is due `transfer_after_sec` after its last update; since a file can
be written `MaxClock` times only, there is a last update. A file written for
ever faster than that is never announced while open (`conf/snaprfs.conf:96`
says so), which is why the property is about versions that stay. Local
services, losses, breaks and restarts have no fairness.

`transfer` assumes, for each connection, weak fairness of what the sending loop
does for it (`Serve`) and of what the receiving loop does (`Receive`): both
loops poll every connection and call whatever is ready. Services and failures
have none, and nothing makes a silent end speak again.

`daemon` assumes weak fairness of the messenger that leaves when its last bytes
are gone, of `communicator::run()` that returns when it has no connection, and
of the end of each transfer that does not hang, which `TransferEnds` of
`Transfer` shows. Nothing is assumed of messages, of the clock, or of a transfer
that hangs; that the clock does not pass a timer that is due is in its guard.

## 4. What is proved

`ServerProofs` proves, for any finite set of files and identifiers, any set of
nodes, modes and bounds, with and without failures and overtaking:

| Theorem | Statement |
|---|---|
| `Invariance` | `Spec => []IInv` |
| `TypeCorrect` | `Spec => []TypeOK` |
| `TableIndexedByName` | `Spec => []OneEntryPerName` |
| `WatchedFilesKnown` | `Spec => []KnownOrNoticed` |
| `NoLocalChangeLost` | `Spec => []LocalChangeNotLost` |

The assumptions are those of `Server`: `Files` and `Ids` are finite
(`FiniteAssumption`, needed because the timer and a restart put the elements of
a set in some order), `NoName` is not a file, the three path modes exclude each
other, the bounds are numbers.

`LocalChangeNotLost` is not inductive. An event that finds no difference leaves
the table as it is: one must know that the table's version, when a service wrote
it, was announced or is in the set (`KnownIsShared`). A deletion event takes an
entry away: one must know that no file is on disk then, or that a later event
says it is there (`KnownOrNoticed`, whose second case excludes deletions still
queued). A service's new version must differ from the version in the table:
one must know that no version is above `clock` (`TimesOK`), including those in
transfers. And two entries of one name would make the argument about "the"
entry void (`OneEntryPerName`). `IInv` is the conjunction of these and `TypeOK`.

The proof has a lemma per action (`LocalWriteInv` ... `RestartInv`) and `NextInv`
combines them. They share:

- `Store`, the only way the tables change: `StoreType`, `StoreFrame`;
- the two things done to a table: an entry is stored (`EntryStored`, `StoreStep`)
  or erased (`EntryErased`, `RemoveStep`), each leaving the other entries alone;
- what a queue says after an event is added or taken (`AppendNotices`,
  `AppendOther`, `TailNotices`, `TailDeletes`, `EventTaken`);
- three shapes of steps: a local service (`LocalStep`), only messages and
  transfers (`InFlightStep`), a handler that touches one file (`HandledStep`).

`ReplicaProofs` proves, for the same constants:

| Theorem | Statement |
|---|---|
| `IdentifiersKeepTheirNames` | `Spec => []IdInv` |
| `DaemonsImplementReplica` | `Spec => ImplementsReplica` |
| `OnlyWatchersTellOfDeletions` | `Spec => []DeletionsWatched` |
| `SoleUserFilesKept` | `NoOtherWatchesDeletions => (Spec => SoleUserKeepsFiles)` |

What `Replica` promises of a transfer is that the file that is put in place is
the one that was announced under that name. The sender only looks at the
identifier, so one must know that the object an identifier refers to, if it is
still in memory, still has the name it was announced with, while messages and
transfers that name it are about (`MessagesNamed`, `ReceiversNamed`). An
identifier is free again only when nothing in `Server` refers to it, which is
where `IInv` is needed. The refinement needs no hypothesis: it holds with all
failures, restarts and overtaking included.

`SoleUserFilesKept` has one, that no other computer watches for deletions when
the one with services applies those it hears of. TLC violates
`SoleUserKeepsFiles` without it, with two computers in `latest` that both do.
With it an `RFS_FILE_DELETED` cannot reach the computer with services
(`DeletionsWatched`, from the listener's mask to the message).

`ConvergeProofs` proves:

| Theorem | Statement |
|---|---|
| `SharedVersionsArrive` | `Converging => (Spec => []CInv)` |
| `QuietClustersConverged` | `Converging => (Spec => []QuietConverged)` |
| `CopiesNeverGoBack` | `Converging => (Spec => CopiesOnlyAdvance)` |

`Converging` says that there is at most one send-only computer, none is in
`latest`, no service writes on a receive-only computer, nothing fails, and
transfers do not overtake each other. There may be any number of receive-only
computers, files, versions, and services of the source, which may apply
deletions or not. `converge` is its smallest instance. TLC violates
`QuietConverged` without any one of these: with failures (a message or a
transfer that is lost is not repeated), with overtaking (the older of two
transfers lands last), with services on the receive-only computer (their newer
file is kept), with two sources (the copy is that of one of them), and with a
computer in `latest` whose services write too (the copy has its version, which
the source does not receive). With a source, a copy and a computer in `latest`
without services, two versions and deletions applied at the source, TLC finds no
violation; that case is left to be proved.

`QuietConverged` says nothing as long as anything is on its way, so its
invariant must say what is. If the source announced the version it has,
then for each receive-only computer (`SharedArrives`) a message with that
version is in the channel with no deletion of the file behind it, or a transfer
of the announced object is requested that was not served yet or was served that
version, or the copy is there; in the last two cases no deletion is in the
channel. Each step takes one of these to another: `Receive` a message to a
request, or drops it because the table already says that version or a newer
one, and then one must know that the table of the computer tells what is on its
disk (`SecondaryKnows`) and that this is not newer than the source's
(`VersionsOK`); `Serve` reads the object, whose name `IdInv` vouches for;
`Install` puts the version in place, and no older one comes after it, because
receivers are served and land in order (`OneServed`, `VersionsOK`). What was not
announced yet waits in the timer's set or an event (`KnownIsShared`,
`KnownOrNoticed` of `IInv`), so when nothing does, everything was.

`CopiesOnlyAdvance` is a property of steps: the daemon of a receive-only computer
never puts an older version in the place of a newer one, though times are only
compared before a transfer and several may be under way. It follows from
`VersionsOK`. It is what `LatestNeverGoesBack` claims of computers in `latest`,
where it is violated (run `latest_regress`).

There is a lemma for each of those who act: the source's services, listener
and timer (`SourceActs`), computers that are neither source nor destination of
the file (`BystanderActs`), messages (`MessageActs`) and transfers
(`TransferActs`). They rest on lemmas about what is on its way when a queue is
extended, read or left with an element less (`WayExtended`, `WayRead`,
`RequestAppended`, `ReceiverServed`, `RemoveAtIndex` and the like).

`TransferProofs` proves, for any connections, any sizes of files, buffers and
sockets, any writes, and any of the failures in `Faults`:

| Theorem | Statement |
|---|---|
| `TransferInvariance` | `Spec => []IInv` |
| `InstalledWhole` | `Spec => []InstalledAsRead` |
| `TransferTypeCorrect` | `Spec => []TypeOK` |

from `SizeAssumption` (sizes are numbers, buffers are not empty, and so is what
`f_size` can hold) and `SwitchAssumption`, with any set of `Cuts`. When a
`data_receiver` accepts a hash, the sender may be long gone, so the argument
follows what each piece says from the sender's buffer through the socket to the
receiver: a header tells the time the sender found, a hash exists only after
the end of the file and is that of all that was read (`Genuine`, `StreamOK`).
It holds of pieces sent twice as well, which is why a partial `write()` ruins a
transfer but never the copy. `QuietBefore` says that nothing is on its way
before `open()` set the time. On the other side the temporary file holds what
was hashed unless a `write()` failed (`TempOK`), because no two receivers have
the same one (`TempsApart`). Without `"write"` in `Faults` it always does
(`TempOK` again), and what is installed is marked with no failure that `Faults`
does not have (`FailedOK`). A header that was cut keeps none of that: its time and size are
anything, but then the temporary file was not opened either and nothing is
renamed (`HeaderWhole`). The lemmas `SenderStep`, `ReceiverStep`, `TakeStep` and
`CloseStep` are the shapes of steps; each action then has a lemma of its own.

`AtomicCopyProofs` proves:

| Theorem | Statement |
|---|---|
| `MovedFilesAreCopiedAtOnce` | `Moved => (Spec => ImplementsAtomicCopy)` |
| `UndisturbedInvariance` | `Undisturbed => (Spec => []UInv)` |
| `UndisturbedTransfersSucceed` | `Undisturbed => (Spec => []UndisturbedSucceeds)` |
| `UndisturbedLeavesNoTemp` | `Undisturbed => (Spec => []NoStrayTemp)` |

`Moved` says that services do not write files in place, though they may replace
and remove them and take permissions away, and that the `write()` and
`utimensat()` calls for the temporary file work: without the first a full disk
leaves a copy no version ever was, without the second one with another time.
Connections that break, every call the code looks at, silence, every cut and
size are allowed. (A file that is rewritten while it is read is sent as a mix of both, with
a hash that fits the mix.) Then a sender reads one inode, and what it read up to
the end of it is all of it, with its time (`WholeReads`); `InstalledAsRead`
carries that to the copy.

`Undisturbed` has everything that could make a transfer fail excluded: files are
only replaced, nothing fails or is cut, no file is longer than `f_size` holds,
and a file fits into the socket with its header and footer. The last is no
property of real sockets: after a partial `write()` the code sends the start of
its buffer again, the run `short_write` shows it, and the theorem is false
without it. The number of connections is free, and so is the buffer's size. Then
what is left in the sender's buffer, what is in the socket and what the receiver
has taken are consecutive parts of one stream, that of the inode the sender
opened (`AllFlow`): every check of the receiver finds what it should, and each
temporary file is renamed when its connection is done.

`PathInfoProofs` proves, for any names, depths and numbers of sections:

| Theorem | Statement |
|---|---|
| `PathsInvariance` | `Spec => []IInv` |
| `OwnSection` | `Spec => []OwnSectionDecides` |
| `PathsTypeCorrect` | `Spec => []TypeOK` |

A directory of n names agrees with any other path on fewer than n slashes
(`SlashesOfDirectory`), and with itself on n, because of the one that is added
for the name at the end (`MatchItself`): so its own section is strictly the
best, and as sections are unique, `find_path_info()` finds it (`FindsOwn`).

`DaemonProofs` proves, for any objects, any lengths of seconds and delays, any
clock and any transfers:

| Theorem | Statement |
|---|---|
| `TimerForgetsNothing`, `TimerAnnouncesInTime` | `TimerSpec => []NothingForgotten`, `TimerSpec => []AnnouncedInTime` |
| `TimerAnnouncesOnce` | `TimerSpec => AnnouncedOncePerChange` |
| `DaemonImplementsTimer` | `Spec => ImplementsTimer` |
| `DaemonForgetsNothing`, `DaemonAnnouncesInTime`, `DaemonAnnouncesOnce` | the same three of the timer in the daemon |
| `DaemonTypeCorrect` | `Spec => []TypeOK` |
| `DaemonServesWhatItAnnounces` | `Spec => []AnnouncesWhatItServes` |
| `DaemonCrashesOnlyWhenStopping` | `Spec => []CrashOnlyWhenStopping` |

from `TimeAssumption`. The three about the timer need that no time is ahead of
the clock, as long as that is not set back, that exactly what was updated since
it was shared is pending, and that the next timeout is at most a second away
(`TimerInv`); they are proved of the timer alone and carried over to the daemon
by the refinement. The others follow from `LifeInv`: which pointers are set and
which connections there are before `ready()`, while the daemon runs, and after
`stop()`.

`RequestsProofs` proves, for any number of words, orders and messages, and any
`Width` of at least 2 (`WidthAssumption`: with one number there would be none
besides 0):

| Theorem | Statement |
|---|---|
| `NumbersAreApart` | `RequestsSpec => NumbersLast` |
| `OrdersTypeCorrect` | `RequestsSpec => []TypeOK` |
| `OrdersAsAsked` | `RequestsSpec => []OnlyWhatWasAsked` |
| `ExitCodeTells` | `RequestsSpec => []ExitTells` |
| `FlagsReadBack` | `RequestsSpec => []FlagsSurvive` |

`NumbersLast` relates two messages that may be far apart. The invariant gives
each number an age, how many steps the counter is past it, and says that a
number was last used at least that many messages ago. The two about orders need
`OrdersInv`: the messages sent are those of the words before `next`, in their
order.

Only model-checked: what happens eventually, `EventuallyReplicated`, `TransferEnds`
and `StopEnds`, since liveness under fairness is out of the prover's reach, and
`StraysOfHangups`, which counts temporary files.
Every other property of a passing run is stated by a theorem.

## 5. What is not modelled

Owners, groups and permissions of files; what a login is and how TLS keeps a
connection secret (which addresses may be used is the guard of `MsgFileChanged`); what else is in memory
behind a structure that is written over. The window between `rename()` and the
`stat()` of `refresh_file()`: what a service writes in it is taken for what was
received and never announced, so the property one would want does not hold, and
`Server` takes the installation as one step. Patterns in paths, and
`path_part`. The checks of options at start-up and log messages: no property
here depends on them. The event dispatcher, `advgetopt` and the communicator are
modelled only by how the code uses them. `version.cpp`, the exceptions, the
build, packaging and tests have no behaviour to model.

Other behaviours have no run, since nothing in the code is there to prevent them
and no property of them would hold: of two transfers of a file the older may
land last and stay (`converge` and `CopiesNeverGoBack` have transfers land in
order); a transfer under way when a deletion arrives brings the file back; a
message that is lost is not repeated. They are in the list of hazards.

## 6. Plan

1. *Done*: `Server`, `Replica`, `ServerReplica`, `MCServer`, `ServerProofs`;
   `Transfer` with everything that can be cut and the width of sizes,
   `AtomicCopy`, `TransferProofs`; `PathInfo`, `PathInfoProofs`;
   `ModifiedTimer`, `Daemon`, `DaemonProofs`; `Orders`, `Client`, `Requests`,
   `RequestsProofs`; `ReplicaProofs`, `ConvergeProofs`, `AtomicCopyProofs`.
2. Proofs: `QuietConverged` with computers in `latest` that have no services, and
   under which hypotheses `LatestNeverGoesBack` holds.
3. The installation split at `rename()`, with services in the window, and the
   owner of the file that is set from the names.
