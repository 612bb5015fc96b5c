------------------------------- MODULE Daemon -------------------------------
(***************************************************************************)
(* The life of one snaprfs process: server::ready(), stop() and restart()  *)
(* of daemon/server.cpp, the messages of daemon/messenger.cpp that lead to *)
(* them and to transfers, the connections accepted by data_server, and the *)
(* modified_timer (module ModifiedTimer), all of them connections of one   *)
(* ed::communicator whose run() ends when it has none left.                *)
(*                                                                         *)
(* What a message does to files and tables is in module Server and what a  *)
(* transfer does in module Transfer; here it matters which connections     *)
(* there are, which are made, and what is dispatched when.                 *)
(***************************************************************************)
EXTENDS ModifiedTimer, Sequences

CONSTANTS
    Transfers,      \* data_sender and data_receiver connections at one time
    MaxAddresses    \* bound: addresses in an RFS_FILE_CHANGED

VARIABLES
    config,             \* what the configuration files and the system say
    process,            \* "running", or how it ended
    f_force_restart,    \* of server
    messenger,          \* "up", "done" once it is to leave, or "gone"
    f_file_listener,    \* f_file_listener # nullptr
    f_data_server,      \* f_data_server # nullptr
    f_secure_data_server,
    connections,        \* those that are neither messenger, timer nor transfer
    transfer            \* transfer[t]: a data_sender or data_receiver

life_vars == << config, process, f_force_restart, messenger, f_file_listener,
                f_data_server, f_secure_data_server, connections >>
vars == << timer_vars, life_vars, transfer >>

-----------------------------------------------------------------------------
(***************************************************************************)
(* Data.  A listen option is "none" when it is absent, empty or of another *)
(* scheme, an "error" that ready() stops for, "busy" when its address      *)
(* cannot be bound, or "good"; the three options of the secure one count   *)
(* as one.  The paths are "none", "received" when no path is watched, or   *)
(* "watched".                                                              *)
(***************************************************************************)
Listen == {"none", "error", "busy", "good"}
Config == [listen: Listen, secure: Listen,
           paths: {"none", "received", "watched"}]

Listeners == {"file_listener", "data_server", "secure_data_server"}

\* hung is set when the other end does nothing any more.
Transfer == [role: {"sender", "receiver"}, hung: BOOLEAN]
NoTransfer == [role |-> "none", hung |-> FALSE]
Open(t) == transfer[t].role # "none"

DataReceiver == [role |-> "receiver", hung |-> FALSE]
\* Mutant: the connection is entered under what accepted it.
DataSenderOfServer(server) == [role |-> server, hung |-> FALSE]
DataSender(server) == [role |-> "sender", hung |-> FALSE]

\* The schemes of my_addresses; "other" stands for all that is skipped: no
\* URI, not one of the two schemes, or not one address.
Schemes == {"rfs", "rfss", "other"}
AddressLists == UNION {[1..n -> Schemes] : n \in 1..MaxAddresses}

Init ==
    /\ TimerInit
    /\ config \in Config
    /\ process = "running"
    /\ f_force_restart = FALSE
    /\ messenger = "up"
    /\ f_file_listener = FALSE
    /\ f_data_server = FALSE
    /\ f_secure_data_server = FALSE
    /\ connections = {}
    /\ transfer = [t \in Transfers |-> NoTransfer]

\* READY comes first: communicatord does not know the service before.
Dispatching ==
    process = "running" /\ messenger # "gone" /\ timer # "null"

-----------------------------------------------------------------------------
(***************************************************************************)
(* server::ready().                                                        *)
(***************************************************************************)

\* The constructor of file_listener or of a data_server throws: the process
\* ends, from wherever ready() is.
ReadyThrows ==
    \/ config.paths = "none"
    \/ config.listen = "busy"
    \/ (config.listen # "error" /\ config.secure = "busy")

HasDataServer == config.listen = "good"
HasSecureDataServer == config.listen # "error" /\ config.secure = "good"

\* ready() calls stop(false) and returns.
\* Mutant: the absence of any data server is not looked at.
ReadyStopsOnError == "error" \in {config.listen, config.secure}
ReadyStops ==
    \/ "error" \in {config.listen, config.secure}
    \/ ~ (HasDataServer \/ HasSecureDataServer)

\* A listener without a watch has no valid socket and is not added.
Added ==
    (IF config.paths = "watched" THEN {"file_listener"} ELSE {})
    \cup (IF HasDataServer THEN {"data_server"} ELSE {})
    \cup (IF HasSecureDataServer THEN {"secure_data_server"} ELSE {})

\* unregister_communicator() lets the messenger leave at once, or when it has
\* sent what it has to send (external).
Unregister == messenger' \in IF messenger = "gone" THEN {"gone"}
                                                   ELSE {"done", "gone"}

\* READY is dispatched again when communicatord is connected to again, and is
\* then ignored: g_modified_timer stays when the daemon is stopped.
Ready ==
    /\ process = "running"
    /\ timer = "null"
    /\ ~ f_file_listener
    /\ \/ /\ ReadyThrows
          /\ process' = "threw"
          /\ UNCHANGED << timer_vars, messenger, f_file_listener,
                          f_data_server, f_secure_data_server, connections >>
       \/ /\ ~ ReadyThrows
          /\ f_data_server' = HasDataServer
          /\ f_secure_data_server' = HasSecureDataServer
          /\ UNCHANGED process
          /\ \/ /\ ~ ReadyStops
                /\ StartTimer
                /\ f_file_listener' = TRUE
                /\ connections' = Added
                /\ UNCHANGED messenger
             \/ /\ ReadyStops
                /\ StopTimer
                /\ Unregister
                /\ UNCHANGED << f_file_listener, connections >>
    /\ UNCHANGED << config, f_force_restart, transfer >>

(***************************************************************************)
(* server::stop() and server::restart(), for STOP, QUITTING and RESTART.   *)
(***************************************************************************)

\* Mutants: the daemon stays registered; the data servers stay; what waits
\* for its time is dropped.
StopStaysRegistered ==
    /\ StopTimer
    /\ f_file_listener' = FALSE
    /\ connections' = connections \ Listeners
    /\ UNCHANGED messenger
StopKeepsServers ==
    /\ Unregister
    /\ StopTimer
    /\ f_file_listener' = FALSE
    /\ connections' = connections \ {"file_listener"}
StopForgets ==
    /\ Unregister
    /\ timer' = "removed"
    /\ f_modified_files' = {}
    /\ f_file_listener' = FALSE
    /\ connections' = connections \ Listeners
    /\ UNCHANGED << clock_vars, object_vars, timeout_date >>
Stop ==
    /\ Unregister
    /\ StopTimer
    /\ f_file_listener' = FALSE
    /\ connections' = connections \ Listeners

DispatchStop(restart) ==
    /\ Dispatching
    /\ Stop
    /\ f_force_restart' = (f_force_restart \/ restart)
    /\ UNCHANGED << config, process, f_data_server, f_secure_data_server,
                    transfer >>

-----------------------------------------------------------------------------
(***************************************************************************)
(* messenger::msg_file_changed(), for a message with all its parameters,   *)
(* and server::receive_file().                                             *)
(***************************************************************************)

\* The addresses receive_file() is called with, in their order, until one can be
\* connected to: a plain one does not do for a message that came through a
\* secure communicatord.
IsUsable(scheme, secure_remote) ==
    scheme = "rfss" \/ (scheme = "rfs" /\ ~ secure_remote)
Usable(addresses, secure_remote) ==
    {k \in DOMAIN addresses : IsUsable(addresses[k], secure_remote)}

\* The file is of no path that receives, or not older here: the first call
\* of receive_file() returns true and nothing has changed, so only the other
\* messages are actions.  "accepts" are the addresses that can be connected
\* to; which of the usable ones it is makes no difference to the process.
ReceiveFile(t, addresses, secure_remote, accepts) ==
    /\ Dispatching
    /\ f_file_listener
    /\ ~ Open(t)
    /\ Usable(addresses, secure_remote) \cap accepts # {}
    /\ transfer' = [transfer EXCEPT ![t] = DataReceiver]
    /\ UNCHANGED << timer_vars, life_vars >>

MsgFileChanged ==
    \E t \in Transfers, addresses \in AddressLists, secure_remote \in BOOLEAN :
        \E accepts \in SUBSET DOMAIN addresses :
            ReceiveFile(t, addresses, secure_remote, accepts)

\* RFS_FILE_CHANGED or RFS_FILE_DELETED once stop() has reset f_file_listener:
\* find_path_info() of a null pointer.
DispatchWithoutListener ==
    /\ Dispatching
    /\ ~ f_file_listener
    /\ process' = "crashed"
    /\ UNCHANGED << timer_vars, config, f_force_restart, messenger,
                    f_file_listener, f_data_server, f_secure_data_server,
                    connections, transfer >>

(***************************************************************************)
(* The transfers, as far as the process sees them.                         *)
(***************************************************************************)

\* data_server::process_accept().
ProcessAccept(t, server) ==
    /\ process = "running"
    /\ server \in connections
    /\ ~ Open(t)
    /\ transfer' = [transfer EXCEPT ![t] = DataSender(server)]
    /\ UNCHANGED << timer_vars, life_vars >>

\* It has sent or installed its file, failed, or was hung up on.
TransferEnds(t) ==
    /\ process = "running"
    /\ Open(t) /\ ~ transfer[t].hung
    /\ transfer' = [transfer EXCEPT ![t] = NoTransfer]
    /\ UNCHANGED << timer_vars, life_vars >>

\* data_sender::open() failed on one end: both wait for the other one.  Or
\* the other computer is gone without a word.
TransferHangs(t) ==
    /\ process = "running"
    /\ Open(t) /\ ~ transfer[t].hung
    /\ transfer' = [transfer EXCEPT ![t].hung = TRUE]
    /\ UNCHANGED << timer_vars, life_vars >>

\* The other end of such a transfer goes.
HungUp(t) ==
    /\ process = "running"
    /\ transfer[t].hung
    /\ transfer' = [transfer EXCEPT ![t] = NoTransfer]
    /\ UNCHANGED << timer_vars, life_vars >>

(***************************************************************************)
(* The communicator.                                                       *)
(***************************************************************************)
MessengerLeaves ==
    /\ process = "running"
    /\ messenger = "done"
    /\ messenger' = "gone"
    /\ UNCHANGED << timer_vars, config, process, f_force_restart,
                    f_file_listener, f_data_server, f_secure_data_server,
                    connections, transfer >>

\* server::run() returns 1 or 0 when communicator::run() has no connection.
RunReturns ==
    /\ process = "running"
    /\ messenger = "gone" /\ timer # "added" /\ connections = {}
    /\ \A t \in Transfers : ~ Open(t)
    /\ process' = IF f_force_restart THEN "restart" ELSE "stopped"
    /\ UNCHANGED << timer_vars, config, f_force_restart, messenger,
                    f_file_listener, f_data_server, f_secure_data_server,
                    connections, transfer >>

\* What the timer, the listener and the world do while the process runs.
Event(o) == "file_listener" \in connections /\ UpdatedFile(o)

\* Before there is a timer and when it is gone, the clock is of no interest.
TimerSteps ==
    /\ process = "running"
    /\ \/ timer = "added" /\ Elapse
       \/ timer = "added" /\ \E d \in 1..MaxStepBack : StepBack(d)
       \/ \E o \in Objects : Event(o)
       \/ ProcessTimeout
    /\ UNCHANGED << life_vars, transfer >>

-----------------------------------------------------------------------------
Next ==
    \/ Ready
    \/ \E restart \in BOOLEAN : DispatchStop(restart)
    \/ MsgFileChanged \/ DispatchWithoutListener
    \/ \E t \in Transfers :
           \/ \E server \in {"data_server", "secure_data_server"} :
                  ProcessAccept(t, server)
           \/ TransferEnds(t) \/ TransferHangs(t) \/ HungUp(t)
    \/ MessengerLeaves \/ RunReturns
    \/ TimerSteps

Spec == Init /\ [][Next]_vars

\* The event loop serves its connections, the messenger's last bytes leave,
\* and a transfer that neither end gave up comes to its end.  Nothing is
\* assumed of messages, of the clock, nor of a transfer that hangs.
Fairness ==
    /\ WF_vars(MessengerLeaves) /\ WF_vars(RunReturns)
    /\ \A t \in Transfers : WF_vars(TransferEnds(t))

FairSpec == Spec /\ Fairness

-----------------------------------------------------------------------------
(***************************************************************************)
(* Properties.                                                             *)
(***************************************************************************)
TypeOK ==
    /\ TimerTypeOK
    /\ config \in Config
    /\ process \in {"running", "restart", "stopped", "threw", "crashed"}
    /\ f_force_restart \in BOOLEAN
    /\ messenger \in {"up", "done", "gone"}
    /\ {f_file_listener, f_data_server, f_secure_data_server} \subseteq BOOLEAN
    /\ connections \subseteq Listeners
    /\ transfer \in [Transfers -> Transfer \cup {NoTransfer}]

\* The servers whose addresses broadcast_file_changed() lists.
Listed == (IF f_data_server THEN {"data_server"} ELSE {})
          \cup (IF f_secure_data_server THEN {"secure_data_server"} ELSE {})

\* While a change can be announced, the announcement has an address, and who
\* connects to any address in it is accepted: a daemon does not announce
\* files it does not serve, neither before its servers are there nor when
\* stop() has taken them away, although the pointers to them stay.
AnnouncesWhatItServes ==
    process = "running" /\ (timer = "added" \/ "file_listener" \in connections)
        => Listed # {} /\ Listed \subseteq connections

\* f_file_listener is missed by a message only when stop() was called, and a
\* daemon that was not told to stop and has a sound configuration never
\* crashes on one.
CrashOnlyWhenStopping == process = "crashed" => messenger # "up"

\* A daemon that is stopped ends, unless a transfer hangs: nothing else keeps
\* communicator::run() from returning.
StopEnds ==
    messenger # "up" ~> \/ process # "running"
                        \/ \E t \in Transfers : transfer[t].hung

\* The timer in the daemon is the timer of ModifiedTimer.
ImplementsTimer == TimerSpec

=============================================================================
