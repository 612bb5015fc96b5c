----------------------------- MODULE DaemonProofs -----------------------------
(***************************************************************************)
(* Proofs about ModifiedTimer and Daemon, for every set of objects and of  *)
(* transfers, every configuration, and any transfer_after_sec.  The timer  *)
(* is proved about alone first; the daemon implements it, so that what is  *)
(* proved of the timer holds in the daemon.                                *)
(***************************************************************************)
EXTENDS Daemon, TLAPS

-----------------------------------------------------------------------------
(***************************************************************************)
(* The timer.                                                              *)
(***************************************************************************)
LEMMA TransferAfterNat == TransferAfter \in Nat
  BY TimeAssumption DEF TransferAfter

\* What a change or the lack of one says of the two times, of any clock.
ChangesAreKnown ==
    \A o \in Objects : o \notin pending => f_last_updated[o] <= f_start_sharing[o]

\* While the clock only goes forward, what is pending waits and looks updated.
ForwardClock ==
    ~ set_back => /\ \A o \in Objects : f_last_updated[o] <= now
                                        /\ f_start_sharing[o] <= now
                  /\ \A o \in pending : /\ o \in f_modified_files
                                        /\ f_last_updated[o] > f_start_sharing[o]

\* The timer fires before the time is up for any object that waits.
TimerIsSet ==
    /\ timer = "null" => f_modified_files = {}
    /\ timer = "added" /\ ~ set_back =>
           /\ now <= timeout_date /\ timeout_date <= now + Second
           /\ \A o \in f_modified_files :
                  timeout_date < f_last_updated[o] + TransferAfter + Second

TimerInv == TimerTypeOK /\ ChangesAreKnown /\ ForwardClock /\ TimerIsSet

LEMMA TimerInitInv == TimerInit => TimerInv
  <1> SUFFICES ASSUME TimerInit PROVE TimerInv
    OBVIOUS
  <1>1. TimerTypeOK
    <2>1. /\ f_last_updated \in [Objects -> Int]
          /\ f_start_sharing \in [Objects -> Int]
      BY DEF TimerInit
    <2>2. now \in Int /\ timeout_date \in Int
      BY DEF TimerInit
    <2>3. set_back \in BOOLEAN
      BY DEF TimerInit
    <2>4. f_modified_files \subseteq Objects /\ pending \subseteq Objects
      BY DEF TimerInit
    <2>5. timer \in {"null", "added", "removed"}
      BY DEF TimerInit
    <2> QED BY <2>1, <2>2, <2>3, <2>4, <2>5 DEF TimerTypeOK
  <1>2. ChangesAreKnown
    BY DEF TimerInit, ChangesAreKnown
  <1>3. ForwardClock
    BY DEF TimerInit, ForwardClock
  <1>4. TimerIsSet
    BY DEF TimerInit, TimerIsSet
  <1> QED BY <1>1, <1>2, <1>3, <1>4 DEF TimerInv

LEMMA ElapseInv == TimerInv /\ Elapse => TimerInv'
  BY TimeAssumption, TransferAfterNat
  DEF Elapse, Later, Overdue, TimerInv, TimerTypeOK, ChangesAreKnown,
      ForwardClock, TimerIsSet, object_vars

LEMMA StepBackInv ==
    ASSUME NEW d \in 1..MaxStepBack, TimerInv, StepBack(d)
    PROVE  TimerInv'
  BY TimeAssumption
  DEF StepBack, TimerInv, TimerTypeOK, ChangesAreKnown, ForwardClock,
      TimerIsSet, object_vars

LEMMA StartTimerInv == TimerInv /\ StartTimer => TimerInv'
  BY TimeAssumption, TransferAfterNat
  DEF StartTimer, NextTimeout, TimerInv, TimerTypeOK, ChangesAreKnown,
      ForwardClock, TimerIsSet, object_vars, clock_vars

LEMMA StopTimerInv == TimerInv /\ StopTimer => TimerInv'
  BY DEF StopTimer, TimerInv, TimerTypeOK, ChangesAreKnown, ForwardClock,
         TimerIsSet, object_vars, clock_vars

LEMMA UpdatedFileInv ==
    ASSUME NEW o \in Objects, TimerInv, UpdatedFile(o)
    PROVE  TimerInv'
  <1> USE TimeAssumption, TransferAfterNat
      DEF TimerInv, TimerTypeOK, UpdatedFile, Later, Overdue
  <1>1. CASE WroteFile(o)
    BY <1>1 DEF WroteFile, ChangesAreKnown, ForwardClock, TimerIsSet
  <1>2. CASE ClosedFile(o)
    BY <1>2 DEF ClosedFile, ChangesAreKnown, ForwardClock, TimerIsSet
  <1> QED BY <1>1, <1>2

LEMMA ProcessTimeoutInv == TimerInv /\ ProcessTimeout => TimerInv'
  <1> SUFFICES ASSUME TimerInv, ProcessTimeout PROVE TimerInv'
    OBVIOUS
  <1> USE TimeAssumption, TransferAfterNat
      DEF TimerInv, TimerTypeOK, ProcessTimeout, Overdue, NextTimeout,
          clock_vars, Due, StillWaiting, IsQuiet, WasUpdated
  <1>1. TimerTypeOK'
    OBVIOUS
  <1>2. ChangesAreKnown'
    BY DEF ChangesAreKnown
  <1>3. ForwardClock'
    BY DEF ForwardClock
  <1>4. TimerIsSet'
    BY DEF TimerIsSet
  <1> QED BY <1>1, <1>2, <1>3, <1>4

LEMMA TimerNextInv == TimerInv /\ [TimerNext]_timer_vars => TimerInv'
  <1> SUFFICES ASSUME TimerInv, [TimerNext]_timer_vars PROVE TimerInv'
    OBVIOUS
  <1>1. CASE UNCHANGED timer_vars
    BY <1>1 DEF timer_vars, TimerInv, TimerTypeOK, ChangesAreKnown,
       ForwardClock, TimerIsSet, TransferAfter
  <1> QED BY <1>1, ElapseInv, StepBackInv, UpdatedFileInv, StartTimerInv,
             StopTimerInv, ProcessTimeoutInv DEF TimerNext

LEMMA TimerAlwaysInv == TimerSpec => []TimerInv
  BY TimerInitInv, TimerNextInv, PTL DEF TimerSpec

\* A change that was not announced yet waits in the timer's set, as long as
\* the clock is not set back: process_timeout() forgets nothing.
THEOREM TimerForgetsNothing == TimerSpec => []NothingForgotten
  <1>1. TimerInv => NothingForgotten
    BY DEF TimerInv, ForwardClock, NothingForgotten, TimerTypeOK
  <1> QED BY <1>1, TimerAlwaysInv, PTL

\* No file waits for longer than transfer_after_sec and one tick of the timer.
THEOREM TimerAnnouncesInTime == TimerSpec => []AnnouncedInTime
  <1>1. TimerInv => AnnouncedInTime
    BY TimeAssumption, TransferAfterNat
    DEF TimerInv, TimerIsSet, AnnouncedInTime, TimerTypeOK
  <1> QED BY <1>1, TimerAlwaysInv, PTL

\* What was announced is not announced again before it changes, even if the
\* clock is set back meanwhile.
THEOREM TimerAnnouncesOnce == TimerSpec => AnnouncedOncePerChange
  <1> DEFINE Once == \A o \in Objects :
                         \/ f_start_sharing'[o] = f_start_sharing[o]
                         \/ o \in pending
                         \/ f_last_updated'[o] = now'
  <1>1. TimerInv /\ TimerInv' /\ [TimerNext]_timer_vars => [Once]_timer_vars
    <2> SUFFICES ASSUME TimerInv, TimerNext PROVE Once
      OBVIOUS
    <2>1. CASE ProcessTimeout
      BY <2>1, TransferAfterNat
      DEF ProcessTimeout, Due, WasUpdated, IsQuiet, TimerInv, TimerTypeOK,
          ChangesAreKnown
    <2>2. CASE \E o \in Objects : UpdatedFile(o)
      BY <2>2 DEF UpdatedFile, Later, WroteFile, ClosedFile, TimerInv,
                  TimerTypeOK
    <2>3. CASE Elapse \/ StartTimer \/ StopTimer
               \/ \E d \in 1..MaxStepBack : StepBack(d)
      BY <2>3 DEF Elapse, StartTimer, StopTimer, StepBack, object_vars
    <2> QED BY <2>1, <2>2, <2>3 DEF TimerNext
  <1> QED BY <1>1, TimerAlwaysInv, PTL DEF TimerSpec, AnnouncedOncePerChange

-----------------------------------------------------------------------------
(***************************************************************************)
(* The daemon implements the timer.                                        *)
(***************************************************************************)
LEMMA NextImplementsTimer == [Next]_vars => [TimerNext]_timer_vars
  <1> SUFFICES ASSUME [Next]_vars PROVE [TimerNext]_timer_vars
    OBVIOUS
  <1>1. CASE Ready
    BY <1>1 DEF Ready, TimerNext
  <1>2. CASE \E restart \in BOOLEAN : DispatchStop(restart)
    BY <1>2 DEF DispatchStop, Stop, TimerNext
  <1>3. CASE MsgFileChanged
    BY <1>3 DEF MsgFileChanged, ReceiveFile
  <1>4. CASE \E t \in Transfers :
               \/ \E server \in {"data_server", "secure_data_server"} :
                      ProcessAccept(t, server)
               \/ TransferEnds(t) \/ TransferHangs(t) \/ HungUp(t)
    BY <1>4 DEF ProcessAccept, TransferEnds, TransferHangs, HungUp
  <1>5. CASE DispatchWithoutListener \/ MessengerLeaves \/ RunReturns
    BY <1>5 DEF DispatchWithoutListener, MessengerLeaves, RunReturns
  <1>6. CASE TimerSteps
    BY <1>6 DEF TimerSteps, TimerNext, Event
  <1>7. CASE UNCHANGED vars
    BY <1>7 DEF vars
  <1> QED BY <1>1, <1>2, <1>3, <1>4, <1>5, <1>6, <1>7 DEF Next

\* Whatever the messages, the transfers and the configuration do, the timer
\* of the daemon is that of ModifiedTimer.
THEOREM DaemonImplementsTimer == Spec => ImplementsTimer
  <1>1. Init => TimerInit
    BY DEF Init
  <1> QED BY <1>1, NextImplementsTimer, PTL DEF Spec, ImplementsTimer, TimerSpec

\* What was changed is announced in the daemon, as it is in the timer.
THEOREM DaemonForgetsNothing == Spec => []NothingForgotten
  BY DaemonImplementsTimer, TimerForgetsNothing, PTL DEF ImplementsTimer

THEOREM DaemonAnnouncesInTime == Spec => []AnnouncedInTime
  BY DaemonImplementsTimer, TimerAnnouncesInTime, PTL DEF ImplementsTimer

THEOREM DaemonAnnouncesOnce == Spec => AnnouncedOncePerChange
  BY DaemonImplementsTimer, TimerAnnouncesOnce, PTL DEF ImplementsTimer

-----------------------------------------------------------------------------
(***************************************************************************)
(* The life of the process.                                                *)
(***************************************************************************)

\* Before READY there is nothing, between READY and stop() everything that
\* broadcast_file_changed() and receive_file() rely on, and after it nothing
\* that makes events.
LifeInv ==
    /\ timer = "null" => connections = {} /\ messenger = "up"
    /\ timer = "added" => /\ f_file_listener
                          /\ Listed # {} /\ Listed \subseteq connections
    /\ timer = "removed" => connections = {} /\ messenger # "up"

DaemonInv ==
    TimerInv /\ TypeOK /\ LifeInv /\ CrashOnlyWhenStopping

LEMMA DaemonInitInv == Init => DaemonInv
  <1> SUFFICES ASSUME Init PROVE DaemonInv
    OBVIOUS
  <1>1. TimerInv /\ TimerTypeOK /\ timer = "null"
    BY TimerInitInv DEF Init, TimerInit, TimerInv
  <1>2. TypeOK
    BY <1>1 DEF Init, TypeOK, Listeners
  <1>3. LifeInv
    BY <1>1 DEF Init, LifeInv
  <1>4. CrashOnlyWhenStopping
    BY DEF Init, CrashOnlyWhenStopping
  <1> QED BY <1>1, <1>2, <1>3, <1>4 DEF DaemonInv

\* Every step of the daemon keeps the invariant of the timer.
LEMMA TimerNextDaemon ==
    DaemonInv /\ [Next]_vars => TimerInv'
  BY NextImplementsTimer, TimerNextInv DEF DaemonInv

LEMMA ReadyInv == DaemonInv /\ Ready /\ TimerInv' => DaemonInv'
  <1> SUFFICES ASSUME DaemonInv, Ready, TimerInv' PROVE DaemonInv'
    OBVIOUS
  <1> USE DEF DaemonInv, Ready
  <1>1. CASE process' = "threw" /\ UNCHANGED << timer_vars, messenger,
                 f_file_listener, f_data_server, f_secure_data_server,
                 connections >>
    BY <1>1 DEF TimerInv, TypeOK, LifeInv, CrashOnlyWhenStopping,
       Listed, timer_vars
  <1>2. CASE /\ ~ ReadyStops /\ StartTimer /\ f_file_listener' = TRUE
             /\ connections' = Added /\ UNCHANGED << messenger, process >>
             /\ f_data_server' = HasDataServer
             /\ f_secure_data_server' = HasSecureDataServer
    <2>1. TypeOK'
      BY <1>2 DEF TimerInv, TypeOK, Added, Listeners, HasDataServer,
         HasSecureDataServer
    <2>2. LifeInv'
      BY <1>2 DEF LifeInv, StartTimer, Added, Listed, ReadyStops
    <2>3. CrashOnlyWhenStopping'
      BY <1>2 DEF CrashOnlyWhenStopping, TypeOK
    <2> QED BY <2>1, <2>2, <2>3
  <1>3. CASE /\ ReadyStops /\ StopTimer /\ Unregister
             /\ UNCHANGED << f_file_listener, connections, process >>
             /\ f_data_server' = HasDataServer
             /\ f_secure_data_server' = HasSecureDataServer
    <2>1. messenger' \in {"done", "gone"}
      BY <1>3 DEF Unregister
    <2>2. TypeOK'
      BY <1>3, <2>1 DEF TimerInv, TypeOK, HasDataServer, HasSecureDataServer
    <2>3. LifeInv'
      BY <1>3, <2>1 DEF LifeInv, StopTimer
    <2>4. CrashOnlyWhenStopping'
      BY <1>3, <2>1 DEF CrashOnlyWhenStopping, TypeOK
    <2> QED BY <2>2, <2>3, <2>4
  <1> QED BY <1>1, <1>2, <1>3

LEMMA DispatchStopInv ==
    ASSUME NEW restart \in BOOLEAN, DaemonInv, DispatchStop(restart), TimerInv'
    PROVE  DaemonInv'
  <1> USE DEF DaemonInv, DispatchStop, Stop
  <1>1. messenger' \in {"done", "gone"}
    BY DEF Unregister, TypeOK
  <1>2. TypeOK' /\ connections' = {}
    BY <1>1 DEF TimerInv, TypeOK
  <1>3. LifeInv'
    BY <1>1, <1>2 DEF LifeInv, StopTimer
  <1>4. CrashOnlyWhenStopping'
    BY <1>1 DEF CrashOnlyWhenStopping
  <1> QED BY <1>2, <1>3, <1>4

LEMMA ReceiveFileInv ==
    ASSUME NEW t \in Transfers, NEW addresses \in AddressLists,
           NEW secure_remote \in BOOLEAN, NEW accepts \in SUBSET DOMAIN addresses,
           DaemonInv, ReceiveFile(t, addresses, secure_remote, accepts)
    PROVE  DaemonInv'
  <1> USE DEF DaemonInv, ReceiveFile
  <1>1. DataReceiver \in Transfer
    BY DEF DataReceiver, Transfer
  <1>2. TypeOK' /\ TimerInv'
    BY <1>1 DEF TypeOK, TimerInv, TimerTypeOK, ChangesAreKnown,
       ForwardClock, TimerIsSet, TransferAfter, timer_vars, life_vars
  <1>3. LifeInv' /\ CrashOnlyWhenStopping'
    BY DEF LifeInv, CrashOnlyWhenStopping, Listed, life_vars, timer_vars
  <1> QED BY <1>2, <1>3

\* The other steps of a transfer.
LEMMA TransferInv ==
    ASSUME NEW t \in Transfers, DaemonInv, UNCHANGED << timer_vars, life_vars >>,
           \/ transfer' = [transfer EXCEPT ![t] = NoTransfer]
           \/ Open(t) /\ transfer' = [transfer EXCEPT ![t].hung = TRUE]
           \/ \E server \in Listeners :
                  transfer' = [transfer EXCEPT ![t] = DataSender(server)]
    PROVE  DaemonInv'
  <1> USE DEF DaemonInv
  <1>1. TimerInv' /\ LifeInv' /\ CrashOnlyWhenStopping'
    BY DEF TimerInv, TimerTypeOK, ChangesAreKnown, ForwardClock, TimerIsSet,
       TransferAfter, LifeInv, CrashOnlyWhenStopping, Listed, life_vars,
       timer_vars
  <1>2. transfer' \in [Transfers -> Transfer \cup {NoTransfer}]
    <2>1. CASE transfer' = [transfer EXCEPT ![t] = NoTransfer]
      BY <2>1 DEF TypeOK
    <2>2. CASE Open(t) /\ transfer' = [transfer EXCEPT ![t].hung = TRUE]
      <3>1. transfer[t] \in Transfer
        BY <2>2 DEF TypeOK, Open, NoTransfer
      <3>2. [transfer[t] EXCEPT !.hung = TRUE] \in Transfer
        BY <3>1 DEF Transfer
      <3> QED BY <2>2, <3>2 DEF TypeOK
    <2>3. CASE \E server \in Listeners :
                   transfer' = [transfer EXCEPT ![t] = DataSender(server)]
      <3>1. \A server \in Listeners : DataSender(server) \in Transfer
        BY DEF DataSender, Transfer
      <3> QED BY <2>3, <3>1 DEF TypeOK
    <2> QED BY <2>1, <2>2, <2>3
  <1>3. TypeOK'
    BY <1>1, <1>2 DEF TypeOK, TimerInv, life_vars
  <1> QED BY <1>1, <1>3

\* The steps in which the process comes to its end.
LEMMA EndInv ==
    DaemonInv /\ TimerInv'
    /\ (DispatchWithoutListener \/ MessengerLeaves \/ RunReturns) => DaemonInv'
  <1> SUFFICES ASSUME DaemonInv, TimerInv',
                      DispatchWithoutListener \/ MessengerLeaves \/ RunReturns
               PROVE  DaemonInv'
    OBVIOUS
  <1>1. /\ UNCHANGED << timer_vars, config, f_force_restart, f_file_listener,
                        f_data_server, f_secure_data_server, connections,
                        transfer >>
        /\ messenger' \in {messenger, "gone"}
        /\ messenger' # messenger => messenger # "up"
    BY DEF DispatchWithoutListener, MessengerLeaves, RunReturns
  <1>2. /\ process' \in {"running", "restart", "stopped", "threw", "crashed"}
        /\ process' = "crashed" => messenger' # "up"
    BY <1>1 DEF DispatchWithoutListener, MessengerLeaves, RunReturns,
       Dispatching, DaemonInv, TypeOK, LifeInv, TimerInv, TimerTypeOK
  <1>3. TypeOK'
    BY <1>1, <1>2 DEF DaemonInv, TypeOK, TimerInv
  <1>4. LifeInv'
    BY <1>1 DEF DaemonInv, LifeInv, Listed, timer_vars
  <1>5. CrashOnlyWhenStopping'
    BY <1>1, <1>2 DEF DaemonInv, CrashOnlyWhenStopping
  <1> QED BY <1>3, <1>4, <1>5 DEF DaemonInv

LEMMA TimerStepsInv == DaemonInv /\ TimerInv' /\ TimerSteps => DaemonInv'
  <1> SUFFICES ASSUME DaemonInv, TimerInv', TimerSteps PROVE DaemonInv'
    OBVIOUS
  <1>1. UNCHANGED timer
    BY DEF TimerSteps, Elapse, StepBack, Event, UpdatedFile, ProcessTimeout
  <1> QED BY <1>1 DEF DaemonInv, TimerSteps, TimerInv, TypeOK, LifeInv, Listed,
             CrashOnlyWhenStopping, life_vars

LEMMA DaemonNextInv == DaemonInv /\ [Next]_vars => DaemonInv'
  <1> SUFFICES ASSUME DaemonInv, [Next]_vars PROVE DaemonInv'
    OBVIOUS
  <1> TimerInv'
    BY TimerNextDaemon
  <1>1. CASE Ready
    BY <1>1, ReadyInv
  <1>2. CASE \E restart \in BOOLEAN : DispatchStop(restart)
    BY <1>2, DispatchStopInv
  <1>3. CASE MsgFileChanged
    BY <1>3, ReceiveFileInv DEF MsgFileChanged
  <1>4. CASE \E t \in Transfers :
               \/ \E server \in {"data_server", "secure_data_server"} :
                      ProcessAccept(t, server)
               \/ TransferEnds(t) \/ TransferHangs(t) \/ HungUp(t)
    BY <1>4, TransferInv
    DEF ProcessAccept, TransferEnds, TransferHangs, HungUp, Listeners
  <1>5. CASE DispatchWithoutListener \/ MessengerLeaves \/ RunReturns
    BY <1>5, EndInv
  <1>6. CASE TimerSteps
    BY <1>6, TimerStepsInv
  <1>7. CASE UNCHANGED vars
    BY <1>7 DEF vars, life_vars, timer_vars, DaemonInv, TimerInv, TypeOK,
       LifeInv, Listed, CrashOnlyWhenStopping
  <1> QED BY <1>1, <1>2, <1>3, <1>4, <1>5, <1>6, <1>7 DEF Next

LEMMA DaemonAlwaysInv == Spec => []DaemonInv
  BY DaemonInitInv, DaemonNextInv, PTL DEF Spec

\* The types of the daemon and of its timer.
THEOREM DaemonTypeCorrect == Spec => []TypeOK
  <1>1. DaemonInv => TypeOK
    BY DEF DaemonInv
  <1> QED BY <1>1, DaemonAlwaysInv, PTL

\* A daemon that can announce a file serves it, in every configuration and
\* through every order of READY, RESTART, STOP and events.
THEOREM DaemonServesWhatItAnnounces == Spec => []AnnouncesWhatItServes
  <1>1. DaemonInv => AnnouncesWhatItServes
    BY DEF DaemonInv, TimerInv, TimerTypeOK, LifeInv, AnnouncesWhatItServes
  <1> QED BY <1>1, DaemonAlwaysInv, PTL

\* No message finds the daemon without its file_listener before stop().
THEOREM DaemonCrashesOnlyWhenStopping == Spec => []CrashOnlyWhenStopping
  <1>1. DaemonInv => CrashOnlyWhenStopping
    BY DEF DaemonInv
  <1> QED BY <1>1, DaemonAlwaysInv, PTL

=============================================================================
