---------------------------- MODULE ModifiedTimer ----------------------------
(***************************************************************************)
(* When a daemon announces the files its services changed: the times of    *)
(* shared_file, and modified_timer of daemon/server.cpp, which waits until *)
(* a file was left alone for transfer_after_sec.  Module Server lets any   *)
(* object of the set be due; here the clock is kept, and module Daemon     *)
(* puts the timer in the life of the process.                              *)
(*                                                                         *)
(* Times are those of CLOCK_REALTIME, which can be set back.  Second is    *)
(* the length of a second in the steps of the clock that are told apart.   *)
(***************************************************************************)
EXTENDS Integers

CONSTANTS
    Objects,            \* the shared_file objects
    Second,
    TransferAfterSec,   \* the option of that name
    MaxNow,             \* bound: the time the clock goes to
    MaxStepBack         \* bound: how far the clock is set back, once

ASSUME TimeAssumption ==
    /\ Second \in Nat \ {0}
    /\ {TransferAfterSec, MaxNow, MaxStepBack} \subseteq Nat

VARIABLES
    now,                \* the time
    set_back,           \* ghost: the clock was set back
    f_last_updated,     \* f_last_updated[o], of shared_file
    f_start_sharing,    \* f_start_sharing[o], of shared_file
    f_modified_files,   \* of modified_timer
    timer,              \* g_modified_timer: "null", or "added" to the
                        \* communicator, or "removed" from it
    timeout_date,       \* when the timer fires next
    pending             \* ghost: changed, neither announced nor found gone

clock_vars == << now, set_back >>
object_vars == << f_last_updated, f_start_sharing, pending >>
timer_vars == << now, set_back, f_last_updated, f_start_sharing,
                 f_modified_files, timer, timeout_date, pending >>

\* f_transfer_after_sec: at least three seconds.
TransferAfter == Second * (IF TransferAfterSec > 3 THEN TransferAfterSec ELSE 3)

TimerInit ==
    /\ now = 1
    /\ set_back = FALSE
    /\ f_last_updated = [o \in Objects |-> 0]
    /\ f_start_sharing = [o \in Objects |-> 0]
    /\ f_modified_files = {}
    /\ timer = "null"
    /\ timeout_date = 0
    /\ pending = {}

-----------------------------------------------------------------------------
(***************************************************************************)
(* The clock (external).  The event loop is never busy for long: it gets   *)
(* to a timer that fires before the clock moves on.                        *)
(***************************************************************************)
Overdue == timer = "added" /\ timeout_date <= now

Later == now < MaxNow /\ ~ Overdue /\ now' = now + 1

Elapse ==
    /\ Later
    /\ UNCHANGED << set_back, object_vars, f_modified_files, timer,
                    timeout_date >>

StepBack(d) ==
    /\ ~ set_back
    /\ d < now
    /\ now' = now - d
    /\ set_back' = TRUE
    /\ UNCHANGED << object_vars, f_modified_files, timer, timeout_date >>

\* ed::timer fires at most a second after it did, or was added (external).
NextTimeout == timeout_date' \in (now + 1)..(now + Second)

-----------------------------------------------------------------------------
(***************************************************************************)
(* server::ready() and server::stop() make, add and remove the timer.      *)
(***************************************************************************)
StartTimer ==
    /\ timer = "null"
    /\ timer' = "added"
    /\ NextTimeout
    /\ UNCHANGED << clock_vars, object_vars, f_modified_files >>

\* stop(); ready() may do this to the timer it has just added.
StopTimer ==
    /\ timer' = "removed"
    /\ UNCHANGED << clock_vars, object_vars, f_modified_files,
                    timeout_date >>

(***************************************************************************)
(* server::updated_file(o), of a file whose stat() is not what it was; the *)
(* clock has moved since the last handler.  Nothing is done for any other. *)
(***************************************************************************)

\* Before the time is right: the timer announces it.
WroteFile(o) ==
    /\ f_last_updated' = [f_last_updated EXCEPT ![o] = now']
    /\ f_modified_files' = f_modified_files \cup {o}
    /\ pending' = pending \cup {o}
    /\ UNCHANGED f_start_sharing

\* The service closed it: broadcast_file_changed() at once.  It sets
\* f_start_sharing, and then sends the message if stat() finds the file; when
\* it does not, there is nothing to announce any more.
ClosedFile(o) ==
    /\ f_last_updated' = [f_last_updated EXCEPT ![o] = now']
    /\ f_start_sharing' = [f_start_sharing EXCEPT ![o] = now']
    /\ pending' = pending \ {o}
    /\ UNCHANGED f_modified_files

UpdatedFile(o) ==
    /\ timer # "null"
    /\ Later
    /\ WroteFile(o) \/ ClosedFile(o)
    /\ UNCHANGED << set_back, timer, timeout_date >>

(***************************************************************************)
(* modified_timer::process_timeout().                                      *)
(***************************************************************************)
\* Mutant: what was shared since it was updated is not told apart.
WasUpdatedAlways(o) == o \in Objects
WasUpdated(o) == f_last_updated[o] > f_start_sharing[o]

\* Last updated no later than the threshold.
\* Mutant: strictly before it.
IsQuietStrict(o) == f_last_updated[o] < now - TransferAfter
IsQuiet(o) == f_last_updated[o] <= now - TransferAfter

Due == {o \in f_modified_files : WasUpdated(o) /\ IsQuiet(o)}
\* Mutant: what is not due yet is forgotten.
StillWaitingNone == {}
StillWaiting == {o \in f_modified_files : WasUpdated(o) /\ ~ IsQuiet(o)}

ProcessTimeout ==
    /\ Overdue
    /\ f_start_sharing' = [o \in Objects |->
                              IF o \in Due THEN now ELSE f_start_sharing[o]]
    /\ f_modified_files' = StillWaiting
    /\ pending' = pending \ Due
    /\ NextTimeout
    /\ UNCHANGED << clock_vars, f_last_updated, timer >>

-----------------------------------------------------------------------------
TimerNext ==
    \/ Elapse
    \/ \E d \in 1..MaxStepBack : StepBack(d)
    \/ \E o \in Objects : UpdatedFile(o)
    \/ StartTimer \/ StopTimer
    \/ ProcessTimeout

TimerSpec == TimerInit /\ [][TimerNext]_timer_vars

-----------------------------------------------------------------------------
(***************************************************************************)
(* Properties.                                                             *)
(***************************************************************************)
TimerTypeOK ==
    /\ now \in Int
    /\ set_back \in BOOLEAN
    /\ f_last_updated \in [Objects -> Int]
    /\ f_start_sharing \in [Objects -> Int]
    /\ f_modified_files \subseteq Objects
    /\ timer \in {"null", "added", "removed"}
    /\ timeout_date \in Int
    /\ pending \subseteq Objects

\* A change that was not announced yet waits in the timer's set, unless its
\* file was gone when it was to be announced: process_timeout() forgets an
\* object only when what it last saw of it is announced.  A clock that is set
\* back breaks this: was_updated() compares two readings of it.
NothingForgotten == set_back \/ pending \subseteq f_modified_files

\* A file in the timer's set was written in the last transfer_after_sec, or
\* became due less than a second ago: no tick of the timer skips it.
AnnouncedInTime ==
    timer = "added" /\ ~ set_back
        => \A o \in f_modified_files :
               now - f_last_updated[o] < TransferAfter + Second

\* An announcement follows each change once: what was announced is not again
\* before it changes, although the timer may still hold it.  A change that is
\* announced at once is of the time of the announcement.
AnnouncedOncePerChange ==
    [][\A o \in Objects :
           \/ f_start_sharing'[o] = f_start_sharing[o]
           \/ o \in pending
           \/ f_last_updated'[o] = now']_timer_vars

=============================================================================
