------------------------------- MODULE Orders -------------------------------
(***************************************************************************)
(* The orders of the snaprfs library and the rfs command that sends them:  *)
(* snaprfs/order.cpp, snaprfs/connection.cpp and tools::run() of           *)
(* tools/rfs.cpp.  The tool makes one order and changes it from one        *)
(* sending to the next; the connection may fail at any of them.  A message *)
(* is "sent" here when the connection took it: whether it reaches the      *)
(* daemon is up to the event dispatcher.                                   *)
(* Another program of the library does with an order what it likes.        *)
(*                                                                         *)
(* The words of the command line are their positions: 1 is the command and *)
(* None an empty string.                                                   *)
(***************************************************************************)
EXTENDS Integers, Sequences, FiniteSets

CONSTANTS
    MaxWords,       \* bound: words of a command line
    MaxSent         \* bound: orders a program of the library sends

ASSUME WordsAssumption == {MaxWords, MaxSent} \subseteq Nat

VARIABLES
    phase,          \* "start", "sending" or "exited"; "library" is another
                    \* program of the library
    command,        \* the first word
    options,        \* the options that are defined
    user_mode,      \* the value of --mode
    max,            \* the number of words
    mode,           \* mode_t: what is asked for of sources and destinations
    order,          \* f_order
    next,           \* the word the loop of run() is at
    sent,           \* the ORDER messages, as the connection took them
    exit            \* what run() returned, or Running

vars == << phase, command, options, user_mode, max, mode, order, next, sent,
           exit >>
input == << command, options, user_mode, max >>

-----------------------------------------------------------------------------
(***************************************************************************)
(* Data.                                                                   *)
(***************************************************************************)
Running == 2
None == 0

\* order_flag_t, and the names operator << gives them in order.h.
Flags == {"OVERWRITE", "RECURSIVE", "ACKNOWLEDGE"}
FlagName(f) ==
    CASE f = "OVERWRITE" -> "overwrite"
      [] f = "RECURSIVE" -> "recursive"
      [] f = "ACKNOWLEDGE" -> "acknowledge"
FlagNames == {FlagName(f) : f \in Flags}

\* The commands run() knows, with their mode; "other" is any other one.
\* A mode_t is the pair of what it takes of sources and of destinations.
CommandMode(c) ==
    CASE c \in {"version", "configuration-filenames"} -> << "0", "0" >>
      [] c = "ping"                                   -> << "1", "0" >>
      [] c = "stop"                                   -> << "0", "1" >>
      [] c \in {"cp", "mv"}                           -> << "*", "1" >>
      [] c = "dup"                                    -> << "1", "*" >>
      [] c \in {"stat", "list"}                       -> << "*", "0" >>
      [] c = "rm"                                     -> << "0", "*" >>
Commands == {"version", "configuration-filenames", "ping", "stop", "cp", "mv",
             "dup", "stat", "list", "rm"}
Modes == ({"0", "1", "*"} \X {"0", "1", "*"}) \ {<< "*", "*" >>}

\* The first and the third character of --mode, and whether the second one is
\* the colon; "?" is any other character, the end of the string included.  An
\* empty value is read beyond its end; its first character is an error anyway.
UserMode == [s: {"0", "1", "*", "?"}, colon: BOOLEAN, d: {"0", "1", "*", "?"}]
ModeOf(m) == << m.s, m.d >>

Order == [f_source: Nat, f_destination: Nat, f_flags: SUBSET Flags]
Message == [source: Nat, destination: Nat, flags: SUBSET FlagNames,
            meant: SUBSET Flags]

-----------------------------------------------------------------------------
(***************************************************************************)
(* snaprfs/order.cpp and connection_impl::send_order().                    *)
(***************************************************************************)
NewOrder == [f_source |-> None, f_destination |-> None, f_flags |-> {}]
AddFlag(o, f)    == [o EXCEPT !.f_flags = @ \cup {f}]
RemoveFlag(o, f) == [o EXCEPT !.f_flags = @ \ {f}]

\* add_flags(): names that are not known are ignored.
\* Mutant: one of the names is not known.
AddFlagsWithoutAcknowledge(o, names) ==
    [o EXCEPT !.f_flags = @ \cup {f \in {"OVERWRITE", "RECURSIVE"} :
                                     FlagName(f) \in names}]
AddFlags(o, names) ==
    [o EXCEPT !.f_flags = @ \cup {f \in Flags : FlagName(f) \in names}]

\* flags_as_string(), the names between its commas.
FlagsAsString(o) == {FlagName(f) : f \in o.f_flags}

\* meant is a ghost: the flags of the order itself.
OrderMessage(o) ==
    [source |-> o.f_source, destination |-> o.f_destination,
     flags |-> FlagsAsString(o), meant |-> o.f_flags]

-----------------------------------------------------------------------------
Init ==
    /\ phase \in {"start", "library"}
    /\ command \in Commands \cup {"other"}
    /\ options \in SUBSET {"force", "recursive", "mode"}
    /\ user_mode \in UserMode
    /\ max \in 0..MaxWords
    \* what is not looked at is not told apart
    /\ command # "other" \/ phase = "library" => "mode" \notin options
    /\ "mode" \notin options =>
           user_mode = [s |-> "?", colon |-> FALSE, d |-> "?"]
    /\ phase = "library" => command = "other" /\ options = {} /\ max = 0
    /\ mode = << "*", "0" >>
    /\ order = NewOrder
    /\ next = 0
    /\ sent = << >>
    /\ exit = Running

(***************************************************************************)
(* tools::run(), up to the connection.                                     *)
(***************************************************************************)
Exit(code) == phase' = "exited" /\ exit' = code

\* No mode comes with the command, nor a valid one with --mode.
UnknownCommand ==
    /\ command = "other"
    /\ "mode" \in options => ~ user_mode.colon \/ ModeOf(user_mode) \notin Modes

RunMode == IF command = "other" THEN ModeOf(user_mode) ELSE CommandMode(command)

\* The number of words that a mode takes, with the command.
TakesWords(m, n) ==
    CASE m = << "0", "0" >> -> n = 1
      [] m \in {<< "1", "0" >>, << "0", "1" >>} -> n = 2
      [] m \in {<< "*", "0" >>, << "0", "*" >>} -> n >= 2
      [] m = << "1", "1" >> -> n = 3
      [] m \in {<< "1", "*" >>, << "*", "1" >>} -> n >= 3

\* The order as the constructor and the two options leave it.
FlaggedOrder ==
    LET forced == IF "force" \in options THEN AddFlag(NewOrder, "OVERWRITE")
                                         ELSE NewOrder
    IN  IF "recursive" \in options THEN AddFlag(forced, "RECURSIVE") ELSE forced

\* What is set once, before the loop: the only source or destination.
Fixed(m, n) ==
    CASE m = << "1", "*" >> -> [FlaggedOrder EXCEPT !.f_source = 2]
      [] m = << "*", "1" >> -> [FlaggedOrder EXCEPT !.f_destination = n]
      [] OTHER -> FlaggedOrder

\* The words that are set one at a time, from First to Last.
First(m) == CASE m = << "0", "0" >> -> 1
              [] m \in {<< "1", "*" >>, << "1", "1" >>} -> 3
              [] OTHER -> 2

\* Mutants: the destination of a cp is also one of its sources; the loops go
\* on for one word too many.
LastIncludesDestination(m, n) == n
LastIsSize(m, n) == n + 1
Last(m, n) == IF m = << "*", "1" >> THEN n - 1 ELSE n

Run ==
    /\ phase = "start"
    /\ UNCHANGED << input, sent >>
    /\ \/ /\ max = 0 \/ UnknownCommand
          /\ Exit(1)
          /\ UNCHANGED << mode, order, next >>
       \/ /\ max # 0 /\ ~ UnknownCommand
          /\ mode' = RunMode
          /\ \/ ~ TakesWords(mode', max) /\ Exit(1) /\ UNCHANGED << order, next >>
             \/ /\ TakesWords(mode', max)
                /\ order' = Fixed(mode', max)
                /\ next' = First(mode')
                /\ phase' = "sending"
                /\ UNCHANGED exit

(***************************************************************************)
(* One turn of a loop of tools::run(): the word is set and the order sent. *)
(***************************************************************************)
SetWord(o, m, k) ==
    CASE m = << "0", "0" >> -> o
      [] m \in {<< "1", "0" >>, << "*", "0" >>, << "*", "1" >>} ->
             [o EXCEPT !.f_source = k]
      [] m \in {<< "0", "1" >>, << "0", "*" >>, << "1", "*" >>} ->
             [o EXCEPT !.f_destination = k]
      [] m = << "1", "1" >> -> [o EXCEPT !.f_source = 2, !.f_destination = 3]

SendOrder ==
    /\ phase = "sending"
    /\ next <= Last(mode, max)
    /\ order' = SetWord(order, mode, next)
    /\ sent' = Append(sent, OrderMessage(order'))
    /\ next' = next + 1
    /\ UNCHANGED << phase, input, mode, exit >>

\* Mutant: the loop goes on with the next word.
SendThrowsOnce ==
    /\ phase = "sending"
    /\ next <= Last(mode, max)
    /\ order' = SetWord(order, mode, next)
    /\ next' = next + 1
    /\ UNCHANGED << phase, input, mode, sent, exit >>

\* The connection cannot be made, or does not take the message: main()
\* catches the exception and returns 1.
SendThrows ==
    /\ phase = "sending"
    /\ next <= Last(mode, max)
    /\ order' = SetWord(order, mode, next)
    /\ Exit(1)
    /\ UNCHANGED << input, mode, next, sent >>

AllSent ==
    /\ phase = "sending"
    /\ next > Last(mode, max)
    /\ Exit(0)
    /\ UNCHANGED << input, mode, order, next, sent >>

(***************************************************************************)
(* A program of the library.                                               *)
(***************************************************************************)
LibraryStep ==
    /\ phase = "library"
    /\ \/ /\ \/ \E f \in Flags : order' \in {AddFlag(order, f),
                                             RemoveFlag(order, f)}
             \/ \E names \in SUBSET (FlagNames \cup {"later"}) :
                    order' = AddFlags(order, names)
          /\ UNCHANGED sent
       \/ /\ Len(sent) < MaxSent
          /\ sent' = Append(sent, OrderMessage(order))
          /\ UNCHANGED order
    /\ UNCHANGED << phase, input, mode, next, exit >>

-----------------------------------------------------------------------------
Next == Run \/ SendOrder \/ SendThrows \/ AllSent \/ LibraryStep

Spec == Init /\ [][Next]_vars

-----------------------------------------------------------------------------
(***************************************************************************)
(* Properties.                                                             *)
(***************************************************************************)

\* No word is taken that the command line does not have.
TypeOK ==
    /\ phase \in {"start", "sending", "exited", "library"}
    /\ command \in Commands \cup {"other"}
    /\ options \subseteq {"force", "recursive", "mode"}
    /\ user_mode \in UserMode
    /\ max \in 0..MaxWords
    /\ mode \in Modes
    /\ order \in Order
    /\ next \in Nat
    /\ sent \in Seq(Message)
    /\ exit \in {0, 1, Running}
    /\ {order.f_source, order.f_destination} \subseteq 0..max

\* What the help text of rfs says the words after the command are: where
\* there is one destination it is the last of them, where there are many the
\* source is the first.
Sources ==
    CASE mode[1] = "0" -> {None}
      [] mode[1] = "1" -> {2}
      [] mode[1] = "*" -> 2..(IF mode[2] = "1" THEN max - 1 ELSE max)
Destinations ==
    CASE mode[2] = "0" -> {None}
      [] mode[2] = "1" -> {max}
      [] mode[2] = "*" -> (IF mode[1] = "1" THEN 3 ELSE 2)..max

Pair(k) == << sent[k].source, sent[k].destination >>
PairsSent == {Pair(k) : k \in DOMAIN sent}

\* Every order sent is for a source and a destination that were named, and no
\* pair is sent twice: an order that is used again carries nothing over from
\* the one before.
OnlyWhatWasAsked ==
    phase # "library" =>
        /\ PairsSent \subseteq Sources \X Destinations
        /\ \A j, k \in DOMAIN sent : Pair(j) = Pair(k) => j = k

\* The exit code tells whether the connection took everything: 0 after the
\* last pair, and 1 when nothing was sent or a pair is missing, whichever of
\* them the connection failed at.
ExitTells ==
    /\ exit = 0 => PairsSent = Sources \X Destinations
    /\ exit = 1 => sent = << >> \/ PairsSent # Sources \X Destinations

\* The flags of a message are read back as they were in the order, whatever
\* was added to it and removed from it before.
FlagsSurvive ==
    \A k \in DOMAIN sent :
        AddFlags(NewOrder, sent[k].flags).f_flags = sent[k].meant

=============================================================================
