------------------------------- MODULE Client -------------------------------
(***************************************************************************)
(* The client of the snaprfs library: snaprfs/client.cpp.  Its functions   *)
(* send a message with a number of its own and return that number, so that *)
(* the answers can be told apart; the numbers have a fixed width and start *)
(* again, without the 0 that stands for no message.                        *)
(***************************************************************************)
EXTENDS Integers

CONSTANTS
    Width,          \* the number of values of msg_id_t, 2^32
    MaxSends        \* bound: messages a client sends

ASSUME WidthAssumption == Width \in Nat /\ Width >= 2
ASSUME SendsAssumption == MaxSends \in Nat

VARIABLES
    f_message_id,
    sends,          \* ghost: the messages sent so far
    used            \* ghost: used[i]: the last message numbered i, or 0

client_vars == << f_message_id, sends, used >>

MessageIds == 0..(Width - 1)

\* The ten functions that send, by the commands of their messages.
Requests == {"RFS_CONFIGURATION_FILENAMES", "RFS_COPY", "RFS_DUPLICATE",
             "RFS_INFO", "RFS_LIST", "RFS_MOVE", "RFS_PING", "RFS_REMOVE",
             "RFS_STAT", "STOP"}

ClientInit ==
    /\ f_message_id = 0
    /\ sends = 0
    /\ used = [i \in MessageIds |-> 0]

\* ++f_message_id.
Increment(n) == IF n = Width - 1 THEN 0 ELSE n + 1

\* set_message_id(): once more when it comes to 0.
\* Mutant: 0 is a number like the others.
MessageIdWithZero(n) == Increment(n)
MessageId(n) == IF Increment(n) = 0 THEN Increment(0) ELSE Increment(n)

Send(request) ==
    /\ sends < MaxSends
    /\ f_message_id' = MessageId(f_message_id)
    /\ sends' = sends + 1
    /\ used' = [used EXCEPT ![f_message_id'] = sends + 1]

ClientNext == \E request \in Requests : Send(request)

ClientSpec == ClientInit /\ [][ClientNext]_client_vars

-----------------------------------------------------------------------------
ClientTypeOK ==
    /\ f_message_id \in MessageIds
    /\ sends \in Nat
    /\ used \in [MessageIds -> Nat]

\* A message never has the number 0, which stands for none, and any Width - 1
\* messages in a row have numbers of their own: a number is given again only
\* when all the others were, however often the counter has come round.
NumbersLast ==
    [][\A i \in MessageIds :
           used'[i] # used[i] =>
               /\ i # 0
               /\ used[i] # 0 => used'[i] - used[i] >= Width - 1]_client_vars

=============================================================================
