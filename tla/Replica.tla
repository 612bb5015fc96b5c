------------------------------ MODULE Replica ------------------------------
(***************************************************************************)
(* What the daemons promise about the files themselves: a watched file     *)
(* only ever changes because a local service changed it, because a whole   *)
(* copy that another computer had at some moment lands under the same      *)
(* name, or because the node applies deletions.                            *)
(***************************************************************************)
EXTENDS Integers

CONSTANTS
    Nodes, Files, SendOnly, ReceiveOnly, Latest, DeleteApply, Users,
    Times           \* the modification times there are, all above 0

VARIABLES
    disk,       \* disk[n][f]: version of f on n, 0 when there is none
    copies      \* copies[n][f]: versions of f on their way to n

vars == << disk, copies >>

Receives(n) == n \in ReceiveOnly \cup Latest

Init == /\ disk = [n \in Nodes |-> [f \in Files |-> 0]]
        /\ copies = [n \in Nodes |-> [f \in Files |-> {}]]

\* A local service writes, with a time later than any file of that name has.
Write(n, f) ==
    /\ n \in Users
    /\ \E v \in Times :
        /\ \A m \in Nodes : v > disk[m][f] /\ \A c \in copies[m][f] : v > c
        /\ disk' = [disk EXCEPT ![n][f] = v]
    /\ UNCHANGED copies

Remove(n, f) ==
    /\ n \in Users \cup DeleteApply
    /\ disk' = [disk EXCEPT ![n][f] = 0]
    /\ UNCHANGED copies

\* Node n asks node s for f and gets what s has at that moment.
Copy(s, n, f) ==
    /\ s # n
    /\ Receives(n)
    /\ disk[s][f] # 0
    /\ copies' = [copies EXCEPT ![n][f] = @ \cup {disk[s][f]}]
    /\ UNCHANGED disk

\* The copy replaces the file at once; another copy of it may still follow.
Land(n, f) ==
    \E v \in copies[n][f] :
        /\ disk' = [disk EXCEPT ![n][f] = v]
        /\ copies' \in {copies, [copies EXCEPT ![n][f] = @ \ {v}]}

\* A transfer is given up.
Drop(n, f) == \E v \in copies[n][f] :
    /\ copies' = [copies EXCEPT ![n][f] = @ \ {v}]
    /\ UNCHANGED disk

\* The daemon stops with all its transfers.
DropAll(n) == /\ copies' = [copies EXCEPT ![n] = [f \in Files |-> {}]]
              /\ UNCHANGED disk

Next == \E n \in Nodes : 
    \/ DropAll(n)
    \/ \E f \in Files :
        \/ Write(n, f) \/ Remove(n, f) \/ Land(n, f) \/ Drop(n, f)
        \/ \E s \in Nodes : Copy(s, n, f)

Spec == Init /\ [][Next]_vars
=============================================================================
