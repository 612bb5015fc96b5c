----------------------------- MODULE AtomicCopy -----------------------------
(***************************************************************************)
(* What "rename(2) is atomic" promises those who read the copy of a file   *)
(* (conf/snaprfs.conf:107-110, daemon/data_receiver.cpp:456): the copy     *)
(* changes from one version of the original to another at once, and is     *)
(* never anything else.                                                    *)
(***************************************************************************)
EXTENDS Naturals, Sequences

VARIABLES
    versions,   \* the versions the original has and had
    copy        \* the version the other computer has, << >> before the first

vars == << versions, copy >>

Init ==
    /\ copy = << >>
    /\ Len(versions) = 1

\* A service moves a new version into place.
NewVersion ==
    /\ Len(versions') = Len(versions) + 1
    /\ SubSeq(versions', 1, Len(versions)) = versions
    /\ UNCHANGED copy

\* A transfer is done.
Install ==
    /\ copy' \in {versions[i] : i \in DOMAIN versions}
    /\ UNCHANGED versions

Next == NewVersion \/ Install

Spec == Init /\ [][Next]_vars
=============================================================================
