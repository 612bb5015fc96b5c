------------------------------ MODULE Requests ------------------------------
(***************************************************************************)
(* The two ways in which a program asks the snaprfs of its computer for    *)
(* something, next to each other: orders (module Orders) and the messages  *)
(* of a client (module Client).  They share nothing.                       *)
(***************************************************************************)
EXTENDS Orders, Client

RequestsInit == Init /\ ClientInit

RequestsNext ==
    \/ Next /\ UNCHANGED client_vars
    \/ ClientNext /\ UNCHANGED vars

RequestsSpec == RequestsInit /\ [][RequestsNext]_<< vars, client_vars >>

=============================================================================
