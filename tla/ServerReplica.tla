--------------------------- MODULE ServerReplica ---------------------------
(***************************************************************************)
(* The daemons of Server implement what Replica promises of the files: the *)
(* copies on their way to a node are those its receivers were served.      *)
(***************************************************************************)
EXTENDS Server

copies ==
    [n \in Nodes |-> [f \in Files |->
        {receivers[n][k].version : k \in
            {j \in DOMAIN receivers[n] : /\ receivers[n][j].name = f
                                         /\ receivers[n][j].version # Absent}}]]

R == INSTANCE Replica WITH Times <- 1..MaxClock

\* Every step of the daemons is a step Replica allows or leaves the files
\* alone: no file is ever filled with the content of another name, with a
\* version nobody had, or on a node whose mode does not receive.
ImplementsReplica == R!Spec
=============================================================================
