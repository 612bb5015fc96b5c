------------------------------ MODULE PathInfo ------------------------------
(***************************************************************************)
(* The paths of file_listener (daemon/file_listener.cpp): how the sections *)
(* of the watch_dirs files become path_info objects and watches, and which *)
(* of the objects decides about a file that another computer announces or  *)
(* deletes (receive_file() and delete_local_file() of daemon/server.cpp).  *)
(***************************************************************************)
EXTENDS Integers, Sequences, FiniteSets, SequencesExt

CONSTANTS
    Segments,       \* names between two slashes, numbered in their order
    PathModes,      \* what path_mode= may say, "default" without it
    DeleteModes,    \* what delete_mode= may say, "default" without it
    MaxDepth,       \* bound: segments of a path
    MaxSections     \* bound: sections of the files

ASSUME SegmentAssumption == Segments \subseteq Nat
ASSUME DepthAssumption == {MaxDepth, MaxSections} \subseteq Nat

VARIABLES
    phase,          \* "loading", then "running" or "stopped"
    sections,       \* how many sections were read
    f_path_info,    \* the path_info objects
    watches,        \* what watch_files() was asked for
    order           \* the last order of another computer

vars == << phase, sections, f_path_info, watches, order >>

-----------------------------------------------------------------------------
(***************************************************************************)
(* Paths.  No name is the start of another one, so that comparing names    *)
(* stands for comparing characters.  slash is for a "/" at the end, which  *)
(* the files may have and dirname() only leaves in "/", which has no names.*)
(***************************************************************************)
Names == UNION {[1..n -> Segments] : n \in 0..MaxDepth}
Path == [names : Names, slash : BOOLEAN]
Directory(names) == [names |-> names, slash |-> names = << >>]

\* The numbers of the names of p that a slash follows.
Slashes(p) == {k \in DOMAIN p.names : p.slash \/ k < Len(p.names)}

Agree(p, q, k) ==
    k \in DOMAIN p.names /\ k \in DOMAIN q.names
        /\ \A j \in 1..k : p.names[j] = q.names[j]

\* path_info::match_path(): the slashes that p and q have in common before
\* they differ, the first one not counted, and one more if they are equal and
\* end with a name.
\* Mutant: a name at the end of both is not counted.
MatchPathSlashes(p, q) ==
    Cardinality({k \in Slashes(p) \cap Slashes(q) : Agree(p, q, k)})
MatchPath(p, q) ==
    Cardinality({k \in Slashes(p) \cap Slashes(q) : Agree(p, q, k)})
    + IF p = q /\ ~ p.slash THEN 1 ELSE 0

\* The order of path_info objects, that of their strings.
Before(p, q) ==
    \/ p.names = q.names /\ ~ p.slash /\ q.slash
    \/ p.names # q.names /\ IsPrefix(p.names, q.names)
    \/ \E k \in DOMAIN p.names \cap DOMAIN q.names :
           /\ p.names[k] < q.names[k]
           /\ \A j \in 1..(k - 1) : p.names[j] = q.names[j]

\* i is the first of the objects that match q best.
Best(infos, q, i) ==
    \A j \in infos \ {i} :
        \/ MatchPath(j.path, q) < MatchPath(i.path, q)
        \/ MatchPath(j.path, q) = MatchPath(i.path, q) /\ Before(i.path, j.path)

\* find_path_info(): the object that decides about directory q, if any.
FindPathInfo(infos, q) ==
    {i \in infos : MatchPath(i.path, q) > 0 /\ Best(infos, q, i)}

-----------------------------------------------------------------------------
NoOrder == [cmd |-> "none", dir |-> << >>, done |-> FALSE]

Init ==
    /\ phase = "loading"
    /\ sections = 0
    /\ f_path_info = {}
    /\ watches = {}
    /\ order = NoOrder

\* The mode of a section; an empty parameter is the default one.
PathModeOf(mode) == IF mode \in {"default", ""} THEN "send-only" ELSE mode
DeleteModeOf(mode) == IF mode \in {"default", ""} THEN "ignore" ELSE mode

\* A section that is left out: its path is missing, empty or "/", one of its
\* modes is not valid, or the path was defined before.
Refused(path, path_mode, delete_mode) ==
    \/ path.names = << >>
    \/ PathModeOf(path_mode) \notin {"send-only", "receive-only", "latest"}
    \/ DeleteModeOf(delete_mode) \notin {"ignore", "apply"}
    \/ \E i \in f_path_info : i.path = path

\* watch_files(), for the changes and, when they are applied, the deletions.
\* Mutant: a receive-only path is watched as well.
WatchAny(i) ==
    watches \cup {[path |-> i.path, deleted |-> i.delete_mode = "apply"]}
Watch(i) ==
    IF i.path_mode = "receive-only" THEN watches
    ELSE watches \cup {[path |-> i.path, deleted |-> i.delete_mode = "apply"]}

\* One section in load_setup().
LoadSection(path, path_mode, delete_mode) ==
    LET info == [path |-> path, path_mode |-> PathModeOf(path_mode),
                 delete_mode |-> DeleteModeOf(delete_mode)]
    IN  /\ phase = "loading"
        /\ sections < MaxSections
        /\ sections' = sections + 1
        /\ \/ /\ Refused(path, path_mode, delete_mode)
              /\ UNCHANGED << f_path_info, watches >>
           \/ /\ ~ Refused(path, path_mode, delete_mode)
              /\ f_path_info' = f_path_info \cup {info}
              /\ watches' = Watch(info)
        /\ UNCHANGED << phase, order >>

\* The end of the constructor: a daemon without paths does not start.
Start ==
    /\ phase = "loading"
    /\ phase' = IF f_path_info = {} THEN "stopped" ELSE "running"
    /\ UNCHANGED << sections, f_path_info, watches, order >>

Receives(i) == i.path_mode \in {"receive-only", "latest"}
Applies(i) == i.delete_mode = "apply"

\* receive_file() for a file of directory dir, up to the check of its time.
ReceiveFile(dir) ==
    /\ phase = "running"
    /\ order' = [cmd |-> "changed", dir |-> dir,
                 done |-> \E i \in FindPathInfo(f_path_info, Directory(dir)) :
                            Receives(i)]
    /\ UNCHANGED << phase, sections, f_path_info, watches >>

\* delete_local_file() for a file of directory dir, up to unlink().
DeleteLocalFile(dir) ==
    /\ phase = "running"
    /\ order' = [cmd |-> "deleted", dir |-> dir,
                 done |-> \E i \in FindPathInfo(f_path_info, Directory(dir)) :
                            Applies(i)]
    /\ UNCHANGED << phase, sections, f_path_info, watches >>

Next ==
    \/ \E path \in Path, path_mode \in PathModes, delete_mode \in DeleteModes :
           LoadSection(path, path_mode, delete_mode)
    \/ Start
    \/ \E dir \in Names : ReceiveFile(dir) \/ DeleteLocalFile(dir)

Spec == Init /\ [][Next]_vars

-----------------------------------------------------------------------------
(* Properties. *)

Info == [path : Path, path_mode : {"send-only", "receive-only", "latest"},
         delete_mode : {"ignore", "apply"}]

\* Objects have valid modes, and what is watched is what they say: all paths
\* that are not receive-only, for deletions too where these are applied.
TypeOK ==
    /\ phase \in {"loading", "running", "stopped"}
    /\ f_path_info \subseteq Info
    /\ watches = {[path |-> i.path, deleted |-> i.delete_mode = "apply"] :
                     i \in {x \in f_path_info :
                                x.path_mode # "receive-only"}}
    /\ order \in [cmd : {"none", "changed", "deleted"}, dir : Names,
                  done : BOOLEAN]

\* A file of a directory that has a section of its own is treated as that
\* section says, whatever other sections there are for directories above it,
\* below it or beside it: what is send-only is never received, what ignores
\* deletions never loses a file, and nothing else is refused.
OwnSectionDecides ==
    \A i \in f_path_info : i.path = Directory(order.dir) =>
        /\ order.cmd = "changed" => (order.done <=> Receives(i))
        /\ order.cmd = "deleted" => (order.done <=> Applies(i))

\* A file is only received or removed in a directory that a section is for,
\* or that is below one.
OnlyManagedPaths ==
    order.done => \E i \in f_path_info : IsPrefix(i.path.names, order.dir)
=============================================================================
