--------------------------- MODULE PathInfoProofs ---------------------------
(***************************************************************************)
(* A directory with a section of its own is treated as that section says,  *)
(* for any names, depth, and number of sections.                           *)
(***************************************************************************)
EXTENDS PathInfo, FiniteSetTheorems, TLAPS

\* The numbers below n.
LEMMA Below ==
    ASSUME NEW n \in Nat \ {0}
    PROVE  IsFiniteSet(1..(n - 1)) /\ Cardinality(1..(n - 1)) = n - 1
<1> DEFINE m == n - 1
<1>1. 1 \in Int /\ m \in Int /\ m >= 0
  OBVIOUS
<1> HIDE DEF m
<1>2. IsFiniteSet(1..m) /\ Cardinality(1..m) = IF 1 > m THEN 0 ELSE m - 1 + 1
  BY <1>1, FS_Interval
<1>3. IsFiniteSet(1..m) /\ Cardinality(1..m) = m
  BY <1>1, <1>2
<1>4. QED
  BY <1>3 DEF m

\* Two directories, or a path and a directory, that differ agree on fewer
\* slashes than the directory has names.
LEMMA SlashesOfDirectory ==
    ASSUME NEW q \in Path, ~ q.slash, NEW p \in Path
    PROVE  LET K == {k \in Slashes(p) \cap Slashes(q) : Agree(p, q, k)}
           IN  /\ Cardinality(K) \in Nat
               /\ q.names # << >> => Cardinality(K) < Len(q.names)
<1> DEFINE K == {k \in Slashes(p) \cap Slashes(q) : Agree(p, q, k)}
<1>1. q.names \in Seq(Segments) /\ Len(q.names) \in Nat
  BY DEF Path, Names
<1>2. K \subseteq 1..(Len(q.names) - 1)
  BY <1>1 DEF Slashes
<1>3. CASE q.names = << >>
  <2>1. K = {}
    BY <1>1, <1>3 DEF Slashes
  <2>2. Cardinality(K) = 0
    BY <2>1, FS_EmptySet
  <2>3. QED
    BY <2>2, <1>3
<1>4. CASE q.names # << >>
  <2>1. Len(q.names) \in Nat \ {0}
    BY <1>1, <1>4
  <2>2. /\ IsFiniteSet(1..(Len(q.names) - 1))
        /\ Cardinality(1..(Len(q.names) - 1)) = Len(q.names) - 1
    BY <2>1, Below
  <2>3. /\ IsFiniteSet(K)
        /\ Cardinality(K) <= Len(q.names) - 1
    BY <1>2, <2>2, FS_Subset
  <2>4. Cardinality(K) \in Nat
    BY <2>3, FS_CardinalityType
  <2>5. QED
    BY <2>1, <2>3, <2>4
<1>5. QED
  BY <1>3, <1>4

\* A path matches itself in all its names.
LEMMA MatchItself ==
    ASSUME NEW q \in Path, ~ q.slash, q.names # << >>
    PROVE  MatchPath(q, q) = Len(q.names) /\ Len(q.names) \in Nat \ {0}
<1> DEFINE K == {k \in Slashes(q) \cap Slashes(q) : Agree(q, q, k)}
<1>1. q.names \in Seq(Segments) /\ Len(q.names) \in Nat \ {0}
  BY DEF Path, Names
<1>2. K = 1..(Len(q.names) - 1)
  BY <1>1 DEF Slashes, Agree
<1>3. Cardinality(K) = Len(q.names) - 1
  BY <1>1, <1>2, Below
<1>4. QED
  BY <1>1, <1>3 DEF MatchPath

\* Nothing matches a directory as well as its own path.
LEMMA OwnPathIsBest ==
    ASSUME NEW q \in Path, ~ q.slash, q.names # << >>,
           NEW p \in Path, p # q
    PROVE  MatchPath(p, q) < MatchPath(q, q) /\ MatchPath(p, q) \in Nat
<1>1. MatchPath(p, q) = Cardinality({k \in Slashes(p) \cap Slashes(q) :
                                         Agree(p, q, k)})
  <2>1. Cardinality({k \in Slashes(p) \cap Slashes(q) : Agree(p, q, k)}) \in Nat
    BY SlashesOfDirectory
  <2>2. QED
    BY <2>1 DEF MatchPath
<1>2. QED
  BY <1>1, SlashesOfDirectory, MatchItself

UniquePaths == \A i, j \in f_path_info : i.path = j.path => i = j

\* find_path_info() finds the object of that very path.
LEMMA FindsOwn ==
    ASSUME f_path_info \subseteq Info, UniquePaths,
           NEW q \in Path, ~ q.slash, q.names # << >>,
           NEW i \in f_path_info, i.path = q
    PROVE  FindPathInfo(f_path_info, q) = {i}
<1>1. \A j \in f_path_info : j.path \in Path
  BY DEF Info
<1>2. \A j \in f_path_info \ {i} :
          /\ MatchPath(j.path, q) < MatchPath(q, q)
          /\ MatchPath(j.path, q) \in Nat
  BY <1>1, OwnPathIsBest DEF UniquePaths
<1>3. MatchPath(q, q) \in Nat \ {0}
  BY MatchItself
<1>4. Best(f_path_info, q, i)
  BY <1>2 DEF Best
<1>5. ASSUME NEW j \in f_path_info, Best(f_path_info, q, j)
      PROVE  j = i
  <2>1. SUFFICES ASSUME j # i PROVE FALSE
    OBVIOUS
  <2>2. MatchPath(i.path, q) <= MatchPath(j.path, q)
    BY <1>2, <1>3, <1>5, <2>1 DEF Best
  <2>3. QED
    BY <1>2, <1>3, <2>1, <2>2
<1>6. QED
  BY <1>3, <1>4, <1>5 DEF FindPathInfo

\* Nothing was ordered while sections were read, and no section is for "/".
IInv ==
    /\ TypeOK
    /\ UniquePaths
    /\ \A i \in f_path_info : i.path.names # << >>
    /\ phase = "loading" => order = NoOrder
    /\ OwnSectionDecides

LEMMA InitInv == Init => IInv
<1> SUFFICES ASSUME Init PROVE IInv
  OBVIOUS
<1>1. << >> \in Names
  <2>1. << >> \in [1..0 -> Segments]
    OBVIOUS
  <2>2. QED
    BY <2>1, DepthAssumption DEF Names
<1>2. TypeOK
  BY <1>1 DEF Init, TypeOK, NoOrder
<1>3. QED
  BY <1>2 DEF Init, IInv, UniquePaths, OwnSectionDecides, NoOrder

LEMMA LoadSectionInv ==
    ASSUME IInv, NEW path \in Path, NEW path_mode, NEW delete_mode,
           LoadSection(path, path_mode, delete_mode)
    PROVE  IInv'
<1> DEFINE info == [path |-> path, path_mode |-> PathModeOf(path_mode),
                    delete_mode |-> DeleteModeOf(delete_mode)]
<1>1. order' = NoOrder /\ phase' = phase /\ order' = order
  BY DEF LoadSection, IInv
<1>2. CASE UNCHANGED << f_path_info, watches >>
  BY <1>1, <1>2 DEF IInv, TypeOK, UniquePaths, OwnSectionDecides, NoOrder
<1>3. CASE /\ ~ Refused(path, path_mode, delete_mode)
           /\ f_path_info' = f_path_info \cup {info}
           /\ watches' = Watch(info)
  <2>1. info \in Info /\ info.path = path /\ path.names # << >>
    BY <1>3 DEF Refused, Info
  <2> HIDE DEF info
  <2>2. UniquePaths'
    BY <1>3, <2>1 DEF IInv, UniquePaths, Refused
  <2>3. watches' = {[path |-> i.path, deleted |-> i.delete_mode = "apply"] :
                       i \in {x \in f_path_info' :
                                  x.path_mode # "receive-only"}}
    BY <1>3 DEF IInv, TypeOK, Watch
  <2>4. TypeOK'
    BY <1>1, <1>3, <2>1, <2>3 DEF IInv, TypeOK
  <2>5. QED
    BY <1>1, <1>3, <2>1, <2>2, <2>4
       DEF IInv, OwnSectionDecides, NoOrder
<1>4. QED
  BY <1>2, <1>3 DEF LoadSection

\* What is found for a directory with a section of its own.
LEMMA OwnFound ==
    ASSUME IInv, NEW dir \in Names, NEW i \in f_path_info,
           i.path = Directory(dir)
    PROVE  FindPathInfo(f_path_info, Directory(dir)) = {i}
<1> DEFINE q == Directory(dir)
<1>1. q \in Path /\ q.names = dir /\ dir # << >> /\ ~ q.slash
  <2>1. q.names = dir /\ q.slash = (dir = << >>)
    BY DEF Directory
  <2>2. q \in Path
    BY DEF Directory, Path
  <2>3. i.path.names # << >>
    BY DEF IInv
  <2>4. QED
    BY <2>1, <2>2, <2>3
<1>2. f_path_info \subseteq Info /\ UniquePaths
  BY DEF IInv, TypeOK
<1>3. QED
  BY <1>1, <1>2, FindsOwn

LEMMA OrderInv ==
    ASSUME IInv, NEW dir \in Names,
           ReceiveFile(dir) \/ DeleteLocalFile(dir)
    PROVE  IInv'
<1>1. /\ phase = "running" /\ phase' = phase
      /\ f_path_info' = f_path_info /\ watches' = watches
      /\ order'.dir = dir
  BY DEF ReceiveFile, DeleteLocalFile
<1> DEFINE found == FindPathInfo(f_path_info, Directory(dir))
           receives == \E i \in found : Receives(i)
           applies == \E i \in found : Applies(i)
<1>2. receives \in BOOLEAN /\ applies \in BOOLEAN
  OBVIOUS
<1>3. /\ order' \in [cmd : {"none", "changed", "deleted"}, dir : Names,
                      done : BOOLEAN]
      /\ order'.cmd = "changed" =>
             (order'.done <=> receives)
      /\ order'.cmd = "deleted" =>
             (order'.done <=> applies)
  <2>1. \/ order' = [cmd |-> "changed", dir |-> dir, done |-> receives]
        \/ order' = [cmd |-> "deleted", dir |-> dir, done |-> applies]
    BY DEF ReceiveFile, DeleteLocalFile
  <2> HIDE DEF receives, applies
  <2>2. QED
    BY <1>2, <2>1
<1>4. TypeOK'
  BY <1>1, <1>3 DEF IInv, TypeOK
<1>5. OwnSectionDecides'
  BY <1>1, <1>3, OwnFound DEF OwnSectionDecides
<1>6. QED
  BY <1>1, <1>4, <1>5 DEF IInv, UniquePaths

LEMMA NextInv == IInv /\ [Next]_vars => IInv'
<1> SUFFICES ASSUME IInv, [Next]_vars PROVE IInv'
  OBVIOUS
<1>1. ASSUME NEW path \in Path, NEW path_mode \in PathModes,
             NEW delete_mode \in DeleteModes,
             LoadSection(path, path_mode, delete_mode)
      PROVE  IInv'
  BY <1>1, LoadSectionInv
<1>2. CASE Start
  <2>1. /\ phase' \in {"running", "stopped"} /\ order' = order
        /\ f_path_info' = f_path_info /\ watches' = watches
    BY <1>2 DEF Start
  <2>2. QED
    BY <2>1 DEF IInv, TypeOK, UniquePaths, OwnSectionDecides
<1>3. ASSUME NEW dir \in Names, ReceiveFile(dir) \/ DeleteLocalFile(dir)
      PROVE  IInv'
  BY <1>3, OrderInv
<1>4. CASE UNCHANGED vars
  BY <1>4 DEF vars, IInv, TypeOK, UniquePaths, OwnSectionDecides
<1>5. QED
  BY <1>1, <1>2, <1>3, <1>4 DEF Next

\* The invariant of the paths: load_setup() keeps the objects unique and the
\* watches as they say, and find_path_info() finds a directory's own object.
THEOREM PathsInvariance == Spec => []IInv
<1>1. QED
  BY InitInv, NextInv, PTL DEF Spec

\* A file of a directory that has a section of its own is received or removed
\* exactly as that section says: receive_file() and delete_local_file() are
\* never misled by the sections for other directories.
THEOREM OwnSection == Spec => []OwnSectionDecides
<1>1. IInv => OwnSectionDecides
  BY DEF IInv
<1>2. QED
  BY <1>1, PathsInvariance, PTL

\* load_setup() only keeps objects with valid modes, and what it has watched
\* is what the objects it kept say.
THEOREM PathsTypeCorrect == Spec => []TypeOK
<1>1. IInv => TypeOK
  BY DEF IInv
<1>2. QED
  BY <1>1, PathsInvariance, PTL
=============================================================================
