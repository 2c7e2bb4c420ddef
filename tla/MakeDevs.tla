------------------------------ MODULE MakeDevs ------------------------------
(***************************************************************************)
(* makedevs (target/makedevs/makedevs.c): reads a device table line by     *)
(* line and makes directories and device nodes below the root directory.   *)
(* It runs under fakeroot, where mknod truncates or creates a plain file   *)
(* and remembers the node for the session.                                 *)
(*                                                                         *)
(* A path is [at |-> the names on it, no |-> the number appended, or       *)
(* Plain]; a tree maps paths to what is there, [what |->, minor |->].      *)
(* A line is [type |->, at |->, minor |->, start |->, increment |->,       *)
(* count |->]; type is "skip" for blank lines and comments.  Major numbers, *)
(* owners and modes are left out, and what is said of their failures.      *)
(***************************************************************************)
EXTENDS Integers, Sequences, SequencesExt

Plain == -1

PathOf(at) == [at |-> at, no |-> Plain]

NodeTypes == {"c", "b", "p"}

(* Plain files; "raw" are programs that were not stripped. *)
Regular == {"f", "raw"}

(* A value above 255 in any column makes the line invalid. *)
WellFormed(l) == \A v \in {l.minor, l.start, l.increment, l.count} : v <= 255

IsDir(t, p) == p.at = <<>> \/ (p \in DOMAIN t /\ t[p].what = "d")

Up(p) == PathOf(SubSeq(p.at, 1, Len(p.at) - 1))

Said(s) == [s EXCEPT !.said = TRUE]

(* bb_make_directory with FILEUTILS_RECUR: the path and what leads to it, *)
(* up to the first that is no directory.                                  *)
MakeDirectory(s, at) ==
    LET above == {PathOf(SubSeq(at, 1, n)) : n \in 1..Len(at)}
        made == above \ DOMAIN s.tree
    IN  IF \E p \in above \ made : ~IsDir(s.tree, p) THEN Said(s)
        ELSE [s EXCEPT !.tree = [p \in DOMAIN @ \cup made |->
                  IF p \in made THEN [what |-> "d", minor |-> 0] ELSE @[p]]]

(* The loop over a line with a count: it ends before count, wherever it    *)
(* starts, and the minor number takes start off after the multiplication.  *)
(* A negative one stands for the large one the unsigned sum wraps to.      *)
Numbers(l) == l.start..(l.count - 1)

(* Mutated form: the parentheses one place further. *)
MinorGrouped(l, i) == l.minor + i * (l.increment - l.start)

MinorOf(l, i) == l.minor + i * l.increment - l.start

(* The nodes of a line, each at its path. *)
NodesAt(l) ==
    IF l.count > 0
    THEN [p \in {[at |-> l.at, no |-> i] : i \in Numbers(l)} |->
             [what |-> l.type, minor |-> MinorOf(l, p.no)]]
    ELSE [p \in {PathOf(l.at)} |-> [what |-> l.type, minor |-> l.minor]]

(* mknod as fakeroot does it; full: no new file can be made.  A node that  *)
(* cannot be made does not keep the others of the line from it.            *)
CanMake(t, full, p) == IsDir(t, Up(p)) /\ ~IsDir(t, p) /\ (full => p \in DOMAIN t)

MakeNodes(s, full, nodes) ==
    LET made == {p \in DOMAIN nodes : CanMake(s.tree, full, p)}
    IN  [tree |-> [q \in DOMAIN s.tree \cup made |->
                      IF q \in made THEN nodes[q] ELSE s.tree[q]],
         said |-> s.said \/ made # DOMAIN nodes]

ReadLine(s, full, l) ==
    CASE l.type = "skip" -> s
      [] l.type = "d" /\ WellFormed(l) -> MakeDirectory(s, l.at)
      [] l.type = "f" /\ WellFormed(l) ->
           IF PathOf(l.at) \in DOMAIN s.tree /\ s.tree[PathOf(l.at)].what \in Regular
           THEN s ELSE Said(s)
      [] l.type \in NodeTypes /\ WellFormed(l) -> MakeNodes(s, full, NodesAt(l))
      [] OTHER -> Said(s)

(* What the session sees after the table was read, and whether anything    *)
(* was said of it.  Nothing stops at a line that fails, and main returns 0 *)
(* either way.                                                             *)
ReadTable(tree, full, table) ==
    FoldLeft(LAMBDA s, l : ReadLine(s, full, l), [tree |-> tree, said |-> FALSE], table)

-----------------------------------------------------------------------------
(* What a table asks for.  A line with a count is for that many nodes,     *)
(* numbered from start on (the usage text: count 15 from 1 is up to        *)
(* hda15); the first has the minor number of the line and each next one is *)
(* an increment further.                                                   *)
NodesOf(l) ==
    IF l.type \notin NodeTypes THEN {}
    ELSE IF l.count = 0 THEN {[path |-> PathOf(l.at), what |-> l.type, minor |-> l.minor]}
    ELSE {[path |-> [at |-> l.at, no |-> i], what |-> l.type,
           minor |-> l.minor + (i - l.start) * l.increment]
             : i \in l.start..(l.start + l.count - 1)}

DirsOf(l) == IF l.type = "d" THEN {PathOf(SubSeq(l.at, 1, n)) : n \in 1..Len(l.at)} ELSE {}

Nodes(table) == UNION {NodesOf(l) : l \in Range(table)}

Dirs(table) == UNION {DirsOf(l) : l \in Range(table)}

(* Those of them the loop comes to: the last ones of a numbering that does *)
(* not begin with 0, as many as its start says, are never made.            *)
Reached(l) == {n \in NodesOf(l) : n.path.no < l.count}

ReachedNodes(table) == UNION {Reached(l) : l \in Range(table)}

Placed(table) == {n.path : n \in ReachedNodes(table)} \cup Dirs(table)

(* The tables of the tree: no two lines give a path different nodes, and a *)
(* numbering that does not begin with 0 has an increment of 1.             *)
TableLine == [type : STRING, at : Seq(STRING), minor : Int, start : Nat,
              increment : Int, count : Nat]

PlainTable(table) ==
    /\ table \in Seq(TableLine)
    /\ \A l \in Range(table) : l.type \in NodeTypes /\ l.count > 0 =>
           l.start = 0 \/ l.increment = 1
    /\ \A m, n \in ReachedNodes(table) : m.path = n.path => m = n
=============================================================================
