---------------------------- MODULE RootFsProofs ----------------------------
(***************************************************************************)
(* Proofs about RootFs: the types of its state, that a make that ends well *)
(* left every image whole and complete, and that RootFs implements         *)
(* ImageStore.  The invariant IInv says what is true half-way: which       *)
(* targets are behind a make, and what that means for the files.           *)
(*                                                                         *)
(* First come lemmas about MakeDevs: what is there after a device table    *)
(* was read.  ReadTable is a fold; that a fold goes through its list step  *)
(* by step is proved by induction over the length of the list, which rests *)
(* on every set of natural numbers having a smallest element.              *)
(***************************************************************************)
EXTENDS RootFs, WellFoundedInduction, TLAPS

(* A nonempty set of natural numbers has a smallest element. *)
LEMMA LeastNat ==
    ASSUME NEW T, T \subseteq Nat, T # {}
    PROVE  \E x \in T : \A y \in T : ~(y < x)
  <1> DEFINE R == OpToRel(<, Nat)
  <1>1. IsWellFoundedOn(R, Nat)
    BY NatLessThanWellFounded, Zenon
  <1>2. \E x \in T : \A y \in T : ~(<<y, x>> \in R)
    <2> HIDE DEF R
    <2> QED BY <1>1, WFMin
  <1>3. PICK x \in T : \A y \in T : ~(<<y, x>> \in R)
    BY <1>2, Zenon
  <1>4. \A y \in T : y < x => <<y, x>> \in R
    BY DEF OpToRel
  <1> HIDE DEF R
  <1> QED BY <1>3, <1>4

(* A set with 0 and with the successors of its elements has all of them. *)
LEMMA SetInduction ==
    ASSUME NEW S, 0 \in S, \A n \in Nat : n \in S => n + 1 \in S
    PROVE  Nat \subseteq S
  <1> SUFFICES ASSUME Nat \ S # {} PROVE FALSE
    OBVIOUS
  <1>1. PICK x \in Nat \ S : \A y \in Nat \ S : ~(y < x)
    BY LeastNat
  <1>2. x # 0 /\ x - 1 \in Nat /\ x - 1 < x
    BY <1>1
  <1>3. x - 1 \in S
    BY <1>1, <1>2
  <1>4. (x - 1) + 1 \in S
    BY <1>2, <1>3
  <1>5. (x - 1) + 1 = x
    BY <1>1
  <1> QED BY <1>1, <1>4, <1>5

LEMMA MaxOfSet ==
    ASSUME NEW n \in Nat, NEW s \in SUBSET (1..(n + 1)), n + 1 \in s
    PROVE  Max(s) = n + 1
  <1>1. \A y \in s : n + 1 >= y
    OBVIOUS
  <1>2. \A x \in s : x >= n + 1 => x = n + 1
    OBVIOUS
  <1> QED BY <1>1, <1>2 DEF Max
-----------------------------------------------------------------------------
(* g has what the first n lines of a table make of a tree. *)
Reads(g, tree, full, table, len) ==
    /\ g[0] = [tree |-> tree, said |-> FALSE]
    /\ \A n \in 1..len : g[n] = ReadLine(g[n - 1], full, table[n])

(* Reading a table goes through its lines. *)
LEMMA TableLines ==
    ASSUME NEW tree, NEW full, NEW table, NEW len \in Nat, DOMAIN table = 1..len
    PROVE  \E g : Reads(g, tree, full, table, len) /\ ReadTable(tree, full, table) = g[len]
  <1> DEFINE start == [tree |-> tree, said |-> FALSE]
             F(it, S) == [s \in SUBSET S |-> IF s = {} THEN start
                             ELSE ReadLine(it[s \ {Max(s)}], full, table[Max(s)])]
             it0 == CHOOSE it : it = F(it, 1..len)
  <1>1. ReadTable(tree, full, table) = it0[1..len]
    BY DEF ReadTable, FoldLeft, MapThenFoldSet
  <1> DEFINE Good == {n \in Nat : \E it : it = F(it, 1..n)}
  <1> HIDE DEF it0
  <1>2. 0 \in Good
    <2>1. SUBSET (1..0) = {{}}
      BY SMT
    <2> DEFINE it == [s \in {{}} |-> start]
    <2>2. it = F(it, 1..0)
      BY <2>1
    <2> QED BY <2>2
  <1>3. ASSUME NEW n \in Nat, n \in Good
        PROVE  n + 1 \in Good
    <2>1. PICK it : it = F(it, 1..n)
      BY <1>3
    <2> DEFINE new == [s \in SUBSET (1..(n + 1)) |->
                          IF n + 1 \in s THEN ReadLine(it[s \ {n + 1}], full, table[n + 1])
                          ELSE it[s]]
    <2>2. \A s \in SUBSET (1..n) : n + 1 \notin s /\ s \in SUBSET (1..(n + 1))
      BY SMT
    <2>3. \A s \in SUBSET (1..n) : new[s] = it[s]
      BY <2>2
    <2>4. \A s \in SUBSET (1..(n + 1)) : s \ {n + 1} \in SUBSET (1..n)
      BY SMT
    <2>5. ASSUME NEW s \in SUBSET (1..(n + 1)), n + 1 \in s
          PROVE  new[s] = ReadLine(new[s \ {Max(s)}], full, table[Max(s)])
      <3>1. Max(s) = n + 1
        BY <2>5, MaxOfSet
      <3>2. new[s \ {n + 1}] = it[s \ {n + 1}]
        BY <2>3, <2>4
      <3>3. new[s] = ReadLine(it[s \ {n + 1}], full, table[n + 1])
        BY <2>5
      <3> QED BY <3>1, <3>2, <3>3
    <2>6. ASSUME NEW s \in SUBSET (1..(n + 1)), n + 1 \notin s, s # {}
          PROVE  new[s] = ReadLine(new[s \ {Max(s)}], full, table[Max(s)])
      <3>1. s \in SUBSET (1..n) /\ s \ {Max(s)} \in SUBSET (1..n)
        <4>1. \A x \in s : x \in 1..n
          BY <2>6
        <4> QED BY <4>1
      <3>2. it[s] = ReadLine(it[s \ {Max(s)}], full, table[Max(s)])
        BY <2>1, <2>6, <3>1
      <3> HIDE DEF new
      <3> QED BY <2>3, <3>1, <3>2
    <2>7. new[{}] = start
      <3>1. {} \in SUBSET (1..n)
        OBVIOUS
      <3>2. it[{}] = start
        BY <2>1, <3>1
      <3> QED BY <2>3, <3>1, <3>2
    <2>8. \A s \in SUBSET (1..(n + 1)) :
             new[s] = IF s = {} THEN start ELSE ReadLine(new[s \ {Max(s)}], full, table[Max(s)])
      BY <2>5, <2>6, <2>7
    <2>9. new = [s \in SUBSET (1..(n + 1)) |-> new[s]]
      OBVIOUS
    <2>10. new = F(new, 1..(n + 1))
      <3> HIDE DEF new
      <3> QED BY <2>8, <2>9
    <2> HIDE DEF new, F
    <2> QED BY <2>10
  <1>4. len \in Good
    <2> HIDE DEF Good
    <2> QED BY <1>2, <1>3, SetInduction
  <1>5. it0 = F(it0, 1..len)
    BY <1>4 DEF it0
  <1> DEFINE g == [n \in 0..len |-> it0[1..n]]
  <1>6. g[0] = start
    <2>1. 1..0 = {} /\ 0 \in 0..len /\ {} \in SUBSET (1..len)
      BY SMT
    <2> QED BY <1>5, <2>1
  <1>7. ASSUME NEW n \in 1..len
        PROVE  g[n] = ReadLine(g[n - 1], full, table[n])
    <2>1. n - 1 \in Nat /\ (n - 1) + 1 = n /\ n \in 0..len /\ n - 1 \in 0..len
      OBVIOUS
    <2>2. Max(1..n) = n
      <3>1. 1..n \in SUBSET (1..((n - 1) + 1)) /\ (n - 1) + 1 \in 1..n
        OBVIOUS
      <3> QED BY <2>1, <3>1, MaxOfSet
    <2>3. 1..n \in SUBSET (1..len) /\ 1..n # {} /\ 1..n \ {n} = 1..(n - 1)
      <3>1. \A x \in 1..n : x \in 1..len
        OBVIOUS
      <3>2. n \in 1..n
        OBVIOUS
      <3>3. \A x : x \in 1..n \ {n} <=> x \in 1..(n - 1)
        OBVIOUS
      <3> QED BY <3>1, <3>2, <3>3
    <2>4. it0[1..n] = ReadLine(it0[1..n \ {Max(1..n)}], full, table[Max(1..n)])
      BY <1>5, <2>3
    <2> QED BY <2>1, <2>2, <2>3, <2>4
  <1>8. ReadTable(tree, full, table) = g[len]
    BY <1>1
  <1> HIDE DEF g
  <1>9. Reads(g, tree, full, table, len)
    BY <1>6, <1>7 DEF Reads
  <1> QED BY <1>8, <1>9
-----------------------------------------------------------------------------
(* What a line does to what was read so far: it adds what it names, and    *)
(* all of it unless something was said.                                    *)
State(s) == s = [tree |-> s.tree, said |-> s.said] /\ s.said \in BOOLEAN

Extends(s, r, dirs, nodes) ==
    LET paths == {n.path : n \in nodes} IN
    /\ State(r)
    /\ s.said => r.said
    /\ DOMAIN s.tree \subseteq DOMAIN r.tree
    /\ DOMAIN r.tree \subseteq DOMAIN s.tree \cup dirs \cup paths
    /\ \A q \in DOMAIN r.tree \ paths :
           r.tree[q] = IF q \in DOMAIN s.tree THEN s.tree[q] ELSE [what |-> "d", minor |-> 0]
    /\ \A q \in DOMAIN r.tree \cap paths :
           \/ q \in DOMAIN s.tree /\ r.tree[q] = s.tree[q]
           \/ r.tree[q].what \in NodeTypes \cup {"d"}
    /\ ~r.said => dirs \subseteq DOMAIN r.tree

(* The nodes of a line that are reached are those its numbers give. *)
LEMMA ReachedIs ==
    ASSUME NEW l \in TableLine
    PROVE  /\ l.type \notin NodeTypes => Reached(l) = {}
           /\ l.type \in NodeTypes /\ l.count = 0 =>
                 Reached(l) = {[path |-> PathOf(l.at), what |-> l.type, minor |-> l.minor]}
           /\ l.type \in NodeTypes /\ l.count > 0 =>
                 Reached(l) = {[path |-> [at |-> l.at, no |-> i], what |-> l.type,
                                minor |-> l.minor + (i - l.start) * l.increment]
                                  : i \in Numbers(l)}
  <1>1. l.start \in Nat /\ l.count \in Nat
    BY DEF TableLine
  <1>2. l.type \notin NodeTypes => Reached(l) = {}
    BY DEF Reached, NodesOf
  <1>3. ASSUME l.type \in NodeTypes, l.count = 0
        PROVE  Reached(l) = {[path |-> PathOf(l.at), what |-> l.type, minor |-> l.minor]}
    BY <1>3 DEF Reached, NodesOf, PathOf, Plain
  <1>4. ASSUME l.type \in NodeTypes, l.count > 0
        PROVE  Reached(l) = {[path |-> [at |-> l.at, no |-> i], what |-> l.type,
                              minor |-> l.minor + (i - l.start) * l.increment] : i \in Numbers(l)}
    <2> DEFINE node(i) == [path |-> [at |-> l.at, no |-> i], what |-> l.type,
                           minor |-> l.minor + (i - l.start) * l.increment]
    <2>1. NodesOf(l) = {node(i) : i \in l.start..(l.start + l.count - 1)}
      BY <1>1, <1>4 DEF NodesOf
    <2>2. \A i : node(i).path.no = i
      OBVIOUS
    <2>3. \A i : (i \in l.start..(l.start + l.count - 1) /\ i < l.count) <=> i \in Numbers(l)
      BY <1>1 DEF Numbers
    <2> HIDE DEF node
    <2>4. {node(i) : i \in Numbers(l)} = Reached(l)
      BY <2>1, <2>2, <2>3 DEF Reached
    <2> QED BY <2>4 DEF node
  <1> QED BY <1>2, <1>3, <1>4

LEMMA NodesAtPaths ==
    ASSUME NEW l \in TableLine, l.type \in NodeTypes
    PROVE  DOMAIN NodesAt(l) = {n.path : n \in Reached(l)}
  <1>1. CASE l.count > 0
    <2> DEFINE node(i) == [path |-> [at |-> l.at, no |-> i], what |-> l.type,
                           minor |-> l.minor + (i - l.start) * l.increment]
    <2>1. Reached(l) = {node(i) : i \in Numbers(l)}
      BY <1>1, ReachedIs
    <2>2. DOMAIN NodesAt(l) = {[at |-> l.at, no |-> i] : i \in Numbers(l)}
      BY <1>1 DEF NodesAt
    <2>3. \A i : node(i).path = [at |-> l.at, no |-> i]
      OBVIOUS
    <2> HIDE DEF node
    <2>4. {n.path : n \in Reached(l)} = {node(i).path : i \in Numbers(l)}
      BY <2>1
    <2>5. {node(i).path : i \in Numbers(l)} = {[at |-> l.at, no |-> i] : i \in Numbers(l)}
      BY <2>3
    <2> QED BY <2>2, <2>4, <2>5
  <1>2. CASE l.count = 0
    <2>1. DOMAIN NodesAt(l) = {PathOf(l.at)}
      BY <1>2 DEF NodesAt
    <2>2. Reached(l) = {[path |-> PathOf(l.at), what |-> l.type, minor |-> l.minor]}
      BY <1>2, ReachedIs
    <2> QED BY <2>1, <2>2
  <1> QED BY <1>1, <1>2 DEF TableLine

LEMMA MinorsAgree ==
    ASSUME NEW l \in TableLine, l.start = 0 \/ l.increment = 1, NEW i \in Int
    PROVE  MinorOf(l, i) = l.minor + (i - l.start) * l.increment
  <1>1. l.minor \in Int /\ l.increment \in Int /\ l.start \in Int
    BY DEF TableLine
  <1>2. CASE l.start = 0
    <2> DEFINE x == i * l.increment
    <2>1. i - l.start = i
      BY <1>2
    <2>2. x \in Int /\ (i - l.start) * l.increment = x
      BY <1>1, <2>1
    <2>3. MinorOf(l, i) = l.minor + x - l.start
      BY DEF MinorOf
    <2> HIDE DEF x
    <2> QED BY <1>1, <1>2, <2>2, <2>3
  <1>3. CASE l.increment = 1
    <2>1. i * l.increment = i /\ (i - l.start) * l.increment = i - l.start
      BY <1>1, <1>3
    <2>2. MinorOf(l, i) = l.minor + i - l.start
      BY <2>1 DEF MinorOf
    <2> QED BY <1>1, <2>1, <2>2
  <1> QED BY <1>2, <1>3

LEMMA NodesAtValues ==
    ASSUME NEW l \in TableLine, l.type \in NodeTypes,
           l.count > 0 => l.start = 0 \/ l.increment = 1,
           NEW n \in Reached(l)
    PROVE  NodesAt(l)[n.path] = [what |-> n.what, minor |-> n.minor]
  <1>1. CASE l.count > 0
    <2>1. PICK i \in Numbers(l) :
             n = [path |-> [at |-> l.at, no |-> i], what |-> l.type,
                  minor |-> l.minor + (i - l.start) * l.increment]
      BY <1>1, ReachedIs
    <2>2. i \in Int /\ MinorOf(l, i) = l.minor + (i - l.start) * l.increment
      BY <1>1, MinorsAgree DEF TableLine, Numbers
    <2>3. NodesAt(l)[[at |-> l.at, no |-> i]] = [what |-> l.type, minor |-> MinorOf(l, i)]
      BY <1>1 DEF NodesAt
    <2> QED BY <2>1, <2>2, <2>3
  <1>2. CASE l.count = 0
    BY <1>2, ReachedIs DEF NodesAt
  <1> QED BY <1>1, <1>2 DEF TableLine

LEMMA LineReads ==
    ASSUME NEW s, State(s), NEW full, NEW l \in TableLine
    PROVE  Extends(s, ReadLine(s, full, l), DirsOf(l), Reached(l))
  <1> DEFINE r == ReadLine(s, full, l)
  <1> SUFFICES Extends(s, r, DirsOf(l), Reached(l))
    OBVIOUS
  <1>1. CASE r = s /\ l.type \notin NodeTypes \cup {"d"}
    BY <1>1, ReachedIs DEF Extends, State, DirsOf
  <1>2. CASE r = Said(s)
    <2>1. r = [tree |-> s.tree, said |-> TRUE]
      BY <1>2 DEF Said, State
    <2>2. State(r) /\ r.said /\ r.tree = s.tree
      BY <2>1 DEF State
    <2> HIDE DEF r
    <2>3. \A q \in DOMAIN r.tree : q \in DOMAIN s.tree /\ r.tree[q] = s.tree[q]
      BY <2>2
    <2> QED BY <2>2, <2>3 DEF Extends
  <1>3. CASE l.type = "d" /\ WellFormed(l) /\ r # Said(s)
    <2> DEFINE made == DirsOf(l) \ DOMAIN s.tree
               new == [p \in DOMAIN s.tree \cup made |->
                          IF p \in made THEN [what |-> "d", minor |-> 0] ELSE s.tree[p]]
    <2>1. r = MakeDirectory(s, l.at)
      <3>1. l.type # "skip" /\ l.type # "f" /\ l.type \notin NodeTypes
        BY <1>3 DEF NodeTypes
      <3> QED BY <1>3, <3>1 DEF ReadLine
    <2>2. r = [s EXCEPT !.tree = new]
      <3>1. DirsOf(l) = {PathOf(SubSeq(l.at, 1, n)) : n \in 1..Len(l.at)}
        BY <1>3 DEF DirsOf
      <3> HIDE DEF r
      <3> QED BY <1>3, <2>1, <3>1, Zenon DEF MakeDirectory
    <2>3. r = [tree |-> new, said |-> s.said]
      BY <2>2 DEF State
    <2>4. Reached(l) = {}
      BY <1>3, ReachedIs DEF NodeTypes
    <2>5. DOMAIN r.tree = DOMAIN s.tree \cup DirsOf(l)
      BY <2>3
    <2>6. \A q \in DOMAIN r.tree :
            r.tree[q] = IF q \in DOMAIN s.tree THEN s.tree[q] ELSE [what |-> "d", minor |-> 0]
      BY <2>3
    <2>7. State(r) /\ (s.said => r.said)
      BY <2>3 DEF State
    <2> HIDE DEF r
    <2>8. {n.path : n \in Reached(l)} = {}
      BY <2>4
    <2> QED BY <2>5, <2>6, <2>7, <2>8 DEF Extends
  <1>4. CASE l.type \in NodeTypes /\ WellFormed(l)
    <2> DEFINE nodes == NodesAt(l)
               made == {p \in DOMAIN nodes : CanMake(s.tree, full, p)}
    <2>1. r = MakeNodes(s, full, nodes)
      BY <1>4 DEF ReadLine, NodeTypes
    <2>2. State(r) /\ (s.said => r.said)
      BY <2>1 DEF MakeNodes, State
    <2>3. DOMAIN r.tree = DOMAIN s.tree \cup made
      BY <2>1 DEF MakeNodes
    <2>4. \A q \in DOMAIN r.tree : r.tree[q] = IF q \in made THEN nodes[q] ELSE s.tree[q]
      BY <2>1 DEF MakeNodes
    <2>5. \A q \in DOMAIN nodes : nodes[q].what \in NodeTypes
      BY <1>4 DEF NodesAt
    <2>6. DOMAIN nodes = {n.path : n \in Reached(l)}
      BY <1>4, NodesAtPaths
    <2>7. DirsOf(l) = {}
      BY <1>4 DEF DirsOf, NodeTypes
    <2>8. made \subseteq DOMAIN nodes
      OBVIOUS
    <2> HIDE DEF r, made, nodes
    <2>9. /\ DOMAIN r.tree \subseteq DOMAIN s.tree \cup {n.path : n \in Reached(l)}
          /\ \A q \in DOMAIN r.tree \ {n.path : n \in Reached(l)} :
                q \in DOMAIN s.tree /\ r.tree[q] = s.tree[q]
          /\ \A q \in DOMAIN r.tree :
                \/ q \in DOMAIN s.tree /\ r.tree[q] = s.tree[q]
                \/ r.tree[q].what \in NodeTypes
      BY <2>3, <2>4, <2>5, <2>6, <2>8
    <2> QED BY <2>2, <2>3, <2>7, <2>9 DEF Extends
  <1> QED BY <1>1, <1>2, <1>3, <1>4 DEF ReadLine, NodeTypes

LEMMA LineMakes ==
    ASSUME NEW s, State(s), NEW full, NEW l \in TableLine,
           l.type \in NodeTypes /\ l.count > 0 => l.start = 0 \/ l.increment = 1,
           ~ReadLine(s, full, l).said
    PROVE  HasNodes(ReadLine(s, full, l).tree, Reached(l))
  <1> DEFINE r == ReadLine(s, full, l)
  <1> SUFFICES HasNodes(r.tree, Reached(l))
    OBVIOUS
  <1>1. CASE l.type \notin NodeTypes
    BY <1>1, ReachedIs DEF HasNodes
  <1>2. CASE l.type \in NodeTypes
    <2> DEFINE nodes == NodesAt(l)
               made == {p \in DOMAIN nodes : CanMake(s.tree, full, p)}
    <2>1. r # Said(s)
      BY DEF Said, State
    <2>2. r = MakeNodes(s, full, nodes)
      BY <1>2, <2>1 DEF ReadLine, NodeTypes
    <2>3. made = DOMAIN nodes
      <3>1. r.said = (s.said \/ made # DOMAIN nodes)
        BY <2>2 DEF MakeNodes
      <3> QED BY <3>1
    <2>4. DOMAIN nodes \subseteq DOMAIN r.tree /\ \A q \in DOMAIN nodes : r.tree[q] = nodes[q]
      BY <2>2, <2>3 DEF MakeNodes
    <2>5. DOMAIN nodes = {n.path : n \in Reached(l)}
      BY <1>2, NodesAtPaths
    <2>6. \A n \in Reached(l) : nodes[n.path] = [what |-> n.what, minor |-> n.minor]
      BY <1>2, NodesAtValues
    <2> HIDE DEF r, nodes, made
    <2> QED BY <2>4, <2>5, <2>6 DEF HasNodes
  <1> QED BY <1>1, <1>2

-----------------------------------------------------------------------------
(* The whole table: what is there before stays or becomes a node, what is  *)
(* added the table names, and if nothing was said it holds all it reaches. *)
LEMMA TableReads ==
    ASSUME NEW tree, NEW full, NEW table \in Seq(TableLine)
    PROVE  LET r == ReadTable(tree, full, table) IN
           /\ r.said \in BOOLEAN
           /\ DOMAIN tree \subseteq DOMAIN r.tree
           /\ DOMAIN r.tree \subseteq DOMAIN tree \cup Placed(table)
           /\ \A q \in DOMAIN r.tree :
                 \/ q \in DOMAIN tree /\ r.tree[q] = tree[q]
                 \/ r.tree[q].what \in NodeTypes \cup {"d"}
           /\ ~r.said => Dirs(table) \subseteq DOMAIN r.tree
           /\ ~r.said /\ PlainTable(table) => HasNodes(r.tree, ReachedNodes(table))
  <1> DEFINE len == Len(table)
             r == ReadTable(tree, full, table)
  <1>1. len \in Nat /\ DOMAIN table = 1..len /\ \A k \in 1..len : table[k] \in TableLine
    OBVIOUS
  <1>r. r = ReadTable(tree, full, table)
    OBVIOUS
  <1> HIDE DEF len, r
  <1>d. len \in Nat /\ DOMAIN table = 1..len
    BY <1>1
  <1>g. PICK g : Reads(g, tree, full, table, len) /\ r = g[len]
    BY ONLY <1>d, <1>r, TableLines
  <1>2. /\ g[0] = [tree |-> tree, said |-> FALSE]
        /\ \A n \in 1..len : g[n] = ReadLine(g[n - 1], full, table[n])
        /\ r = g[len]
    BY <1>g DEF Reads
  <1> DEFINE Added(n) ==
                 /\ State(g[n])
                 /\ DOMAIN tree \subseteq DOMAIN g[n].tree
                 /\ DOMAIN g[n].tree \subseteq DOMAIN tree \cup Placed(table)
                 /\ \A q \in DOMAIN g[n].tree :
                       \/ q \in DOMAIN tree /\ g[n].tree[q] = tree[q]
                       \/ g[n].tree[q].what \in NodeTypes \cup {"d"}
             Full(n) ==
                 ~g[n].said => \A k \in 1..n :
                     /\ DirsOf(table[k]) \subseteq DOMAIN g[n].tree
                     /\ PlainTable(table) => HasNodes(g[n].tree, Reached(table[k]))
             Good == {n \in Nat : n <= len => Added(n) /\ Full(n)}
  <1>3. ASSUME NEW k \in 1..len
        PROVE  /\ Reached(table[k]) \subseteq ReachedNodes(table)
               /\ DirsOf(table[k]) \subseteq Dirs(table)
               /\ {n.path : n \in Reached(table[k])} \cup DirsOf(table[k]) \subseteq Placed(table)
    <2>1. table[k] \in Range(table)
      BY <1>1 DEF Range
    <2>2. Reached(table[k]) \subseteq ReachedNodes(table) /\ DirsOf(table[k]) \subseteq Dirs(table)
      BY <2>1 DEF ReachedNodes, Dirs
    <2> QED BY <2>2 DEF Placed
  <1>4. 0 \in Good
    <2>1. Added(0)
      BY <1>2 DEF State
    <2>2. Full(0)
      OBVIOUS
    <2> QED BY <2>1, <2>2
  <1>5. ASSUME NEW n \in Nat, n \in Good
        PROVE  n + 1 \in Good
    <2> SUFFICES ASSUME n + 1 <= len
                 PROVE  Added(n + 1) /\ Full(n + 1)
      OBVIOUS
    <2> DEFINE l == table[n + 1]
               s == g[n]
               t == g[n + 1]
    <2>1. n \in Nat /\ n + 1 \in 1..len /\ (n + 1) - 1 = n /\ n <= len
      BY <1>1
    <2>2. Added(n) /\ Full(n)
      BY <1>5, <2>1
    <2>3. t = ReadLine(s, full, l) /\ l \in TableLine
      BY <1>1, <1>2, <2>1
    <2>4. Extends(s, t, DirsOf(l), Reached(l))
      BY <2>2, <2>3, LineReads
    <2>5. {m.path : m \in Reached(l)} \cup DirsOf(l) \subseteq Placed(table)
      BY <1>3, <2>1
    <2>6. Added(n + 1)
      <3>1. State(t) /\ DOMAIN tree \subseteq DOMAIN t.tree
            /\ DOMAIN t.tree \subseteq DOMAIN tree \cup Placed(table)
        BY <2>2, <2>4, <2>5 DEF Extends
      <3>2. ASSUME NEW q \in DOMAIN t.tree
            PROVE  \/ q \in DOMAIN tree /\ t.tree[q] = tree[q]
                   \/ t.tree[q].what \in NodeTypes \cup {"d"}
        <4>1. \/ q \in DOMAIN s.tree /\ t.tree[q] = s.tree[q]
              \/ t.tree[q].what \in NodeTypes \cup {"d"}
          BY <2>4 DEF Extends
        <4> QED BY <2>2, <4>1
      <3> QED BY <3>1, <3>2
    <2>7. ASSUME ~t.said, NEW k \in 1..(n + 1)
          PROVE  /\ DirsOf(table[k]) \subseteq DOMAIN t.tree
                 /\ PlainTable(table) => HasNodes(t.tree, Reached(table[k]))
      <3>1. ~s.said
        BY <2>4, <2>7 DEF Extends
      <3>2. PlainTable(table) => HasNodes(t.tree, Reached(l))
        <4>1. PlainTable(table) /\ l.type \in NodeTypes /\ l.count > 0 => l.start = 0 \/ l.increment = 1
          <5>1. l \in Range(table)
            BY <1>1, <2>1 DEF Range
          <5> QED BY <5>1 DEF PlainTable
        <4> QED BY <2>2, <2>3, <2>7, <4>1, LineMakes
      <3>3. CASE k = n + 1
        BY <2>4, <2>7, <3>2, <3>3 DEF Extends
      <3>4. CASE k \in 1..n
        <4>1. /\ DirsOf(table[k]) \subseteq DOMAIN s.tree
              /\ PlainTable(table) => HasNodes(s.tree, Reached(table[k]))
          BY <2>2, <3>1, <3>4
        <4>2. ASSUME PlainTable(table), NEW m \in Reached(table[k])
              PROVE  m.path \in DOMAIN t.tree
                     /\ t.tree[m.path] = [what |-> m.what, minor |-> m.minor]
          <5>1. CASE m.path \in {q.path : q \in Reached(l)}
            <6>1. PICK q \in Reached(l) : q.path = m.path
              BY <5>1
            <6>2. q = m
              <7>1. k \in 1..len
                BY <1>1, <2>1
              <7>2. m \in ReachedNodes(table) /\ q \in ReachedNodes(table)
                BY <1>3, <2>1, <7>1
              <7> QED BY <4>2, <6>1, <7>2 DEF PlainTable
            <6> QED BY <3>2, <4>2, <6>1, <6>2 DEF HasNodes
          <5>2. CASE m.path \notin {q.path : q \in Reached(l)}
            <6>1. m.path \in DOMAIN s.tree
                  /\ s.tree[m.path] = [what |-> m.what, minor |-> m.minor]
              BY <4>1, <4>2 DEF HasNodes
            <6> HIDE DEF s, t, l
            <6> QED BY <2>4, <5>2, <6>1 DEF Extends
          <5> QED BY <5>1, <5>2
        <4>3. DirsOf(table[k]) \subseteq DOMAIN t.tree
          BY <2>4, <4>1 DEF Extends
        <4> QED BY <4>2, <4>3 DEF HasNodes
      <3> QED BY <3>3, <3>4
    <2> QED BY <2>6, <2>7
  <1>6. Added(len) /\ Full(len)
    <2>1. len \in Good
      <3> HIDE DEF Good
      <3> QED BY <1>1, <1>4, <1>5, SetInduction
    <2> QED BY <1>1, <2>1
  <1>7. r.said \in BOOLEAN
    BY <1>2, <1>6 DEF State
  <1>8. ASSUME ~r.said
        PROVE  /\ Dirs(table) \subseteq DOMAIN r.tree
               /\ PlainTable(table) => HasNodes(r.tree, ReachedNodes(table))
    <2>1. \A k \in 1..len : /\ DirsOf(table[k]) \subseteq DOMAIN r.tree
                            /\ PlainTable(table) => HasNodes(r.tree, Reached(table[k]))
      BY <1>2, <1>6, <1>8
    <2>2. \A l \in Range(table) : \E k \in 1..len : l = table[k]
      BY <1>1 DEF Range
    <2> QED BY <2>1, <2>2 DEF Dirs, ReachedNodes, HasNodes
  <1> QED BY <1>2, <1>6, <1>7, <1>8 DEF r

-----------------------------------------------------------------------------
(* How far a make is                                                       *)

Emptied == phase = "cleaning" /\ step = 1

AtRoot == phase = "making" /\ at \in DOMAIN Targets /\ Targets[at] = "root"

Copying == AtRoot /\ step \in 1..Len(Skeleton)

(* How far a target can be. *)
Steps ==
    /\ phase = "cleaning" => step \in {0, 1} /\ (step = 1 => target = NoTree)
    /\ phase = "making" /\ at \in DOMAIN Targets =>
          step \in (IF Targets[at] = "root" THEN 0..(Len(Skeleton) + 1)
                    ELSE IF Targets[at] \in Image THEN 0..2 ELSE {0})
    /\ phase = "making" /\ at > 1 => root
    /\ phase = "done" => at = Len(Targets) + 1

(* Where the skeleton is, unless a copy or a make clean was broken off. *)
SkeletonThere ==
    spoiled = {} /\ ~Emptied =>
        /\ root => Entry \subseteq DOMAIN target
        /\ Bin \in DOMAIN target /\ ~Copying => Entry \subseteq DOMAIN target
        /\ AtRoot => \A k \in DOMAIN Skeleton :
                        k < step => PathOf(Skeleton[k]) \in DOMAIN target

ProgramsThere ==
    spoiled = {} /\ ~Emptied => \A p \in installed : Program(p) \in DOMAIN target

PackagesMade ==
    phase = "making" /\ at \in DOMAIN Targets =>
        \A k \in DOMAIN Targets :
            k < at /\ Targets[k] \in config.pkgs => Targets[k] \in installed \cup fragments

Holds(t) == Entry \cup {Program(p) : p \in config.pkgs} \subseteq DOMAIN t

(* What this make has drawn. *)
DrawnNow(f) == /\ f.state = "whole" /\ f.run = commands
               /\ spoiled = {} => Holds(f.tree)

Drawing ==
    phase \in {"making", "done"} =>
        /\ \A i \in DrawnSoFar : DrawnNow(image[i]) /\ Product(i) = image[i]
        /\ \A k \in DOMAIN Targets : k < at /\ Targets[k] \in config.images \cap CopyTo =>
              copied[Targets[k]] = image[Targets[k]]
        /\ Carrier \in DrawnSoFar => image[Carrier] = Product(Carried)

Packing ==
    phase = "making" /\ at \in DOMAIN Targets /\ Targets[at] \in config.images /\ step = 1 =>
        Targets[at] \in Packed /\ DrawnNow(image[Targets[at]])

IInv == TypeOK /\ Steps /\ SkeletonThere /\ ProgramsThere /\ PackagesMade /\ Drawing /\ Packing

USE DEF Stay, Advance, Making, Current

-----------------------------------------------------------------------------
(* What the operators do to the domain of a tree. *)
LEMMA WithDomain ==
    ASSUME NEW t, NEW paths, NEW what
    PROVE  DOMAIN With(t, paths, what) = DOMAIN t \cup paths
  BY DEF With

LEMMA WithoutDomain ==
    ASSUME NEW t, NEW paths
    PROVE  DOMAIN Without(t, paths) = DOMAIN t \ paths
  BY DEF Without

LEMMA StripDomain ==
    ASSUME NEW t
    PROVE  DOMAIN Strip(t) = DOMAIN t
  BY DEF Strip

LEMMA DiskDomain ==
    ASSUME NEW t
    PROVE  DOMAIN OnDisk(t) = DOMAIN t
  BY DEF OnDisk

LEMMA PopulatedDomain ==
    ASSUME NEW t, NEW full, config \in Configs
    PROVE  DOMAIN t \subseteq DOMAIN Populated(t, full).tree
  <1>1. config.table \in Seq(TableLine)
    BY TableAssumption DEF PlainTable
  <1> QED BY <1>1, TableReads DEF Populated

LEMMA LinkingDomain ==
    ASSUME NEW i, NEW t
    PROVE  DOMAIN t \subseteq DOMAIN Linking(i, t)
  <1>1. DOMAIN With(t, {InitLink}, "f") = DOMAIN t \cup {InitLink}
    BY WithDomain
  <1> QED BY <1>1 DEF Linking

(* The manual pages the fragments of the script remove. *)
SweptPages == {Manual(p) : p \in Swept}

LEMMA SweptAreManuals ==
    /\ Swept \subseteq Pkg /\ SweptPages \subseteq Manuals
    /\ fragments = {} => SweptPages = {}
  BY RootFsAssumption DEF SweptPages, Swept, Manuals

LEMMA FragmentedDomain ==
    ASSUME NEW t
    PROVE  DOMAIN Fragmented(t) = (DOMAIN t \ SweptPages) \cup {Program(p) : p \in fragments}
  <1>1. DOMAIN Without(t, SweptPages) = DOMAIN t \ SweptPages
    BY WithoutDomain
  <1>2. Fragmented(t) = With(Without(t, SweptPages), {Program(p) : p \in fragments}, "raw")
    BY DEF Fragmented, SweptPages
  <1> QED BY <1>1, <1>2, WithDomain

(* Headers and manual pages are no programs and not of the skeleton. *)
LEMMA Apart ==
    /\ \A p \in Pkg : Program(p) \notin Headers \cup Manuals
    /\ Entry \cap (Headers \cup Manuals) = {}
  <1>1. \A p, q : /\ <<"bin", p>> # <<"usr", "include", q>>
                /\ <<"bin", p>> # <<"usr", "man", q>>
                /\ <<"bin", p>> # <<"usr", "share", "man", q>>
    <2> TAKE p, q
    <2>1. /\ <<"bin", p>>[1] # <<"usr", "include", q>>[1]
          /\ <<"bin", p>>[1] # <<"usr", "man", q>>[1]
          /\ <<"bin", p>>[1] # <<"usr", "share", "man", q>>[1]
      OBVIOUS
    <2> QED BY <2>1
  <1>2. \A p \in Pkg : Program(p) \notin Headers \cup Manuals
    BY <1>1 DEF Program, Headers, Manuals, Header, Manual, PathOf
  <1>3. \A q : \A k \in DOMAIN Skeleton : /\ Skeleton[k] # <<"usr", "include", q>>
                                           /\ Skeleton[k] # <<"usr", "man", q>>
                                           /\ Skeleton[k] # <<"usr", "share", "man", q>>
    <2> TAKE q
    <2> TAKE k \in DOMAIN Skeleton
    <2>1. Len(Skeleton[k]) = 1
      BY RootFsAssumption
    <2>2. Len(<<"usr", "include", q>>) = 3 /\ Len(<<"usr", "man", q>>) = 3
          /\ Len(<<"usr", "share", "man", q>>) = 4
      OBVIOUS
    <2>3. 1 # 3 /\ 1 # 4
      OBVIOUS
    <2> QED BY <2>1, <2>2, <2>3, Zenon
  <1>4. Entry \cap (Headers \cup Manuals) = {}
    BY <1>3 DEF Entry, Headers, Manuals, Header, Manual, PathOf
  <1> QED BY <1>2, <1>4

(* The root target is the first and every other one comes later. *)
LEMMA RootIsFirst ==
    /\ 1 \in DOMAIN Targets /\ Targets[1] = "root"
    /\ \A k \in DOMAIN Targets : Targets[k] = "root" => k = 1
    /\ DOMAIN Targets = 1..Len(Targets) /\ Len(Targets) \in Nat
    /\ \A k \in DOMAIN Targets : Targets[k] \in Pkg \cup Image \cup Other
  <1>1. DOMAIN Targets = 1..Len(Targets) /\ Len(Targets) \in Nat
        /\ \A k \in DOMAIN Targets : Targets[k] \in Pkg \cup Image \cup Other
    BY RootFsAssumption
  <1>2. PICK k \in DOMAIN Targets : Targets[k] = "root"
    BY TargetsAssumption DEF Other
  <1>3. ASSUME NEW j \in DOMAIN Targets, Targets[j] = "root"
        PROVE  j = 1
    <2>1. 1 \in DOMAIN Targets /\ (j # 1 => 1 < j)
      BY <1>1
    <2> QED BY <1>3, <2>1, TargetsAssumption
  <1> QED BY <1>1, <1>2, <1>3

(* Before an image come all packages, and before the carrier what it carries. *)
LEMMA ImagesAreLate ==
    /\ \A j, k \in DOMAIN Targets : Targets[j] \in Image /\ Targets[k] \in Pkg => k < j
    /\ \A j, k \in DOMAIN Targets : Targets[j] = Carrier /\ Targets[k] = Carried => k < j
  <1>1. PICK f \in DOMAIN Targets : Targets[f] = "finalize"
    BY TargetsAssumption DEF Other
  <1>2. ASSUME NEW j \in DOMAIN Targets, NEW k \in DOMAIN Targets,
               Targets[j] \in Image, Targets[k] \in Pkg, ~(k < j)
        PROVE  FALSE
    <2>1. j \in Int /\ k \in Int /\ f \in Int
      BY RootIsFirst
    <2>2. j # k /\ f # j /\ f # k
      BY <1>1, <1>2, RootFsAssumption DEF Other
    <2>3. f < j
      BY <1>1, <1>2, <2>1, <2>2, TargetsAssumption
    <2>4. k < f
      BY <1>1, <1>2, <2>1, <2>2, TargetsAssumption
    <2> QED BY <1>2, <2>1, <2>3, <2>4
  <1>3. ASSUME NEW j \in DOMAIN Targets, NEW k \in DOMAIN Targets,
               Targets[j] = Carrier, Targets[k] = Carried, ~(k < j)
        PROVE  FALSE
    BY <1>3, RootIsFirst, TargetsAssumption, CarrierAssumption
  <1> QED BY <1>2, <1>3

-----------------------------------------------------------------------------
LEMMA TypeInit == Init => TypeOK
  <1> SUFFICES ASSUME Init PROVE TypeOK
    OBVIOUS
  <1>1. FilesOK(image) /\ FilesOK(archive) /\ FilesOK(copied)
    BY DEF Init, FilesOK, FileOK, NoFile
  <1>2. root \in BOOLEAN /\ fresh \in BOOLEAN
    BY DEF Init
  <1>3. at \in 1..(Len(Targets) + 1) /\ step \in Nat /\ commands \in 0..MaxCommands
    BY RootFsAssumption, RootIsFirst DEF Init
  <1> QED BY <1>1, <1>2, <1>3 DEF Init, TypeOK

LEMMA TypeNext == TypeOK /\ Steps /\ [Next]_vars => TypeOK'
  <1> SUFFICES ASSUME TypeOK, Steps, [Next]_vars
               PROVE  TypeOK'
    OBVIOUS
  <1> USE DEF TypeOK, Steps
  <1>1. CASE Configure
    BY <1>1 DEF Configure, FilesOK, FileOK, tool
  <1>2. CASE Make
    BY <1>2, RootFsAssumption DEF Make, FilesOK, FileOK, tool, past
  <1>3. CASE Skip
    BY <1>3, RootIsFirst DEF Skip, FilesOK, FileOK, tool, past
  <1>4. CASE Finish
    BY <1>4 DEF Finish, FilesOK, FileOK, tool, past
  <1>5. CASE TestBin
    BY <1>5, RootIsFirst, RootFsAssumption DEF TestBin, FilesOK, FileOK, tool, past
  <1>6. CASE CopyEntry
    BY <1>6, RootIsFirst DEF CopyEntry, FilesOK, FileOK, tool
  <1>7. CASE TouchRoot
    BY <1>7, RootIsFirst DEF TouchRoot, FilesOK, FileOK, tool, past
  <1>8. ASSUME NEW p \in Pkg, Install(p)
        PROVE  TypeOK'
    BY <1>8, RootIsFirst DEF Install, FilesOK, FileOK, tool
  <1>9. CASE Finalize
    BY <1>9, RootIsFirst DEF Finalize, FilesOK, FileOK, tool
  <1>10. ASSUME NEW i \in Image, RunScript(i)
         PROVE  TypeOK'
    <2>1. FilesOK(image)'
      <3>1. \A t : FileOK(Whole(t))
        BY DEF FileOK, Whole
      <3>2. FileOK(Product(Carried))
        BY CarrierAssumption DEF Product, FilesOK
      <3>3. PICK f : image' = [image EXCEPT ![i] = f] /\ FileOK(f)
        BY <1>10, <3>1, <3>2 DEF RunScript
      <3> QED BY <1>10, <3>3 DEF RunScript, FilesOK, FileOK
    <2>2. FilesOK(archive)' /\ FilesOK(copied)'
      BY <1>10 DEF RunScript, FilesOK, FileOK
    <2>3. said' \subseteq Image
      BY <1>10 DEF RunScript
    <2>4. at' \in 1..(Len(Targets) + 1) /\ step' \in Nat
      BY <1>10, RootIsFirst DEF RunScript, Proceed
    <2> QED BY <1>10, <2>1, <2>2, <2>3, <2>4 DEF RunScript
  <1>11. ASSUME NEW i \in Image, Compress(i)
         PROVE  TypeOK'
    <2>1. at' \in 1..(Len(Targets) + 1) /\ step' \in Nat
      BY <1>11, RootIsFirst DEF Compress, Proceed
    <2> QED BY <1>11, <2>1 DEF Compress, FilesOK, FileOK, past
  <1>12. ASSUME NEW i \in Image, CopyOut(i)
         PROVE  TypeOK'
    <2>1. at' \in 1..(Len(Targets) + 1) /\ step' \in Nat
      BY <1>12, RootIsFirst DEF CopyOut, Proceed
    <2> QED BY <1>12, <2>1 DEF CopyOut, CopySource, Product, FilesOK, FileOK, past
  <1>13. CASE EraseFakeroots
    BY <1>13, RootIsFirst DEF EraseFakeroots, FilesOK, FileOK, tool, past
  <1>14. CASE Break
    <2>1. spoiled' \subseteq {"skeleton", "clean"} /\ fragments' = fragments
      BY <1>14 DEF Break, BreakCopy, BreakElse, BreakImage
    <2>2. FilesOK(image)' /\ FilesOK(archive)' /\ FilesOK(copied)'
      <3>1. CASE BreakCopy \/ BreakElse
        BY <1>14, <3>1 DEF Break, BreakCopy, BreakElse, FilesOK, FileOK, tool
      <3>2. ASSUME NEW i \in Image, BreakImage(i)
            PROVE  FilesOK(image)' /\ FilesOK(archive)' /\ FilesOK(copied)'
        <4>1. FileOK(Damaged)
          BY DEF FileOK, Damaged
        <4>2. \A files : FilesOK(files) => FilesOK([files EXCEPT ![i] = Damaged])
          BY <4>1 DEF FilesOK
        <4>3. /\ image' \in {image, [image EXCEPT ![i] = Damaged]}
              /\ archive' \in {archive, [archive EXCEPT ![i] = Damaged]}
              /\ copied' \in {copied, [copied EXCEPT ![i] = Damaged]}
          BY <3>2 DEF BreakImage
        <4>4. FilesOK(image') /\ FilesOK(archive') /\ FilesOK(copied')
          BY <4>2, <4>3
        <4> QED BY <1>14, <4>4 DEF Break, FilesOK, FileOK
      <3> QED BY <1>14, <3>1, <3>2 DEF Break
    <2>3. dropped' \subseteq Pkg
      <3>1. dropped' \subseteq dropped \cup installed
        BY <1>14, Zenon DEF Break, BreakCopy, BreakElse, BreakImage
      <3> QED BY <3>1
    <2> QED BY <1>14, <2>1, <2>2, <2>3 DEF Break
  <1>15. CASE Clean
    BY <1>15, RootFsAssumption DEF Clean, FilesOK, FileOK, tool, past
  <1>16. CASE RemoveTarget
    BY <1>16 DEF RemoveTarget, FilesOK, FileOK, NoFile, past
  <1>17. CASE RemoveBuild
    BY <1>17 DEF RemoveBuild, FilesOK, FileOK, tool
  <1>18. CASE BreakClean
    BY <1>18 DEF BreakClean, FilesOK, FileOK, tool
  <1>19. CASE UNCHANGED vars
    BY <1>19 DEF vars, FilesOK, FileOK, tool, past
  <1> QED
    BY <1>1, <1>2, <1>3, <1>4, <1>5, <1>6, <1>7, <1>8, <1>9, <1>10, <1>11, <1>12, <1>13,
       <1>14, <1>15, <1>16, <1>17, <1>18, <1>19 DEF Next

-----------------------------------------------------------------------------
LEMMA ProceedMoves ==
    ASSUME NEW i, Proceed(i)
    PROVE  (at' = at /\ step' \in {1, 2}) \/ (at' = at + 1 /\ step' = 0)
  BY DEF Proceed

LEMMA StepsNext == TypeOK /\ Steps /\ [Next]_vars => Steps'
  <1> SUFFICES ASSUME TypeOK, Steps, [Next]_vars
               PROVE  Steps'
    OBVIOUS
  <1> USE RootIsFirst, RootFsAssumption DEF TypeOK, Steps, Other
  <1>1. CASE Configure
    BY <1>1 DEF Configure
  <1>2. CASE Make
    BY <1>2 DEF Make
  <1>3. CASE Skip
    BY <1>3 DEF Skip, Wanted
  <1>4. CASE Finish
    BY <1>4 DEF Finish
  <1>5. CASE TestBin
    BY <1>5 DEF TestBin
  <1>6. CASE CopyEntry
    BY <1>6 DEF CopyEntry
  <1>7. CASE TouchRoot
    BY <1>7 DEF TouchRoot
  <1>8. ASSUME NEW p \in Pkg, Install(p)
        PROVE  Steps'
    BY <1>8 DEF Install
  <1>9. CASE Finalize
    BY <1>9 DEF Finalize
  <1>10. ASSUME NEW i \in Image, RunScript(i) \/ Compress(i) \/ CopyOut(i)
         PROVE  Steps'
    <2>1. /\ phase = "making" /\ at \in DOMAIN Targets /\ Targets[at] = i
          /\ phase' = phase /\ root' = root
      BY <1>10 DEF RunScript, Compress, CopyOut
    <2>2. (at' = at /\ step' \in {1, 2}) \/ (at' = at + 1 /\ step' = 0)
      <3>1. Proceed(i)
        BY <1>10 DEF RunScript, Compress, CopyOut
      <3> QED BY <3>1, ProceedMoves
    <2>3. i \notin Other
      BY RootFsAssumption
    <2>4. root
      BY <2>1, <2>3
    <2> QED BY <2>1, <2>2, <2>3, <2>4
  <1>11. CASE EraseFakeroots
    BY <1>11 DEF EraseFakeroots
  <1>12. CASE Break
    BY <1>12 DEF Break
  <1>13. CASE Clean
    BY <1>13 DEF Clean
  <1>14. CASE RemoveTarget
    BY <1>14 DEF RemoveTarget
  <1>15. CASE RemoveBuild
    BY <1>15 DEF RemoveBuild
  <1>16. CASE BreakClean
    BY <1>16 DEF BreakClean
  <1>17. CASE UNCHANGED vars
    BY <1>17 DEF vars
  <1> QED
    BY <1>1, <1>2, <1>3, <1>4, <1>5, <1>6, <1>7, <1>8, <1>9, <1>10, <1>11, <1>12, <1>13,
       <1>14, <1>15, <1>16, <1>17 DEF Next

(* Where target does not lose the skeleton or a program. *)
Kept == /\ Entry \subseteq DOMAIN target => Entry \subseteq DOMAIN target'
        /\ \A p \in Pkg : Program(p) \in DOMAIN target => Program(p) \in DOMAIN target'

LEMMA SessionKeeps ==
    ASSUME NEW i, NEW full, config \in Configs
    PROVE  (DOMAIN target \ SweptPages) \cup {Program(p) : p \in fragments}
              \subseteq DOMAIN Session(i, full).tree
  <1>1. CASE i = Carrier
    <2>1. Session(i, full).tree = Fragmented(target)
      BY <1>1 DEF Session
    <2> QED BY <2>1, FragmentedDomain
  <1>2. CASE i # Carrier
    <2> DEFINE linked == Linking(i, target)
    <2>1. DOMAIN target \subseteq DOMAIN linked
      BY LinkingDomain
    <2>2. DOMAIN Fragmented(linked)
             = (DOMAIN linked \ SweptPages) \cup {Program(p) : p \in fragments}
      BY FragmentedDomain
    <2> HIDE DEF linked
    <2>3. DOMAIN Fragmented(linked) \subseteq DOMAIN Populated(Fragmented(linked), full).tree
      BY PopulatedDomain
    <2>4. Session(i, full) = Populated(Fragmented(linked), full)
      BY <1>2 DEF Session, linked
    <2> QED BY <2>1, <2>2, <2>3, <2>4
  <1> QED BY <1>1, <1>2

(* A target that loses no more than manual pages keeps them. *)
LEMMA LargerKeeps == DOMAIN target \ Manuals \subseteq DOMAIN target' => Kept
  BY Apart DEF Kept

LEMMA InstallKeeps ==
    ASSUME NEW p \in Pkg, Install(p)
    PROVE  /\ Kept
           /\ p \notin FragPkg \cup installed => Program(p) \in DOMAIN target'
  <1>1. target' = target => Kept
    BY LargerKeeps
  <1>2. CASE target' = With(With(target, {Program(p)}, "raw"), {Header(p), Manual(p)}, "f")
    <2> DEFINE t == With(target, {Program(p)}, "raw")
    <2>1. DOMAIN t = DOMAIN target \cup {Program(p)}
      BY WithDomain
    <2> HIDE DEF t
    <2>2. DOMAIN With(t, {Header(p), Manual(p)}, "f") = DOMAIN t \cup {Header(p), Manual(p)}
      BY WithDomain
    <2>3. target' = With(t, {Header(p), Manual(p)}, "f")
      BY <1>2 DEF t
    <2> QED BY <2>1, <2>2, <2>3, LargerKeeps
  <1>3. /\ p \notin FragPkg \cup installed =>
              target' = With(With(target, {Program(p)}, "raw"), {Header(p), Manual(p)}, "f")
        /\ p \in FragPkg \cup installed => target' = target
    BY DEF Install
  <1>4. CASE p \in FragPkg \cup installed
    BY <1>1, <1>3, <1>4, Zenon
  <1>5. CASE p \notin FragPkg \cup installed
    BY <1>2, <1>3, <1>5
  <1> QED BY <1>4, <1>5

LEMMA ImageKeeps ==
    ASSUME TypeOK, NEW i \in Image,
           RunScript(i) \/ Compress(i) \/ CopyOut(i) \/ BreakImage(i)
    PROVE  Kept
  <1>1. \A full : DOMAIN target \ Manuals \subseteq DOMAIN OnDisk(Session(i, full).tree)
    BY SessionKeeps, SweptAreManuals, DiskDomain DEF TypeOK
  <1>2. DOMAIN target \subseteq DOMAIN Linking(i, target)
    BY LinkingDomain
  <1>3. \/ target' = target \/ target' = Linking(i, target)
        \/ \E full : target' = OnDisk(Session(i, full).tree)
    <2>1. CASE RunScript(i)
      BY <2>1 DEF RunScript
    <2>2. CASE BreakImage(i)
      BY <2>2 DEF BreakImage
    <2> QED BY <2>1, <2>2 DEF Compress, CopyOut
  <1>4. DOMAIN target \ Manuals \subseteq DOMAIN target'
    BY <1>1, <1>2, <1>3
  <1> QED BY <1>4, LargerKeeps

LEMMA FinalizeKeeps == Finalize => Kept
  <1> SUFFICES ASSUME Finalize PROVE Kept
    OBVIOUS
  <1> DEFINE d == Develop(target)
             e == Document(d)
  <1>1. DOMAIN target \ Headers \subseteq DOMAIN d
    <2>1. DOMAIN With(target, {Header(p) : p \in staged}, "f")
             = DOMAIN target \cup {Header(p) : p \in staged}
      BY WithDomain
    <2>2. DOMAIN Without(target, Headers) = DOMAIN target \ Headers
      BY WithoutDomain
    <2> QED BY <2>1, <2>2 DEF Develop
  <1> HIDE DEF d
  <1>2. DOMAIN d \ Manuals \subseteq DOMAIN e
    BY WithoutDomain DEF Document
  <1> HIDE DEF e
  <1>3. target' = Strip(e)
    BY DEF Finalize, e, d
  <1>4. DOMAIN target' = DOMAIN e
    BY <1>3, StripDomain
  <1> QED BY <1>1, <1>2, <1>4, Apart DEF Kept

LEMMA SkeletonNext == TypeOK /\ Steps /\ SkeletonThere /\ [Next]_vars => SkeletonThere'
  <1> SUFFICES ASSUME TypeOK, Steps, SkeletonThere, [Next]_vars
               PROVE  SkeletonThere'
    OBVIOUS
  <1> USE RootIsFirst DEF SkeletonThere, Emptied, AtRoot, Copying, Steps
  <1>0. Steps' /\ TypeOK'
    BY StepsNext, TypeNext
  (* A step of another target than root, after which the skeleton is there. *)
  <1>a. ASSUME phase = "making", at \in DOMAIN Targets, Targets[at] # "root", Kept,
               spoiled' = spoiled, root' = root, at' = at \/ at' = at + 1,
               phase' = "making" \/ phase' = "failed"
        PROVE  SkeletonThere'
    <2>1. at > 1 /\ root
      BY <1>a DEF TypeOK
    <2>2. spoiled = {} => Entry \subseteq DOMAIN target'
      BY <1>a, <2>1 DEF Kept
    <2>3. at' \in DOMAIN Targets => Targets[at'] # "root"
      BY <1>a, <2>1 DEF TypeOK
    <2> QED BY <1>a, <2>1, <2>2, <2>3
  <1>1. CASE Configure
    BY <1>1 DEF Configure
  <1>2. CASE Make
    BY <1>2 DEF Make, past
  <1>3. CASE Skip
    <2>1. Targets[at] # "root"
      BY <1>3, RootFsAssumption DEF Skip, Wanted, Other
    <2> QED BY <1>3, <1>a, <2>1 DEF Skip, past, Kept
  <1>4. CASE Finish
    BY <1>4 DEF Finish, past
  <1>5. CASE TestBin
    <2>1. CASE root
      BY <1>5, <2>1 DEF TestBin, past, TypeOK
    <2>2. CASE ~root
      BY <1>5, <2>2, RootFsAssumption DEF TestBin, past, Entry
    <2> QED BY <2>1, <2>2
  <1>6. CASE CopyEntry
    <2>1. CASE spoiled' # {}
      BY <2>1
    <2>2. CASE spoiled' = {}
      <3>1. target' = With(target, {PathOf(Skeleton[step])}, "d") /\ spoiled = {}
        BY <1>6, <2>2 DEF CopyEntry
      <3>2. DOMAIN target' = DOMAIN target \cup {PathOf(Skeleton[step])}
        BY <3>1, WithDomain
      <3>3. \A k \in DOMAIN Skeleton : k < step' => PathOf(Skeleton[k]) \in DOMAIN target'
        BY <1>6, <3>1, <3>2, RootFsAssumption DEF CopyEntry
      <3>4. ~Copying' => Entry \subseteq DOMAIN target'
        BY <1>6, <3>3, RootFsAssumption DEF CopyEntry, Entry
      <3> QED BY <1>6, <3>1, <3>2, <3>3, <3>4 DEF CopyEntry
    <2> QED BY <2>1, <2>2
  <1>7. CASE TouchRoot
    <2>1. spoiled = {} => Entry \subseteq DOMAIN target
      BY <1>7, RootFsAssumption DEF TouchRoot, Entry
    <2> QED BY <1>7, <2>1 DEF TouchRoot, past, TypeOK
  <1>8. ASSUME NEW p \in Pkg, Install(p)
        PROVE  SkeletonThere'
    <2>1. Kept
      BY <1>8, InstallKeeps
    <2>2. p # "root"
      BY RootFsAssumption DEF Other
    <2> QED BY <1>8, <1>a, <2>1, <2>2 DEF Install
  <1>9. CASE Finalize
    BY <1>9, <1>a, FinalizeKeeps DEF Finalize
  <1>10. ASSUME NEW i \in Image, RunScript(i) \/ Compress(i) \/ CopyOut(i)
         PROVE  SkeletonThere'
    <2>1. Kept
      BY <1>10, ImageKeeps
    <2>2. i # "root"
      BY RootFsAssumption DEF Other
    <2>3. at' = at \/ at' = at + 1
      BY <1>10 DEF RunScript, Compress, CopyOut, Proceed
    <2> QED BY <1>10, <1>a, <2>1, <2>2, <2>3 DEF RunScript, Compress, CopyOut, past
  <1>11. CASE EraseFakeroots
    BY <1>11, <1>a DEF EraseFakeroots, past, Kept
  <1>12. CASE Break
    <2>1. CASE BreakCopy
      <3>1. CASE spoiled' # {}
        BY <3>1
      <3>2. CASE spoiled' = {}
        <4>1. Bin \notin DOMAIN target' /\ spoiled' = spoiled
          BY <2>1, <3>2 DEF BreakCopy
        <4>2. phase' = "failed" /\ root' = root /\ at' = at
          BY <1>12 DEF Break
        <4>3. DOMAIN target \subseteq DOMAIN target'
          <5>1. target' = target \/ target' = With(target, {PathOf(Skeleton[step])}, "d")
            BY <2>1 DEF BreakCopy
          <5>2. DOMAIN With(target, {PathOf(Skeleton[step])}, "d")
                   = DOMAIN target \cup {PathOf(Skeleton[step])}
            BY WithDomain
          <5> QED BY <5>1, <5>2
        <4>4. phase = "making"
          BY <2>1 DEF BreakCopy
        <4>5. root' => Entry \subseteq DOMAIN target'
          BY <3>2, <4>1, <4>2, <4>3, <4>4
        <4> QED BY <3>2, <4>1, <4>2, <4>5
      <3> QED BY <3>1, <3>2
    <2>2. CASE BreakElse
      BY <1>12, <2>2 DEF Break, BreakElse
    <2>3. ASSUME NEW i \in Image, BreakImage(i)
          PROVE  SkeletonThere'
      <3>1. Kept
        BY <2>3, ImageKeeps
      <3>2. i # "root"
        BY RootFsAssumption DEF Other
      <3> QED BY <1>12, <1>a, <2>3, <3>1, <3>2 DEF Break, BreakImage
    <2> QED BY <1>12, <2>1, <2>2, <2>3 DEF Break
  <1>13. CASE Clean
    BY <1>13 DEF Clean, past
  <1>14. CASE RemoveTarget
    BY <1>14 DEF RemoveTarget, past
  <1>15. CASE RemoveBuild
    BY <1>15 DEF RemoveBuild, NoTree
  <1>16. CASE BreakClean
    BY <1>16 DEF BreakClean
  <1>17. CASE UNCHANGED vars
    BY <1>17 DEF vars, past
  <1> QED
    BY <1>1, <1>2, <1>3, <1>4, <1>5, <1>6, <1>7, <1>8, <1>9, <1>10, <1>11, <1>12, <1>13,
       <1>14, <1>15, <1>16, <1>17 DEF Next

LEMMA ProgramsNext == TypeOK /\ Steps /\ ProgramsThere /\ [Next]_vars => ProgramsThere'
  <1> SUFFICES ASSUME TypeOK, Steps, ProgramsThere, [Next]_vars
               PROVE  ProgramsThere'
    OBVIOUS
  <1> USE DEF ProgramsThere, Emptied
  (* A step in a make that keeps the programs and installs nothing. *)
  <1>a. ASSUME phase = "making", phase' # "cleaning", Kept, installed' = installed,
               spoiled' = {} => spoiled = {}
        PROVE  ProgramsThere'
    BY <1>a DEF Kept, TypeOK
  <1>1. CASE Configure \/ Make
    BY <1>1 DEF Configure, Make, past
  <1>2. CASE Skip \/ Finish \/ TestBin \/ TouchRoot \/ EraseFakeroots
    BY <1>2, <1>a DEF Skip, Finish, TestBin, TouchRoot, EraseFakeroots, past, Kept
  <1>3. CASE CopyEntry
    <2>1. CASE target' = With(target, {PathOf(Skeleton[step])}, "d") /\ UNCHANGED spoiled
      <3>1. DOMAIN target' = DOMAIN target \cup {PathOf(Skeleton[step])}
        BY <2>1, WithDomain
      <3> QED BY <1>3, <1>a, <2>1, <3>1, LargerKeeps DEF CopyEntry
    <2>2. CASE spoiled' # {}
      BY <2>2
    <2> QED BY <1>3, <2>1, <2>2 DEF CopyEntry
  <1>4. ASSUME NEW p \in Pkg, Install(p)
        PROVE  ProgramsThere'
    <2>1. Kept /\ (p \notin FragPkg \cup installed => Program(p) \in DOMAIN target')
      BY <1>4, InstallKeeps
    <2>2. /\ phase = "making" /\ phase' = phase /\ spoiled' = spoiled
          /\ installed' = installed \/ (p \notin FragPkg \cup installed /\ installed' = installed \cup {p})
      BY <1>4 DEF Install
    <2> QED BY <2>1, <2>2 DEF Kept, TypeOK
  <1>5. CASE Finalize
    BY <1>5, <1>a, FinalizeKeeps DEF Finalize
  <1>6. ASSUME NEW i \in Image, RunScript(i) \/ Compress(i) \/ CopyOut(i)
        PROVE  ProgramsThere'
    <2>1. Kept
      BY <1>6, ImageKeeps
    <2> QED BY <1>6, <1>a, <2>1 DEF RunScript, Compress, CopyOut, past
  <1>7. CASE Break
    <2>1. phase = "making" /\ phase' = "failed" /\ installed' = installed
      BY <1>7 DEF Break, BreakCopy, BreakElse, BreakImage
    <2>2. CASE BreakCopy
      <3>1. target' = target \/ target' = With(target, {PathOf(Skeleton[step])}, "d")
        BY <2>2 DEF BreakCopy
      <3>2. DOMAIN With(target, {PathOf(Skeleton[step])}, "d")
               = DOMAIN target \cup {PathOf(Skeleton[step])}
        BY WithDomain
      <3>3. Kept
        BY <3>1, <3>2, LargerKeeps
      <3>4. spoiled' = {} => spoiled = {}
        BY <2>2 DEF BreakCopy
      <3> QED BY <1>a, <2>1, <3>3, <3>4
    <2>3. CASE BreakElse
      BY <1>a, <2>1, <2>3 DEF BreakElse, Kept
    <2>4. ASSUME NEW i \in Image, BreakImage(i)
          PROVE  ProgramsThere'
      <3>1. Kept
        BY <2>4, ImageKeeps
      <3> QED BY <1>a, <2>1, <2>4, <3>1 DEF BreakImage
    <2> QED BY <1>7, <2>2, <2>3, <2>4 DEF Break
  <1>8. CASE Clean \/ RemoveTarget \/ RemoveBuild \/ BreakClean
    BY <1>8 DEF Clean, RemoveTarget, RemoveBuild, BreakClean, past
  <1>9. CASE UNCHANGED vars
    BY <1>9 DEF vars, past
  <1> QED BY <1>1, <1>2, <1>3, <1>4, <1>5, <1>6, <1>7, <1>8, <1>9 DEF Next

LEMMA PackagesNext == TypeOK /\ Steps /\ PackagesMade /\ [Next]_vars => PackagesMade'
  <1> SUFFICES ASSUME TypeOK, Steps, PackagesMade, [Next]_vars
               PROVE  PackagesMade'
    OBVIOUS
  <1> USE RootIsFirst DEF PackagesMade
  (* One target further, what was made stays made. *)
  <1>a. ASSUME phase = "making", at \in DOMAIN Targets, config' = config,
               at' = at \/ at' = at + 1,
               installed \cup fragments \subseteq installed' \cup fragments',
               Targets[at] \in config.pkgs /\ at' = at + 1 =>
                   Targets[at] \in installed' \cup fragments'
        PROVE  PackagesMade'
    BY <1>a DEF TypeOK
  <1>1. CASE Configure \/ Make
    BY <1>1 DEF Configure, Make
  <1>2. CASE Skip
    <2>1. Targets[at] \notin config.pkgs
      BY <1>2, RootFsAssumption DEF Skip, Wanted, TypeOK
    <2> QED BY <1>2, <1>a, <2>1 DEF Skip
  <1>3. CASE Finish
    BY <1>3 DEF Finish
  <1>4. CASE TestBin \/ CopyEntry \/ TouchRoot \/ Finalize
    <2>1. Targets[at] \in Other
      BY <1>4 DEF TestBin, CopyEntry, TouchRoot, Finalize, Other
    <2>2. Targets[at] \notin config.pkgs
      BY <2>1, RootFsAssumption DEF TypeOK
    <2> QED BY <1>4, <1>a, <2>2 DEF TestBin, CopyEntry, TouchRoot, Finalize
  <1>5. ASSUME NEW p \in Pkg, Install(p)
        PROVE  PackagesMade'
    <2>1. /\ installed \subseteq installed' /\ fragments \subseteq fragments'
          /\ p \in installed' \cup fragments'
      BY <1>5 DEF Install
    <2> QED BY <1>5, <1>a, <2>1 DEF Install
  <1>6. ASSUME NEW i \in Image, RunScript(i) \/ Compress(i) \/ CopyOut(i)
        PROVE  PackagesMade'
    <2>1. i \notin config.pkgs
      BY RootFsAssumption DEF TypeOK
    <2>2. at' = at \/ at' = at + 1
      BY <1>6, ProceedMoves DEF RunScript, Compress, CopyOut
    <2> QED BY <1>6, <1>a, <2>1, <2>2 DEF RunScript, Compress, CopyOut
  <1>7. CASE EraseFakeroots
    <2>1. at + 1 \notin DOMAIN Targets
      BY <1>7, TargetsAssumption DEF EraseFakeroots, TypeOK
    <2> QED BY <1>7, <2>1 DEF EraseFakeroots
  <1>8. CASE Break \/ Clean \/ RemoveTarget \/ RemoveBuild \/ BreakClean
    BY <1>8 DEF Break, Clean, RemoveTarget, RemoveBuild, BreakClean
  <1>9. CASE UNCHANGED vars
    BY <1>9 DEF vars
  <1> QED BY <1>1, <1>2, <1>3, <1>4, <1>5, <1>6, <1>7, <1>8, <1>9 DEF Next

(* What an image tool reads is complete. *)
LEMMA SessionHolds ==
    ASSUME TypeOK, Steps, SkeletonThere, ProgramsThere, PackagesMade, phase = "making",
           at \in DOMAIN Targets, Targets[at] \in Image, spoiled = {}, NEW full
    PROVE  Holds(Session(Targets[at], full).tree)
  <1>1. at > 1 /\ root
    <2>1. Targets[at] # "root"
      BY RootFsAssumption DEF Other
    <2> QED BY <2>1, RootIsFirst DEF Steps
  <1>2. Entry \subseteq DOMAIN target
    BY <1>1 DEF SkeletonThere, Emptied
  <1>3. \A p \in config.pkgs : p \in installed \cup fragments
    <2> SUFFICES ASSUME NEW p \in config.pkgs PROVE p \in installed \cup fragments
      OBVIOUS
    <2>1. p \in Pkg
      BY RootFsAssumption DEF TypeOK
    <2>2. PICK k \in DOMAIN Targets : Targets[k] = p
      BY <2>1, TargetsAssumption
    <2>3. k < at
      BY <2>1, <2>2, ImagesAreLate
    <2> QED BY <2>2, <2>3 DEF PackagesMade
  <1>4. \A p \in installed : Program(p) \in DOMAIN target
    BY DEF ProgramsThere, Emptied
  <1>5. (DOMAIN target \ Manuals) \cup {Program(p) : p \in fragments}
           \subseteq DOMAIN Session(Targets[at], full).tree
    BY SessionKeeps, SweptAreManuals DEF TypeOK
  <1>6. Entry \cup {Program(p) : p \in installed} \subseteq DOMAIN target \ Manuals
    BY <1>2, <1>4, Apart DEF TypeOK
  <1> QED BY <1>3, <1>5, <1>6 DEF Holds

(* A step of a target that is no image of this make draws nothing. *)
LEMMA DrawnSame ==
    ASSUME TypeOK, phase = "making", config' = config,
           at \in DOMAIN Targets => Targets[at] \notin config.images,
           at' = at \/ (at' = at + 1 /\ step' = 0 /\ at \in DOMAIN Targets)
    PROVE  DrawnSoFar' = DrawnSoFar
  <1>1. at \in Nat
    BY RootIsFirst DEF TypeOK
  <1>2. ASSUME NEW k \in DOMAIN Targets, Targets[k] \in config.images
        PROVE  (k < at' \/ (k = at' /\ step' = 2)) <=> (k < at \/ (k = at /\ step = 2))
    BY <1>1, <1>2, RootIsFirst
  <1> QED BY <1>2 DEF DrawnSoFar

(* A step of an image of this make draws it when it leaves the image       *)
(* behind or goes on to copy it.                                           *)
LEMMA DrawnOne ==
    ASSUME TypeOK, NEW i \in config.images, Making(i), config' = config,
           (at' = at /\ step' \in {1, 2}) \/ (at' = at + 1 /\ step' = 0)
    PROVE  /\ (at' = at + 1 \/ step' = 2) => DrawnSoFar' = DrawnSoFar \cup {i}
           /\ ~(at' = at + 1 \/ step' = 2) /\ step # 2 => DrawnSoFar' = DrawnSoFar
           /\ step # 2 => i \notin DrawnSoFar
           /\ step = 2 => i \in DrawnSoFar
  <1>1. at \in Nat
    BY RootIsFirst DEF TypeOK
  <1>2. \A k \in DOMAIN Targets : Targets[k] = i => k = at
    BY TargetsAssumption
  <1>3. \A k \in DOMAIN Targets : k \in Nat
    BY RootIsFirst
  <1>4. CASE at' = at /\ step' \in {1, 2}
    BY <1>1, <1>2, <1>3, <1>4 DEF DrawnSoFar
  <1>5. CASE at' = at + 1 /\ step' = 0
    <2>1. \A k \in DOMAIN Targets : k < at' <=> (k < at \/ k = at)
      BY <1>1, <1>3, <1>5
    <2>2. \A k \in DOMAIN Targets : ~(k = at' /\ step' = 2)
      BY <1>5
    <2>3. DrawnSoFar' = {j \in config.images : \E k \in DOMAIN Targets :
                            Targets[k] = j /\ (k < at \/ k = at)}
      BY <2>1, <2>2 DEF DrawnSoFar
    <2> QED BY <1>1, <1>2, <1>3, <1>5, <2>3 DEF DrawnSoFar
  <1> QED BY <1>4, <1>5

(* The carried image was drawn before the carrier. *)
LEMMA CarriedFirst ==
    ASSUME TypeOK, NEW i \in config.images, Making(i)
    PROVE  /\ i = Carrier => Carried \in DrawnSoFar
           /\ Carrier \in DrawnSoFar /\ step # 2 => i # Carried /\ i # Carrier
  <1>1. at \in Nat /\ \A k \in DOMAIN Targets : k \in Nat
    BY RootIsFirst DEF TypeOK
  <1>2. ASSUME i = Carrier
        PROVE  Carried \in DrawnSoFar
    <2>1. Carried \in config.images
      BY <1>2, CarrierAssumption DEF TypeOK
    <2>2. PICK k \in DOMAIN Targets : Targets[k] = Carried
      BY TargetsAssumption, CarrierAssumption
    <2>3. k < at
      BY <1>2, <2>2, ImagesAreLate
    <2> QED BY <2>1, <2>2, <2>3 DEF DrawnSoFar
  <1>3. ASSUME Carrier \in DrawnSoFar, step # 2
        PROVE  i # Carried /\ i # Carrier
    <2>1. PICK k \in DOMAIN Targets : Targets[k] = Carrier /\ k < at
      BY <1>3 DEF DrawnSoFar
    <2>2. i # Carrier
      BY <1>1, <2>1, TargetsAssumption
    <2>3. i # Carried
      BY <1>1, <2>1, ImagesAreLate
    <2> QED BY <2>2, <2>3
  <1> QED BY <1>2, <1>3

(* Drawing and Packing go over a step that touches no file of an image and *)
(* draws nothing.                                                          *)
LEMMA DrawingSame ==
    ASSUME TypeOK, Drawing, phase = "making", config' = config, commands' = commands,
           phase' = "making" \/ phase' = "done", UNCHANGED tool,
           at \in DOMAIN Targets => Targets[at] \notin config.images,
           at' = at \/ (at' = at + 1 /\ step' = 0 /\ at \in DOMAIN Targets),
           spoiled' = {} => spoiled = {}
    PROVE  Drawing' /\ Packing'
  <1>1. DrawnSoFar' = DrawnSoFar
    BY DrawnSame
  <1>2. at \in Nat /\ \A k \in DOMAIN Targets : k \in Nat
    BY RootIsFirst DEF TypeOK
  <1>3. \A k \in DOMAIN Targets : k < at' /\ Targets[k] \in config.images => k < at
    BY <1>2
  <1>4. \A f : DrawnNow(f) => DrawnNow(f)'
    BY DEF DrawnNow, Holds
  <1>5. \A i : Product(i)' = Product(i)
    BY DEF Product, tool
  <1>6. image' = image /\ copied' = copied
    BY DEF tool
  <1>7. Drawing'
    BY <1>1, <1>3, <1>4, <1>5, <1>6 DEF Drawing
  <1>8. Packing'
    BY DEF Packing
  <1> QED BY <1>7, <1>8

(* The step of an image that writes f to it (RunScript). *)
LEMMA DrawingScript ==
    ASSUME TypeOK, Steps, SkeletonThere, ProgramsThere, PackagesMade, Drawing,
           NEW i \in Image, RunScript(i)
    PROVE  Drawing' /\ Packing'
  <1>1. /\ i \in config.images /\ Making(i) /\ config' = config /\ step = 0 /\ phase' = "making"
        /\ commands' = commands /\ archive' = archive /\ copied' = copied /\ spoiled' = spoiled
    BY DEF RunScript
  <1>2. PICK f : /\ image' = [image EXCEPT ![i] = f]
                 /\ IF i = Carrier THEN f = Product(Carried)
                    ELSE \E full : f = Whole(Session(i, full).tree)
    BY DEF RunScript
  <1>3. image'[i] = f /\ \A j \in Image \ {i} : image'[j] = image[j]
    BY <1>2 DEF TypeOK, FilesOK
  <1>4. DrawnNow(f)
    <2>1. CASE i = Carrier
      <3>1. Carried \in DrawnSoFar
        BY <1>1, <2>1, CarriedFirst
      <3>2. DrawnNow(image[Carried]) /\ Product(Carried) = image[Carried]
        BY <1>1, <3>1 DEF Drawing
      <3> QED BY <1>2, <2>1, <3>2
    <2>2. CASE i # Carrier
      <3>1. PICK full : f = Whole(Session(i, full).tree)
        BY <1>2, <2>2
      <3>2. spoiled = {} => Holds(Session(i, full).tree)
        BY <1>1, SessionHolds
      <3>3. f.state = "whole" /\ f.run = commands /\ f.tree = Session(i, full).tree
        BY <3>1 DEF Whole
      <3> QED BY <3>2, <3>3 DEF DrawnNow
    <2> QED BY <2>1, <2>2
  <1>5. \A g : DrawnNow(g)' = DrawnNow(g)
    BY <1>1 DEF DrawnNow, Holds
  <1>6. Proceed(i)
    BY DEF RunScript
  <1>7. (at' = at /\ step' \in {1, 2}) \/ (at' = at + 1 /\ step' = 0)
    BY <1>6, ProceedMoves
  <1>8. /\ step' = 1 => i \in Packed
        /\ at' = at + 1 \/ step' = 2 => i \notin Packed
        /\ at' = at + 1 => i \notin CopyTo
    <2>1. at # at + 1
      BY RootIsFirst DEF TypeOK
    <2> QED BY <1>1, <1>6, <2>1 DEF Proceed
  <1>9. DrawnSoFar' \subseteq DrawnSoFar \cup {i} /\ i \notin DrawnSoFar
        /\ (i \in DrawnSoFar' => i \notin Packed)
    BY <1>1, <1>7, <1>8, DrawnOne
  <1>10. \A j : j # i => Product(j)' = Product(j) \/ j \notin Image
    BY <1>1, <1>3 DEF Product
  <1>11. \A j \in DrawnSoFar' : DrawnNow(image[j])' /\ Product(j)' = image'[j]
    <2> SUFFICES ASSUME NEW j \in DrawnSoFar'
                 PROVE  DrawnNow(image[j])' /\ Product(j)' = image'[j]
      OBVIOUS
    <2>1. CASE j = i
      BY <1>3, <1>4, <1>5, <1>9, <2>1 DEF Product
    <2>2. CASE j # i
      <3>1. j \in DrawnSoFar /\ j \in Image
        BY <1>1, <1>9, <2>2, RootFsAssumption DEF DrawnSoFar, TypeOK
      <3> QED BY <1>1, <1>3, <1>5, <1>10, <2>2, <3>1 DEF Drawing
    <2> QED BY <2>1, <2>2
  <1>12. \A k \in DOMAIN Targets : k < at' /\ Targets[k] \in config.images \cap CopyTo =>
            copied'[Targets[k]] = image'[Targets[k]]
    <2> SUFFICES ASSUME NEW k \in DOMAIN Targets, k < at', Targets[k] \in config.images \cap CopyTo
                 PROVE  copied'[Targets[k]] = image'[Targets[k]]
      OBVIOUS
    <2>1. k \in Nat /\ at \in Nat
      BY RootIsFirst DEF TypeOK
    <2>2. k < at /\ Targets[k] # i
      BY <1>1, <1>7, <1>8, <2>1, TargetsAssumption
    <2>3. Targets[k] \in Image
      BY RootFsAssumption DEF TypeOK
    <2> QED BY <1>1, <1>3, <2>2, <2>3 DEF Drawing
  <1>13. Carrier \in DrawnSoFar' => image'[Carrier] = Product(Carried)'
    <2>1. CASE i = Carrier
      BY <1>2, <1>3, <1>10, <2>1, CarrierAssumption
    <2>2. CASE i # Carrier
      <3>1. Carrier \in DrawnSoFar' => Carrier \in DrawnSoFar /\ i # Carried
        BY <1>1, <1>9, <2>2, CarriedFirst
      <3> QED BY <1>1, <1>3, <1>10, <2>2, <3>1, CarrierAssumption DEF Drawing
    <2> QED BY <2>1, <2>2
  <1>14. Drawing'
    BY <1>1, <1>11, <1>12, <1>13 DEF Drawing
  <1>15. Packing'
    <2>1. step' = 1 => at' = at
      BY <1>7
    <2> QED BY <1>1, <1>3, <1>4, <1>5, <1>8, <2>1 DEF Packing
  <1> QED BY <1>14, <1>15

LEMMA DrawingCompress ==
    ASSUME TypeOK, Drawing, Packing, NEW i \in Image, Compress(i)
    PROVE  /\ Drawing' /\ Packing'
           /\ i \in Packed /\ DrawnNow(image[i])
           /\ (at' = at + 1 \/ step' = 2)
  <1>1. /\ i \in config.images /\ Making(i) /\ config' = config /\ step = 1 /\ phase' = "making"
        /\ commands' = commands /\ image' = image /\ copied' = copied /\ spoiled' = spoiled
        /\ archive' = [archive EXCEPT ![i] = image[i]]
    BY DEF Compress, past
  <1>2. archive'[i] = image[i] /\ \A j \in Image \ {i} : archive'[j] = archive[j]
    BY <1>1 DEF TypeOK, FilesOK
  <1>3. i \in Packed /\ DrawnNow(image[i])
    BY <1>1 DEF Packing
  <1>4. i # Carrier
    BY <1>3, CarrierAssumption
  <1>5. \A g : DrawnNow(g)' = DrawnNow(g)
    BY <1>1 DEF DrawnNow, Holds
  <1>6. Proceed(i)
    BY DEF Compress
  <1>7. (at' = at /\ step' = 2) \/ (at' = at + 1 /\ step' = 0 /\ i \notin CopyTo)
    BY <1>1, <1>6 DEF Proceed
  <1>8. DrawnSoFar' = DrawnSoFar \cup {i} /\ i \notin DrawnSoFar
    BY <1>1, <1>7, DrawnOne
  <1>9. \A j \in Image \ {i} : Product(j)' = Product(j)
    BY <1>1, <1>2 DEF Product
  <1>10. \A j \in DrawnSoFar' : DrawnNow(image[j])' /\ Product(j)' = image'[j]
    <2> SUFFICES ASSUME NEW j \in DrawnSoFar'
                 PROVE  DrawnNow(image[j])' /\ Product(j)' = image'[j]
      OBVIOUS
    <2>1. CASE j = i
      BY <1>1, <1>2, <1>3, <1>5, <2>1 DEF Product
    <2>2. CASE j # i
      <3>1. j \in DrawnSoFar /\ j \in Image
        BY <1>1, <1>8, <2>2, RootFsAssumption DEF DrawnSoFar, TypeOK
      <3> QED BY <1>1, <1>5, <1>9, <2>2, <3>1 DEF Drawing
    <2> QED BY <2>1, <2>2
  <1>11. \A k \in DOMAIN Targets : k < at' /\ Targets[k] \in config.images \cap CopyTo =>
            copied'[Targets[k]] = image'[Targets[k]]
    <2> SUFFICES ASSUME NEW k \in DOMAIN Targets, k < at', Targets[k] \in config.images \cap CopyTo
                 PROVE  copied'[Targets[k]] = image'[Targets[k]]
      OBVIOUS
    <2>1. k \in Nat /\ at \in Nat
      BY RootIsFirst DEF TypeOK
    <2>2. k < at
      BY <1>1, <1>7, <2>1
    <2> QED BY <1>1, <2>2 DEF Drawing
  <1>12. Carrier \in DrawnSoFar' => image'[Carrier] = Product(Carried)'
    <2>1. Carrier \in DrawnSoFar' => Carrier \in DrawnSoFar /\ i # Carried
      BY <1>1, <1>4, <1>8, CarriedFirst
    <2> QED BY <1>1, <1>9, <2>1, CarrierAssumption DEF Drawing
  <1>13. Drawing'
    BY <1>1, <1>10, <1>11, <1>12 DEF Drawing
  <1>14. Packing'
    BY <1>7 DEF Packing
  <1> QED BY <1>3, <1>7, <1>13, <1>14

LEMMA DrawingCopy ==
    ASSUME TypeOK, Drawing, NEW i \in Image, CopyOut(i)
    PROVE  Drawing' /\ Packing' /\ DrawnSoFar' = DrawnSoFar
  <1>1. /\ i \in config.images /\ Making(i) /\ config' = config /\ step = 2 /\ phase' = "making"
        /\ commands' = commands /\ image' = image /\ archive' = archive /\ spoiled' = spoiled
        /\ copied' = [copied EXCEPT ![i] = CopySource(i)]
    BY DEF CopyOut, past
  <1>2. Proceed(i)
    BY DEF CopyOut
  <1>3. at' = at + 1 /\ step' = 0
    BY <1>1, <1>2 DEF Proceed
  <1>4. DrawnSoFar' = DrawnSoFar \cup {i} /\ i \in DrawnSoFar
    BY <1>1, <1>3, DrawnOne
  <1>5. \A g : DrawnNow(g)' = DrawnNow(g)
    BY <1>1 DEF DrawnNow, Holds
  <1>6. \A j : Product(j)' = Product(j)
    BY <1>1 DEF Product
  <1>7. copied'[i] = image[i] /\ \A j \in Image \ {i} : copied'[j] = copied[j]
    <2>1. Product(i) = image[i]
      BY <1>1, <1>4 DEF Drawing
    <2> QED BY <1>1, <2>1 DEF CopySource, TypeOK, FilesOK
  <1>8. \A k \in DOMAIN Targets : k < at' /\ Targets[k] \in config.images \cap CopyTo =>
            copied'[Targets[k]] = image'[Targets[k]]
    <2> SUFFICES ASSUME NEW k \in DOMAIN Targets, k < at', Targets[k] \in config.images \cap CopyTo
                 PROVE  copied'[Targets[k]] = image'[Targets[k]]
      OBVIOUS
    <2>1. k \in Nat /\ at \in Nat
      BY RootIsFirst DEF TypeOK
    <2>2. CASE k = at
      BY <1>1, <1>7, <2>2
    <2>3. CASE k < at
      <3>1. Targets[k] # i
        BY <1>1, <2>1, <2>3, TargetsAssumption
      <3>2. Targets[k] \in Image
        BY RootFsAssumption DEF TypeOK
      <3> QED BY <1>1, <1>7, <2>3, <3>1, <3>2 DEF Drawing
    <2> QED BY <1>3, <2>1, <2>2, <2>3
  <1>9. Drawing'
    BY <1>1, <1>4, <1>5, <1>6, <1>8 DEF Drawing
  <1>10. Packing'
    BY <1>3 DEF Packing
  <1> QED BY <1>4, <1>9, <1>10

LEMMA DrawNext == IInv /\ [Next]_vars => Drawing' /\ Packing'
  <1> SUFFICES ASSUME IInv, [Next]_vars
               PROVE  Drawing' /\ Packing'
    OBVIOUS
  <1>0. TypeOK /\ Steps /\ SkeletonThere /\ ProgramsThere /\ PackagesMade /\ Drawing /\ Packing
    BY DEF IInv
  <1>1. CASE Make
    <2>1. DrawnSoFar' = {}
      BY <1>1, RootIsFirst DEF Make, DrawnSoFar
    <2>2. \A k \in DOMAIN Targets : ~(k < at')
      BY <1>1, RootIsFirst DEF Make
    <2>3. Drawing'
      BY <2>1, <2>2 DEF Drawing
    <2>4. Packing'
      BY <1>1 DEF Make, Packing
    <2> QED BY <2>3, <2>4
  <1>2. CASE Skip
    <2>1. Targets[at] \notin config.images
      BY <1>0, <1>2, RootFsAssumption DEF Skip, Wanted, TypeOK
    <2> QED BY <1>0, <1>2, <2>1, DrawingSame DEF Skip, past
  <1>3. CASE Finish
    <2>1. at \notin DOMAIN Targets
      BY <1>3, RootIsFirst DEF Finish
    <2> QED BY <1>0, <1>3, <2>1, DrawingSame DEF Finish, past
  <1>4. CASE TestBin \/ CopyEntry \/ TouchRoot \/ Finalize \/ EraseFakeroots
    <2>1. Targets[at] \in Other
      BY <1>4 DEF TestBin, CopyEntry, TouchRoot, Finalize, EraseFakeroots, Other
    <2>2. Targets[at] \notin config.images
      BY <1>0, <2>1, RootFsAssumption DEF TypeOK
    <2>3. spoiled' = {} => spoiled = {}
      BY <1>4 DEF TestBin, CopyEntry, TouchRoot, Finalize, EraseFakeroots, past
    <2> QED BY <1>0, <1>4, <2>2, <2>3, DrawingSame
            DEF TestBin, CopyEntry, TouchRoot, Finalize, EraseFakeroots
  <1>5. ASSUME NEW p \in Pkg, Install(p)
        PROVE  Drawing' /\ Packing'
    <2>1. p \notin config.images
      BY <1>0, RootFsAssumption DEF TypeOK
    <2> QED BY <1>0, <1>5, <2>1, DrawingSame DEF Install
  <1>6. ASSUME NEW i \in Image, RunScript(i) \/ Compress(i) \/ CopyOut(i)
        PROVE  Drawing' /\ Packing'
    BY <1>0, <1>6, DrawingScript, DrawingCompress, DrawingCopy
  <1>7. CASE Configure \/ Break \/ Clean \/ RemoveTarget \/ RemoveBuild \/ BreakClean
    <2>1. phase' \notin {"making", "done"}
      BY <1>0, <1>7 DEF Configure, Break, Clean, RemoveTarget, RemoveBuild, BreakClean, TypeOK
    <2> QED BY <2>1 DEF Drawing, Packing
  <1>8. CASE UNCHANGED vars
    <2>1. DrawnSoFar' = DrawnSoFar
      BY <1>8 DEF vars, DrawnSoFar
    <2>2. \A f : DrawnNow(f)' = DrawnNow(f)
      BY <1>8 DEF vars, past, DrawnNow, Holds
    <2>3. \A i : Product(i)' = Product(i)
      BY <1>8 DEF vars, tool, Product
    <2>4. UNCHANGED <<config, phase, at, step, image, copied>>
      BY <1>8 DEF vars, tool
    <2> QED BY <1>0, <2>1, <2>2, <2>3, <2>4 DEF Drawing, Packing
  <1> QED BY <1>1, <1>2, <1>3, <1>4, <1>5, <1>6, <1>7, <1>8 DEF Next

LEMMA IInvInit == Init => IInv
  <1> SUFFICES ASSUME Init PROVE IInv
    OBVIOUS
  <1>1. TypeOK
    BY TypeInit
  <1>2. Steps /\ PackagesMade /\ Drawing /\ Packing
    BY DEF Init, Steps, PackagesMade, Drawing, Packing
  <1>3. SkeletonThere /\ ProgramsThere
    <2>1. Bin \notin DOMAIN NoTree
      BY DEF NoTree
    <2> QED BY <2>1 DEF Init, SkeletonThere, ProgramsThere, AtRoot
  <1> QED BY <1>1, <1>2, <1>3 DEF IInv

LEMMA IInvNext == IInv /\ [Next]_vars => IInv'
  BY TypeNext, StepsNext, SkeletonNext, ProgramsNext, PackagesNext, DrawNext DEF IInv

LEMMA Invariance == Spec => []IInv
  BY IInvInit, IInvNext, PTL DEF Spec

(* The state of RootFs has its types. *)
THEOREM TypeCorrect == Spec => []TypeOK
  <1>1. IInv => TypeOK
    BY DEF IInv
  <1> QED BY Invariance, <1>1, PTL

(* At the end of a make every target is behind it. *)
LEMMA AllDrawn == IInv /\ phase = "done" => DrawnSoFar = config.images
  <1> SUFFICES ASSUME IInv, phase = "done"
               PROVE  \A i \in config.images : i \in DrawnSoFar
    BY DEF DrawnSoFar
  <1> TAKE i \in config.images
  <1>1. i \in Image
    BY RootFsAssumption DEF IInv, TypeOK
  <1>2. PICK k \in DOMAIN Targets : Targets[k] = i
    BY <1>1, TargetsAssumption
  <1>3. k < at
    BY RootIsFirst DEF IInv, Steps
  <1> QED BY <1>2, <1>3 DEF DrawnSoFar

(* No image of a make that ended well lacks an entry of the skeleton or a  *)
(* selected program, unless a copy of the skeleton or a make clean was     *)
(* broken off.                                                             *)
THEOREM Complete == Spec => []NothingMissing
  <1>1. IInv => NothingMissing
    BY AllDrawn DEF IInv, NothingMissing, Made, Drawing, DrawnNow, Holds, Content
  <1> QED BY Invariance, <1>1, PTL

(* The image, its compressed form, its copy and what the carrier holds are *)
(* one and the same after a make that ended well.                          *)
THEOREM OneProduct == Spec => []OneImage
  <1>1. IInv => OneImage
    <2> SUFFICES ASSUME IInv, NEW i \in Made
                 PROVE  /\ Product(i) = image[i]
                        /\ i \in CopyTo => copied[i] = image[i]
                        /\ i = Carrier /\ Carried \in Made => image[i] = Product(Carried)
      BY DEF OneImage
    <2>1. phase = "done" /\ i \in config.images /\ i \in DrawnSoFar
      BY AllDrawn DEF Made
    <2>2. PICK k \in DOMAIN Targets : Targets[k] = i /\ k < at
      BY <2>1, RootIsFirst DEF DrawnSoFar, IInv, Steps
    <2> QED BY <2>1, <2>2 DEF IInv, Drawing
  <1> QED BY Invariance, <1>1, PTL

-----------------------------------------------------------------------------
(* The state of ImageStore. *)
AbsPhase == IF phase \in {"making", "done"} THEN phase ELSE "rest"
Drawings == [i \in Image |-> DrawnBy(Product(i))]

LEMMA StoreInit == Init => Store!Init
  <1> SUFFICES ASSUME Init PROVE Store!Init
    OBVIOUS
  <1>1. DrawnSoFar = {}
    BY RootIsFirst DEF Init, DrawnSoFar
  <1>2. config.images \subseteq Image
    BY RootFsAssumption DEF Init
  <1>3. Drawings = [i \in Image |-> 0]
    BY DEF Init, Drawings, Product, DrawnBy, NoFile
  <1> QED BY <1>1, <1>2, <1>3 DEF Init, Store!Init, Store!Absent, Drawings

(* A step that leaves what ImageStore sees is a stutter of it. *)
LEMMA StoreStutter ==
    ASSUME config' = config, commands' = commands, AbsPhase' = AbsPhase,
           Drawings' = Drawings, DrawnSoFar' = DrawnSoFar
    PROVE  UNCHANGED Store!vars
  BY DEF Store!vars, AbsPhase, Drawings

LEMMA StoreDraw ==
    ASSUME TypeOK, NEW i \in config.images, phase = "making", phase' = "making",
           config' = config, commands' = commands,
           Product(i)'.state = "whole", Product(i)'.run = commands,
           \A j \in Image \ {i} : Product(j)' = Product(j),
           DrawnSoFar' = DrawnSoFar \cup {i}
    PROVE  Store!Draw(i)
  <1>1. i \in Image
    BY RootFsAssumption DEF TypeOK
  <1>2. DrawnBy(Product(i))' = commands
    BY DEF DrawnBy
  <1>3. Drawings' = [Drawings EXCEPT ![i] = commands]
    <2>1. \A j \in Image \ {i} : DrawnBy(Product(j))' = DrawnBy(Product(j))
      BY DEF DrawnBy
    <2> QED BY <1>1, <1>2, <2>1 DEF Drawings
  <1> QED BY <1>3 DEF Store!Draw, Drawings

(* What an image's script, compression and copy are to ImageStore. *)
LEMMA StoreImage ==
    ASSUME IInv, NEW i \in Image, RunScript(i) \/ Compress(i) \/ CopyOut(i)
    PROVE  Store!Draw(i) \/ UNCHANGED Store!vars
  <1>0. TypeOK /\ Steps /\ SkeletonThere /\ ProgramsThere /\ PackagesMade /\ Drawing /\ Packing
    BY DEF IInv
  <1>1. /\ i \in config.images /\ Making(i) /\ config' = config /\ phase = "making"
        /\ phase' = "making" /\ commands' = commands
    BY DEF RunScript, Compress, CopyOut
  <1>2. (at' = at /\ step' \in {1, 2}) \/ (at' = at + 1 /\ step' = 0)
    BY ProceedMoves DEF RunScript, Compress, CopyOut
  <1>3. CASE RunScript(i)
    <2>1. Drawing' /\ Packing'
      BY <1>0, <1>3, DrawingScript
    <2>2. /\ step = 0 /\ archive' = archive
          /\ \E f : image' = [image EXCEPT ![i] = f]
      BY <1>3 DEF RunScript
    <2>3. \A j \in Image \ {i} : Product(j)' = Product(j)
      BY <1>0, <2>2 DEF Product, TypeOK, FilesOK
    <2>4. CASE at' = at + 1 \/ step' = 2
      <3>1. DrawnSoFar' = DrawnSoFar \cup {i}
        BY <1>0, <1>1, <1>2, <2>4, DrawnOne
      <3>2. DrawnNow(image[i])' /\ Product(i)' = image'[i]
        BY <1>1, <2>1, <3>1 DEF Drawing
      <3>3. Product(i)'.state = "whole" /\ Product(i)'.run = commands
        BY <1>1, <3>2 DEF DrawnNow
      <3> QED BY <1>0, <1>1, <2>3, <3>1, <3>3, StoreDraw
    <2>5. CASE ~(at' = at + 1 \/ step' = 2)
      <3>1. DrawnSoFar' = DrawnSoFar
        BY <1>0, <1>1, <1>2, <2>2, <2>5, DrawnOne
      <3>2. i \in Packed
        BY <1>2, <1>3, <2>5, <2>2 DEF RunScript, Proceed
      <3>3. \A j \in Image : Product(j)' = Product(j)
        BY <2>2, <2>3, <3>2 DEF Product
      <3>4. Drawings' = Drawings
        BY <3>3 DEF Drawings, DrawnBy
      <3> QED BY <1>1, <3>1, <3>4, StoreStutter DEF AbsPhase
    <2> QED BY <2>4, <2>5
  <1>4. CASE Compress(i)
    <2>1. i \in Packed /\ DrawnNow(image[i]) /\ (at' = at + 1 \/ step' = 2)
      BY <1>0, <1>4, DrawingCompress
    <2>2. /\ step = 1 /\ image' = image
          /\ archive' = [archive EXCEPT ![i] = image[i]]
      BY <1>4 DEF Compress
    <2>3. \A j \in Image \ {i} : Product(j)' = Product(j)
      BY <1>0, <2>2 DEF Product, TypeOK, FilesOK
    <2>4. Product(i)' = image[i]
      BY <1>0, <2>1, <2>2 DEF Product, TypeOK, FilesOK
    <2>5. Product(i)'.state = "whole" /\ Product(i)'.run = commands
      BY <2>1, <2>4 DEF DrawnNow
    <2>6. DrawnSoFar' = DrawnSoFar \cup {i}
      BY <1>0, <1>1, <1>2, <2>1, DrawnOne
    <2> QED BY <1>0, <1>1, <2>3, <2>5, <2>6, StoreDraw
  <1>5. CASE CopyOut(i)
    <2>1. DrawnSoFar' = DrawnSoFar
      BY <1>0, <1>5, DrawingCopy
    <2>2. Drawings' = Drawings
      BY <1>5 DEF CopyOut, Drawings, DrawnBy, Product
    <2> QED BY <1>1, <2>1, <2>2, StoreStutter DEF AbsPhase
  <1> QED BY <1>3, <1>4, <1>5

LEMMA StoreBreak ==
    ASSUME IInv, Break
    PROVE  Store!Fail
  <1>0. TypeOK /\ Packing
    BY DEF IInv
  <1>1. /\ phase = "making" /\ phase' = "failed"
        /\ UNCHANGED <<config, at, step, commands>>
    BY DEF Break, BreakCopy, BreakElse, BreakImage
  <1>2. DrawnSoFar' = DrawnSoFar
    BY <1>1 DEF DrawnSoFar
  <1>3. Drawings' = Drawings \/ \E i \in config.images : Drawings' = [Drawings EXCEPT ![i] = -1]
    <2>1. CASE BreakCopy \/ BreakElse
      BY <2>1 DEF BreakCopy, BreakElse, tool, Drawings, DrawnBy, Product
    <2>2. ASSUME NEW i \in Image, BreakImage(i)
          PROVE  Drawings' = Drawings \/ \E j \in config.images : Drawings' = [Drawings EXCEPT ![j] = -1]
      <3>1. Making(i) /\ i \in config.images
        BY <2>2 DEF BreakImage
      <3>2. \A j \in Image \ {i} : Product(j)' = Product(j)
        BY <1>0, <2>2 DEF BreakImage, Product, TypeOK, FilesOK
      <3>3. Product(i)' = Product(i) \/ Product(i)' = Damaged
        <4>1. step = 1 => i \in Packed
          BY <1>0, <3>1 DEF Packing
        <4> QED BY <1>0, <2>2, <4>1 DEF BreakImage, Product, TypeOK, FilesOK
      <3>4. \A j \in Image \ {i} : DrawnBy(Product(j))' = DrawnBy(Product(j))
        BY <3>2 DEF DrawnBy
      <3>5. DrawnBy(Product(i))' = DrawnBy(Product(i)) \/ DrawnBy(Product(i))' = -1
        BY <3>3 DEF DrawnBy, Damaged
      <3>6. Drawings' = Drawings \/ Drawings' = [Drawings EXCEPT ![i] = -1]
        BY <3>4, <3>5 DEF Drawings
      <3> QED BY <3>1, <3>6
    <2> QED BY <2>1, <2>2 DEF Break
  <1> QED BY <1>1, <1>2, <1>3 DEF Store!Fail, Store!Broken, Drawings

(* Where no make is, ImageStore lets the developer do what he likes. *)
LEMMA StoreLeave ==
    ASSUME TypeOK, TypeOK', phase # "making",
           phase' \notin {"making", "done"}, commands' \in {commands, commands + 1},
           UNCHANGED <<image, archive>> \/ RemoveTarget
    PROVE  Store!Leave
  <1>1. config'.images \subseteq Image /\ DrawnSoFar' \subseteq Image
    BY RootFsAssumption DEF TypeOK, DrawnSoFar
  <1>2. Drawings' = Drawings \/ Drawings' = [i \in Image |-> 0]
    <2>1. CASE UNCHANGED <<image, archive>>
      BY <2>1 DEF Drawings, Product, DrawnBy
    <2>2. CASE RemoveTarget
      <3>1. \A i \in Image : Product(i)' = NoFile
        BY <2>2 DEF RemoveTarget, Product
      <3>2. \A i \in Image : DrawnBy(Product(i))' = 0
        BY <3>1 DEF DrawnBy, NoFile
      <3> QED BY <3>2 DEF Drawings
    <2> QED BY <2>1, <2>2
  <1> QED BY <1>1, <1>2 DEF Store!Leave, Store!Absent, Drawings

LEMMA StoreNext == IInv /\ [Next]_vars => [Store!Next]_(Store!vars)
  <1> SUFFICES ASSUME IInv, [Next]_vars
               PROVE  Store!Next \/ UNCHANGED Store!vars
    OBVIOUS
  <1>0. TypeOK /\ Steps /\ TypeOK'
    BY TypeNext DEF IInv
  (* A step of a target that is no image of this make. *)
  <1>a. ASSUME phase = "making", phase' = "making", config' = config, commands' = commands,
               UNCHANGED tool, at \in DOMAIN Targets, Targets[at] \notin config.images,
               at' = at \/ (at' = at + 1 /\ step' = 0)
        PROVE  UNCHANGED Store!vars
    <2>1. DrawnSoFar' = DrawnSoFar
      BY <1>0, <1>a, DrawnSame
    <2>2. Drawings' = Drawings
      BY <1>a DEF Drawings, DrawnBy, Product, tool
    <2> QED BY <1>a, <2>1, <2>2, StoreStutter DEF AbsPhase
  <1>1. CASE Make
    <2>1. DrawnSoFar' = {}
      BY <1>1, RootIsFirst DEF Make, DrawnSoFar
    <2>2. Drawings' = Drawings
      BY <1>1 DEF Make, Drawings, DrawnBy, Product, tool
    <2> QED BY <1>1, <2>1, <2>2 DEF Make, Drawings, Store!Ask, Store!Next
  <1>2. CASE Skip
    <2>1. Targets[at] \notin config.images
      BY <1>0, <1>2, RootFsAssumption DEF Skip, Wanted, TypeOK
    <2> QED BY <1>2, <1>a, <2>1 DEF Skip
  <1>3. CASE Finish
    <2>1. DrawnSoFar' = DrawnSoFar /\ Drawings' = Drawings
      BY <1>3 DEF Finish, DrawnSoFar, Drawings, DrawnBy, Product, tool
    <2>2. config.images \subseteq DrawnSoFar
      <3> SUFFICES ASSUME NEW i \in config.images PROVE i \in DrawnSoFar
        OBVIOUS
      <3>1. PICK k \in DOMAIN Targets : Targets[k] = i
        BY <1>0, RootFsAssumption, TargetsAssumption DEF TypeOK
      <3>2. k < at
        BY <1>3, RootIsFirst DEF Finish
      <3> QED BY <3>1, <3>2 DEF DrawnSoFar
    <2> QED BY <1>3, <2>1, <2>2 DEF Finish, Drawings, Store!Finish, Store!Next
  <1>4. CASE TestBin \/ CopyEntry \/ TouchRoot \/ Finalize \/ EraseFakeroots
    <2>1. Targets[at] \in Other
      BY <1>4 DEF TestBin, CopyEntry, TouchRoot, Finalize, EraseFakeroots, Other
    <2>2. Targets[at] \notin config.images
      BY <1>0, <2>1, RootFsAssumption DEF TypeOK
    <2> QED BY <1>4, <1>a, <2>2 DEF TestBin, CopyEntry, TouchRoot, Finalize, EraseFakeroots
  <1>5. ASSUME NEW p \in Pkg, Install(p)
        PROVE  UNCHANGED Store!vars
    <2>1. p \notin config.images
      BY <1>0, RootFsAssumption DEF TypeOK
    <2> QED BY <1>5, <1>a, <2>1 DEF Install
  <1>6. ASSUME NEW i \in Image, RunScript(i) \/ Compress(i) \/ CopyOut(i)
        PROVE  Store!Next \/ UNCHANGED Store!vars
    BY <1>6, StoreImage DEF Store!Next
  <1>7. CASE Break
    BY <1>7, StoreBreak DEF Store!Next
  <1>8. CASE Configure \/ Clean \/ RemoveTarget \/ RemoveBuild \/ BreakClean
    <2>1. /\ phase # "making" /\ phase' \notin {"making", "done"}
          /\ UNCHANGED <<image, archive>> \/ RemoveTarget
      BY <1>0, <1>8 DEF Configure, Clean, RemoveTarget, RemoveBuild, BreakClean, tool
    <2>2. commands' \in {commands, commands + 1}
      BY <1>8 DEF Configure, Clean, RemoveTarget, RemoveBuild, BreakClean
    <2> QED BY <1>0, <2>1, <2>2, StoreLeave DEF Store!Next
  <1>9. CASE UNCHANGED vars
    BY <1>9 DEF vars, tool, Store!vars, DrawnSoFar, DrawnBy, Product
  <1> QED BY <1>1, <1>2, <1>3, <1>4, <1>5, <1>6, <1>7, <1>8, <1>9 DEF Next

(* RootFs keeps the promise of ImageStore: whatever fails or is killed, a  *)
(* make that ends well drew each selected image itself.                    *)
THEOREM Implements == Spec => ImplementsStore
  <1>1. Init => Store!Init
    BY StoreInit
  <1>2. IInv /\ [Next]_vars => [Store!Next]_(Store!vars)
    BY StoreNext
  <1> QED BY <1>1, <1>2, Invariance, PTL DEF Spec, ImplementsStore, Store!Spec
-----------------------------------------------------------------------------
(* What the images hold, besides what nothing may lack.  The parts below   *)
(* follow what was installed, removed and made by hand up to the script of *)
(* an image, and from there to the end of the make.                        *)
Behind(t) == \E k \in DOMAIN Targets : k < at /\ Targets[k] = t

(* The images whose script this make has run. *)
Scripted == {i \in config.images :
                \E k \in DOMAIN Targets : Targets[k] = i /\ (k < at \/ (k = at /\ step >= 1))}

NoLeftover(t) ==
    /\ "devel" \notin config.keep => Headers \cap DOMAIN t = {}
    /\ "manual" \notin config.keep => Manuals \cap DOMAIN t = {}
    /\ \A q \in DOMAIN t : t[q].what = "raw" => q \in {Program(p) : p \in FragPkg}

Finalized ==
    phase = "making" /\ Behind("finalize") =>
        /\ NoLeftover(target)
        /\ "devel" \in config.keep => \A p \in staged : Header(p) \in DOMAIN target

(* What was installed, as far as it was not removed again. *)
Installed ==
    /\ staged \cap FragPkg = {}
    /\ \A p \in staged : Program(p) \in DOMAIN target
    /\ Emptied => staged = {}
    /\ spoiled = {} /\ ~Emptied =>
          installed \subseteq staged /\ \A p \in installed \ dropped : Manual(p) \in DOMAIN target

MayHold ==
    Entry \cup {Program(p) : p \in config.pkgs} \cup Placed(config.table) \cup {InitLink}
    \cup {Header(p) : p \in config.pkgs \ FragPkg} \cup {Manual(p) : p \in config.pkgs \ FragPkg}

(* Nothing is there that another configuration left. *)
OfOneConfig ==
    fresh /\ spoiled = {} =>
        /\ staged \cup installed \cup fragments \subseteq config.pkgs
        /\ DOMAIN target \subseteq MayHold
        /\ dropped \subseteq installed
        /\ "manual" \in config.keep => dropped \subseteq Unkept

ExactBut(t, gone) ==
    /\ fresh => DOMAIN t \ {InitLink} = AskedFor
    /\ "manual" \in config.keep =>
          {Manual(p) : p \in (config.pkgs \ FragPkg) \ gone} \subseteq DOMAIN t

Exact(t) == ExactBut(t, dropped)

Contents ==
    phase \in {"making", "done"} =>
        /\ \A i \in Scripted : NoLeftover(image[i].tree)
        /\ \A i \in Scripted \ (said \cup {Carrier}) :
              /\ HasNodes(image[i].tree, ReachedNodes(config.table))
              /\ spoiled = {} => Exact(image[i].tree)

LEMMA ConfigFacts ==
    ASSUME config \in Configs
    PROVE  /\ config.pkgs \subseteq Pkg /\ config.images \subseteq Image
           /\ PlainTable(config.table) /\ config.table \in Seq(TableLine)
           /\ Placed(config.table) \cap (Headers \cup Manuals \cup {InitLink}) = {}
  BY RootFsAssumption, TableAssumption DEF PlainTable

(* A header is no manual page, and no package has the files of another. *)
LEMMA FilesApart ==
    /\ Headers \cap Manuals = {}
    /\ InitLink \notin Headers \cup Manuals
    /\ \A p, q \in Pkg : /\ Program(p) # InitLink
                         /\ Header(p) = Header(q) => p = q
                         /\ Manual(p) = Manual(q) => p = q
                         /\ Program(p) = Program(q) => p = q
  <1>1. \A p, q : /\ <<"usr", "include", p>> # <<"usr", "man", q>>
                  /\ <<"usr", "include", p>> # <<"usr", "share", "man", q>>
                  /\ <<"usr", "man", p>> # <<"usr", "share", "man", q>>
                  /\ <<"init">> # <<"usr", "man", q>> /\ <<"init">> # <<"usr", "include", q>>
                  /\ <<"init">> # <<"usr", "share", "man", q>> /\ <<"init">> # <<"bin", q>>
    <2> TAKE p, q
    <2>1. /\ <<"usr", "include", p>>[2] # <<"usr", "man", q>>[2]
          /\ <<"usr", "include", p>>[2] # <<"usr", "share", "man", q>>[2]
          /\ <<"usr", "man", p>>[2] # <<"usr", "share", "man", q>>[2]
      OBVIOUS
    <2>2. /\ <<"init">>[1] # <<"usr", "man", q>>[1]
          /\ <<"init">>[1] # <<"usr", "share", "man", q>>[1]
          /\ <<"init">>[1] # <<"usr", "include", q>>[1]
          /\ <<"init">>[1] # <<"bin", q>>[1]
      OBVIOUS
    <2> QED BY <2>1, <2>2
  <1>2. \A p, q : /\ <<"usr", "include", p>> = <<"usr", "include", q>> => p = q
                  /\ <<"usr", "man", p>> = <<"usr", "man", q>> => p = q
                  /\ <<"usr", "share", "man", p>> = <<"usr", "share", "man", q>> => p = q
                  /\ <<"bin", p>> = <<"bin", q>> => p = q
    OBVIOUS
  <1>3. \A a, b : PathOf(a) = PathOf(b) => a = b
    BY DEF PathOf
  <1>4. Headers \cap Manuals = {} /\ InitLink \notin Headers \cup Manuals
    <2>1. \A p : \/ Manual(p) = PathOf(<<"usr", "man", p>>)
                 \/ Manual(p) = PathOf(<<"usr", "share", "man", p>>)
      BY DEF Manual
    <2>2. \A p : Header(p) = PathOf(<<"usr", "include", p>>)
      BY DEF Header
    <2>3. \A p, q : Header(p) # Manual(q)
      BY <1>1, <1>3, <2>1, <2>2, Zenon
    <2>4. \A q : InitLink # Manual(q) /\ InitLink # Header(q)
      BY <1>1, <1>3, <2>1, <2>2, Zenon DEF InitLink
    <2> QED BY <2>3, <2>4, Zenon DEF Headers, Manuals
  <1>5. ASSUME NEW p \in Pkg, NEW q \in Pkg
        PROVE  /\ Program(p) # InitLink
               /\ Header(p) = Header(q) => p = q
               /\ Manual(p) = Manual(q) => p = q
               /\ Program(p) = Program(q) => p = q
    <2>1. Program(p) # InitLink
      BY <1>1, <1>3, Zenon DEF Program, InitLink
    <2>2. Header(p) = Header(q) => p = q
      BY <1>2, <1>3, Zenon DEF Header
    <2>3. Program(p) = Program(q) => p = q
      BY <1>2, <1>3, Zenon DEF Program
    <2>4. Manual(p) = Manual(q) => p = q
      BY <1>1, <1>2, <1>3, Zenon DEF Manual
    <2> QED BY <2>1, <2>2, <2>3, <2>4
  <1> QED BY <1>4, <1>5

(* The pages a fragment removes are those of the packages it sweeps. *)
LEMMA SweptPagesOf ==
    /\ \A p \in Pkg : Manual(p) \in SweptPages => p \in Swept
    /\ \A p \in Pkg : Header(p) \notin SweptPages
    /\ InitLink \notin SweptPages
  BY FilesApart, SweptAreManuals DEF SweptPages, Headers

(* target-finalize comes after the packages and before the images. *)
LEMMA FinalizeBetween ==
    ASSUME TypeOK, at \in DOMAIN Targets
    PROVE  /\ Targets[at] \in Pkg \cup {"root", "finalize"} => ~Behind("finalize")
           /\ Targets[at] \in Image => Behind("finalize")
  <1>1. \A k \in DOMAIN Targets : k \in Nat
    BY RootIsFirst
  <1>2. PICK f \in DOMAIN Targets : Targets[f] = "finalize"
    BY TargetsAssumption DEF Other
  <1>3. CASE Targets[at] \in Image
    <2>1. at # f
      BY <1>2, <1>3, RootFsAssumption DEF Other
    <2>2. f < at
      BY <1>1, <1>2, <1>3, <2>1, TargetsAssumption
    <2> QED BY <1>2, <1>3, <2>2, RootFsAssumption DEF Behind, Other
  <1>4. CASE Targets[at] \in Pkg \cup {"root", "finalize"}
    <2> SUFFICES ASSUME NEW k \in DOMAIN Targets, k < at, Targets[k] = "finalize"
                 PROVE  FALSE
      BY <1>4, RootFsAssumption DEF Behind, Other
    <2>1. Targets[at] # "root"
      BY TargetsAssumption
    <2>2. Targets[at] \notin Pkg
      BY TargetsAssumption
    <2>3. Targets[at] # "finalize"
      BY <1>1, TargetsAssumption
    <2> QED BY <1>4, <2>1, <2>2, <2>3
  <1> QED BY <1>3, <1>4

(* What a step of the walk puts behind the make. *)
LEMMA BehindMoves ==
    ASSUME TypeOK, NEW t,
           at' = at \/ (at' = at + 1 /\ at \in DOMAIN Targets)
    PROVE  Behind(t)' => Behind(t) \/ (at \in DOMAIN Targets /\ Targets[at] = t /\ at' = at + 1)
  <1>1. at \in Nat /\ \A k \in DOMAIN Targets : k \in Nat
    BY RootIsFirst DEF TypeOK
  <1>2. ASSUME NEW k \in DOMAIN Targets, k < at', Targets[k] = t
        PROVE  Behind(t) \/ (at \in DOMAIN Targets /\ Targets[at] = t /\ at' = at + 1)
    <2>1. k < at \/ (k = at /\ at' = at + 1)
      BY <1>1, <1>2
    <2> QED BY <1>2, <2>1 DEF Behind
  <1> QED BY <1>2 DEF Behind

(* What the operators leave of the kinds of files. *)
LEMMA FinalizeTree ==
    ASSUME Finalize, TypeOK
    PROVE  /\ DOMAIN target'
                = ((IF "devel" \in config.keep THEN DOMAIN target \cup {Header(p) : p \in staged}
                    ELSE DOMAIN target \ Headers)
                   \ (IF "manual" \in config.keep THEN {} ELSE Manuals))
           /\ \A q \in DOMAIN target' : target'[q].what # "raw"
  <1> DEFINE d == Develop(target)
             e == Document(d)
  <1>1. DOMAIN d = IF "devel" \in config.keep THEN DOMAIN target \cup {Header(p) : p \in staged}
                   ELSE DOMAIN target \ Headers
    <2>1. DOMAIN With(target, {Header(p) : p \in staged}, "f")
             = DOMAIN target \cup {Header(p) : p \in staged}
      BY WithDomain
    <2>2. DOMAIN Without(target, Headers) = DOMAIN target \ Headers
      BY WithoutDomain
    <2> QED BY <2>1, <2>2 DEF Develop
  <1> HIDE DEF d
  <1>2. DOMAIN e = DOMAIN d \ (IF "manual" \in config.keep THEN {} ELSE Manuals)
    BY WithoutDomain DEF Document
  <1> HIDE DEF e
  <1>3. target' = Strip(e)
    BY DEF Finalize, e, d
  <1>4. DOMAIN target' = DOMAIN e
    BY <1>3, StripDomain
  <1>5. ASSUME NEW q \in DOMAIN e
        PROVE  target'[q].what # "raw"
    <2>1. target'[q] = IF e[q].what = "raw" THEN [what |-> "f", minor |-> 0] ELSE e[q]
      BY <1>3 DEF Strip
    <2> QED BY <2>1
  <1> QED BY <1>1, <1>2, <1>4, <1>5

(* What the session of an image adds to the target directory. *)
LEMMA SessionAdds ==
    ASSUME config \in Configs, NEW i, NEW full
    PROVE  LET s == Session(i, full) IN
           /\ s.said \in BOOLEAN
           /\ DOMAIN s.tree \subseteq (DOMAIN target \ SweptPages) \cup {InitLink}
                                \cup Placed(config.table) \cup {Program(p) : p \in fragments}
           /\ \A q \in DOMAIN s.tree : s.tree[q].what = "raw" =>
                 \/ q \in DOMAIN target /\ target[q].what = "raw"
                 \/ q \in {Program(p) : p \in fragments}
           /\ i # Carrier /\ ~s.said =>
                 /\ Placed(config.table) \subseteq DOMAIN s.tree
                 /\ HasNodes(s.tree, ReachedNodes(config.table))
  <1> DEFINE s == Session(i, full)
             programs == {Program(p) : p \in fragments}
             with(t) == Fragmented(t)
  <1>1. ASSUME NEW t
        PROVE  /\ DOMAIN with(t) = (DOMAIN t \ SweptPages) \cup programs
               /\ \A q \in DOMAIN with(t) :
                     q \in programs \/ (q \in DOMAIN t /\ with(t)[q] = t[q])
    <2> DEFINE w == Without(t, SweptPages)
    <2>1. DOMAIN w = DOMAIN t \ SweptPages /\ \A q \in DOMAIN w : w[q] = t[q]
      BY DEF Without
    <2>2. with(t) = With(w, programs, "raw")
      BY DEF Fragmented, SweptPages
    <2> HIDE DEF w, with, programs
    <2>3. /\ DOMAIN with(t) = DOMAIN w \cup programs
          /\ \A q \in DOMAIN with(t) : q \in programs \/ with(t)[q] = w[q]
      BY <2>2 DEF With
    <2> QED BY <2>1, <2>3
  <1>2. CASE i = Carrier
    <2>1. s = [tree |-> with(target), said |-> FALSE]
      BY <1>2 DEF Session
    <2> HIDE DEF s, with, programs
    <2>2. s.tree = with(target) /\ s.said = FALSE
      BY <2>1
    <2>3. /\ DOMAIN s.tree = (DOMAIN target \ SweptPages) \cup programs
          /\ \A q \in DOMAIN s.tree :
                q \in programs \/ (q \in DOMAIN target /\ s.tree[q] = target[q])
      BY <1>1, <2>2
    <2> QED BY <1>2, <2>2, <2>3 DEF s, programs
  <1>3. CASE i # Carrier
    <2> DEFINE linked == Linking(i, target)
               base == with(linked)
    <2>1. /\ DOMAIN linked \subseteq DOMAIN target \cup {InitLink}
          /\ \A q \in DOMAIN linked : linked[q].what = "raw" =>
                q \in DOMAIN target /\ linked[q] = target[q]
      <3>1. CASE i \in Linked
        <4>1. linked = With(target, {InitLink}, "f")
          BY <3>1 DEF Linking
        <4> HIDE DEF linked
        <4> QED BY <4>1 DEF With
      <3>2. CASE i \notin Linked
        <4>1. linked = target
          BY <3>2 DEF Linking
        <4> HIDE DEF linked
        <4> QED BY <4>1
      <3> QED BY <3>1, <3>2
    <2>2. s = ReadTable(base, full, config.table)
      BY <1>3 DEF Session, Populated
    <2>3. /\ DOMAIN base = (DOMAIN linked \ SweptPages) \cup programs
          /\ \A q \in DOMAIN base : q \in programs \/ (q \in DOMAIN linked /\ base[q] = linked[q])
      BY <1>1
    <2> HIDE DEF s, base, linked, programs
    <2>4. /\ s.said \in BOOLEAN
          /\ DOMAIN s.tree \subseteq DOMAIN base \cup Placed(config.table)
          /\ \A q \in DOMAIN s.tree :
                \/ q \in DOMAIN base /\ s.tree[q] = base[q]
                \/ s.tree[q].what \in NodeTypes \cup {"d"}
          /\ ~s.said => /\ Dirs(config.table) \subseteq DOMAIN s.tree
                        /\ HasNodes(s.tree, ReachedNodes(config.table))
      BY <2>2, ConfigFacts, TableReads
    <2>5. ~s.said => Placed(config.table) \subseteq DOMAIN s.tree
      BY <2>4 DEF Placed, HasNodes
    <2>6. ASSUME NEW q \in DOMAIN s.tree, s.tree[q].what = "raw"
          PROVE  (q \in DOMAIN target /\ target[q].what = "raw") \/ q \in programs
      <3>1. q \in DOMAIN base /\ s.tree[q] = base[q]
        BY <2>4, <2>6 DEF NodeTypes
      <3> QED BY <2>1, <2>3, <2>6, <3>1
    <2>7. DOMAIN s.tree \subseteq (DOMAIN target \ SweptPages) \cup {InitLink}
                              \cup Placed(config.table) \cup programs
      BY <2>1, <2>3, <2>4
    <2> QED BY <2>4, <2>5, <2>6, <2>7 DEF s, programs
  <1> QED BY <1>2, <1>3

(* Nothing that target-finalize took away comes back with an image. *)
LEMMA SessionLeaves ==
    ASSUME TypeOK, NoLeftover(target), NEW i, NEW full
    PROVE  /\ NoLeftover(Session(i, full).tree)
           /\ NoLeftover(OnDisk(Session(i, full).tree))
  <1> DEFINE t == Session(i, full).tree
             programs == {Program(p) : p \in fragments}
  <1>1. config \in Configs /\ fragments \subseteq FragPkg
    BY DEF TypeOK
  <1>2. programs \cap (Headers \cup Manuals) = {} /\ programs \subseteq {Program(p) : p \in FragPkg}
    BY <1>1, Apart, RootFsAssumption
  <1>3. /\ DOMAIN t \subseteq DOMAIN target \cup {InitLink} \cup Placed(config.table) \cup programs
        /\ \A q \in DOMAIN t : t[q].what = "raw" =>
              (q \in DOMAIN target /\ target[q].what = "raw") \/ q \in programs
    BY <1>1, SessionAdds
  <1> HIDE DEF t, programs
  <1>4. Headers \cap DOMAIN t \subseteq DOMAIN target /\ Manuals \cap DOMAIN t \subseteq DOMAIN target
    BY <1>1, <1>2, <1>3, ConfigFacts, FilesApart
  <1>5. NoLeftover(t)
    BY <1>2, <1>3, <1>4 DEF NoLeftover
  <1>6. \A q \in DOMAIN OnDisk(t) : OnDisk(t)[q].what = "raw" => t[q].what = "raw"
    BY DEF OnDisk
  <1>7. NoLeftover(OnDisk(t))
    BY <1>5, <1>6, DiskDomain DEF NoLeftover
  <1> QED BY <1>5, <1>7 DEF t

LEMMA InstallFiles ==
    ASSUME NEW p, Install(p)
    PROVE  IF p \in FragPkg \cup installed
           THEN UNCHANGED <<target, staged, installed, dropped>>
           ELSE /\ DOMAIN target' = DOMAIN target \cup {Program(p), Header(p), Manual(p)}
                /\ staged' = staged \cup {p} /\ installed' = installed \cup {p}
                /\ dropped' = dropped \ {p}
  <1>1. CASE p \in FragPkg \cup installed
    BY <1>1 DEF Install
  <1>2. CASE p \notin FragPkg \cup installed
    <2> DEFINE t == With(target, {Program(p)}, "raw")
    <2>1. DOMAIN t = DOMAIN target \cup {Program(p)}
      BY WithDomain
    <2>2. /\ target' = With(t, {Header(p), Manual(p)}, "f")
          /\ staged' = staged \cup {p} /\ installed' = installed \cup {p}
          /\ dropped' = dropped \ {p}
      BY <1>2 DEF Install
    <2> HIDE DEF t
    <2>3. DOMAIN With(t, {Header(p), Manual(p)}, "f") = DOMAIN t \cup {Header(p), Manual(p)}
      BY WithDomain
    <2> QED BY <1>2, <2>1, <2>2, <2>3
  <1> QED BY <1>1, <1>2

LEMMA CopyFiles ==
    ASSUME CopyEntry \/ BreakCopy
    PROVE  /\ DOMAIN target \subseteq DOMAIN target'
           /\ DOMAIN target' \subseteq DOMAIN target \cup Entry
           /\ spoiled' = {} => spoiled = {}
  <1>1. step \in DOMAIN Skeleton
    BY RootFsAssumption DEF CopyEntry, BreakCopy
  <1>2. target' = target \/ target' = With(target, {PathOf(Skeleton[step])}, "d")
    BY DEF CopyEntry, BreakCopy
  <1>3. DOMAIN With(target, {PathOf(Skeleton[step])}, "d")
           = DOMAIN target \cup {PathOf(Skeleton[step])}
    BY WithDomain
  <1>4. PathOf(Skeleton[step]) \in Entry
    BY <1>1 DEF Entry
  <1>5. spoiled' = {} => spoiled = {}
    BY DEF CopyEntry, BreakCopy
  <1> QED BY <1>2, <1>3, <1>4, <1>5

(* An image takes no more from the target directory than the pages its     *)
(* fragments remove.                                                       *)
Sweeps == \/ dropped' = dropped /\ DOMAIN target \subseteq DOMAIN target'
          \/ /\ dropped' = dropped \cup (installed \cap Swept)
             /\ DOMAIN target \ SweptPages \subseteq DOMAIN target'

LEMMA ImageFiles ==
    ASSUME config \in Configs, NEW i,
           RunScript(i) \/ Compress(i) \/ CopyOut(i) \/ BreakImage(i)
    PROVE  /\ Sweeps
           /\ DOMAIN target' \subseteq DOMAIN target \cup {InitLink} \cup Placed(config.table)
                                          \cup {Program(p) : p \in fragments}
           /\ spoiled' = spoiled /\ fragments' = fragments
  <1>1. \A full : /\ DOMAIN target \ SweptPages \subseteq DOMAIN OnDisk(Session(i, full).tree)
                  /\ DOMAIN OnDisk(Session(i, full).tree)
                        \subseteq DOMAIN target \cup {InitLink} \cup Placed(config.table)
                                     \cup {Program(p) : p \in fragments}
    BY SessionKeeps, SessionAdds, DiskDomain
  <1>2. /\ DOMAIN target \subseteq DOMAIN Linking(i, target)
        /\ DOMAIN Linking(i, target) \subseteq DOMAIN target \cup {InitLink}
    <2>1. DOMAIN With(target, {InitLink}, "f") = DOMAIN target \cup {InitLink}
      BY WithDomain
    <2> QED BY <2>1 DEF Linking
  <1>3. \/ dropped' = dropped /\ (target' = target \/ target' = Linking(i, target))
        \/ /\ dropped' = dropped \cup (installed \cap Swept)
           /\ \E full : target' = OnDisk(Session(i, full).tree)
    <2>1. CASE RunScript(i)
      BY <2>1 DEF RunScript
    <2>2. CASE BreakImage(i)
      BY <2>2 DEF BreakImage
    <2> QED BY <2>1, <2>2 DEF Compress, CopyOut, past
  <1>4. spoiled' = spoiled /\ fragments' = fragments
    BY DEF RunScript, Compress, CopyOut, BreakImage, past
  <1>5. CASE dropped' = dropped /\ (target' = target \/ target' = Linking(i, target))
    BY <1>2, <1>4, <1>5 DEF Sweeps
  <1>6. CASE /\ dropped' = dropped \cup (installed \cap Swept)
             /\ \E full : target' = OnDisk(Session(i, full).tree)
    BY <1>1, <1>4, <1>6 DEF Sweeps
  <1> QED BY <1>3, <1>5, <1>6

LEMMA InstalledNext == TypeOK /\ Steps /\ Installed /\ [Next]_vars => Installed'
  <1> SUFFICES ASSUME TypeOK, Steps, Installed, [Next]_vars
               PROVE  Installed'
    OBVIOUS
  <1> USE DEF Installed, Emptied
  (* A step after which everything is there that was. *)
  <1>a. ASSUME UNCHANGED <<staged, installed, dropped>>, DOMAIN target \subseteq DOMAIN target',
               ~Emptied, ~Emptied', spoiled' = {} => spoiled = {}
        PROVE  Installed'
    BY <1>a
  (* A step of an image. *)
  <1>b. ASSUME UNCHANGED <<staged, installed, spoiled>>, Sweeps, ~Emptied, ~Emptied'
        PROVE  Installed'
    <2>1. CASE dropped' = dropped /\ DOMAIN target \subseteq DOMAIN target'
      BY <1>a, <1>b, <2>1
    <2>2. CASE /\ dropped' = dropped \cup (installed \cap Swept)
               /\ DOMAIN target \ SweptPages \subseteq DOMAIN target'
      <3>1. staged \subseteq Pkg /\ installed \subseteq Pkg
        BY DEF TypeOK
      <3>2. \A p \in staged : Program(p) \in DOMAIN target'
        BY <2>2, <3>1, Apart, SweptAreManuals
      <3>3. ASSUME NEW p \in installed \ dropped', Manual(p) \in DOMAIN target
            PROVE  Manual(p) \in DOMAIN target'
        BY <2>2, <3>1, <3>3, SweptPagesOf
      <3> QED BY <1>b, <2>2, <3>2, <3>3
    <2> QED BY <1>b, <2>1, <2>2 DEF Sweeps
  <1>1. CASE Configure \/ Make \/ Clean
    BY <1>1, <1>a DEF Configure, Make, Clean, past
  <1>2. CASE Skip \/ Finish \/ TestBin \/ TouchRoot \/ EraseFakeroots
    BY <1>2, <1>a DEF Skip, Finish, TestBin, TouchRoot, EraseFakeroots, past
  <1>3. CASE CopyEntry
    BY <1>3, <1>a, CopyFiles DEF CopyEntry
  <1>4. ASSUME NEW p \in Pkg, Install(p)
        PROVE  Installed'
    <2>1. /\ ~Emptied /\ ~Emptied' /\ spoiled' = spoiled
      BY <1>4 DEF Install
    <2>2. CASE p \in FragPkg \cup installed
      BY <1>4, <1>a, <2>1, <2>2, InstallFiles
    <2>3. CASE p \notin FragPkg \cup installed
      <3>1. /\ DOMAIN target' = DOMAIN target \cup {Program(p), Header(p), Manual(p)}
            /\ staged' = staged \cup {p} /\ installed' = installed \cup {p}
            /\ dropped' = dropped \ {p}
        BY <1>4, <2>3, InstallFiles
      <3> QED BY <2>1, <2>3, <3>1
    <2> QED BY <2>2, <2>3
  <1>5. CASE Finalize
    <2>1. /\ staged' = staged /\ installed' = installed /\ spoiled' = spoiled
          /\ dropped' = IF "manual" \in config.keep THEN dropped ELSE dropped \cup installed
          /\ ~Emptied /\ ~Emptied'
      BY <1>5 DEF Finalize
    <2>2. \A p \in Pkg : Program(p) \in DOMAIN target => Program(p) \in DOMAIN target'
      BY <1>5, FinalizeTree, Apart
    <2>3. "manual" \in config.keep =>
             \A p \in Pkg : Manual(p) \in DOMAIN target => Manual(p) \in DOMAIN target'
      <3>1. \A p \in Pkg : Manual(p) \notin Headers
        BY FilesApart DEF Manuals
      <3> QED BY <1>5, <3>1, FinalizeTree
    <2>4. staged \subseteq Pkg /\ installed \subseteq Pkg
      BY DEF TypeOK
    <2> QED BY <2>1, <2>2, <2>3, <2>4
  <1>6. ASSUME NEW i \in Image, RunScript(i) \/ Compress(i) \/ CopyOut(i)
        PROVE  Installed'
    <2>1. phase = "making" /\ phase' = "making"
      BY <1>6 DEF RunScript, Compress, CopyOut
    <2>2. UNCHANGED <<staged, installed, spoiled>>
      BY <1>6 DEF RunScript, Compress, CopyOut, past
    <2> QED BY <1>6, <1>b, <2>1, <2>2, ImageFiles DEF TypeOK
  <1>7. CASE Break
    <2>1. phase = "making" /\ phase' = "failed" /\ UNCHANGED <<staged, installed>>
      BY <1>7 DEF Break, BreakCopy, BreakElse, BreakImage
    <2>2. CASE BreakCopy
      <3>1. dropped' = dropped
        BY <2>2 DEF BreakCopy
      <3> QED BY <1>a, <2>1, <2>2, <3>1, CopyFiles
    <2>3. CASE BreakElse
      BY <1>a, <2>1, <2>3 DEF BreakElse
    <2>4. ASSUME NEW i \in Image, BreakImage(i)
          PROVE  Installed'
      BY <1>b, <2>1, <2>4, ImageFiles DEF TypeOK
    <2> QED BY <1>7, <2>2, <2>3, <2>4 DEF Break
  <1>8. CASE RemoveTarget
    BY <1>8 DEF RemoveTarget
  <1>9. CASE RemoveBuild
    BY <1>9 DEF RemoveBuild
  <1>10. CASE BreakClean
    BY <1>10 DEF BreakClean
  <1>11. CASE UNCHANGED vars
    BY <1>11 DEF vars, past
  <1> QED BY <1>1, <1>2, <1>3, <1>4, <1>5, <1>6, <1>7, <1>8, <1>9, <1>10, <1>11 DEF Next

LEMMA OfOneConfigNext ==
    TypeOK /\ Steps /\ Installed /\ OfOneConfig /\ [Next]_vars => OfOneConfig'
  <1> SUFFICES ASSUME TypeOK, Steps, Installed, OfOneConfig, [Next]_vars, fresh', spoiled' = {}
               PROVE  /\ (staged \cup installed \cup fragments \subseteq config.pkgs)'
                      /\ (DOMAIN target \subseteq MayHold)'
                      /\ (dropped \subseteq installed)'
                      /\ ("manual" \in config.keep => dropped \subseteq Unkept)'
    BY DEF OfOneConfig
  <1> USE DEF OfOneConfig
  <1>b. config' = config => MayHold' = MayHold /\ Unkept' = Unkept
    BY DEF MayHold, Unkept
  <1>c. fresh /\ spoiled = {} => Swept \subseteq Unkept
    BY DEF Swept, Unkept, TypeOK
  (* A step that installs nothing. *)
  <1>a. ASSUME UNCHANGED <<config, staged, installed>>, fresh, spoiled = {},
               dropped' = dropped \/ dropped' = dropped \cup (installed \cap Swept),
               fragments' \subseteq fragments, DOMAIN target' \subseteq MayHold
        PROVE  /\ (staged \cup installed \cup fragments \subseteq config.pkgs)'
               /\ (DOMAIN target \subseteq MayHold)'
               /\ (dropped \subseteq installed)'
               /\ ("manual" \in config.keep => dropped \subseteq Unkept)'
    <2>1. dropped' \subseteq dropped \cup (installed \cap Swept)
      BY <1>a
    <2> QED BY <1>a, <1>b, <1>c, <2>1
  <1>1. CASE Configure
    <2>1. /\ fresh /\ target = NoTree /\ installed = {} /\ fragments = {}
          /\ UNCHANGED <<target, staged, installed, fragments, spoiled, dropped>>
      BY <1>1 DEF Configure
    <2>2. DOMAIN target = {}
      BY <2>1 DEF NoTree
    <2>3. staged = {}
      BY <2>2 DEF Installed
    <2> QED BY <2>1, <2>2, <2>3
  <1>2. CASE Make \/ Clean \/ Skip \/ Finish \/ TestBin \/ TouchRoot
    BY <1>2, <1>a DEF Make, Clean, Skip, Finish, TestBin, TouchRoot, past
  <1>3. CASE CopyEntry
    <2>1. DOMAIN target' \subseteq DOMAIN target \cup Entry /\ spoiled = {}
      BY <1>3, CopyFiles
    <2> QED BY <1>3, <1>a, <2>1 DEF CopyEntry, MayHold
  <1>4. ASSUME NEW p \in Pkg, Install(p)
        PROVE  /\ (staged \cup installed \cup fragments \subseteq config.pkgs)'
               /\ (DOMAIN target \subseteq MayHold)'
               /\ (dropped \subseteq installed)'
               /\ ("manual" \in config.keep => dropped \subseteq Unkept)'
    <2>1. /\ fresh /\ spoiled = {} /\ p \in config.pkgs /\ config' = config
          /\ fragments' \subseteq fragments \cup {p}
      BY <1>4 DEF Install
    <2>2. /\ staged' \subseteq staged \cup {p} /\ installed \subseteq installed'
          /\ installed' \subseteq installed \cup {p}
          /\ dropped' \subseteq dropped /\ (p \in installed' \/ dropped' = dropped)
      BY <1>4, InstallFiles
    <2>3. DOMAIN target' \subseteq MayHold
      <3>1. CASE p \in FragPkg \cup installed
        BY <1>4, <2>1, <3>1, InstallFiles
      <3>2. CASE p \notin FragPkg \cup installed
        <4>1. DOMAIN target' = DOMAIN target \cup {Program(p), Header(p), Manual(p)}
          BY <1>4, <3>2, InstallFiles
        <4>2. {Program(p), Header(p), Manual(p)} \subseteq MayHold
          BY <2>1, <3>2 DEF MayHold
        <4> QED BY <2>1, <4>1, <4>2
      <3> QED BY <3>1, <3>2
    <2> QED BY <1>b, <2>1, <2>2, <2>3
  <1>5. CASE Finalize
    <2>1. /\ UNCHANGED <<config, staged, installed, fragments, fresh, spoiled>>
          /\ fresh /\ spoiled = {}
          /\ dropped' = IF "manual" \in config.keep THEN dropped ELSE dropped \cup installed
      BY <1>5 DEF Finalize
    <2>2. DOMAIN target' \subseteq DOMAIN target \cup {Header(p) : p \in staged}
      BY <1>5, FinalizeTree
    <2>3. staged \subseteq config.pkgs \ FragPkg
      BY <2>1 DEF Installed
    <2>4. {Header(p) : p \in staged} \subseteq MayHold
      BY <2>3 DEF MayHold
    <2> QED BY <1>b, <2>1, <2>2, <2>4
  <1>6. ASSUME NEW i, RunScript(i) \/ Compress(i) \/ CopyOut(i) \/ BreakImage(i)
        PROVE  /\ spoiled = {} /\ fragments' = fragments
               /\ dropped' = dropped \/ dropped' = dropped \cup (installed \cap Swept)
               /\ fresh => DOMAIN target' \subseteq MayHold
    <2>1. /\ spoiled = {} /\ fragments' = fragments
          /\ dropped' = dropped \/ dropped' = dropped \cup (installed \cap Swept)
      BY <1>6, ImageFiles DEF TypeOK, Sweeps
    <2>2. fresh => {Program(p) : p \in fragments} \subseteq MayHold
      BY <2>1 DEF MayHold
    <2>3. {InitLink} \cup Placed(config.table) \subseteq MayHold
      BY DEF MayHold
    <2> QED BY <1>6, <2>1, <2>2, <2>3, ImageFiles DEF TypeOK
  <1>7. ASSUME NEW i, RunScript(i) \/ Compress(i) \/ CopyOut(i)
        PROVE  /\ (staged \cup installed \cup fragments \subseteq config.pkgs)'
               /\ (DOMAIN target \subseteq MayHold)'
               /\ (dropped \subseteq installed)'
               /\ ("manual" \in config.keep => dropped \subseteq Unkept)'
    <2>1. UNCHANGED <<config, staged, installed, fresh>>
      BY <1>7 DEF RunScript, Compress, CopyOut, past
    <2> QED BY <1>6, <1>7, <1>a, <2>1
  <1>8. CASE Break
    <2>1. UNCHANGED <<config, staged, installed, fresh>>
      BY <1>8 DEF Break
    <2>2. CASE BreakCopy
      <3>1. DOMAIN target' \subseteq DOMAIN target \cup Entry /\ spoiled = {}
            /\ fragments' = fragments /\ dropped' = dropped
        BY <2>2, CopyFiles DEF BreakCopy
      <3> QED BY <1>a, <2>1, <3>1 DEF MayHold
    <2>3. CASE BreakElse
      BY <1>a, <2>1, <2>3 DEF BreakElse
    <2>4. ASSUME NEW i \in Image, BreakImage(i)
          PROVE  /\ spoiled = {} /\ fragments' = fragments
                 /\ dropped' = dropped \/ dropped' = dropped \cup (installed \cap Swept)
                 /\ fresh => DOMAIN target' \subseteq MayHold
      BY <1>6, <2>4
    <2> QED BY <1>8, <1>a, <2>1, <2>2, <2>3, <2>4 DEF Break
  <1>9. CASE EraseFakeroots
    BY <1>9, <1>a DEF EraseFakeroots, past
  <1>10. CASE RemoveTarget
    <2>1. DOMAIN NoTree = {}
      BY DEF NoTree
    <2> QED BY <1>10, <1>b, <2>1 DEF RemoveTarget, past
  <1>11. CASE RemoveBuild
    <2>1. target' = NoTree /\ DOMAIN NoTree = {} /\ staged' = {}
      BY <1>11 DEF RemoveBuild, NoTree, Steps, Installed, Emptied
    <2> QED BY <1>11, <2>1 DEF RemoveBuild
  <1>12. CASE BreakClean
    BY <1>12 DEF BreakClean
  <1>13. CASE UNCHANGED vars
    BY <1>13, <1>a DEF vars, past
  <1> QED BY <1>1, <1>2, <1>3, <1>4, <1>5, <1>7, <1>8, <1>9, <1>10, <1>11, <1>12, <1>13 DEF Next

LEMMA FinalizedNext == TypeOK /\ Finalized /\ [Next]_vars => Finalized'
  <1> SUFFICES ASSUME TypeOK, Finalized, [Next]_vars, phase' = "making", Behind("finalize")'
               PROVE  /\ NoLeftover(target)'
                      /\ ("devel" \in config.keep => \A p \in staged : Header(p) \in DOMAIN target)'
    BY DEF Finalized
  <1> USE DEF Finalized
  (* A step that target-finalize was before. *)
  <1>a. ASSUME phase = "making", UNCHANGED <<config, staged, target>>,
               at' = at \/ (at' = at + 1 /\ at \in DOMAIN Targets /\ Targets[at] # "finalize")
        PROVE  /\ NoLeftover(target)'
               /\ ("devel" \in config.keep => \A p \in staged : Header(p) \in DOMAIN target)'
    <2>1. Behind("finalize")
      BY <1>a, BehindMoves DEF TypeOK
    <2> QED BY <1>a, <2>1 DEF NoLeftover
  (* One that it comes after. *)
  <1>b. ASSUME at \in DOMAIN Targets, Targets[at] \in Pkg \cup {"root"}, at' = at \/ at' = at + 1
        PROVE  FALSE
    <2>1. Targets[at] # "finalize"
      BY <1>b, RootFsAssumption DEF Other
    <2>2. Behind("finalize")
      BY <1>b, <2>1, BehindMoves
    <2> QED BY <1>b, <2>2, FinalizeBetween
  <1>1. CASE Make
    <2>1. \A k \in DOMAIN Targets : ~(k < 1)
      BY RootIsFirst
    <2> QED BY <1>1, <2>1 DEF Make, Behind
  <1>2. CASE Skip
    <2>1. Targets[at] # "finalize"
      BY <1>2, RootFsAssumption DEF Skip, Wanted, Other
    <2> QED BY <1>2, <1>a, <2>1 DEF Skip
  <1>3. CASE TestBin \/ CopyEntry \/ TouchRoot
    BY <1>3, <1>b DEF TestBin, CopyEntry, TouchRoot
  <1>4. ASSUME NEW p \in Pkg, Install(p) PROVE FALSE
    BY <1>4, <1>b DEF Install
  <1>5. CASE Finalize
    <2>1. config' = config /\ staged' = staged /\ staged \subseteq Pkg
      BY <1>5 DEF Finalize, TypeOK
    <2>2. NoLeftover(target)'
      BY <1>5, <2>1, FinalizeTree DEF NoLeftover
    <2>3. "devel" \in config.keep => \A p \in staged : Header(p) \in DOMAIN target'
      <3>1. \A p \in staged : Header(p) \notin Manuals
        BY <2>1, FilesApart DEF Headers
      <3> QED BY <1>5, <3>1, FinalizeTree
    <2> QED BY <2>1, <2>2, <2>3
  <1>6. ASSUME NEW i \in Image, RunScript(i)
        PROVE  /\ NoLeftover(target)'
               /\ ("devel" \in config.keep => \A p \in staged : Header(p) \in DOMAIN target)'
    <2>1. /\ phase = "making" /\ at \in DOMAIN Targets /\ Targets[at] = i
          /\ config' = config /\ staged' = staged
          /\ \E full : target' = OnDisk(Session(i, full).tree)
      BY <1>6 DEF RunScript
    <2>2. NoLeftover(target)
          /\ ("devel" \in config.keep => \A p \in staged : Header(p) \in DOMAIN target)
      BY <2>1, FinalizeBetween
    <2>3. DOMAIN target \ SweptPages \subseteq DOMAIN target'
      BY <1>6, ImageFiles DEF TypeOK, Sweeps
    <2>4. NoLeftover(target')
      BY <2>1, <2>2, SessionLeaves
    <2>5. \A p \in staged : Header(p) \notin SweptPages
      BY SweptPagesOf DEF TypeOK
    <2> QED BY <2>1, <2>2, <2>3, <2>4, <2>5 DEF NoLeftover
  <1>7. ASSUME NEW i \in Image, Compress(i) \/ CopyOut(i)
        PROVE  /\ NoLeftover(target)'
               /\ ("devel" \in config.keep => \A p \in staged : Header(p) \in DOMAIN target)'
    <2>1. Proceed(i) /\ at \in DOMAIN Targets /\ Targets[at] = i /\ i # "finalize"
      BY <1>7, RootFsAssumption DEF Compress, CopyOut, Other
    <2> QED BY <1>7, <1>a, <2>1, ProceedMoves DEF Compress, CopyOut
  <1>8. CASE EraseFakeroots
    BY <1>8, <1>a DEF EraseFakeroots
  <1>9. CASE Configure \/ Finish \/ Break \/ Clean \/ RemoveTarget \/ RemoveBuild \/ BreakClean
    BY <1>9 DEF Configure, Finish, Break, Clean, RemoveTarget, RemoveBuild, BreakClean
  <1>10. CASE UNCHANGED vars
    BY <1>10, <1>a DEF vars
  <1> QED BY <1>1, <1>2, <1>3, <1>4, <1>5, <1>6, <1>7, <1>8, <1>9, <1>10 DEF Next

(* No script runs before the images; a step that is none of an image of    *)
(* this make runs none.                                                    *)
LEMMA ScriptedNone ==
    ASSUME TypeOK, at \in DOMAIN Targets, Targets[at] \in Pkg \cup {"root", "finalize"},
           config' = config, at' = at \/ (at' = at + 1 /\ step' = 0)
    PROVE  Scripted' = {}
  <1> SUFFICES ASSUME NEW i \in config.images, NEW k \in DOMAIN Targets, Targets[k] = i,
                      k < at' \/ (k = at' /\ step' >= 1)
               PROVE  FALSE
    BY DEF Scripted
  <1>1. at \in Nat /\ \A j \in DOMAIN Targets : j \in Nat
    BY RootIsFirst DEF TypeOK
  <1>2. i \in Image
    BY RootFsAssumption DEF TypeOK
  <1>3. k < at
    <2>1. k <= at
      BY <1>1
    <2>2. k # at
      BY <1>2, RootFsAssumption DEF Other
    <2> QED BY <1>1, <2>1, <2>2
  <1>4. PICK f \in DOMAIN Targets : Targets[f] = "finalize"
    BY TargetsAssumption DEF Other
  <1>5. f < k
    <2>1. f # k
      BY <1>2, <1>4, RootFsAssumption DEF Other
    <2> QED BY <1>1, <1>2, <1>4, <2>1, TargetsAssumption
  <1>6. Behind("finalize")
    BY <1>1, <1>3, <1>4, <1>5 DEF Behind
  <1> QED BY <1>6, FinalizeBetween

LEMMA ScriptedSame ==
    ASSUME TypeOK, config' = config, at \in DOMAIN Targets => Targets[at] \notin config.images,
           at' = at \/ (at' = at + 1 /\ step' = 0)
    PROVE  Scripted' \subseteq Scripted
  <1>1. at \in Nat /\ \A k \in DOMAIN Targets : k \in Nat
    BY RootIsFirst DEF TypeOK
  <1>2. ASSUME NEW k \in DOMAIN Targets, Targets[k] \in config.images,
               k < at' \/ (k = at' /\ step' >= 1)
        PROVE  k < at
    BY <1>1, <1>2
  <1> QED BY <1>2 DEF Scripted

LEMMA ScriptedOne ==
    ASSUME TypeOK, NEW i, Making(i), config' = config,
           (at' = at /\ step' \in {1, 2}) \/ (at' = at + 1 /\ step' = 0)
    PROVE  /\ Scripted' \subseteq Scripted \cup {i}
           /\ i \in config.images /\ step >= 1 => i \in Scripted
  <1>1. at \in Nat /\ \A k \in DOMAIN Targets : k \in Nat
    BY RootIsFirst DEF TypeOK
  <1>2. ASSUME NEW k \in DOMAIN Targets, k < at' \/ (k = at' /\ step' >= 1)
        PROVE  k < at \/ Targets[k] = i
    BY <1>1, <1>2
  <1>3. Scripted' \subseteq Scripted \cup {i}
    BY <1>2 DEF Scripted
  <1> QED BY <1>3 DEF Scripted

LEMMA DrawnAreScripted == DrawnSoFar \subseteq Scripted
  BY DEF DrawnSoFar, Scripted

(* At an image every package this make asked for has been made.            *)
LEMMA PackagesDone ==
    ASSUME TypeOK, PackagesMade, phase = "making", at \in DOMAIN Targets, Targets[at] \in Image
    PROVE  config.pkgs \subseteq installed \cup fragments
  <1> SUFFICES ASSUME NEW p \in config.pkgs PROVE p \in installed \cup fragments
    OBVIOUS
  <1>1. p \in Pkg
    BY RootFsAssumption DEF TypeOK
  <1>2. PICK k \in DOMAIN Targets : Targets[k] = p
    BY <1>1, TargetsAssumption
  <1>3. k < at
    BY <1>1, <1>2, ImagesAreLate
  <1> QED BY <1>2, <1>3 DEF PackagesMade

(* What a tool reads when nothing was broken off and makedevs was silent   *)
(* is what the configuration asks for.                                     *)
LEMMA ExactTree ==
    ASSUME TypeOK, Steps, SkeletonThere, ProgramsThere, PackagesMade, Installed, OfOneConfig,
           Finalized, phase = "making", NEW i \in Image, at \in DOMAIN Targets,
           Targets[at] = i, i # Carrier, spoiled = {}, NEW full, ~Session(i, full).said
    PROVE  ExactBut(Session(i, full).tree, dropped \cup (installed \cap Swept))
  <1> DEFINE t == Session(i, full).tree
             plain == config.pkgs \ FragPkg
  <1>1. /\ config \in Configs /\ config.pkgs \subseteq Pkg /\ fragments \subseteq FragPkg
        /\ plain \subseteq Pkg
    BY ConfigFacts DEF TypeOK
  <1>2. NoLeftover(t) /\ NoLeftover(target)
        /\ ("devel" \in config.keep => \A p \in staged : Header(p) \in DOMAIN target)
    BY FinalizeBetween, SessionLeaves DEF Finalized
  <1>3. Holds(t)
    BY SessionHolds
  <1>4. /\ DOMAIN t \subseteq (DOMAIN target \ SweptPages) \cup {InitLink}
                        \cup Placed(config.table) \cup {Program(p) : p \in fragments}
        /\ Placed(config.table) \subseteq DOMAIN t
        /\ DOMAIN target \ SweptPages \subseteq DOMAIN t
    BY <1>1, SessionAdds, SessionKeeps
  <1> HIDE DEF t
  <1>5. plain \subseteq installed /\ installed \subseteq staged
        /\ \A p \in installed \ dropped : Manual(p) \in DOMAIN target
    BY <1>1, PackagesDone DEF Installed, Emptied
  <1>6. ASSUME NEW p \in plain, p \notin dropped \cup (installed \cap Swept)
        PROVE  Manual(p) \in DOMAIN t
    BY <1>1, <1>4, <1>5, <1>6, SweptPagesOf
  <1>7. ASSUME fresh
        PROVE  DOMAIN t \ {InitLink} = AskedFor
    <2>1. /\ fragments \subseteq config.pkgs /\ DOMAIN target \subseteq MayHold
          /\ ("manual" \in config.keep => dropped \subseteq Unkept)
      BY <1>7 DEF OfOneConfig
    <2>2. AskedFor \subseteq DOMAIN t
      <3>1. "devel" \in config.keep => {Header(p) : p \in plain} \subseteq DOMAIN t
        BY <1>1, <1>2, <1>4, <1>5, SweptPagesOf
      <3>2. "manual" \in config.keep => {Manual(p) : p \in plain \ Unkept} \subseteq DOMAIN t
        <4>1. Swept \subseteq Unkept
          BY <1>1, <2>1 DEF Swept, Unkept
        <4> QED BY <1>6, <2>1, <4>1
      <3> QED BY <1>3, <1>4, <3>1, <3>2 DEF AskedFor, Holds
    <2>3. InitLink \notin AskedFor
      <3>1. InitLink \notin Entry \cup Headers \cup Manuals \cup Placed(config.table)
        BY <1>1, TableAssumption, FilesApart, ConfigFacts
      <3>2. InitLink \notin {Program(p) : p \in config.pkgs}
        BY <1>1, FilesApart
      <3>3. {Header(p) : p \in plain} \subseteq Headers /\ {Manual(p) : p \in plain} \subseteq Manuals
        BY <1>1 DEF Headers, Manuals
      <3>4. {Manual(p) : p \in plain \ Unkept} \subseteq Manuals
        BY <3>3
      <3> QED BY <3>1, <3>2, <3>3, <3>4 DEF AskedFor
    <2>4. ASSUME NEW q \in DOMAIN t, q # InitLink
          PROVE  q \in AskedFor
      <3>1. q \in MayHold
        BY <1>4, <2>1, <2>4 DEF MayHold
      <3>2. ASSUME q \in {Header(p) : p \in plain}
            PROVE  "devel" \in config.keep
        BY <1>1, <1>2, <3>2 DEF NoLeftover, Headers
      <3>3. ASSUME NEW p \in plain, q = Manual(p)
            PROVE  "manual" \in config.keep /\ p \notin Unkept
        <4>1. q \in Manuals
          BY <1>1, <3>3 DEF Manuals
        <4>2. "manual" \in config.keep
          BY <1>2, <2>4, <4>1 DEF NoLeftover
        <4>3. q \notin SweptPages
          <5>1. q \notin {Program(g) : g \in fragments}
            BY <1>1, <4>1, Apart, RootFsAssumption
          <5>2. q \notin Placed(config.table) \cup {InitLink}
            BY <1>1, <4>1, ConfigFacts, FilesApart
          <5> QED BY <1>4, <2>4, <5>1, <5>2
        <4>4. ASSUME p \in Unkept
              PROVE  FALSE
          <5>1. PICK f : f \in config.pkgs \cap FragPkg
            BY <4>4 DEF Unkept
          <5>2. f \in fragments
            BY <5>1, PackagesDone DEF TypeOK
          <5>3. p \in Swept
            BY <4>4, <5>2 DEF Unkept, Swept
          <5> QED BY <3>3, <4>3, <5>3 DEF SweptPages
        <4> QED BY <4>2, <4>4
      <3>4. q \in {Manual(p) : p \in plain} =>
               "manual" \in config.keep /\ q \in {Manual(p) : p \in plain \ Unkept}
        BY <3>3
      <3> QED BY <2>4, <3>1, <3>2, <3>4 DEF MayHold, AskedFor
    <2> QED BY <2>2, <2>3, <2>4
  <1> QED BY <1>6, <1>7 DEF ExactBut, t

LEMMA ContentsNext ==
    IInv /\ Installed /\ OfOneConfig /\ Finalized /\ Contents /\ [Next]_vars => Contents'
  <1> SUFFICES ASSUME IInv, Installed, OfOneConfig, Finalized, Contents, [Next]_vars
               PROVE  Contents'
    OBVIOUS
  <1>0. TypeOK /\ Steps /\ SkeletonThere /\ ProgramsThere /\ PackagesMade /\ Drawing /\ Packing
    BY DEF IInv
  (* A step that runs no script, while nothing else changes ... *)
  <1>a. ASSUME phase \in {"making", "done"}, config' = config, image' = image, past' = past,
               Scripted' \subseteq Scripted
        PROVE  Contents'
    BY <1>a DEF Contents, NoLeftover, HasNodes, Exact, ExactBut, AskedFor, Unkept, past
  (* ... or before any script was run. *)
  <1>b. ASSUME Scripted' = {}
        PROVE  Contents'
    BY <1>b DEF Contents
  <1>1. CASE Make
    <2>1. Scripted' = {}
      BY <1>1, RootIsFirst DEF Make, Scripted
    <2> QED BY <1>b, <2>1
  <1>2. CASE Skip
    <2>1. Targets[at] \notin config.images
      BY <1>0, <1>2, RootFsAssumption DEF Skip, Wanted, TypeOK
    <2>2. Scripted' \subseteq Scripted
      BY <1>0, <1>2, <2>1, ScriptedSame DEF Skip
    <2> QED BY <1>2, <1>a, <2>2 DEF Skip, tool
  <1>3. CASE Finish
    <2>1. Scripted' \subseteq Scripted
      BY <1>3 DEF Finish, Scripted
    <2> QED BY <1>3, <1>a, <2>1 DEF Finish, tool
  <1>4. CASE TestBin \/ CopyEntry \/ TouchRoot \/ Finalize
    <2>1. /\ at \in DOMAIN Targets /\ Targets[at] \in {"root", "finalize"} /\ config' = config
          /\ at' = at \/ (at' = at + 1 /\ step' = 0)
      BY <1>4 DEF TestBin, CopyEntry, TouchRoot, Finalize
    <2> QED BY <1>0, <1>b, <2>1, ScriptedNone
  <1>5. ASSUME NEW p \in Pkg, Install(p)
        PROVE  Contents'
    <2>1. /\ at \in DOMAIN Targets /\ Targets[at] = p /\ config' = config
          /\ at' = at + 1 /\ step' = 0
      BY <1>5 DEF Install
    <2> QED BY <1>0, <1>b, <2>1, ScriptedNone
  <1>6. ASSUME NEW i \in Image, RunScript(i)
        PROVE  Contents'
    <2>1. /\ i \in config.images /\ Making(i) /\ step = 0 /\ config' = config
          /\ UNCHANGED <<spoiled, fresh>> /\ dropped' = dropped \cup (installed \cap Swept)
      BY <1>6 DEF RunScript
    <2>2. Scripted' \subseteq Scripted \cup {i}
      <3>1. Proceed(i)
        BY <1>6 DEF RunScript
      <3> QED BY <1>0, <2>1, <3>1, ProceedMoves, ScriptedOne
    <2>3. PICK full : LET s == Session(i, full) IN
             /\ image' = [image EXCEPT ![i] = IF i = Carrier THEN Product(Carried)
                                              ELSE Whole(s.tree)]
             /\ said' = IF s.said THEN said \cup {i} ELSE said \ {i}
      BY <1>6 DEF RunScript
    <2> DEFINE s == Session(i, full)
               gone == dropped \cup (installed \cap Swept)
               good(t) == /\ HasNodes(t, ReachedNodes(config.table))
                          /\ spoiled = {} => ExactBut(t, gone)
    <2>4. /\ image'[i] = IF i = Carrier THEN Product(Carried) ELSE Whole(s.tree)
          /\ \A j \in Image \ {i} : image'[j] = image[j]
      BY <1>0, <2>3 DEF TypeOK, FilesOK
    <2>5. (i \in said' <=> s.said) /\ \A j : j # i => (j \in said' <=> j \in said)
      <3>1. s.said \in BOOLEAN
        BY <1>0, SessionAdds DEF TypeOK
      <3> QED BY <2>3, <3>1
    <2>6. NoLeftover(s.tree)
      BY <1>0, <2>1, FinalizeBetween, SessionLeaves DEF Finalized
    <2>7. i # Carrier /\ ~s.said => good(s.tree)
      <3>1. i # Carrier /\ ~s.said => HasNodes(s.tree, ReachedNodes(config.table))
        BY <1>0, SessionAdds DEF TypeOK
      <3> QED BY <1>0, <2>1, <3>1, ExactTree, Zenon
    <2>8. i = Carrier => NoLeftover(Product(Carried).tree)
      <3>1. i = Carrier => Carried \in DrawnSoFar
        BY <1>0, <2>1, CarriedFirst
      <3> QED BY <1>0, <2>1, <3>1, DrawnAreScripted DEF Drawing, Contents
    <2>9. i # Carrier => image'[i].tree = s.tree
      BY <2>4 DEF Whole
    <2> HIDE DEF s
    <2>10. \A t : /\ NoLeftover(t) => NoLeftover(t)'
                  /\ good(t) => /\ HasNodes(t, ReachedNodes(config.table))'
                                /\ spoiled' = {} => Exact(t)'
      <3>1. \A t : Exact(t)' = ExactBut(t, gone)
        BY <2>1 DEF Exact, ExactBut, AskedFor, Unkept
      <3>2. \A t : /\ NoLeftover(t)' = NoLeftover(t)
                   /\ HasNodes(t, ReachedNodes(config.table))' = HasNodes(t, ReachedNodes(config.table))
        BY <2>1 DEF NoLeftover, HasNodes
      <3> QED BY <2>1, <3>1, <3>2
    <2>12. \A t : Exact(t) => ExactBut(t, gone)
      BY DEF Exact, ExactBut
    <2>11. ASSUME NEW j \in Scripted'
           PROVE  /\ NoLeftover(image'[j].tree)
                  /\ j \notin said' \cup {Carrier} => good(image'[j].tree)
      <3>1. CASE j = i
        BY <2>4, <2>5, <2>6, <2>7, <2>8, <2>9, <3>1
      <3>2. CASE j # i
        <4>1. j \in Scripted /\ j \in Image
          BY <1>0, <2>2, <3>2, RootFsAssumption DEF Scripted, TypeOK
        <4>2. NoLeftover(image[j].tree)
          BY <2>1, <4>1 DEF Contents
        <4>3. j \notin said' \cup {Carrier} => good(image[j].tree)
          BY <2>1, <2>5, <2>12, <3>2, <4>1 DEF Contents
        <4> QED BY <2>4, <3>2, <4>1, <4>2, <4>3
      <3> QED BY <3>1, <3>2
    <2> QED BY <2>10, <2>11 DEF Contents
  <1>7. ASSUME NEW i \in Image, Compress(i) \/ CopyOut(i)
        PROVE  Contents'
    <2>1. /\ i \in config.images /\ Making(i) /\ step \in {1, 2} /\ config' = config
          /\ image' = image /\ past' = past /\ Proceed(i)
      BY <1>7 DEF Compress, CopyOut
    <2>2. i \in Scripted /\ Scripted' \subseteq Scripted \cup {i}
      BY <1>0, <2>1, ProceedMoves, ScriptedOne
    <2> QED BY <1>a, <2>1, <2>2
  <1>8. CASE EraseFakeroots
    <2>1. Targets[at] \notin config.images
      BY <1>0, <1>8, RootFsAssumption DEF EraseFakeroots, Other, TypeOK
    <2>2. Scripted' \subseteq Scripted
      BY <1>0, <1>8, <2>1, ScriptedSame DEF EraseFakeroots
    <2> QED BY <1>8, <1>a, <2>2 DEF EraseFakeroots, tool
  <1>9. CASE Configure \/ Break \/ Clean \/ RemoveTarget \/ RemoveBuild \/ BreakClean
    <2>1. phase' \notin {"making", "done"}
      BY <1>0, <1>9 DEF Configure, Break, Clean, RemoveTarget, RemoveBuild, BreakClean, TypeOK
    <2> QED BY <2>1 DEF Contents
  <1>10. CASE UNCHANGED vars
    BY <1>10 DEF vars, tool, past, Contents, Scripted, NoLeftover, HasNodes, Exact, ExactBut,
                AskedFor, Unkept
  <1> QED BY <1>1, <1>2, <1>3, <1>4, <1>5, <1>6, <1>7, <1>8, <1>9, <1>10 DEF Next

CInv == IInv /\ Installed /\ OfOneConfig /\ Finalized /\ Contents

LEMMA CInvInit == Init => CInv
  <1> SUFFICES ASSUME Init PROVE CInv
    OBVIOUS
  <1>1. DOMAIN target = {}
    BY DEF Init, NoTree
  <1>2. Installed /\ OfOneConfig
    BY <1>1 DEF Init, Installed, OfOneConfig
  <1>3. Finalized /\ Contents
    BY DEF Init, Finalized, Contents
  <1> QED BY <1>2, <1>3, IInvInit DEF CInv

LEMMA CInvNext == CInv /\ [Next]_vars => CInv'
  BY IInvNext, InstalledNext, OfOneConfigNext, FinalizedNext, ContentsNext DEF CInv, IInv

LEMMA ContentsInvariance == Spec => []CInv
  BY CInvInit, CInvNext, PTL DEF Spec

(* The content of a product is that of the image. *)
LEMMA MadeContents ==
    ASSUME CInv, NEW i \in Made
    PROVE  /\ NoLeftover(Content(i))
           /\ i \notin said \cup {Carrier} =>
                 /\ HasNodes(Content(i), ReachedNodes(config.table))
                 /\ spoiled = {} => Exact(Content(i))
  <1>1. phase = "done" /\ i \in config.images
    BY DEF Made
  <1>2. i \in DrawnSoFar /\ i \in Scripted
    BY <1>1, AllDrawn, DrawnAreScripted DEF CInv
  <1>3. Content(i) = image[i].tree
    BY <1>1, <1>2 DEF CInv, IInv, Drawing, Content
  <1> QED BY <1>1, <1>2, <1>3 DEF CInv, Contents

(* No image of a make that ended well holds a header or a manual page that *)
(* was not asked for, or a program that is not stripped, but for those the *)
(* fragments of the fakeroot script install: target-finalize runs after    *)
(* the packages and before every image, and what the scripts of the images *)
(* and the device table add is none of that.                               *)
THEOREM NothingStays == Spec => []NothingLeftOver
  <1>1. CInv => NothingLeftOver
    BY MadeContents DEF NothingLeftOver, NoLeftover
  <1> QED BY ContentsInvariance, <1>1, PTL

(* Every image for which makedevs was silent, the carrier aside, holds     *)
(* each node the table of the configuration asks for, except for the end   *)
(* of a numbering that does not begin with 0, which its loop does not come *)
(* to (DevicesDocumented), with the type and minor number that is asked    *)
(* for, whatever plain files earlier images left at their paths.           *)
THEOREM WithDevices == Spec => []DevicesMade
  <1>1. CInv => DevicesMade
    BY MadeContents DEF DevicesMade, HasNodes
  <1> QED BY ContentsInvariance, <1>1, PTL

(* From a build directory of one configuration, over makes that failed or  *)
(* were killed, an image holds what the configuration asks for and nothing *)
(* else, without the ends of numberings and, with a fragment like that of  *)
(* nfs-utils, without the manual pages of usr/share/man; over changes of   *)
(* the configuration, the manual pages that neither target-finalize nor a  *)
(* fragment removed since their package was installed.                     *)
THEOREM AsAsked == Spec => []ExactlyAskedFor
  <1>1. CInv => ExactlyAskedFor
    BY MadeContents DEF ExactlyAskedFor, Exact, ExactBut
  <1> QED BY ContentsInvariance, <1>1, PTL
=============================================================================
