---------------------------- MODULE ParserProofs ----------------------------
(***************************************************************************)
(* The links the parser puts between the entries follow the text, for all  *)
(* texts, files and symbols (OrderKept).  What menu_finalize and           *)
(* sym_check_deps do with the tree is a parameter: nothing is assumed of   *)
(* it.                                                                     *)
(***************************************************************************)
EXTENDS Parser, FiniteSetTheorems, SequenceTheorems, WellFoundedInduction, TLAPS

-----------------------------------------------------------------------------
(* The inductive invariant                                                 *)

Kinds == {"config", "comment", "menu", "choice", "if"}

FileNames == Files \cup {"no file"}

EntrySyms == Config \cup Range(ChoiceSym) \cup {NoSym}

EntryRecords == [kind : Kinds, sym : EntrySyms, file : FileNames]

TreeFields == DOMAIN NewTree

Typed(t) ==
    /\ DOMAIN t = TreeFields
    /\ t.entry \in Seq(EntryRecords)
    /\ t.parent \in [Entries(t) -> Nat] /\ t.parent \in Seq(Nat)
    /\ t.list \in [Entries(t) -> Nat] /\ t.list \in Seq(Nat)
    /\ t.next \in [Entries(t) -> Nat] /\ t.next \in Seq(Nat)

Slots == [of : Nat, in : {"list", "next"}]

Blocks == [id : Nat, kind : Kinds, file : Files]

TypeOK ==
    /\ stage \in {"parsing", "accepted", "rejected", "circular", "crashed"}
    /\ busy \in Seq(Files)
    /\ stage = "parsing" => busy # <<>>
    /\ Typed(tree)
    /\ last \in Slots
    /\ cur \in [menu : Nat, entry : Nat, open : BOOLEAN, ahead : BOOLEAN]
    /\ nest \in Seq(Blocks)

(* How n entries hang together: an entry is below an earlier one, what is  *)
(* below an entry follows it without a gap, a list begins with the entry   *)
(* that follows, and next passes over what is below.                       *)
Hangs(n, par, lst, nxt) ==
    /\ n \in Nat \ {0} /\ par[1] = 0
    /\ \A m \in 2..n : par[m] \in 1..(m - 1)
    /\ \A m \in 1..n : \A k \in (par[m] + 1)..m : par[k] >= par[m]
    /\ \A m \in 1..n : lst[m] = IF m < n /\ par[m + 1] = m THEN m + 1 ELSE 0
    /\ \A m \in 1..n : nxt[m] = 0 => \A k \in (m + 1)..n : par[k] >= m \/ par[k] < par[m]
    /\ \A m \in 1..n : nxt[m] # 0 => /\ nxt[m] \in (m + 1)..n
                                     /\ par[nxt[m]] = par[m]
                                     /\ \A k \in (m + 1)..(nxt[m] - 1) : par[k] >= m

(* The slot of the next entry of block p: its list when nothing is in it,  *)
(* else the next of its last entry, which is the only entry of it and of   *)
(* the blocks around it that has none.                                     *)
Fits(n, par, nxt, p, slot) ==
    /\ p \in 1..n
    /\ \A k \in (p + 1)..n : par[k] >= p
    /\ \A m \in 1..n : nxt[m] = 0 => \/ m <= p \/ p < par[m]
                                     \/ slot.in = "next" /\ slot.of = m
    /\ slot.in = "list" => slot.of = n /\ p = n
    /\ slot.in = "next" => /\ slot.of \in (p + 1)..n
                           /\ par[slot.of] = p /\ nxt[slot.of] = 0
                           /\ \A k \in (slot.of + 1)..n : par[k] >= slot.of

(* An open block is inside the one before it, and its entries come last.   *)
Opened(n, par, nxt, ids) ==
    \A i \in DOMAIN ids :
        /\ ids[i].id \in 2..n
        /\ par[ids[i].id] = IF i = 1 THEN Root ELSE ids[i - 1].id
        /\ nxt[ids[i].id] = 0
        /\ \A k \in (ids[i].id + 1)..n : par[k] >= ids[i].id
        /\ \A j \in 1..(i - 1) : ids[j].id < ids[i].id

(* A menu and a choice begin in the file of their entry. *)
Begun ==
    \A i \in DOMAIN nest :
        /\ nest[i].kind = tree.entry[nest[i].id].kind
        /\ nest[i].kind # "if" => nest[i].file = tree.entry[nest[i].id].file

Inv ==
    /\ TypeOK
    /\ Hangs(Len(tree.entry), tree.parent, tree.list, tree.next)
    /\ Fits(Len(tree.entry), tree.parent, tree.next, cur.menu, last)
    /\ Opened(Len(tree.entry), tree.parent, tree.next, nest)
    /\ cur.menu = IF nest = <<>> THEN Root ELSE Last(nest).id
    /\ Begun
    /\ crossed \subseteq {"if"}

-----------------------------------------------------------------------------
(* Adding an entry, as far as the links are concerned                      *)

Grown(n, par, lst, nxt, p, slot, par2, lst2, nxt2) ==
    \A m \in 1..(n + 1) :
        /\ par2[m] = IF m = n + 1 THEN p ELSE par[m]
        /\ lst2[m] = IF slot.in = "list" /\ m = slot.of THEN n + 1
                     ELSE IF m = n + 1 THEN 0 ELSE lst[m]
        /\ nxt2[m] = IF slot.in = "next" /\ m = slot.of THEN n + 1
                     ELSE IF m = n + 1 THEN 0 ELSE nxt[m]

LinkTypes(n, par, lst, nxt) ==
    \A m \in 1..n : par[m] \in Nat /\ lst[m] \in Nat /\ nxt[m] \in Nat

LEMMA GrownHangs ==
    ASSUME NEW n \in Nat \ {0}, NEW par, NEW lst, NEW nxt, NEW p, NEW slot \in Slots,
           NEW par2, NEW lst2, NEW nxt2,
           LinkTypes(n, par, lst, nxt), Hangs(n, par, lst, nxt),
           Fits(n, par, nxt, p, slot),
           Grown(n, par, lst, nxt, p, slot, par2, lst2, nxt2)
    PROVE  Hangs(n + 1, par2, lst2, nxt2)
<1>0. n + 1 \in Nat \ {0} /\ par2[1] = 0
  BY DEF Grown, Hangs
<1>1. \A m \in 1..n : par2[m] = par[m] /\ par[m] \in Nat
  BY DEF Grown, LinkTypes
<1>2. par2[n + 1] = p /\ p \in 1..n
  BY DEF Grown, Fits
<1>3. \A m \in 2..(n + 1) : par2[m] \in 1..(m - 1)
  BY <1>1, <1>2 DEF Hangs
<1>4. ASSUME NEW m \in 1..(n + 1), NEW k \in (par2[m] + 1)..m PROVE par2[k] >= par2[m]
  <2>1. CASE m \in 1..n
    BY <1>1, <2>1 DEF Hangs
  <2>2. CASE m = n + 1 /\ k \in 1..n
    BY <1>1, <1>2, <2>2 DEF Fits
  <2>3. CASE m = n + 1 /\ k = n + 1
    BY <1>2, <2>3
  <2> QED BY <2>1, <2>2, <2>3, <1>1, <1>2
<1>5. ASSUME NEW m \in 1..(n + 1)
      PROVE  lst2[m] = IF m < n + 1 /\ par2[m + 1] = m THEN m + 1 ELSE 0
  <2>1. CASE m = n + 1
    BY <2>1 DEF Grown, Fits
  <2>2. CASE m = n
    <3>1. lst[n] = 0
      BY DEF Hangs
    <3>2. CASE slot.in = "list"
      BY <1>2, <2>2, <3>2 DEF Grown, Fits
    <3>3. CASE slot.in = "next"
      <4>1. p < n
        BY <3>3 DEF Fits
      <4> QED BY <1>2, <2>2, <3>1, <3>3, <4>1 DEF Grown
    <3> QED BY <3>2, <3>3 DEF Slots
  <2>3. CASE m \in 1..(n - 1)
    BY <1>1, <2>3 DEF Grown, Hangs, Fits
  <2> QED BY <2>1, <2>2, <2>3
<1>6. ASSUME NEW m \in 1..(n + 1), nxt2[m] = 0, NEW k \in (m + 1)..(n + 1)
      PROVE  par2[k] >= m \/ par2[k] < par2[m]
  <2>0. m \in 1..n /\ nxt[m] = 0 /\ ~(slot.in = "next" /\ slot.of = m)
    BY <1>6 DEF Grown
  <2>1. CASE k \in 1..n
    BY <1>1, <2>0, <2>1 DEF Hangs
  <2>2. CASE k = n + 1
    BY <1>1, <1>2, <2>0, <2>2 DEF Fits
  <2> QED BY <2>1, <2>2
<1>7. ASSUME NEW m \in 1..(n + 1), nxt2[m] # 0
      PROVE  /\ nxt2[m] \in (m + 1)..(n + 1)
             /\ par2[nxt2[m]] = par2[m]
             /\ \A k \in (m + 1)..(nxt2[m] - 1) : par2[k] >= m
  <2>1. CASE slot.in = "next" /\ slot.of = m
    <3>1. m \in 1..n /\ nxt2[m] = n + 1 /\ par[m] = p
      BY <1>2, <2>1 DEF Grown, Fits
    <3>2. \A k \in (m + 1)..n : par[k] >= m
      BY <2>1 DEF Fits
    <3> QED BY <1>1, <1>2, <3>1, <3>2
  <2>2. CASE ~(slot.in = "next" /\ slot.of = m)
    <3>1. m \in 1..n /\ nxt2[m] = nxt[m] /\ nxt[m] # 0
      BY <1>7, <2>2 DEF Grown
    <3> QED BY <1>1, <3>1 DEF Hangs
  <2> QED BY <2>1, <2>2
<1> QED BY <1>0, <1>3, <1>4, <1>5, <1>6, <1>7 DEF Hangs

(* The next entry goes after the new one, or below it. *)
LEMMA GrownFits ==
    ASSUME NEW n \in Nat \ {0}, NEW par, NEW lst, NEW nxt, NEW p, NEW slot \in Slots,
           NEW par2, NEW lst2, NEW nxt2,
           LinkTypes(n, par, lst, nxt), Hangs(n, par, lst, nxt),
           Fits(n, par, nxt, p, slot),
           Grown(n, par, lst, nxt, p, slot, par2, lst2, nxt2)
    PROVE  /\ Fits(n + 1, par2, nxt2, p, After(n + 1))
           /\ Fits(n + 1, par2, nxt2, n + 1, Inside(n + 1))
<1>1. \A m \in 1..n : par2[m] = par[m] /\ par[m] \in Nat
  BY DEF Grown, LinkTypes
<1>2. par2[n + 1] = p /\ p \in 1..n /\ nxt2[n + 1] = 0
  BY DEF Grown, Fits
<1>3. \A k \in (p + 1)..(n + 1) : par2[k] >= p
  BY <1>1, <1>2 DEF Fits
<1>4. ASSUME NEW m \in 1..(n + 1), nxt2[m] = 0
      PROVE  m <= p \/ p < par2[m] \/ m = n + 1
  <2>1. CASE m \in 1..n
    <3>1. nxt[m] = 0 /\ ~(slot.in = "next" /\ slot.of = m)
      BY <1>4, <2>1 DEF Grown
    <3> QED BY <1>1, <1>2, <2>1, <3>1 DEF Fits
  <2> QED BY <2>1
<1>5. Fits(n + 1, par2, nxt2, p, After(n + 1))
  BY <1>2, <1>3, <1>4 DEF Fits, After
<1>6. Fits(n + 1, par2, nxt2, n + 1, Inside(n + 1))
  BY <1>2 DEF Fits, Inside
<1> QED BY <1>5, <1>6

LEMMA GrownOpened ==
    ASSUME NEW n \in Nat \ {0}, NEW par, NEW lst, NEW nxt, NEW p, NEW slot \in Slots,
           NEW par2, NEW lst2, NEW nxt2, NEW ids \in Seq(Blocks),
           LinkTypes(n, par, lst, nxt), Hangs(n, par, lst, nxt),
           Fits(n, par, nxt, p, slot), Opened(n, par, nxt, ids),
           p = IF ids = <<>> THEN Root ELSE Last(ids).id,
           Grown(n, par, lst, nxt, p, slot, par2, lst2, nxt2)
    PROVE  Opened(n + 1, par2, nxt2, ids)
<1>1. \A m \in 1..n : par2[m] = par[m] /\ par[m] \in Nat
  BY DEF Grown, LinkTypes
<1>2. par2[n + 1] = p /\ p \in 1..n
  BY DEF Grown, Fits
<1> SUFFICES ASSUME NEW i \in DOMAIN ids
             PROVE  /\ ids[i].id \in 2..(n + 1)
                    /\ par2[ids[i].id] = IF i = 1 THEN Root ELSE ids[i - 1].id
                    /\ nxt2[ids[i].id] = 0
                    /\ \A k \in (ids[i].id + 1)..(n + 1) : par2[k] >= ids[i].id
                    /\ \A j \in 1..(i - 1) : ids[j].id < ids[i].id
  BY DEF Opened
<1> DEFINE b == ids[i].id
<1>3. /\ b \in 2..n /\ nxt[b] = 0
      /\ par[b] = IF i = 1 THEN Root ELSE ids[i - 1].id
      /\ \A k \in (b + 1)..n : par[k] >= b
      /\ \A j \in 1..(i - 1) : ids[j].id < b
  BY DEF Opened
<1>4. b <= p
  <2>1. ids # <<>> /\ Len(ids) \in Nat /\ i \in 1..Len(ids) /\ DOMAIN ids = 1..Len(ids)
    OBVIOUS
  <2>2. p = ids[Len(ids)].id
    BY <2>1 DEF Last
  <2>3. i # Len(ids) => b < ids[Len(ids)].id
    BY <2>1 DEF Opened
  <2>4. ids[Len(ids)].id \in Nat /\ b \in Nat
    BY <2>1 DEF Opened
  <2> QED BY <2>2, <2>3, <2>4
<1> HIDE DEF b
<1>5. nxt2[b] = 0
  BY <1>2, <1>3, <1>4 DEF Grown, Fits
<1>6. \A k \in (b + 1)..(n + 1) : par2[k] >= b
  BY <1>1, <1>2, <1>3, <1>4
<1>7. par2[b] = par[b] /\ b \in 2..(n + 1)
  BY <1>1, <1>3
<1> QED BY <1>3, <1>5, <1>6, <1>7 DEF b

-----------------------------------------------------------------------------
(* Beginning and ending a block                                            *)

(* After what was the innermost block comes an entry of the one around it. *)
LEMMA EndedFits ==
    ASSUME NEW n \in Nat \ {0}, NEW par, NEW lst, NEW nxt, NEW p, NEW slot \in Slots,
           NEW ids \in Seq(Blocks),
           LinkTypes(n, par, lst, nxt), Hangs(n, par, lst, nxt),
           Fits(n, par, nxt, p, slot), Opened(n, par, nxt, ids),
           ids # <<>>, p = Last(ids).id
    PROVE  /\ Fits(n, par, nxt, par[p], After(p))
           /\ Opened(n, par, nxt, Front(ids))
           /\ par[p] = IF Front(ids) = <<>> THEN Root ELSE Last(Front(ids)).id
<1> DEFINE len == Len(ids)
           q == par[p]
<1>0. len \in Nat \ {0} /\ DOMAIN ids = 1..len
  OBVIOUS
<1>1. /\ len \in Nat \ {0} /\ DOMAIN ids = 1..len /\ p = ids[len].id
      /\ DOMAIN Front(ids) = 1..(len - 1) /\ Len(Front(ids)) = len - 1
      /\ Front(ids) \in Seq(Blocks)
      /\ \A i \in 1..(len - 1) : Front(ids)[i] = ids[i]
  <2>1. p = ids[len].id
    BY DEF Last
  <2>2. Front(ids) = SubSeq(ids, 1, len - 1)
    BY DEF Front
  <2> HIDE DEF len
  <2>3. SubSeq(ids, 1, len - 1) \in Seq(Blocks)
    BY <1>0
  <2>4. /\ Len(SubSeq(ids, 1, len - 1)) = len - 1
        /\ \A i \in 1..(len - 1) : SubSeq(ids, 1, len - 1)[i] = ids[i]
    BY <1>0
  <2>5. DOMAIN SubSeq(ids, 1, len - 1) = 1..(len - 1)
    BY <1>0, <2>3, <2>4
  <2> QED BY <1>0, <2>1, <2>2, <2>3, <2>4, <2>5
<1>2. /\ p \in 2..n /\ nxt[p] = 0 /\ \A k \in (p + 1)..n : par[k] >= p
      /\ q = IF len = 1 THEN Root ELSE ids[len - 1].id
  <2>1. len \in DOMAIN ids /\ p = ids[len].id
    BY <1>1
  <2> HIDE DEF len
  <2> QED BY <2>1 DEF Opened
<1> HIDE DEF q
<1>3. q \in 1..(p - 1) /\ \A m \in 1..n : par[m] \in Nat
  BY <1>2 DEF Hangs, LinkTypes, q
<1>4. \A k \in (q + 1)..n : par[k] >= q
  <2> TAKE k \in (q + 1)..n
  <2>1. CASE k <= p
    BY <1>2, <1>3, <2>1 DEF Hangs, q
  <2>2. CASE k > p
    BY <1>2, <1>3, <2>2
  <2> QED BY <1>2, <1>3, <2>1, <2>2
<1>5. ASSUME NEW m \in 1..n, nxt[m] = 0 PROVE m <= q \/ q < par[m] \/ m = p
  <2>1. CASE m < p
    BY <1>2, <1>3, <1>5, <2>1 DEF Hangs, q
  <2>2. CASE m > p
    BY <1>2, <1>3, <2>2
  <2> QED BY <1>2, <2>1, <2>2
<1>6. After(p) = [of |-> p, in |-> "next"]
  BY DEF After
<1>7. Fits(n, par, nxt, q, After(p))
  BY <1>2, <1>3, <1>4, <1>5, <1>6 DEF Fits, q
<1>8. Opened(n, par, nxt, Front(ids))
  <2> DEFINE front == Front(ids)
  <2> SUFFICES ASSUME NEW i \in DOMAIN front
               PROVE  /\ front[i].id \in 2..n
                      /\ par[front[i].id] = IF i = 1 THEN Root ELSE front[i - 1].id
                      /\ nxt[front[i].id] = 0
                      /\ \A k \in (front[i].id + 1)..n : par[k] >= front[i].id
                      /\ \A j \in 1..(i - 1) : front[j].id < front[i].id
    BY DEF Opened
  <2>1. i \in 1..(len - 1) /\ i \in DOMAIN ids
    BY <1>0, <1>1
  <2> HIDE DEF len
  <2>2. /\ front[i] = ids[i] /\ (i # 1 => front[i - 1] = ids[i - 1])
        /\ \A j \in 1..(i - 1) : front[j] = ids[j]
    BY <1>0, <1>1, <2>1
  <2> HIDE DEF front
  <2> QED BY <2>1, <2>2 DEF Opened
<1>9. q = IF Front(ids) = <<>> THEN Root ELSE Last(Front(ids)).id
  <2>1. CASE len = 1
    BY <1>1, <1>2, <2>1
  <2>2. CASE len # 1
    <3>1. Front(ids) # <<>> /\ Last(Front(ids)) = ids[len - 1]
      BY <1>1, <2>2 DEF Last
    <3> QED BY <1>2, <2>2, <3>1
  <2> QED BY <2>1, <2>2
<1> QED BY <1>7, <1>8, <1>9 DEF q

(* An entry that begins a block is the innermost one. *)
LEMMA BegunOpened ==
    ASSUME NEW n \in Nat \ {0}, NEW par, NEW nxt, NEW ids \in Seq(Blocks),
           NEW b \in Blocks, n >= 2, b.id = n, nxt[n] = 0,
           Opened(n, par, nxt, ids), \A i \in DOMAIN ids : ids[i].id < n,
           par[n] = IF ids = <<>> THEN Root ELSE Last(ids).id
    PROVE  Opened(n, par, nxt, Append(ids, b))
<1> DEFINE len == Len(ids)
           new == Append(ids, b)
<1>1. /\ len \in Nat /\ DOMAIN ids = 1..len /\ DOMAIN new = 1..(len + 1)
      /\ \A i \in 1..len : new[i] = ids[i]
      /\ new[len + 1] = b
      /\ ids = <<>> <=> len = 0
  OBVIOUS
<1>2. len # 0 => par[n] = ids[len].id
  BY <1>1 DEF Last
<1>3. len = 0 => par[n] = Root
  BY <1>1
<1> HIDE DEF new, len
<1> SUFFICES ASSUME NEW i \in 1..(len + 1)
             PROVE  /\ new[i].id \in 2..n
                    /\ par[new[i].id] = IF i = 1 THEN Root ELSE new[i - 1].id
                    /\ nxt[new[i].id] = 0
                    /\ \A k \in (new[i].id + 1)..n : par[k] >= new[i].id
                    /\ \A j \in 1..(i - 1) : new[j].id < new[i].id
  BY <1>1 DEF Opened, new
<1>4. CASE i \in 1..len
  <2>1. new[i] = ids[i] /\ (i # 1 => new[i - 1] = ids[i - 1])
    BY <1>1, <1>4
  <2>2. \A j \in 1..(i - 1) : new[j] = ids[j]
    BY <1>1, <1>4
  <2> QED BY <1>1, <1>4, <2>1, <2>2 DEF Opened
<1>5. CASE i = len + 1
  <2>1. new[i] = b /\ (i # 1 => new[i - 1] = ids[len])
    BY <1>1, <1>5
  <2>2. \A j \in 1..(i - 1) : new[j].id < n
    BY <1>1, <1>5
  <2> QED BY <1>1, <1>2, <1>3, <1>5, <2>1, <2>2
<1> QED BY <1>1, <1>4, <1>5

-----------------------------------------------------------------------------
(* The walk                                                                *)

LEMMA LeastNat ==
    ASSUME NEW T, T \subseteq Nat, T # {}
    PROVE  \E x \in T : \A y \in T : ~(y < x)
<1> DEFINE R == OpToRel(<, Nat)
<1>1. IsWellFoundedOn(R, Nat)
  BY NatLessThanWellFounded, Zenon
<1>2. \E x \in T : \A y \in T : ~(<<y, x>> \in R)
  <2> HIDE DEF R
  <2> QED BY <1>1, WFMin
<1>3. PICK x \in T : \A y \in T : ~(<<y, x>> \in R)
  BY <1>2, Zenon
<1>4. \A y \in T : y < x => <<y, x>> \in R
  BY DEF OpToRel
<1> HIDE DEF R
<1> QED BY <1>3, <1>4

(* Where a walk goes from an entry that has no list. *)
Walks(n, par, nxt, up) ==
    up = [k \in 1..n |-> IF nxt[k] # 0 THEN nxt[k]
                         ELSE IF par[k] = 0 THEN 0 ELSE up[par[k]]]

LEMMA HangsBelow ==
    ASSUME NEW n, NEW par, NEW lst, NEW nxt, Hangs(n, par, lst, nxt)
    PROVE  /\ n \in Nat \ {0} /\ par[1] = 0
           /\ \A m \in 1..n : par[m] \in Nat /\ par[m] < m
           /\ \A m \in 1..n : m # 1 => par[m] # 0
           /\ \A m \in 1..n : par[m] # 0 => par[m] \in 1..(m - 1)
<1>1. n \in Nat /\ par[1] = 0 /\ \A m \in 2..n : par[m] \in 1..(m - 1)
  BY DEF Hangs
<1>2. n # 0
  BY DEF Hangs
<1>3. \A m \in 1..n : m = 1 \/ m \in 2..n
  BY <1>1
<1> QED BY <1>1, <1>2, <1>3

(* The walk from an entry passes over what is below it: to the next entry  *)
(* below an earlier one.                                                   *)
LEMMA WalkIsNext ==
    ASSUME NEW n \in Nat \ {0}, NEW par \in [1..n -> Nat], NEW lst \in [1..n -> Nat],
           NEW nxt \in [1..n -> Nat], Hangs(n, par, lst, nxt),
           NEW up, Walks(n, par, nxt, up),
           NEW m \in 1..n
    PROVE  /\ up[m] = 0 => \A k \in (m + 1)..n : par[k] >= m
           /\ up[m] # 0 => /\ up[m] \in (m + 1)..n /\ par[up[m]] < m
                           /\ \A k \in (m + 1)..(up[m] - 1) : par[k] >= m
<1> DEFINE Passes(k) == /\ up[k] = 0 => \A j \in (k + 1)..n : par[j] >= k
                        /\ up[k] # 0 => /\ up[k] \in (k + 1)..n /\ par[up[k]] < k
                                        /\ \A j \in (k + 1)..(up[k] - 1) : par[j] >= k
           Bad == {k \in 1..n : ~Passes(k)}
<1> SUFFICES ASSUME ~Passes(m) PROVE FALSE
  OBVIOUS
<1> HIDE DEF Passes
<1>1. PICK k \in Bad : \A j \in Bad : ~(j < k)
  <2>1. Bad \subseteq Nat /\ m \in Bad
    OBVIOUS
  <2> HIDE DEF Bad
  <2> QED BY <2>1, LeastNat
<1>2. k \in 1..n /\ \A j \in 1..(k - 1) : Passes(j)
  BY <1>1
<1>3. up[k] = IF nxt[k] # 0 THEN nxt[k] ELSE IF par[k] = 0 THEN 0 ELSE up[par[k]]
  BY <1>2 DEF Walks
<1>4. par[k] < k /\ par[k] \in Nat /\ (par[k] = 0 <=> k = 1)
  BY <1>2, HangsBelow
<1> SUFFICES Passes(k)
  BY <1>1
<1> HIDE DEF Bad
<1>5. CASE nxt[k] # 0
  BY <1>2, <1>3, <1>4, <1>5 DEF Hangs, Passes
<1>6. CASE nxt[k] = 0 /\ par[k] = 0
  BY <1>2, <1>3, <1>4, <1>6 DEF Hangs, Passes
<1>7. CASE nxt[k] = 0 /\ par[k] # 0
  <2> DEFINE q == par[k]
  <2>1. q \in 1..(k - 1) /\ Passes(q) /\ up[k] = up[q]
    BY <1>2, <1>3, <1>4, <1>7
  <2>2. \A j \in (k + 1)..n : par[j] >= k \/ par[j] < q
    BY <1>2, <1>7 DEF Hangs
  <2>3. \A j \in (q + 1)..k : par[j] >= q
    BY <1>2 DEF Hangs
  <2> HIDE DEF q
  <2>0. /\ k \in Nat /\ n \in Nat /\ k <= n /\ q \in Nat /\ q < k /\ q >= 1
        /\ \A j \in 1..n : par[j] \in Nat
    BY <1>2, <2>1
  <2>4. CASE up[q] = 0
    <3>1. \A j \in (q + 1)..n : par[j] >= q
      BY <2>1, <2>4 DEF Passes
    <3>2. \A j \in (k + 1)..n : par[j] >= k
      BY <2>0, <2>2, <3>1
    <3> QED BY <2>1, <2>4, <3>2 DEF Passes
  <2>5. CASE up[q] # 0
    <3> DEFINE w == up[q]
    <3>1. /\ w \in (q + 1)..n /\ par[w] < q
          /\ \A j \in (q + 1)..(w - 1) : par[j] >= q
      BY <2>1, <2>5 DEF Passes
    <3>2. up[k] = w /\ w # 0
      BY <2>1, <2>5
    <3> HIDE DEF w
    <3>3. w > k
      BY <2>0, <2>3, <3>1
    <3>4. \A j \in (k + 1)..(w - 1) : par[j] >= k
      <4> TAKE j \in (k + 1)..(w - 1)
      <4>1. j \in (q + 1)..(w - 1) /\ j \in (k + 1)..n /\ j \in 1..n
        BY <2>0, <3>1
      <4> QED BY <2>0, <2>2, <3>1, <4>1
    <3>5. par[w] < k /\ w \in (k + 1)..n
      BY <2>0, <3>1, <3>3
    <3> QED BY <3>2, <3>4, <3>5 DEF Passes
  <2> QED BY <2>4, <2>5
<1> QED BY <1>5, <1>6, <1>7

(* There is such a walk. *)
LEMMA WalkExists ==
    ASSUME NEW n \in Nat \ {0}, NEW par \in [1..n -> Nat], NEW lst \in [1..n -> Nat],
           NEW nxt \in [1..n -> Nat], Hangs(n, par, lst, nxt)
    PROVE  \E up : Walks(n, par, nxt, up)
<1> DEFINE Out(m) == {k \in (m + 1)..n : par[k] < m}
           First(m) == IF Out(m) = {} THEN 0
                       ELSE CHOOSE k \in Out(m) : \A j \in Out(m) : ~(j < k)
           up == [m \in 1..n |-> First(m)]
<1>1. ASSUME NEW m \in 1..n
      PROVE  /\ Out(m) = {} => First(m) = 0
             /\ Out(m) # {} => First(m) \in Out(m) /\ \A j \in Out(m) : ~(j < First(m))
  <2>1. Out(m) \subseteq Nat
    OBVIOUS
  <2>2. Out(m) # {} => \E k \in Out(m) : \A j \in Out(m) : ~(j < k)
    <3> HIDE DEF Out
    <3> QED BY <2>1, LeastNat
  <2> HIDE DEF Out
  <2> QED BY <2>2
<1> HIDE DEF First
<1>2. ASSUME NEW m \in 1..n
      PROVE  up[m] = IF nxt[m] # 0 THEN nxt[m]
                     ELSE IF par[m] = 0 THEN 0 ELSE up[par[m]]
  <2>0. /\ par[m] < m /\ par[m] \in Nat /\ (par[m] = 0 <=> m = 1)
        /\ \A k \in 1..n : par[k] \in Nat
    BY HangsBelow
  <2>a. up[m] = First(m)
    OBVIOUS
  <2>b. \A k \in Out(m) : k \in (m + 1)..n /\ par[k] < m
    OBVIOUS
  <2>1. CASE nxt[m] # 0
    <3> DEFINE x == nxt[m]
               y == First(m)
    <3>1. x \in (m + 1)..n /\ par[x] < m /\ \A k \in (m + 1)..(x - 1) : par[k] >= m
      BY <2>0, <2>1 DEF Hangs
    <3>2. y \in Out(m) /\ ~(x < y)
      BY <1>1, <3>1
    <3>3. y \in (m + 1)..n /\ par[y] < m
      BY <2>b, <3>2
    <3> HIDE DEF x, y
    <3>4. y = x
      BY <2>0, <3>1, <3>2, <3>3
    <3> QED BY <2>1, <2>a, <3>4 DEF x, y
  <2>2. CASE nxt[m] = 0 /\ par[m] = 0
    <3>1. m = 1
      BY <2>0, <2>2
    <3>2. \A k \in 2..n : ~(par[k] < 1)
      BY DEF Hangs
    <3>3. Out(m) = {}
      BY <3>1, <3>2
    <3> QED BY <1>1, <2>2, <2>a, <3>3
  <2>3. CASE nxt[m] = 0 /\ par[m] # 0
    <3> DEFINE q == par[m]
    <3>0. q \in 1..(m - 1) /\ q \in 1..n
      BY <2>0, <2>3
    <3>1. \A k \in (m + 1)..n : par[k] >= m \/ par[k] < q
      BY <2>3 DEF Hangs
    <3>2. \A k \in (q + 1)..m : par[k] >= q
      BY DEF Hangs
    <3>3. up[q] = First(q)
      BY <3>0
    <3> HIDE DEF q
    <3>4. ASSUME NEW k \in Nat PROVE k \in Out(m) <=> k \in Out(q)
      <4>1. CASE k \in (q + 1)..m
        BY <2>0, <3>0, <3>2, <4>1
      <4>2. CASE k \in (m + 1)..n
        BY <2>0, <3>0, <3>1, <4>2
      <4> QED BY <2>0, <3>0, <4>1, <4>2
    <3>5. Out(m) \subseteq Nat /\ Out(q) \subseteq Nat
      BY <3>0
    <3> HIDE DEF Out
    <3>6. Out(m) = Out(q)
      BY <3>4, <3>5
    <3>7. First(m) = First(q)
      <4>1. CASE Out(m) = {}
        BY <1>1, <3>0, <3>6, <4>1
      <4>2. CASE Out(m) # {}
        <5>1. /\ First(m) \in Out(m) /\ \A j \in Out(m) : ~(j < First(m))
              /\ First(q) \in Out(m) /\ \A j \in Out(m) : ~(j < First(q))
          BY <1>1, <3>0, <3>6, <4>2
        <5> QED BY <3>5, <5>1
      <4> QED BY <4>1, <4>2
    <3> QED BY <2>3, <2>a, <3>3, <3>7 DEF q
  <2> QED BY <2>1, <2>2, <2>3
<1> HIDE DEF up
<1>3. DOMAIN up = 1..n /\ up = [m \in 1..n |-> up[m]]
  BY DEF up
<1>4. Walks(n, par, nxt, up)
  BY <1>2, <1>3 DEF Walks
<1> QED BY <1>4

(* Entries that hang together are linked as the text says. *)
LEMMA HangsLinked ==
    ASSUME NEW t, Typed(t), Hangs(Len(t.entry), t.parent, t.list, t.next)
    PROVE  Linked(t)
<1> DEFINE n == Len(t.entry)
           F(g) == [k \in 1..n |-> IF t.next[k] # 0 THEN t.next[k]
                                   ELSE IF t.parent[k] = 0 THEN 0 ELSE g[t.parent[k]]]
           up == CHOOSE g : g = F(g)
<1>1. /\ n \in Nat \ {0}
      /\ t.parent \in [1..n -> Nat] /\ t.list \in [1..n -> Nat] /\ t.next \in [1..n -> Nat]
  BY DEF Typed, Entries, Hangs
<1>2. Hangs(n, t.parent, t.list, t.next)
  OBVIOUS
<1> HIDE DEF n
<1>3. up = F(up)
  <2>1. \E g : g = F(g)
    BY <1>1, <1>2, WalkExists DEF Walks
  <2> QED BY <2>1
<1> HIDE DEF up
<1>4. ASSUME NEW m \in 1..n
      PROVE  Follower(t, m) = IF t.list[m] # 0 THEN t.list[m] ELSE up[m]
  BY <1>4 DEF Follower, Entries, Null, up, n
<1>5. ASSUME NEW m \in 1..n
      PROVE  Follower(t, m) = IF m = n THEN 0 ELSE m + 1
  <2>1. /\ up[m] = 0 => \A k \in (m + 1)..n : t.parent[k] >= m
        /\ up[m] # 0 => /\ up[m] \in (m + 1)..n /\ t.parent[up[m]] < m
                        /\ \A k \in (m + 1)..(up[m] - 1) : t.parent[k] >= m
    <3>1. Walks(n, t.parent, t.next, up)
      BY <1>3 DEF Walks
    <3> QED BY <1>1, <1>2, <3>1, WalkIsNext
  <2>2. t.list[m] = IF m < n /\ t.parent[m + 1] = m THEN m + 1 ELSE 0
    BY <1>2 DEF Hangs
  <2>3. CASE m = n
    BY <1>1, <1>4, <2>1, <2>2, <2>3
  <2>4. CASE m < n /\ t.parent[m + 1] = m
    BY <1>1, <1>4, <2>2, <2>4
  <2>5. CASE m < n /\ t.parent[m + 1] # m
    <3>1. t.parent[m + 1] < m
      <4>1. m + 1 \in 2..n
        BY <1>1, <2>5
      <4>2. t.parent[m + 1] \in 1..m
        BY <1>2, <4>1 DEF Hangs
      <4> QED BY <2>5, <4>2
    <3>2. up[m] = m + 1
      BY <1>1, <2>1, <2>5, <3>1
    <3> QED BY <1>4, <2>2, <2>5, <3>2
  <2> QED BY <1>1, <2>3, <2>4, <2>5
<1>6. ASSUME NEW m \in 1..n
      PROVE  /\ t.list[m] # 0 => t.parent[t.list[m]] = m
             /\ t.next[m] # 0 => t.parent[t.next[m]] = t.parent[m]
  BY <1>1, <1>2 DEF Hangs
<1> QED BY <1>5, <1>6 DEF Linked, Entries, Null, n

-----------------------------------------------------------------------------
(* Trees                                                                   *)

(* Properties and dependencies do not touch the links. *)
SameLinks(t, u) ==
    /\ DOMAIN u = DOMAIN t /\ u.entry = t.entry
    /\ u.parent = t.parent /\ u.list = t.list /\ u.next = t.next

LEMMA Fields ==
    TreeFields = {"entry", "parent", "list", "next", "dep", "prompt", "props", "rev", "choice"}
BY DEF TreeFields, NewTree

LEMMA AddPropLinks ==
    ASSUME NEW t, Typed(t), NEW kind, NEW m, NEW val, NEW vis
    PROVE  SameLinks(t, AddProp(t, kind, m, val, vis))
<1> DEFINE u == [t EXCEPT !.props = Append(@, [kind |-> kind, menu |-> m,
                                               vis |-> vis, val |-> val])]
           w == [u EXCEPT !.prompt[m] = Len(u.props)]
<1>1. DOMAIN t = TreeFields
  BY DEF Typed
<1>2. SameLinks(t, u)
  BY <1>1, Fields DEF SameLinks
<1>3. DOMAIN u = TreeFields
  BY <1>1, <1>2 DEF SameLinks
<1> HIDE DEF u
<1>4. SameLinks(u, w)
  BY <1>3, Fields DEF SameLinks
<1>5. SameLinks(t, w)
  BY <1>2, <1>4 DEF SameLinks
<1>6. AddProp(t, kind, m, val, vis) = IF kind = "prompt" THEN w ELSE u
  BY DEF AddProp, u
<1> HIDE DEF w
<1> QED BY <1>2, <1>5, <1>6

LEMMA AddDepLinks ==
    ASSUME NEW t, Typed(t), NEW m, NEW e
    PROVE  SameLinks(t, AddDep(t, m, e))
<1>1. DOMAIN t = TreeFields
  BY DEF Typed
<1> DEFINE dep == [t.dep EXCEPT ![m] = Join("and", @, e)]
<1>2. AddDep(t, m, e) = [t EXCEPT !.dep = dep]
  BY DEF AddDep
<1> HIDE DEF dep
<1> QED BY <1>1, <1>2, Fields DEF SameLinks

LEMMA SameTyped ==
    ASSUME NEW t, NEW u, Typed(t), SameLinks(t, u)
    PROVE  Typed(u)
BY DEF Typed, SameLinks, Entries

LEMMA AppendNat ==
    ASSUME NEW k \in Nat, NEW s \in Seq(Nat), Len(s) = k, NEW e \in Nat,
           NEW w, w = Append(s, e)
    PROVE  /\ w \in Seq(Nat) /\ w \in [1..(k + 1) -> Nat] /\ DOMAIN w = 1..(k + 1)
           /\ \A i \in 1..(k + 1) : w[i] = IF i = k + 1 THEN e ELSE s[i]
<1>1. /\ w \in Seq(Nat) /\ Len(w) = k + 1 /\ DOMAIN w = 1..(k + 1) /\ w[k + 1] = e
      /\ \A i \in 1..k : w[i] = s[i]
  OBVIOUS
<1>2. \A i \in 1..(k + 1) : w[i] \in Nat
  BY <1>1
<1>3. \A i \in 1..(k + 1) : w[i] = IF i = k + 1 THEN e ELSE s[i]
  BY <1>1
<1>4. w = [i \in 1..(k + 1) |-> w[i]]
  BY ONLY <1>1
<1>5. w \in [1..(k + 1) -> Nat]
  BY <1>2, <1>4
<1> QED BY <1>1, <1>3, <1>5

LEMMA SetAt ==
    ASSUME NEW k \in Nat, NEW s \in Seq(Nat), DOMAIN s = 1..k, NEW j \in 1..k, NEW e \in Nat
    PROVE  /\ [s EXCEPT ![j] = e] \in Seq(Nat)
           /\ [s EXCEPT ![j] = e] \in [1..k -> Nat]
           /\ \A m \in 1..k : [s EXCEPT ![j] = e][m] = IF m = j THEN e ELSE s[m]
<1>1. s \in [1..k -> Nat]
  <2>1. \A m \in 1..Len(s) : s[m] \in Nat
    OBVIOUS
  <2>2. DOMAIN s = 1..Len(s) /\ s = [m \in DOMAIN s |-> s[m]]
    OBVIOUS
  <2> QED BY <2>1, <2>2
<1> QED BY <1>1

(* menu_add_entry *)
LEMMA AddEntryLinks ==
    ASSUME NEW t, Typed(t), NEW kind \in Kinds, NEW sym \in EntrySyms,
           NEW file \in FileNames, NEW menu \in Nat, NEW slot \in Slots,
           slot.of \in Entries(t)
    PROVE  LET n == Len(t.entry)
               u == AddEntry(t, kind, sym, file, menu, slot)
           IN  /\ n \in Nat /\ Typed(u) /\ Len(u.entry) = n + 1
               /\ u.entry[n + 1] = [kind |-> kind, sym |-> sym, file |-> file]
               /\ \A i \in 1..n : u.entry[i] = t.entry[i]
               /\ LinkTypes(n, t.parent, t.list, t.next)
               /\ Grown(n, t.parent, t.list, t.next, menu, slot, u.parent, u.list, u.next)
<1> DEFINE n == Len(t.entry)
           rec == [kind |-> kind, sym |-> sym, file |-> file]
           entry == Append(t.entry, rec)
           parent == Append(t.parent, menu)
           list0 == Append(t.list, Null)
           next0 == Append(t.next, Null)
           list == IF slot.in = "list" THEN [list0 EXCEPT ![slot.of] = n + 1] ELSE list0
           next == IF slot.in = "list" THEN next0 ELSE [next0 EXCEPT ![slot.of] = n + 1]
           dep == Append(t.dep, NoExpr)
           prompt == Append(t.prompt, Null)
           v == [t EXCEPT !.entry = entry, !.parent = parent, !.list = list0,
                          !.next = next0, !.dep = dep, !.prompt = prompt]
           u == AddEntry(t, kind, sym, file, menu, slot)
<1>1. /\ DOMAIN t = TreeFields /\ t.entry \in Seq(EntryRecords) /\ n \in Nat
      /\ t.parent \in Seq(Nat) /\ t.list \in Seq(Nat) /\ t.next \in Seq(Nat)
  BY DEF Typed
<1>2. Len(t.parent) = n /\ Len(t.list) = n /\ Len(t.next) = n
  <2>1. DOMAIN t.parent = 1..n /\ DOMAIN t.list = 1..n /\ DOMAIN t.next = 1..n
    BY DEF Typed, Entries
  <2>2. ASSUME NEW s \in Seq(Nat), DOMAIN s = 1..n PROVE Len(s) = n
    <3>1. Len(s) \in Nat /\ DOMAIN s = 1..Len(s)
      OBVIOUS
    <3> QED BY <1>1, <2>2, <3>1
  <2> QED BY <1>1, <2>1, <2>2
<1>3. rec \in EntryRecords
  BY DEF EntryRecords
<1>4. /\ entry \in Seq(EntryRecords) /\ Len(entry) = n + 1 /\ entry[n + 1] = rec
      /\ \A i \in 1..n : entry[i] = t.entry[i]
  <2> HIDE DEF rec
  <2> QED BY <1>1, <1>3
<1>5. Null \in Nat
  BY DEF Null
<1>a. \A m \in 1..n : t.parent[m] \in Nat /\ t.list[m] \in Nat /\ t.next[m] \in Nat
  BY DEF Typed, Entries
<1>12. slot.of \in 1..n
  BY DEF Entries
<1>9. u = IF slot.in = "list" THEN [v EXCEPT !.list[slot.of] = n + 1]
          ELSE [v EXCEPT !.next[slot.of] = n + 1]
  BY DEF AddEntry
<1>b. n = Len(t.entry)
  OBVIOUS
<1> HIDE DEF n
<1>6. /\ parent \in Seq(Nat) /\ parent \in [1..(n + 1) -> Nat]
      /\ \A i \in 1..(n + 1) : parent[i] = IF i = n + 1 THEN menu ELSE t.parent[i]
  <2>1. n \in Nat /\ t.parent \in Seq(Nat) /\ Len(t.parent) = n
    BY <1>1, <1>2
  <2>2. parent = Append(t.parent, menu)
    BY DEF Null
  <2> HIDE DEF parent
  <2>3. 0 \in Nat
    OBVIOUS
  <2>4. parent \in Seq(Nat)
    BY <2>1, <2>2, <2>3, AppendNat
  <2>5. parent \in [1..(n + 1) -> Nat]
    BY <2>1, <2>2, <2>3, AppendNat
  <2>6. \A i \in 1..(n + 1) : parent[i] = IF i = n + 1 THEN menu ELSE t.parent[i]
    BY <2>1, <2>2, <2>3, AppendNat
  <2> QED BY <2>4, <2>5, <2>6
<1>7. /\ list0 \in Seq(Nat) /\ list0 \in [1..(n + 1) -> Nat] /\ DOMAIN list0 = 1..(n + 1)
      /\ \A i \in 1..(n + 1) : list0[i] = IF i = n + 1 THEN 0 ELSE t.list[i]
  <2>1. n \in Nat /\ t.list \in Seq(Nat) /\ Len(t.list) = n
    BY <1>1, <1>2
  <2>2. list0 = Append(t.list, 0)
    BY DEF Null
  <2> HIDE DEF list0
  <2>3. 0 \in Nat
    OBVIOUS
  <2>4. list0 \in Seq(Nat)
    BY <2>1, <2>2, <2>3, AppendNat
  <2>5. list0 \in [1..(n + 1) -> Nat]
    BY <2>1, <2>2, <2>3, AppendNat
  <2>6. \A i \in 1..(n + 1) : list0[i] = IF i = n + 1 THEN 0 ELSE t.list[i]
    BY <2>1, <2>2, <2>3, AppendNat
  <2> QED BY <2>4, <2>5, <2>6
<1>8. /\ next0 \in Seq(Nat) /\ next0 \in [1..(n + 1) -> Nat] /\ DOMAIN next0 = 1..(n + 1)
      /\ \A i \in 1..(n + 1) : next0[i] = IF i = n + 1 THEN 0 ELSE t.next[i]
  <2>1. n \in Nat /\ t.next \in Seq(Nat) /\ Len(t.next) = n
    BY <1>1, <1>2
  <2>2. next0 = Append(t.next, 0)
    BY DEF Null
  <2> HIDE DEF next0
  <2>3. 0 \in Nat
    OBVIOUS
  <2>4. next0 \in Seq(Nat)
    BY <2>1, <2>2, <2>3, AppendNat
  <2>5. next0 \in [1..(n + 1) -> Nat]
    BY <2>1, <2>2, <2>3, AppendNat
  <2>6. \A i \in 1..(n + 1) : next0[i] = IF i = n + 1 THEN 0 ELSE t.next[i]
    BY <2>1, <2>2, <2>3, AppendNat
  <2> QED BY <2>4, <2>5, <2>6
<1> HIDE DEF entry, parent, list0, next0, dep, prompt, u
<1>10. /\ DOMAIN v = TreeFields /\ v.entry = entry /\ v.parent = parent
       /\ v.list = list0 /\ v.next = next0
  BY <1>1, Fields
<1> HIDE DEF v
<1>11. /\ DOMAIN u = TreeFields /\ u.entry = entry /\ u.parent = parent
       /\ u.list = list /\ u.next = next
  BY <1>9, <1>10, Fields
<1>13. /\ list \in [1..(n + 1) -> Nat] /\ next \in [1..(n + 1) -> Nat]
       /\ list \in Seq(Nat) /\ next \in Seq(Nat)
       /\ \A m \in 1..(n + 1) :
             /\ list[m] = IF slot.in = "list" /\ m = slot.of THEN n + 1
                          ELSE IF m = n + 1 THEN 0 ELSE t.list[m]
             /\ next[m] = IF slot.in = "next" /\ m = slot.of THEN n + 1
                          ELSE IF m = n + 1 THEN 0 ELSE t.next[m]
  <2>0. slot.of \in 1..(n + 1) /\ n + 1 \in Nat
    BY <1>1, <1>12
  <2>2. CASE slot.in = "list"
    <3>1. list = [list0 EXCEPT ![slot.of] = n + 1] /\ next = next0
      BY <2>2
    <3>2. /\ list \in Seq(Nat) /\ list \in [1..(n + 1) -> Nat]
          /\ \A m \in 1..(n + 1) : list[m] = IF m = slot.of THEN n + 1 ELSE list0[m]
      BY <1>7, <2>0, <3>1, SetAt
    <3> HIDE DEF list, next
    <3>3. /\ \A m \in 1..(n + 1) : list[m] = IF slot.in = "list" /\ m = slot.of THEN n + 1
                                     ELSE IF m = n + 1 THEN 0 ELSE t.list[m]
          /\ \A m \in 1..(n + 1) : next[m] = IF slot.in = "next" /\ m = slot.of THEN n + 1
                                     ELSE IF m = n + 1 THEN 0 ELSE t.next[m]
      BY <1>7, <1>8, <2>2, <3>1, <3>2
    <3> QED BY <1>8, <3>1, <3>2, <3>3
  <2>3. CASE slot.in = "next"
    <3>1. next = [next0 EXCEPT ![slot.of] = n + 1] /\ list = list0
      BY <2>3
    <3>2. /\ next \in Seq(Nat) /\ next \in [1..(n + 1) -> Nat]
          /\ \A m \in 1..(n + 1) : next[m] = IF m = slot.of THEN n + 1 ELSE next0[m]
      BY <1>8, <2>0, <3>1, SetAt
    <3> HIDE DEF list, next
    <3>3. /\ \A m \in 1..(n + 1) : list[m] = IF slot.in = "list" /\ m = slot.of THEN n + 1
                                     ELSE IF m = n + 1 THEN 0 ELSE t.list[m]
          /\ \A m \in 1..(n + 1) : next[m] = IF slot.in = "next" /\ m = slot.of THEN n + 1
                                     ELSE IF m = n + 1 THEN 0 ELSE t.next[m]
      BY <1>7, <1>8, <2>3, <3>1, <3>2
    <3> QED BY <1>7, <3>1, <3>2, <3>3
  <2> QED BY <2>2, <2>3 DEF Slots
<1> HIDE DEF list, next
<1>17. Typed(u)
  BY <1>4, <1>6, <1>11, <1>13 DEF Typed, Entries
<1>18. Grown(n, t.parent, t.list, t.next, menu, slot, u.parent, u.list, u.next)
  BY <1>1, <1>6, <1>11, <1>13 DEF Grown
<1>19. LinkTypes(n, t.parent, t.list, t.next)
  BY <1>a DEF LinkTypes
<1> QED BY <1>1, <1>4, <1>11, <1>17, <1>18, <1>19 DEF u, n

-----------------------------------------------------------------------------
(* The statements                                                          *)

(* Everything an entry brings about, whatever is added to it. *)
Brings(u, kind, file) ==
    LET n == Len(tree.entry)
    IN  /\ n \in Nat \ {0} /\ Typed(u) /\ Len(u.entry) = n + 1
        /\ u.entry[n + 1].kind = kind /\ u.entry[n + 1].file = file
        /\ \A i \in 1..n : u.entry[i] = tree.entry[i]
        /\ Hangs(n + 1, u.parent, u.list, u.next)
        /\ Fits(n + 1, u.parent, u.next, cur.menu, After(n + 1))
        /\ Fits(n + 1, u.parent, u.next, n + 1, Inside(n + 1))
        /\ Opened(n + 1, u.parent, u.next, nest)
        /\ u.parent[n + 1] = cur.menu /\ u.next[n + 1] = 0
        /\ \A i \in DOMAIN nest : nest[i].id \in 2..n

LEMMA NewEntry ==
    ASSUME Inv, NEW kind \in Kinds, NEW sym \in EntrySyms, NEW file \in FileNames, NEW u,
           SameLinks(AddEntry(tree, kind, sym, file, cur.menu, last), u)
    PROVE  Brings(u, kind, file)
<1> DEFINE n == Len(tree.entry)
           w == AddEntry(tree, kind, sym, file, cur.menu, last)
<1>1. /\ Typed(tree) /\ last \in Slots /\ cur.menu \in Nat /\ nest \in Seq(Blocks)
      /\ Hangs(n, tree.parent, tree.list, tree.next)
      /\ Fits(n, tree.parent, tree.next, cur.menu, last)
      /\ Opened(n, tree.parent, tree.next, nest)
      /\ cur.menu = IF nest = <<>> THEN Root ELSE Last(nest).id
  BY DEF Inv, TypeOK
<1>2. n \in Nat \ {0}
  BY <1>1 DEF Hangs
<1>3. last.of \in Entries(tree)
  BY <1>1, <1>2 DEF Fits, Entries, Slots
<1>4. /\ Typed(w) /\ Len(w.entry) = n + 1
      /\ w.entry[n + 1] = [kind |-> kind, sym |-> sym, file |-> file]
      /\ \A i \in 1..n : w.entry[i] = tree.entry[i]
      /\ LinkTypes(n, tree.parent, tree.list, tree.next)
      /\ Grown(n, tree.parent, tree.list, tree.next, cur.menu, last,
               w.parent, w.list, w.next)
  BY <1>1, <1>3, AddEntryLinks
<1> HIDE DEF n, w
<1>5. Hangs(n + 1, w.parent, w.list, w.next)
  BY <1>1, <1>2, <1>4, GrownHangs
<1>6. /\ Fits(n + 1, w.parent, w.next, cur.menu, After(n + 1))
      /\ Fits(n + 1, w.parent, w.next, n + 1, Inside(n + 1))
  BY <1>1, <1>2, <1>4, GrownFits
<1>7. Opened(n + 1, w.parent, w.next, nest)
  BY <1>1, <1>2, <1>4, GrownOpened
<1>8. w.parent[n + 1] = cur.menu /\ w.next[n + 1] = 0
  <2>1. last.of # n + 1
    BY <1>1, <1>2 DEF Fits, Slots
  <2> QED BY <1>2, <1>4, <2>1 DEF Grown
<1>9. \A i \in DOMAIN nest : nest[i].id \in 2..n
  BY <1>1 DEF Opened
<1>10. Typed(u)
  BY <1>4, SameTyped DEF w
<1>11. u.entry = w.entry /\ u.parent = w.parent /\ u.list = w.list /\ u.next = w.next
  BY DEF SameLinks, w
<1> QED BY <1>2, <1>4, <1>5, <1>6, <1>7, <1>8, <1>9, <1>10, <1>11 DEF Brings, n

(* The files being read, while the parser goes on. *)
Reading ==
    /\ stage \in {"parsing", "accepted", "rejected", "circular", "crashed"}
    /\ busy \in Seq(Files)
    /\ stage = "parsing" => busy # <<>>

CurType == cur \in [menu : Nat, entry : Nat, open : BOOLEAN, ahead : BOOLEAN]

(* Steps that leave the links as they are. *)
LEMMA Kept ==
    ASSUME Inv, Reading', CurType', SameLinks(tree, tree'), last' = last,
           cur'.menu = cur.menu, nest' = nest, crossed' = crossed
    PROVE  Inv'
<1>1. Typed(tree')
  BY SameTyped DEF Inv, TypeOK
<1>2. TypeOK'
  BY <1>1 DEF Inv, TypeOK, Reading, CurType
<1>3. /\ tree'.entry = tree.entry /\ tree'.parent = tree.parent
      /\ tree'.list = tree.list /\ tree'.next = tree.next
  BY DEF SameLinks
<1>4. Begun'
  BY <1>3 DEF Inv, Begun
<1> QED BY <1>2, <1>3, <1>4 DEF Inv

(* An entry of its own. *)
LEMMA KeptByEntry ==
    ASSUME Inv, Reading', CurType', NEW kind, NEW file, Brings(tree', kind, file),
           last' = After(NewId), cur'.menu = cur.menu, nest' = nest, crossed' = crossed
    PROVE  Inv'
<1> DEFINE n == Len(tree.entry)
<1>1. /\ n \in Nat \ {0} /\ Typed(tree') /\ Len(tree'.entry) = n + 1
      /\ \A i \in 1..n : tree'.entry[i] = tree.entry[i]
      /\ Hangs(n + 1, tree'.parent, tree'.list, tree'.next)
      /\ Fits(n + 1, tree'.parent, tree'.next, cur.menu, After(n + 1))
      /\ Opened(n + 1, tree'.parent, tree'.next, nest)
      /\ \A i \in DOMAIN nest : nest[i].id \in 2..n
  BY DEF Brings
<1>2. last' = After(n + 1)
  BY DEF NewId
<1>3. After(n + 1) \in Slots
  BY <1>1 DEF After, Slots
<1>4. TypeOK'
  BY <1>1, <1>2, <1>3 DEF Inv, TypeOK, Reading, CurType
<1>5. Begun'
  <2>1. \A i \in DOMAIN nest : tree'.entry[nest[i].id] = tree.entry[nest[i].id]
    BY <1>1
  <2> QED BY <2>1 DEF Inv, Begun
<1> HIDE DEF n
<1> QED BY <1>1, <1>2, <1>4, <1>5 DEF Inv

(* An entry that begins a block. *)
LEMMA KeptByBegin ==
    ASSUME Inv, Reading', NEW kind \in Kinds, NEW file, NEW from \in Files,
           Brings(tree', kind, file), kind # "if" => file = from,
           Begin(kind, from), crossed' = crossed
    PROVE  Inv'
<1> DEFINE n == Len(tree.entry)
           b == [id |-> n + 1, kind |-> kind, file |-> from]
<1>1. /\ n \in Nat \ {0} /\ Typed(tree') /\ Len(tree'.entry) = n + 1
      /\ tree'.entry[n + 1].kind = kind /\ tree'.entry[n + 1].file = file
      /\ \A i \in 1..n : tree'.entry[i] = tree.entry[i]
      /\ Hangs(n + 1, tree'.parent, tree'.list, tree'.next)
      /\ Fits(n + 1, tree'.parent, tree'.next, n + 1, Inside(n + 1))
      /\ Opened(n + 1, tree'.parent, tree'.next, nest)
      /\ tree'.parent[n + 1] = cur.menu /\ tree'.next[n + 1] = 0
      /\ \A i \in DOMAIN nest : nest[i].id \in 2..n
  BY DEF Brings
<1>2. /\ last' = Inside(n + 1) /\ nest' = Append(nest, b)
      /\ cur' = [menu |-> n + 1, entry |-> n + 1, open |-> kind # "if", ahead |-> kind = "if"]
  BY DEF Begin, NewId
<1>3. Inside(n + 1) \in Slots /\ b \in Blocks
  BY <1>1 DEF Inside, Slots, Blocks
<1>4. nest \in Seq(Blocks) /\ cur.menu = IF nest = <<>> THEN Root ELSE Last(nest).id
  BY DEF Inv, TypeOK
<1>5. CurType'
  BY <1>1, <1>2 DEF CurType
<1>6. b.id = n + 1 /\ b.kind = kind /\ b.file = from
  OBVIOUS
<1>7. cur'.menu = n + 1
  BY <1>2
<1> HIDE DEF b, n
<1>8. /\ Append(nest, b) \in Seq(Blocks) /\ Append(nest, b) # <<>>
      /\ Last(Append(nest, b)) = b
      /\ DOMAIN Append(nest, b) = 1..(Len(nest) + 1) /\ Len(nest) \in Nat
      /\ Append(nest, b)[Len(nest) + 1] = b
      /\ \A i \in 1..Len(nest) : Append(nest, b)[i] = nest[i] /\ i \in DOMAIN nest
  BY <1>3, <1>4 DEF Last
<1>9. TypeOK'
  BY <1>1, <1>2, <1>3, <1>5, <1>8 DEF Inv, TypeOK, Reading, CurType
<1>10. Opened(n + 1, tree'.parent, tree'.next, Append(nest, b))
  <2>1. n + 1 \in Nat \ {0} /\ n + 1 >= 2 /\ \A i \in DOMAIN nest : nest[i].id < n + 1
    BY <1>1
  <2> QED BY <1>1, <1>3, <1>4, <1>6, <2>1, BegunOpened
<1>11. Begun'
  <2> SUFFICES ASSUME NEW i \in 1..(Len(nest) + 1)
               PROVE  LET w == Append(nest, b) IN
                      /\ w[i].kind = tree'.entry[w[i].id].kind
                      /\ w[i].kind # "if" => w[i].file = tree'.entry[w[i].id].file
    BY <1>2, <1>8 DEF Begun
  <2>1. CASE i = Len(nest) + 1
    BY <1>1, <1>6, <1>8, <2>1
  <2>2. CASE i \in 1..Len(nest)
    <3>1. Append(nest, b)[i] = nest[i] /\ i \in DOMAIN nest /\ nest[i].id \in 1..n
      BY <1>1, <1>8, <2>2
    <3>2. tree'.entry[nest[i].id] = tree.entry[nest[i].id]
      BY <1>1, <3>1
    <3> QED BY <3>1, <3>2 DEF Inv, Begun
  <2> QED BY <1>8, <2>1, <2>2
<1> QED BY <1>1, <1>2, <1>6, <1>7, <1>8, <1>9, <1>10, <1>11 DEF Inv

(* The end of a block. *)
LEMMA KeptByEnd ==
    ASSUME Inv, stage = "parsing", nest # <<>>, SameFile(cur.menu),
           last' = After(cur.menu),
           cur' = [cur EXCEPT !.menu = tree.parent[cur.menu], !.open = FALSE, !.ahead = FALSE],
           nest' = Front(nest),
           crossed' = IF Last(nest).file = Last(busy) THEN crossed
                      ELSE crossed \cup {Last(nest).kind},
           UNCHANGED <<stage, busy, tree>>
    PROVE  Inv'
<1> DEFINE n == Len(tree.entry)
           p == cur.menu
<1>1. /\ Typed(tree) /\ last \in Slots /\ nest \in Seq(Blocks) /\ p \in Nat
      /\ Hangs(n, tree.parent, tree.list, tree.next)
      /\ Fits(n, tree.parent, tree.next, p, last)
      /\ Opened(n, tree.parent, tree.next, nest)
      /\ p = Last(nest).id
  BY DEF Inv, TypeOK
<1>2. LinkTypes(n, tree.parent, tree.list, tree.next) /\ n \in Nat \ {0} /\ p \in 1..n
  BY <1>1 DEF Typed, Entries, LinkTypes, Hangs, Fits
<1>3. /\ Fits(n, tree.parent, tree.next, tree.parent[p], After(p))
      /\ Opened(n, tree.parent, tree.next, Front(nest))
      /\ tree.parent[p] = IF Front(nest) = <<>> THEN Root ELSE Last(Front(nest)).id
  BY <1>1, <1>2, EndedFits
<1>4. After(p) \in Slots /\ tree.parent[p] \in Nat
  BY <1>1, <1>2 DEF After, Slots, LinkTypes
<1>5. cur \in [menu : Nat, entry : Nat, open : BOOLEAN, ahead : BOOLEAN]
  BY DEF Inv, TypeOK
<1>6. CurType' /\ cur'.menu = tree.parent[p]
  BY <1>4, <1>5 DEF CurType
<1>7. /\ Front(nest) \in Seq(Blocks) /\ Len(nest) \in DOMAIN nest /\ Last(nest) = nest[Len(nest)]
      /\ \A i \in DOMAIN Front(nest) : Front(nest)[i] = nest[i] /\ i \in DOMAIN nest
  <2> DEFINE k == Len(nest)
  <2>1. k \in Nat \ {0} /\ DOMAIN nest = 1..k
    BY <1>1
  <2>2. Front(nest) = SubSeq(nest, 1, k - 1) /\ Last(nest) = nest[k]
    BY DEF Front, Last
  <2> HIDE DEF k
  <2>3. /\ SubSeq(nest, 1, k - 1) \in Seq(Blocks) /\ Len(SubSeq(nest, 1, k - 1)) = k - 1
        /\ \A i \in 1..(k - 1) : SubSeq(nest, 1, k - 1)[i] = nest[i]
    BY <1>1, <2>1
  <2>4. DOMAIN SubSeq(nest, 1, k - 1) = 1..(k - 1)
    BY <2>1, <2>3
  <2> QED BY <2>1, <2>2, <2>3, <2>4 DEF k
<1>8. TypeOK'
  BY <1>4, <1>6, <1>7 DEF Inv, TypeOK, CurType
<1>9. Begun'
  BY <1>7 DEF Inv, Begun
<1>10. crossed' \subseteq {"if"}
  <2>1. Last(nest).kind # "if" => Last(nest).file = Last(busy)
    BY <1>1, <1>7 DEF Inv, Begun, SameFile
  <2> QED BY <2>1 DEF Inv
<1> HIDE DEF n
<1> QED BY <1>1, <1>3, <1>6, <1>8, <1>9, <1>10 DEF Inv, n

LEMMA InitInv == Init => Inv
<1> SUFFICES ASSUME Init PROVE Inv
  OBVIOUS
<1> DEFINE e == [kind |-> "menu", sym |-> NoSym, file |-> Top]
<1>1. /\ DOMAIN tree = TreeFields /\ tree.entry = <<e>> /\ tree.parent = <<0>>
      /\ tree.list = <<0>> /\ tree.next = <<0>>
  BY DEF Init, NewTree, TreeFields, Null
<1>2. e \in EntryRecords
  BY ParserAssumption DEF EntryRecords, Kinds, EntrySyms, FileNames
<1> HIDE DEF e
<1>3. Len(tree.entry) = 1 /\ tree.entry \in Seq(EntryRecords)
  BY <1>1, <1>2
<1>4. <<0>> \in Seq(Nat) /\ <<0>> \in [1..1 -> Nat] /\ <<0>>[1] = 0
  OBVIOUS
<1>5. Typed(tree)
  BY <1>1, <1>3, <1>4 DEF Typed, Entries
<1>6. /\ stage = "parsing" /\ busy = <<Top>> /\ nest = <<>> /\ crossed = {}
      /\ last = [of |-> 1, in |-> "list"]
      /\ cur = [menu |-> 1, entry |-> 1, open |-> FALSE, ahead |-> FALSE]
  BY DEF Init, Root
<1>7. TypeOK
  BY <1>5, <1>6, ParserAssumption DEF TypeOK, Slots
<1>8. Hangs(1, tree.parent, tree.list, tree.next)
  BY <1>1, <1>4 DEF Hangs
<1>9. Fits(1, tree.parent, tree.next, 1, last)
  BY <1>1, <1>4, <1>6 DEF Fits
<1>10. Opened(1, tree.parent, tree.next, nest) /\ Begun
  BY <1>6 DEF Opened, Begun
<1> QED BY <1>3, <1>6, <1>7, <1>8, <1>9, <1>10 DEF Inv, Root

LEMMA Context ==
    ASSUME Inv, stage = "parsing"
    PROVE  /\ Reading /\ Last(busy) \in Files /\ Last(busy) \in FileNames
           /\ CurType /\ NewId = Len(tree.entry) + 1 /\ Typed(tree)
<1>1. busy \in Seq(Files) /\ busy # <<>>
  BY DEF Inv, TypeOK
<1>2. Last(busy) \in Files
  <2>1. Len(busy) \in 1..Len(busy)
    BY <1>1
  <2> QED BY <1>1, <2>1 DEF Last
<1> QED BY <1>2 DEF Inv, TypeOK, Reading, CurType, NewId, FileNames

LEMMA SameTransitive ==
    ASSUME NEW t, NEW u, NEW w, SameLinks(t, u), SameLinks(u, w)
    PROVE  SameLinks(t, w)
BY DEF SameLinks

LEMMA SameReflexive == \A t : SameLinks(t, t)
BY DEF SameLinks

(* config and comment *)
LEMMA EntryKeeps ==
    ASSUME Inv, NEW kind \in Kinds, NEW sym \in EntrySyms, NEW prompt \in BOOLEAN,
           Entry(kind, sym, prompt)
    PROVE  Inv'
<1> DEFINE t == AddEntry(tree, kind, sym, Last(busy), cur.menu, last)
<1>1. /\ stage = "parsing" /\ InFile /\ nest' = nest /\ last' = After(NewId)
      /\ tree' = IF prompt THEN AddProp(t, "prompt", NewId, NoExpr, NoExpr) ELSE t
      /\ cur' = [cur EXCEPT !.entry = NewId, !.open = TRUE, !.ahead = FALSE]
  BY DEF Entry, Statement
<1>2. /\ Reading /\ Last(busy) \in FileNames /\ CurType
  BY <1>1, Context
<1>3. Brings(t, kind, Last(busy))
  BY <1>2, SameReflexive, NewEntry
<1>4. SameLinks(t, tree')
  BY <1>1, <1>3, AddPropLinks, SameReflexive DEF Brings
<1>5. Brings(tree', kind, Last(busy))
  BY <1>2, <1>4, NewEntry
<1>6. Reading' /\ crossed' = crossed
  BY <1>1, <1>2 DEF InFile, Reading
<1>7. CurType' /\ cur'.menu = cur.menu
  <2>1. NewId \in Nat
    BY <1>3 DEF NewId, Brings
  <2> QED BY <1>1, <1>2, <2>1 DEF CurType
<1> QED BY <1>1, <1>5, <1>6, <1>7, KeptByEntry

(* menu and choice *)
LEMMA BlockKeeps ==
    ASSUME Inv, NEW kind \in Kinds \ {"if"}, NEW sym \in EntrySyms, ReadBlock(kind, sym)
    PROVE  Inv'
<1> DEFINE t == AddEntry(tree, kind, sym, Last(busy), cur.menu, last)
<1>1. /\ stage = "parsing" /\ InFile /\ Begin(kind, Last(busy))
      /\ tree' = AddProp(t, "prompt", NewId, NoExpr, NoExpr)
  BY DEF ReadBlock, Statement
<1>2. /\ Reading /\ Last(busy) \in Files /\ Last(busy) \in FileNames
  BY <1>1, Context
<1>3. Brings(t, kind, Last(busy))
  BY <1>2, SameReflexive, NewEntry
<1>4. SameLinks(t, tree')
  BY <1>1, <1>3, AddPropLinks DEF Brings
<1>5. Brings(tree', kind, Last(busy))
  BY <1>2, <1>4, NewEntry
<1>6. Reading' /\ crossed' = crossed
  BY <1>1, <1>2 DEF InFile, Reading
<1> QED BY <1>1, <1>2, <1>5, <1>6, KeptByBegin

LEMMA IfKeeps ==
    ASSUME Inv, NEW e \in Conditions, NEW ended \in 0..Len(busy), ReadIf(e, ended)
    PROVE  Inv'
<1> DEFINE rest == SubSeq(busy, 1, Len(busy) - ended)
           file == IF rest = <<>> THEN "no file" ELSE Last(rest)
           t == AddEntry(tree, "if", NoSym, file, cur.menu, last)
<1>1. /\ stage = "parsing" /\ Begin("if", Last(busy)) /\ tree' = AddDep(t, NewId, e)
      /\ busy' = rest /\ stage' = (IF rest = <<>> THEN "crashed" ELSE stage)
      /\ crossed' = crossed
  BY DEF ReadIf, Statement
<1>2. busy \in Seq(Files) /\ Last(busy) \in Files
  BY <1>1, Context DEF Inv, TypeOK
<1>3. rest \in Seq(Files)
  BY <1>2
<1> HIDE DEF rest
<1>4. file \in FileNames
  <2>1. CASE rest = <<>>
    BY <2>1 DEF FileNames
  <2>2. CASE rest # <<>>
    <3>1. Len(rest) \in 1..Len(rest) /\ Last(rest) = rest[Len(rest)]
      BY <1>3, <2>2 DEF Last
    <3>2. rest[Len(rest)] \in Files
      BY <1>3, <3>1, ElementOfSeq
    <3>3. file = rest[Len(rest)]
      BY <2>2, <3>1
    <3> QED BY <3>2, <3>3 DEF FileNames
  <2> QED BY <2>1, <2>2
<1>5. "if" \in Kinds /\ NoSym \in EntrySyms
  BY DEF Kinds, EntrySyms
<1> HIDE DEF file
<1>6. Brings(t, "if", file)
  BY <1>4, <1>5, SameReflexive, NewEntry
<1>7. SameLinks(t, tree')
  BY <1>1, <1>6, AddDepLinks DEF Brings
<1>8. Brings(tree', "if", file)
  BY <1>4, <1>5, <1>7, NewEntry
<1>9. Reading'
  BY <1>1, <1>3 DEF Reading
<1> QED BY <1>1, <1>2, <1>5, <1>8, <1>9, KeptByBegin

(* depends on, prompt, default and select *)
LEMMA OptionKeeps ==
    ASSUME Inv, stage = "parsing", NEW kinds, NEW t, SameLinks(tree, t), Option(kinds, t)
    PROVE  Inv'
<1>1. Reading /\ CurType
  BY Context
<1>2. /\ tree' = t /\ last' = last /\ cur' = cur /\ nest' = nest /\ crossed' = crossed
      /\ stage' = stage /\ busy' = busy
  BY DEF Option, InFile
<1>3. Reading' /\ CurType'
  BY <1>1, <1>2 DEF Reading, CurType
<1> QED BY <1>2, <1>3, Kept

LEMMA RejectsKeeps ==
    ASSUME Inv, stage = "parsing", Rejects
    PROVE  Inv'
<1>1. Reading /\ CurType
  BY Context
<1>2. /\ tree' = tree /\ last' = last /\ cur' = cur /\ nest' = nest /\ crossed' = crossed
      /\ stage' = "rejected" /\ busy' = busy
  BY DEF Rejects
<1>3. Reading' /\ CurType' /\ SameLinks(tree, tree')
  BY <1>1, <1>2, SameReflexive DEF Reading, CurType
<1> QED BY <1>2, <1>3, Kept

LEMMA EndKeeps ==
    ASSUME Inv, NEW kind, ReadEnd(kind)
    PROVE  Inv'
<1>1. stage = "parsing"
  BY DEF ReadEnd, Statement
<1>2. CASE nest = <<>> \/ InBlock # kind \/ ~SameFile(cur.menu)
  BY <1>1, <1>2, RejectsKeeps DEF ReadEnd
<1>3. CASE ~(nest = <<>> \/ InBlock # kind \/ ~SameFile(cur.menu))
  BY <1>1, <1>3, KeptByEnd DEF ReadEnd
<1> QED BY <1>2, <1>3

(* source, and the ends of files *)
LEMMA FileKeeps ==
    ASSUME Inv, (\E f \in Files : ReadSource(f)) \/ EndOfFile \/ EndOfInput
    PROVE  Inv'
<1>1. stage = "parsing"
  BY DEF ReadSource, EndOfFile, EndOfInput, Statement
<1>2. Reading /\ CurType /\ busy \in Seq(Files)
  BY <1>1, Context DEF Reading
<1>3. ASSUME NEW f \in Files, ReadSource(f) PROVE Inv'
  <2>1. CASE f \in Range(busy) \cup scanned
    BY <1>1, <1>3, <2>1, RejectsKeeps DEF ReadSource
  <2>2. CASE f \notin Range(busy) \cup scanned
    <3>1. /\ busy' = Append(busy, f) /\ stage' = stage /\ tree' = tree /\ last' = last
          /\ nest' = nest /\ crossed' = crossed
          /\ cur' = [cur EXCEPT !.open = FALSE, !.ahead = FALSE]
      BY <1>3, <2>2 DEF ReadSource
    <3>2. Append(busy, f) \in Seq(Files) /\ Append(busy, f) # <<>>
      BY <1>2
    <3>3. Reading'
      BY <1>2, <3>1, <3>2 DEF Reading
    <3>4. CurType' /\ cur'.menu = cur.menu
      BY <1>2, <3>1 DEF CurType
    <3> QED BY <3>1, <3>3, <3>4, SameReflexive, Kept
  <2> QED BY <2>1, <2>2
<1>4. ASSUME EndOfFile PROVE Inv'
  <2>1. /\ busy' = Front(busy) /\ Len(busy) > 1 /\ stage' = stage /\ tree' = tree
        /\ last' = last /\ nest' = nest /\ crossed' = crossed /\ cur' = cur
    BY <1>4 DEF EndOfFile
  <2>2. Front(busy) \in Seq(Files) /\ Front(busy) # <<>>
    <3>1. Len(busy) - 1 \in 1..Len(busy) /\ Front(busy) = SubSeq(busy, 1, Len(busy) - 1)
      BY <1>2, <2>1 DEF Front
    <3>2. SubSeq(busy, 1, Len(busy) - 1) \in Seq(Files)
      BY <1>2, <3>1
    <3>3. Len(SubSeq(busy, 1, Len(busy) - 1)) = Len(busy) - 1
      BY <1>2, <3>1
    <3>4. Len(Front(busy)) # 0
      BY <3>1, <3>3
    <3> QED BY <3>1, <3>2, <3>4
  <2>3. Reading' /\ CurType'
    BY <1>2, <2>1, <2>2 DEF Reading, CurType
  <2> QED BY <2>1, <2>3, SameReflexive, Kept
<1>5. ASSUME EndOfInput PROVE Inv'
  <2>1. /\ busy' = <<>> /\ stage' \in {"circular", "accepted"} /\ tree' = tree
        /\ last' = last /\ nest' = nest /\ crossed' = crossed /\ cur' = cur
    BY <1>5 DEF EndOfInput
  <2>2. Reading' /\ CurType'
    BY <1>2, <2>1 DEF Reading, CurType
  <2> QED BY <2>1, <2>2, SameReflexive, Kept
<1> QED BY <1>3, <1>4, <1>5

LEMMA NextInv ==
    ASSUME Inv, [Next]_vars
    PROVE  Inv'
<1>1. ASSUME NEW s \in Config, NEW prompt \in BOOLEAN, ReadConfig(s, prompt) PROVE Inv'
  BY <1>1, EntryKeeps DEF ReadConfig, Kinds, EntrySyms
<1>2. ASSUME ReadComment PROVE Inv'
  BY <1>2, EntryKeeps DEF ReadComment, Kinds, EntrySyms
<1>3. ASSUME ReadMenu PROVE Inv'
  BY <1>3, BlockKeeps DEF ReadMenu, Kinds, EntrySyms
<1>4. ASSUME ReadChoice PROVE Inv'
  <2> DEFINE c == ChoiceSym[Cardinality(ChoiceEntries(tree)) + 1]
  <2>1. ReadBlock("choice", c)
    BY <1>4 DEF ReadChoice
  <2>2. c \in Range(ChoiceSym)
    <3>1. ChoiceEntries(tree) \in SUBSET (1..Len(tree.entry)) /\ Len(tree.entry) \in Nat
      BY DEF ChoiceEntries, Entries, Inv, TypeOK, Typed
    <3>2. Cardinality(ChoiceEntries(tree)) \in Nat
      <4>1. IsFiniteSet(1..Len(tree.entry))
        BY <3>1, FS_Interval
      <4>2. IsFiniteSet(ChoiceEntries(tree))
        BY <3>1, <4>1, FS_Subset
      <4> QED BY <4>2, FS_CardinalityType
    <3>3. Cardinality(ChoiceEntries(tree)) + 1 \in 1..Len(ChoiceSym)
      BY <1>4, <3>2, ParserAssumption DEF ReadChoice
    <3>4. Cardinality(ChoiceEntries(tree)) + 1 \in DOMAIN ChoiceSym
      BY <3>3, ParserAssumption
    <3> QED BY <3>4 DEF Range
  <2> QED BY <2>1, <2>2, BlockKeeps DEF Kinds, EntrySyms
<1>5. ASSUME NEW e \in Conditions, NEW ended \in 0..Len(busy), ReadIf(e, ended) PROVE Inv'
  BY <1>5, IfKeeps
<1>6. ASSUME NEW e \in Conditions, ReadDepends(e) PROVE Inv'
  <2>1. stage = "parsing" /\ SameLinks(tree, AddDep(tree, cur.entry, e))
    BY <1>6, AddDepLinks DEF ReadDepends, Statement, Inv, TypeOK
  <2> QED BY <1>6, <2>1, OptionKeeps DEF ReadDepends
<1>7. ASSUME NEW o \in Options, ReadOption(o) PROVE Inv'
  <2>1. stage = "parsing" /\ SameLinks(tree, AddProp(tree, o.kind, cur.entry, o.val, o.vis))
    BY <1>7, AddPropLinks DEF ReadOption, Statement, Inv, TypeOK
  <2> QED BY <1>7, <2>1, OptionKeeps DEF ReadOption
<1>8. ASSUME NEW kind, ReadEnd(kind) PROVE Inv'
  BY <1>8, EndKeeps
<1>9. ASSUME UNCHANGED vars PROVE Inv'
  BY <1>9 DEF vars, Inv, TypeOK, Typed, Begun, Entries
<1> QED BY <1>1, <1>2, <1>3, <1>4, <1>5, <1>6, <1>7, <1>8, <1>9, FileKeeps DEF Next

(* The parser links the entries in the order of the text, keeps the        *)
(* innermost block as the current one, and ends menus and choices in their *)
(* own file, whatever the files say.                                       *)
THEOREM ParserKeepsOrder == Spec => []OrderKept
<1>1. Inv => OrderKept
  BY HangsLinked DEF Inv, TypeOK, OrderKept
<1> QED BY <1>1, InitInv, NextInv, PTL DEF Spec

=============================================================================
