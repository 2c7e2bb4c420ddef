--------------------------- MODULE ScreensProofs ----------------------------
(***************************************************************************)
(* Proofs about Screens: whatever the keys and the functions that wait do, *)
(* in whatever Config.in files, terminals and texts, a box shows what its  *)
(* keys will act on.                                                       *)
(*                                                                         *)
(* What holds of a box while it is open is stated box by box, for its      *)
(* function when it opens and for each of its keys; the fields of a box    *)
(* are its DOMAIN.  The invariant then adds the functions that wait.       *)
(***************************************************************************)
EXTENDS Screens, FiniteSetTheorems, SequenceTheorems, WellFoundedInduction, TLAPS

(* The smaller and the larger of two numbers. *)
LEMMA MinOfTwo ==
    ASSUME NEW m \in Int, NEW n \in Int
    PROVE  Min({m, n}) = IF m <= n THEN m ELSE n
  BY DEF Min

LEMMA MaxOfTwo ==
    ASSUME NEW m \in Int, NEW n \in Int
    PROVE  Max({m, n}) = IF m >= n THEN m ELSE n
  BY DEF Max

(* A nonempty set of natural numbers has a smallest element. *)
LEMMA LeastNat ==
    ASSUME NEW T, T \subseteq Nat, T # {}
    PROVE  \E x \in T : \A y \in T : ~(y < x)
  <1> DEFINE R == OpToRel(<, Nat)
  <1>1. IsWellFoundedOn(R, Nat)
    BY NatLessThanWellFounded, Zenon
  <1>2. \E x \in T : \A y \in T : ~(<<y, x>> \in R)
    <2> HIDE DEF R
    <2> QED BY <1>1, WFMin
  <1>3. PICK x \in T : \A y \in T : ~(<<y, x>> \in R)
    BY <1>2, Zenon
  <1>4. \A y \in T : y < x => <<y, x>> \in R
    BY DEF OpToRel
  <1> HIDE DEF R
  <1> QED BY <1>3, <1>4

(* A set with 0 and with the successors of its elements has all of them. *)
LEMMA SetInduction ==
    ASSUME NEW S, 0 \in S, \A n \in Nat : n \in S => n + 1 \in S
    PROVE  Nat \subseteq S
  <1> SUFFICES ASSUME Nat \ S # {} PROVE FALSE
    OBVIOUS
  <1>1. PICK x \in Nat \ S : \A y \in Nat \ S : ~(y < x)
    BY LeastNat
  <1>2. x # 0 /\ x - 1 \in Nat /\ x - 1 < x
    BY <1>1
  <1>3. x - 1 \in S
    BY <1>1, <1>2
  <1>4. (x - 1) + 1 \in S
    BY <1>2, <1>3
  <1>5. (x - 1) + 1 = x
    BY <1>1
  <1> QED BY <1>1, <1>4, <1>5

(* Some of the numbers below n have a smallest and a largest. *)
LEMMA MinBelow ==
    ASSUME NEW n \in Nat, NEW T, T \subseteq 0 .. n, T # {}
    PROVE  Min(T) \in T
  <1>1. T \subseteq Nat
    OBVIOUS
  <1>2. PICK x \in T : \A y \in T : ~(y < x)
    BY <1>1, LeastNat
  <1>3. \A y \in T : x <= y
    BY <1>1, <1>2
  <1> QED BY <1>3 DEF Min

LEMMA MaxBelow ==
    ASSUME NEW n \in Nat, NEW T, T \subseteq 0 .. n, T # {}
    PROVE  Max(T) \in T
  <1> DEFINE M == {m \in 0 .. n : n - m \in T}
  <1>1. M \subseteq Nat
    OBVIOUS
  <1>2. \A y \in T : n - y \in M
    <2> TAKE y \in T
    <2>1. y \in 0 .. n /\ n - y \in 0 .. n /\ n - (n - y) = y
      OBVIOUS
    <2> QED BY <2>1
  <1>3. PICK m \in M : \A y \in M : ~(y < m)
    <2>1. M # {}
      BY <1>2
    <2> HIDE DEF M
    <2> QED BY <1>1, <2>1, LeastNat
  <1>4. n - m \in T /\ m \in 0 .. n
    BY <1>3
  <1>5. \A y \in T : n - m >= y
    <2> TAKE y \in T
    <2>1. y \in 0 .. n /\ ~(n - y < m)
      BY <1>2, <1>3
    <2> QED BY <1>4, <2>1
  <1> QED BY <1>4, <1>5 DEF Max
-----------------------------------------------------------------------------
(* Lists *)

Listed(s) == s \in Seq({s[i] : i \in DOMAIN s})

LEMMA ListedSeq ==
    ASSUME NEW S, NEW s \in Seq(S)
    PROVE  Listed(s)
  <1>1. Len(s) \in Nat /\ DOMAIN s = 1 .. Len(s) /\ s \in [1 .. Len(s) -> S]
    BY LenProperties
  <1> DEFINE R == {s[i] : i \in DOMAIN s}
  <1>2. s \in [1 .. Len(s) -> R]
    BY <1>1
  <1> HIDE DEF R
  <1>3. s \in Seq(R)
    BY <1>1, <1>2, SeqDef
  <1> QED BY <1>3 DEF Listed, R

LEMMA ListedLen ==
    ASSUME NEW s, Listed(s)
    PROVE  /\ Len(s) \in Nat
           /\ DOMAIN s = 1 .. Len(s)
           /\ s = <<>> <=> Len(s) = 0
  <1> DEFINE R == {s[i] : i \in DOMAIN s}
  <1> HIDE DEF R
  <1>1. s \in Seq(R)
    BY DEF Listed, R
  <1> QED BY <1>1, LenProperties, EmptySeq

LEMMA ListedConcat ==
    ASSUME NEW s, NEW t, Listed(s), Listed(t)
    PROVE  Listed(s \o t)
  <1> DEFINE Q == {s[i] : i \in DOMAIN s}
             R == {t[i] : i \in DOMAIN t}
             S == Q \cup R
  <1> HIDE DEF Q, R
  <1>1. s \in Seq(Q) /\ t \in Seq(R)
    BY DEF Listed, Q, R
  <1>2. s \in Seq(S) /\ t \in Seq(S)
    <2>1. Q \subseteq S /\ R \subseteq S
      OBVIOUS
    <2> HIDE DEF S
    <2> QED BY <1>1, <2>1, SeqMonotonic
  <1> HIDE DEF S
  <1>3. s \o t \in Seq(S)
    BY <1>2, ConcatProperties
  <1> QED BY <1>3, ListedSeq

LEMMA ListedAppend ==
    ASSUME NEW s, NEW e, Listed(s)
    PROVE  /\ Listed(Append(s, e))
           /\ Len(Append(s, e)) = Len(s) + 1
           /\ Append(s, e)[Len(s) + 1] = e
           /\ \A i \in 1 .. Len(s) : Append(s, e)[i] = s[i]
  <1> DEFINE Q == {s[i] : i \in DOMAIN s}
             S == Q \cup {e}
  <1> HIDE DEF Q
  <1>1. s \in Seq(Q)
    BY DEF Listed, Q
  <1>2. s \in Seq(S) /\ e \in S
    <2>1. Q \subseteq S /\ e \in S
      OBVIOUS
    <2> HIDE DEF S
    <2> QED BY <1>1, <2>1, SeqMonotonic
  <1> HIDE DEF S
  <1>3. Append(s, e) \in Seq(S)
    BY <1>2, AppendProperties
  <1>4. Listed(Append(s, e))
    BY <1>3, ListedSeq
  <1> QED BY <1>2, <1>4, AppendProperties

LEMMA ListedFront ==
    ASSUME NEW s, Listed(s), s # <<>>
    PROVE  LET t == SubSeq(s, 1, Len(s) - 1) IN
           /\ Listed(t)
           /\ Len(t) = Len(s) - 1
           /\ \A i \in 1 .. Len(t) : t[i] = s[i]
  <1> DEFINE S == {s[i] : i \in DOMAIN s}
             t == SubSeq(s, 1, Len(s) - 1)
  <1>1. Len(s) \in Nat \ {0} /\ DOMAIN s = 1 .. Len(s)
    BY ListedLen
  <1>2. \A i \in 1 .. Len(s) - 1 : s[i] \in S
    BY <1>1
  <1> HIDE DEF S
  <1>3. /\ t \in Seq(S)
        /\ Len(t) = IF 1 <= Len(s) - 1 THEN (Len(s) - 1) - 1 + 1 ELSE 0
        /\ \A i \in 1 .. (Len(s) - 1) - 1 + 1 : t[i] = s[1 + i - 1]
    BY <1>1, <1>2, SubSeqProperties
  <1>4. Len(t) = Len(s) - 1
    BY <1>1, <1>3
  <1>5. \A i \in 1 .. Len(t) : t[i] = s[i]
    BY <1>1, <1>3, <1>4
  <1>6. Listed(t)
    BY <1>3, ListedSeq
  <1> QED BY <1>4, <1>5, <1>6
-----------------------------------------------------------------------------
(* The rows *)

(* The rows that move and those that are printed are again a page. *)
LEMMA RowsArePage ==
    ASSUME NEW b, NEW by \in Int, NEW choice, b.max \in Nat, b.scroll \in Int,
           b.shown = Page(b.scroll, b.max, b.choice)
    PROVE  Rows(b, by, choice) = Page(b.scroll + by, b.max, choice)
  <1> DEFINE s == b.scroll
             n == b.max
             plain == [b.shown EXCEPT ![b.choice] = Printed(s + b.choice, FALSE)]
             rows == [i \in 0 .. n - 1 |->
                         IF i + by \in 0 .. n - 1 THEN plain[i + by]
                         ELSE Printed(s + by + i, FALSE)]
  <1>1. DOMAIN b.shown = 0 .. n - 1
    BY DEF Page
  <1>2. Cardinality(0 .. n - 1) = n
    BY FS_Interval
  <1>3. Rows(b, by, choice) = [rows EXCEPT ![choice] = Printed(s + by + choice, TRUE)]
    BY <1>1, <1>2 DEF Rows
  <1>4. \A i \in 0 .. n - 1 : plain[i] = Printed(s + i, FALSE)
    <2> TAKE i \in 0 .. n - 1
    <2>1. i = b.choice => plain[i] = Printed(s + i, FALSE)
      BY <1>1
    <2>2. i # b.choice => plain[i] = b.shown[i]
      BY <1>1
    <2>3. b.shown[i] = Printed(s + i, i = b.choice)
      BY DEF Page
    <2> QED BY <2>1, <2>2, <2>3 DEF Printed
  <1>5. \A i \in 0 .. n - 1 : rows[i] = Printed((s + by) + i, FALSE)
    <2> HIDE DEF plain
    <2> TAKE i \in 0 .. n - 1
    <2>1. s + (i + by) = (s + by) + i
      OBVIOUS
    <2> QED BY <1>4, <2>1
  <1>6. [rows EXCEPT ![choice] = Printed(s + by + choice, TRUE)]
            = [i \in 0 .. n - 1 |-> Printed((s + by) + i, i = choice)]
    <2>1. DOMAIN rows = 0 .. n - 1
      OBVIOUS
    <2> HIDE DEF rows
    <2> QED BY <1>5, <2>1 DEF Printed
  <1> QED BY <1>3, <1>6 DEF Page

(* One item has the highlight, that of the row of the choice. *)
LEMMA LitOnPage ==
    ASSUME NEW b, NEW n \in Nat, NEW first \in Int, b.shown = Page(first, n, b.choice),
           b.choice \in 0 .. n - 1
    PROVE  Lit(b) = {At(b.items, first + b.choice).data}
  <1>1. DOMAIN b.shown = 0 .. n - 1
    BY DEF Page
  <1>2. \A i \in 0 .. n - 1 : b.shown[i].lit = (i = b.choice) /\ b.shown[i].item = first + i
    BY DEF Page, Printed
  <1>3. {j \in DOMAIN b.shown : b.shown[j].lit} = {b.choice}
    BY <1>1, <1>2
  <1>4. b.shown[b.choice].item = first + b.choice
    BY <1>2
  <1> QED BY <1>3, <1>4 DEF Lit

LEMMA LitIsTaken ==
    ASSUME NEW b, b.max \in Nat, b.scroll \in Int, ListTrue(b), b.choice \in 0 .. b.max - 1
    PROVE  Lit(b) = {Taken(b).data}
  BY LitOnPage DEF ListTrue, Taken
-----------------------------------------------------------------------------
(* The box of a menu *)

MenuFields ==
    {"kind", "items", "selected", "saved", "first", "scroll", "choice", "max", "shown",
     "up", "down", "button", "drawn", "moved", "ret"}

MenuShape(b) ==
    /\ DOMAIN b = MenuFields
    /\ b.kind = "menu"
    /\ Listed(b.items)
    /\ b.saved \in Int /\ b.scroll \in Int /\ b.choice \in Int /\ b.max \in Int
    /\ b.moved \in Nat

Failed == {"small", "crash"}

MenuTrue(b) ==
    b.moved = 0 /\ b.ret \notin Failed =>
        /\ ListTrue(b)
        /\ b.max \in Nat
        /\ b.items # <<>> => b.choice \in 0 .. b.max - 1

LEMMA MenuGoes ==
    ASSUME NEW b, MenuShape(b), MenuTrue(b), NEW by \in Int, NEW choice \in Int,
           b.moved = 0 /\ b.ret \notin Failed /\ b.items # <<>> => choice \in 0 .. b.max - 1
    PROVE  LET c == MenuGo(b, by, choice) IN
           MenuShape(c) /\ MenuTrue(c) /\ c.moved = b.moved /\ c.ret = b.ret
  <1> DEFINE rows == Rows(b, by, choice)
             c == [b EXCEPT !.shown = rows, !.scroll = b.scroll + by, !.choice = choice]
             d == MenuGo(b, by, choice)
  <1> HIDE DEF rows
  <1>1. d = MenuArrows(c)
    BY DEF MenuGo, rows
  <1>2. /\ DOMAIN d = MenuFields
        /\ d.kind = b.kind /\ d.items = b.items /\ d.saved = b.saved /\ d.max = b.max
        /\ d.moved = b.moved /\ d.ret = b.ret
        /\ d.button = b.button /\ d.drawn = b.drawn
        /\ d.scroll = b.scroll + by /\ d.choice = choice /\ d.shown = rows
        /\ d.up = (b.scroll + by > 0)
        /\ d.down = (b.scroll + by + b.max < Len(b.items))
    BY <1>1 DEF MenuArrows, MenuShape, MenuFields
  <1> HIDE DEF d
  <1>3. MenuShape(d)
    BY <1>2 DEF MenuShape
  <1>4. ASSUME b.moved = 0, b.ret \notin Failed
        PROVE  ListTrue(d) /\ b.max \in Nat
    <2>1. ListTrue(b) /\ b.max \in Nat /\ b.scroll \in Int
      BY <1>4 DEF MenuTrue, MenuShape
    <2>2. rows = Page(b.scroll + by, b.max, choice)
      BY <2>1, RowsArePage DEF rows, ListTrue
    <2> QED BY <1>2, <2>1, <2>2 DEF ListTrue
  <1>5. MenuTrue(d)
    BY <1>2, <1>4 DEF MenuTrue
  <1> QED BY <1>2, <1>3, <1>5 DEF d

LEMMA NextHotIsOne ==
    ASSUME NEW b, NEW n \in Int, NEW hot, hot \subseteq 0 .. n - 1, hot # {}
    PROVE  NextHot(b, hot) \in hot
  <1>1. n - 1 \in Nat
    <2>1. PICK i \in hot : TRUE
      OBVIOUS
    <2>2. i \in 0 .. n - 1
      OBVIOUS
    <2> QED BY <2>2
  <1> DEFINE below == {i \in hot : i > b.choice}
             those == IF below # {} THEN below ELSE hot
  <1>2. those \subseteq hot /\ those # {}
    <2>1. CASE below # {}
      BY <2>1
    <2>2. CASE below = {}
      BY <2>2
    <2> QED BY <2>1, <2>2
  <1> HIDE DEF those
  <1>3. Min(those) \in those
    BY <1>1, <1>2, MinBelow
  <1> QED BY <1>2, <1>3 DEF NextHot, those

LEMMA MenuMoves ==
    ASSUME NEW b, MenuShape(b), MenuTrue(b), NEW key \in {"up", "down", "pageup", "pagedown"}
    PROVE  LET c == MenuMove(b, key) IN
           MenuShape(c) /\ MenuTrue(c) /\ c.moved = b.moved /\ c.ret = b.ret
  <1> DEFINE below == Len(b.items) - b.max - b.scroll
             back == Min({b.scroll, b.max})
             ahead == Min({below, b.max})
             In(choice) == b.moved = 0 /\ b.ret \notin Failed /\ b.items # <<>> =>
                               choice \in 0 .. b.max - 1
             Ok(c) == MenuShape(c) /\ MenuTrue(c) /\ c.moved = b.moved /\ c.ret = b.ret
  <1>1. b.scroll \in Int /\ b.max \in Int /\ b.choice \in Int /\ below \in Int
    <2>1. Len(b.items) \in Int
      BY ListedLen DEF MenuShape
    <2> QED BY <2>1 DEF MenuShape
  <1>2. In(b.choice)
    BY DEF MenuTrue
  <1>3. ASSUME NEW by \in Int, NEW choice \in Int, In(choice)
        PROVE  Ok(MenuGo(b, by, choice))
    BY <1>3, MenuGoes
  <1> HIDE DEF below
  <1>4. back \in Int /\ back <= b.max
    <2>1. back = IF b.scroll <= b.max THEN b.scroll ELSE b.max
      BY <1>1, MinOfTwo
    <2> QED BY <1>1, <2>1
  <1>5. ahead \in Int /\ ahead <= b.max
    <2>1. ahead = IF below <= b.max THEN below ELSE b.max
      BY <1>1, MinOfTwo
    <2> QED BY <1>1, <2>1
  <1>6. ASSUME key = "up"
        PROVE  Ok(MenuMove(b, key))
    <2> DEFINE choice == Max({b.choice - 1, 0})
    <2>1. choice = IF b.choice - 1 >= 0 THEN b.choice - 1 ELSE 0
      BY <1>1, MaxOfTwo
    <2>2. choice \in Int /\ In(choice)
      BY <1>1, <1>2, <2>1
    <2>3. Ok(MenuGo(b, -1, b.choice)) /\ Ok(MenuGo(b, 0, choice))
      <3> HIDE DEF In, choice, Ok
      <3> QED BY <1>1, <1>2, <1>3, <2>2
    <2>4. MenuMove(b, key) \in {MenuGo(b, -1, b.choice), MenuGo(b, 0, choice)}
      BY <1>6 DEF MenuMove
    <2> HIDE DEF Ok
    <2> QED BY <2>3, <2>4
  <1>7. ASSUME key = "down"
        PROVE  Ok(MenuMove(b, key))
    <2> DEFINE choice == Min({b.choice + 1, b.max - 1})
    <2>1. choice = IF b.choice + 1 <= b.max - 1 THEN b.choice + 1 ELSE b.max - 1
      BY <1>1, MinOfTwo
    <2>2. choice \in Int /\ In(choice)
      BY <1>1, <1>2, <2>1
    <2>3. Ok(MenuGo(b, 1, b.choice)) /\ Ok(MenuGo(b, 0, choice))
      <3> HIDE DEF In, choice, Ok
      <3> QED BY <1>1, <1>2, <1>3, <2>2
    <2>4. MenuMove(b, key) \in {MenuGo(b, 1, b.choice), MenuGo(b, 0, choice)}
      BY <1>7 DEF MenuMove
    <2> HIDE DEF Ok
    <2> QED BY <2>3, <2>4
  <1>8. ASSUME key = "pageup"
        PROVE  Ok(MenuMove(b, key))
    <2> DEFINE least == Min({b.choice, 0})
               choice == Max({least, b.choice - (b.max - back)})
    <2>1. least = IF b.choice <= 0 THEN b.choice ELSE 0
      BY <1>1, MinOfTwo
    <2> HIDE DEF back, least
    <2>2. least \in Int /\ b.choice - (b.max - back) \in Int
      BY <1>1, <1>4, <2>1
    <2>3. choice = IF least >= b.choice - (b.max - back) THEN least
                   ELSE b.choice - (b.max - back)
      BY <2>2, MaxOfTwo
    <2>4. choice \in Int /\ In(choice)
      BY <1>1, <1>2, <1>4, <2>1, <2>2, <2>3
    <2>5. -back \in Int
      BY <1>4
    <2>6. Ok(MenuGo(b, -back, choice))
      <3> HIDE DEF In, choice, Ok
      <3> QED BY <1>3, <2>4, <2>5
    <2>7. MenuMove(b, key) = MenuGo(b, -back, choice)
      BY <1>8 DEF MenuMove, back, least
    <2> HIDE DEF Ok
    <2> QED BY <2>6, <2>7
  <1>9. ASSUME key = "pagedown"
        PROVE  Ok(MenuMove(b, key))
    <2> DEFINE most == Min({b.choice + b.max - ahead, b.max - 1})
               choice == Max({b.choice, most})
    <2> HIDE DEF ahead
    <2>1. b.choice + b.max - ahead \in Int /\ b.max - 1 \in Int
      BY <1>1, <1>5
    <2>2. most = IF b.choice + b.max - ahead <= b.max - 1 THEN b.choice + b.max - ahead
                 ELSE b.max - 1
      BY <2>1, MinOfTwo
    <2> HIDE DEF most
    <2>3. most \in Int
      BY <2>1, <2>2
    <2>4. choice = IF b.choice >= most THEN b.choice ELSE most
      BY <1>1, <2>3, MaxOfTwo
    <2>5. choice \in Int /\ In(choice)
      BY <1>1, <1>2, <1>5, <2>1, <2>2, <2>4
    <2>6. Ok(MenuGo(b, ahead, choice))
      <3> HIDE DEF In, choice, Ok
      <3> QED BY <1>3, <1>5, <2>5
    <2>7. MenuMove(b, key) = MenuGo(b, ahead, choice)
      BY <1>9 DEF MenuMove, ahead, most, below
    <2> HIDE DEF Ok
    <2> QED BY <2>6, <2>7
  <1> QED BY <1>6, <1>7, <1>8, <1>9

(* The keys of a menu. *)
LEMMA MenuKeys ==
    ASSUME NEW b, MenuShape(b), MenuTrue(b), b.ret = "open", NEW key
    PROVE  LET c == MenuKey(b, key) IN
           MenuShape(c) /\ MenuTrue(c) /\ c.moved = b.moved
  <1> DEFINE Ok(c) == MenuShape(c) /\ MenuTrue(c) /\ c.moved = b.moved
             hot == MenuHot(b, key)
  <1>1. ASSUME hot # {}
        PROVE  Ok(MenuGo(b, 0, NextHot(b, hot)))
    <2>1. hot \subseteq 0 .. b.max - 1
      BY DEF MenuHot
    <2> HIDE DEF hot
    <2>2. NextHot(b, hot) \in hot
      BY <1>1, <2>1, NextHotIsOne DEF MenuShape
    <2>3. b.max \in Int
      BY DEF MenuShape
    <2> DEFINE choice == NextHot(b, hot)
    <2> HIDE DEF choice
    <2>4. choice \in hot
      BY <2>2 DEF choice
    <2>6. choice \in 0 .. b.max - 1
      BY <2>1, <2>4
    <2>7. choice \in Int
      BY <2>3, <2>6
    <2>5. Ok(MenuGo(b, 0, choice))
      BY <2>6, <2>7, MenuGoes
    <2> QED BY <2>5 DEF choice
  <1>2. ASSUME key \in {"up", "down", "pageup", "pagedown"}
        PROVE  Ok(MenuMove(b, key))
    BY <1>2, MenuMoves
  <1>3. Ok(Press(b, key, 3))
    <2> DEFINE next == (IF key = "left" THEN b.button + 3 - 1 ELSE b.button + 1) % 3
               c == [b EXCEPT !.button = next, !.drawn = next]
    <2> HIDE DEF next
    <2>1. Press(b, key, 3) = c
      BY DEF Press, next
    <2>2. MenuShape(c)
      BY DEF MenuShape, MenuFields
    <2>3. /\ c.moved = b.moved /\ c.ret = b.ret /\ c.button = c.drawn
          /\ c.shown = b.shown /\ c.scroll = b.scroll /\ c.max = b.max
          /\ c.choice = b.choice /\ c.up = b.up /\ c.down = b.down /\ c.items = b.items
      BY DEF MenuShape, MenuFields
    <2>4. MenuTrue(c)
      BY <2>3 DEF MenuTrue, ListTrue
    <2> QED BY <2>1, <2>2, <2>3, <2>4
  <1>4. ASSUME NEW c, DOMAIN c = MenuFields,
               \A f \in MenuFields \ {"ret", "saved"} : c[f] = b[f],
               c.saved \in {b.saved, b.scroll}
        PROVE  Ok(c)
    <2>1. /\ c.kind = b.kind /\ c.items = b.items /\ c.moved = b.moved
          /\ c.button = b.button /\ c.drawn = b.drawn /\ c.shown = b.shown
          /\ c.scroll = b.scroll /\ c.max = b.max
          /\ c.choice = b.choice /\ c.up = b.up /\ c.down = b.down
      BY <1>4 DEF MenuFields
    <2>2. MenuShape(c)
      BY <1>4, <2>1 DEF MenuShape
    <2>3. b.moved = 0 => /\ ListTrue(b)
                         /\ b.max \in Nat
                         /\ b.items # <<>> => b.choice \in 0 .. b.max - 1
      BY DEF MenuTrue, Failed
    <2>4. MenuTrue(c)
      BY <2>1, <2>3 DEF MenuTrue, ListTrue
    <2> QED BY <2>1, <2>2, <2>4
  <1>5. ASSUME NEW ret
        PROVE  Ok(Done(b, ret)) /\ Ok(MenuDone(b, ret))
    <2>1. /\ DOMAIN Done(b, ret) = MenuFields
          /\ \A f \in MenuFields \ {"ret", "saved"} : Done(b, ret)[f] = b[f]
          /\ Done(b, ret).saved = b.saved
      BY DEF Done, MenuShape, MenuFields
    <2>2. /\ DOMAIN MenuDone(b, ret) = MenuFields
          /\ \A f \in MenuFields \ {"ret", "saved"} : MenuDone(b, ret)[f] = b[f]
          /\ MenuDone(b, ret).saved = b.scroll
      BY DEF MenuDone, MenuShape, MenuFields
    <2> HIDE DEF Ok
    <2>3. Ok(Done(b, ret))
      BY <1>4, <2>1
    <2> QED BY <1>4, <2>2, <2>3
  <1>6. Ok(b)
    OBVIOUS
  <1> HIDE DEF Ok
  <1>7. CASE hot # {}
    <2>1. MenuKey(b, key) = MenuGo(b, 0, NextHot(b, hot))
      BY <1>7 DEF MenuKey
    <2> QED BY <1>1, <1>7, <2>1 DEF Ok
  <1>8. CASE hot = {}
    <2>1. \/ /\ key \in {"up", "down", "pageup", "pagedown"}
             /\ MenuKey(b, key) = MenuMove(b, key)
          \/ MenuKey(b, key) = Press(b, key, 3)
          \/ \E ret : MenuKey(b, key) \in {Done(b, ret), MenuDone(b, ret)}
          \/ MenuKey(b, key) = b
      BY <1>8 DEF MenuKey
    <2> QED BY <1>2, <1>3, <1>5, <1>6, <2>1 DEF Ok
  <1> QED BY <1>7, <1>8

(* Where the rows are when a menu opens, and after the size changed. *)
LEMMA DefaultOfMenu ==
    ASSUME NEW b, Len(b.items) \in Nat, b.choice \in Int
    PROVE  /\ DefaultChoice(b) \in Int
           /\ b.choice = 0 =>
                  /\ DefaultChoice(b) \in Nat
                  /\ Len(b.items) # 0 => DefaultChoice(b) \in 0 .. Len(b.items) - 1
           /\ b.selected # Null =>
                  \A n \in 0 .. Len(b.items) - 1 : At(b.items, n).data = b.selected =>
                      At(b.items, DefaultChoice(b)).data = b.selected
  <1> DEFINE n == Len(b.items)
             those == {i \in 0 .. n - 1 : At(b.items, i).data = b.selected}
  <1>1. ASSUME those # {}
        PROVE  Max(those) \in those /\ Max(those) \in 0 .. n - 1
    <2>1. n - 1 \in Nat /\ those \subseteq 0 .. n - 1
      BY <1>1
    <2>2. Max(those) \in those
      <3> HIDE DEF those
      <3> QED BY <1>1, <2>1, MaxBelow
    <2> QED BY <2>1, <2>2
  <1>2. DefaultChoice(b) = IF b.selected = Null \/ those = {} THEN b.choice ELSE Max(those)
    BY DEF DefaultChoice
  <1>3. CASE b.selected = Null \/ those = {}
    BY <1>2, <1>3
  <1>4. CASE b.selected # Null /\ those # {}
    <2>1. DefaultChoice(b) \in those /\ DefaultChoice(b) \in 0 .. n - 1
      BY <1>1, <1>2, <1>4
    <2> QED BY <2>1
  <1> QED BY <1>3, <1>4

LEMMA Placed ==
    ASSUME NEW b, NEW choice \in Int, NEW max \in Int, b.saved \in Int,
           Len(b.items) \in Nat
    PROVE  LET p == Place(b, choice, max) IN
           /\ p.scroll \in Int
           /\ p.choice \in Int
           /\ b.first = 0 => p.first = p.scroll
           /\ p.scroll + p.choice = choice
           /\ max \in 1 .. Len(b.items) /\ choice \in 0 .. Len(b.items) - 1 =>
                  p.choice \in 0 .. max - 1
  <1> DEFINE n == Len(b.items)
             half == max \div 2
             middle == IF choice >= n - half THEN n - max ELSE choice - half
             p == Place(b, choice, max)
  <1>1. half \in Int /\ 2 * half <= max /\ max <= 2 * half + 1
    BY SMT
  <1> HIDE DEF half
  <1>2. middle \in Int
    BY <1>1
  <1>3. p = IF b.saved <= choice /\ choice < b.saved + max /\ b.saved + max <= n
            THEN [first |-> b.saved, scroll |-> b.saved, choice |-> choice - b.saved]
            ELSE IF choice >= max
            THEN [first |-> middle, scroll |-> middle, choice |-> choice - middle]
            ELSE [first |-> b.first, scroll |-> 0, choice |-> choice]
    BY DEF Place, half
  <1>4. CASE b.saved <= choice /\ choice < b.saved + max /\ b.saved + max <= n
    <2>1. p.first = b.saved /\ p.scroll = b.saved /\ p.choice = choice - b.saved
      BY <1>3, <1>4
    <2> HIDE DEF p
    <2> QED BY <1>4, <2>1 DEF p
  <1>5. CASE /\ ~(b.saved <= choice /\ choice < b.saved + max /\ b.saved + max <= n)
             /\ choice >= max
    <2>1. p.first = middle /\ p.scroll = middle /\ p.choice = choice - middle
      BY <1>3, <1>5
    <2>2. max \in 1 .. n /\ choice \in 0 .. n - 1 => choice - middle \in 0 .. max - 1
      BY <1>1, <1>5
    <2> HIDE DEF p, middle
    <2> QED BY <1>2, <2>1, <2>2 DEF p
  <1>6. CASE /\ ~(b.saved <= choice /\ choice < b.saved + max /\ b.saved + max <= n)
             /\ ~(choice >= max)
    <2>1. p.first = b.first /\ p.scroll = 0 /\ p.choice = choice
      BY <1>3, <1>6
    <2> HIDE DEF p
    <2> QED BY <1>6, <2>1 DEF p
  <1> QED BY <1>4, <1>5, <1>6

LEMMA MenuDraws ==
    ASSUME NEW b, MenuShape(b), NEW p, p.scroll \in Int, p.choice \in Int, NEW max \in Int
    PROVE  LET c == MenuDraw(b, p, max) IN
           /\ MenuShape(c)
           /\ c.moved = b.moved /\ c.items = b.items
           /\ \/ c.ret = "crash"
              \/ /\ c.ret = b.ret /\ c.button = b.button /\ c.drawn = 0
                 /\ c.scroll = p.scroll /\ c.choice = p.choice /\ c.max = max
                 /\ c.shown = Page(p.first, max, p.choice)
                 /\ c.up = (c.scroll > 0)
                 /\ c.down = (c.scroll + c.max < Len(c.items))
  <1> DEFINE page == Page(p.first, max, p.choice)
             c == [b EXCEPT !.first = p.first, !.scroll = p.scroll, !.choice = p.choice,
                            !.max = max, !.shown = page, !.drawn = 0]
             d == MenuArrows(c)
             e == Done(b, "crash")
  <1> HIDE DEF page
  <1>1. MenuDraw(b, p, max) = IF p.first + max > Len(b.items) THEN e ELSE d
    BY DEF MenuDraw, page
  <1>2. /\ DOMAIN e = MenuFields
        /\ e.kind = b.kind /\ e.items = b.items /\ e.moved = b.moved /\ e.saved = b.saved
        /\ e.scroll = b.scroll /\ e.choice = b.choice /\ e.max = b.max /\ e.ret = "crash"
    BY DEF Done, MenuShape, MenuFields
  <1>3. /\ DOMAIN d = MenuFields
        /\ d.kind = b.kind /\ d.items = b.items /\ d.moved = b.moved /\ d.saved = b.saved
        /\ d.ret = b.ret /\ d.button = b.button /\ d.drawn = 0
        /\ d.scroll = p.scroll /\ d.choice = p.choice /\ d.max = max /\ d.shown = page
        /\ d.up = (p.scroll > 0)
        /\ d.down = (p.scroll + max < Len(b.items))
    BY DEF MenuArrows, MenuShape, MenuFields
  <1> HIDE DEF d, e
  <1>4. MenuShape(d) /\ MenuShape(e)
    BY <1>2, <1>3 DEF MenuShape
  <1> QED BY <1>1, <1>2, <1>3, <1>4 DEF page

LEMMA MenuLaysOut ==
    ASSUME NEW b, MenuShape(b), NEW l \in Nat
    PROVE  LET c == MenuLayout(b, l) IN
           /\ MenuShape(c)
           /\ c.moved = b.moved
           /\ c.ret \notin Failed => l >= 15
           /\ /\ b.first = 0 /\ b.choice = 0 /\ b.button = 0 /\ c.ret \notin Failed
              => /\ ListTrue(c)
                 /\ c.max \in Nat
                 /\ c.items = b.items
                 /\ c.scroll + c.choice = DefaultChoice(b)
                 /\ c.items # <<>> => c.choice \in 0 .. c.max - 1
  <1> DEFINE n == Len(b.items)
             max == Min({l - 14, n})
             choice == DefaultChoice(b)
             p == Place(b, choice, max)
             c == MenuDraw(b, p, max)
             e == Done(b, "small")
  <1>1. n \in Nat /\ (b.items # <<>> => n # 0)
    BY ListedLen DEF MenuShape
  <1>2. max = (IF l - 14 <= n THEN l - 14 ELSE n) /\ max \in Int
    BY <1>1, MinOfTwo
  <1>3. choice \in Int
    BY <1>1, DefaultOfMenu DEF MenuShape
  <1>4. b.choice = 0 => choice \in Nat /\ (n # 0 => choice \in 0 .. n - 1)
    BY <1>1, DefaultOfMenu DEF MenuShape
  <1> HIDE DEF max, choice
  <1>5. /\ p.scroll \in Int /\ p.choice \in Int
        /\ b.first = 0 => p.first = p.scroll
        /\ p.scroll + p.choice = choice
        /\ max \in 1 .. n /\ choice \in 0 .. n - 1 => p.choice \in 0 .. max - 1
    <2>1. b.saved \in Int /\ max \in Int
      BY <1>2 DEF MenuShape
    <2> QED BY ONLY <1>1, <1>3, <2>1, Placed
  <1> HIDE DEF p
  <1>6. /\ MenuShape(c)
        /\ c.moved = b.moved /\ c.items = b.items
        /\ \/ c.ret = "crash"
           \/ /\ c.ret = b.ret /\ c.button = b.button /\ c.drawn = 0
              /\ c.scroll = p.scroll /\ c.choice = p.choice /\ c.max = max
              /\ c.shown = Page(p.first, max, p.choice)
              /\ c.up = (c.scroll > 0)
              /\ c.down = (c.scroll + c.max < Len(c.items))
    BY <1>2, <1>5, MenuDraws
  <1>7. MenuShape(e) /\ e.moved = b.moved /\ e.ret = "small"
    BY DEF Done, MenuShape, MenuFields
  <1>8. MenuLayout(b, l) = IF l < 15 THEN e ELSE c
    BY DEF MenuLayout, max, choice, p
  <1> HIDE DEF c, e
  <1>9. ASSUME l >= 15, c.ret \notin Failed, b.first = 0, b.choice = 0, b.button = 0
        PROVE  /\ ListTrue(c)
               /\ c.max \in Nat
               /\ c.items = b.items
               /\ c.scroll + c.choice = choice
               /\ c.items # <<>> => c.choice \in 0 .. c.max - 1
    <2>1. c.ret # "crash"
      BY <1>9 DEF Failed
    <2>2. ListTrue(c)
      BY <1>5, <1>6, <1>9, <2>1 DEF ListTrue
    <2>3. max \in Nat
      BY <1>1, <1>2, <1>9
    <2>4. b.items # <<>> => max \in 1 .. n /\ choice \in 0 .. n - 1
      BY <1>1, <1>2, <1>4, <1>9
    <2> QED BY <1>5, <1>6, <2>1, <2>2, <2>3, <2>4
  <1> QED BY <1>6, <1>7, <1>8, <1>9 DEF Failed, choice

(* A menu that opens. *)
LEMMA MenuOpens ==
    ASSUME NEW items, Listed(items), NEW selected, NEW saved \in Int, NEW l \in Nat
    PROVE  LET c == MenuOpen(items, selected, saved, l) IN
           /\ MenuShape(c) /\ MenuTrue(c)
           /\ c.ret \notin Failed => l >= 15
           /\ c.ret \notin Failed /\ selected # Null
                  /\ (\E i \in DOMAIN c.items : c.items[i].data = selected) =>
                      Lit(c) = {selected}
  <1> DEFINE b == [kind |-> "menu", items |-> items, selected |-> selected,
                   saved |-> saved, first |-> 0, scroll |-> 0, choice |-> 0,
                   max |-> 0, shown |-> Page(0, 0, 0), up |-> FALSE, down |-> FALSE,
                   button |-> 0, drawn |-> 0, moved |-> 0, ret |-> "open"]
             c == MenuLayout(b, l)
  <1>1. MenuOpen(items, selected, saved, l) = c
    BY DEF MenuOpen
  <1>2. /\ DOMAIN b = MenuFields /\ b.kind = "menu" /\ b.items = items /\ b.saved = saved
        /\ b.selected = selected /\ b.first = 0 /\ b.scroll = 0 /\ b.choice = 0
        /\ b.max = 0 /\ b.button = 0 /\ b.moved = 0
    BY DEF MenuFields
  <1> HIDE DEF b
  <1>3. MenuShape(b)
    BY <1>2 DEF MenuShape
  <1>4. /\ MenuShape(c)
        /\ c.moved = b.moved
        /\ c.ret \notin Failed => l >= 15
        /\ c.ret \notin Failed => /\ ListTrue(c)
                                  /\ c.max \in Nat
                                  /\ c.items = b.items
                                  /\ c.scroll + c.choice = DefaultChoice(b)
                                  /\ c.items # <<>> => c.choice \in 0 .. c.max - 1
    BY <1>2, <1>3, MenuLaysOut
  <1> HIDE DEF c
  <1>5. MenuTrue(c)
    BY <1>4 DEF MenuTrue
  <1>6. ASSUME c.ret \notin Failed, selected # Null,
               NEW i \in DOMAIN c.items, c.items[i].data = selected
        PROVE  Lit(c) = {selected}
    <2>1. Len(items) \in Nat /\ DOMAIN items = 1 .. Len(items) /\ (items = <<>> <=> Len(items) = 0)
      BY ListedLen
    <2>2. c.items = items
      BY <1>2, <1>4, <1>6
    <2>3. i - 1 \in 0 .. Len(items) - 1 /\ (i - 1) + 1 = i /\ items # <<>>
      BY <1>6, <2>1, <2>2
    <2>4. At(b.items, i - 1).data = b.selected
      BY <1>2, <1>6, <2>2, <2>3 DEF At
    <2>5. At(b.items, DefaultChoice(b)).data = b.selected
      BY <1>2, <1>6, <2>1, <2>3, <2>4, DefaultOfMenu
    <2>6. Lit(c) = {Taken(c).data}
      BY <1>4, <1>6, <2>2, <2>3, LitIsTaken DEF MenuShape
    <2> QED BY <1>2, <1>4, <1>6, <2>5, <2>6 DEF Taken
  <1> QED BY <1>1, <1>4, <1>5, <1>6
-----------------------------------------------------------------------------
(* The box of a choice *)

CheckFields ==
    {"kind", "items", "scroll", "choice", "max", "shown", "up", "down", "button",
     "drawn", "moved", "ret"}

CheckShape(b) ==
    DOMAIN b = CheckFields /\ b.kind = "check" /\ Listed(b.items) /\ b.moved \in Nat

(* Below the rows there is always a full page. *)
CheckTrue(b) ==
    b.moved = 0 /\ b.ret \notin Failed =>
        /\ ListTrue(b)
        /\ b.scroll \in Nat
        /\ b.choice \in Nat
        /\ b.max = IF ListRows <= Len(b.items) THEN ListRows ELSE Len(b.items)
        /\ b.scroll + b.max <= Len(b.items)
        /\ b.items # <<>> => b.choice < b.max

LEMMA CheckMoves ==
    ASSUME NEW b, CheckShape(b), CheckTrue(b), b.ret = "open", NEW key
    PROVE  LET c == CheckMove(b, key) IN
           CheckShape(c) /\ CheckTrue(c) /\ c.moved = b.moved
  <1> DEFINE Ok(c) == CheckShape(c) /\ CheckTrue(c) /\ c.moved = b.moved
             n == Len(b.items)
             Usual == b.moved = 0
  <1>1. n \in Nat /\ (b.items = <<>> <=> n = 0)
    BY ListedLen DEF CheckShape
  <1>2. Usual => /\ ListTrue(b) /\ b.scroll \in Nat /\ b.choice \in Nat
                 /\ b.max = (IF ListRows <= n THEN ListRows ELSE n)
                 /\ b.max \in Nat
                 /\ b.scroll + b.max <= n
                 /\ n # 0 => b.choice < b.max
    BY <1>1, ListAssumption DEF CheckTrue, Failed
  <1>3. ASSUME NEW choice, Usual => choice \in Nat /\ (n # 0 => choice < b.max)
        PROVE  Ok(CheckGo(b, choice))
    <2> DEFINE rows == Rows(b, 0, choice)
               c == CheckGo(b, choice)
    <2> HIDE DEF rows
    <2>1. /\ DOMAIN c = CheckFields /\ c.kind = b.kind /\ c.items = b.items
          /\ c.moved = b.moved /\ c.ret = b.ret /\ c.scroll = b.scroll /\ c.max = b.max
          /\ c.up = b.up /\ c.down = b.down /\ c.button = b.button /\ c.drawn = b.drawn
          /\ c.shown = rows /\ c.choice = choice
      BY DEF CheckGo, CheckShape, CheckFields, rows
    <2> HIDE DEF c
    <2>2. CheckShape(c)
      BY <2>1 DEF CheckShape
    <2>3. Usual => rows = Page(b.scroll, b.max, choice)
      <3>1. Usual => rows = Page(b.scroll + 0, b.max, choice)
        BY <1>2, RowsArePage DEF rows, ListTrue
      <3>2. Usual => b.scroll + 0 = b.scroll
        BY <1>2
      <3> QED BY <3>1, <3>2
    <2>4. CheckTrue(c)
      BY <1>1, <1>2, <1>3, <2>1, <2>3 DEF CheckTrue, ListTrue
    <2> QED BY <2>1, <2>2, <2>4 DEF c
  <1>4. ASSUME NEW by \in Int,
               Usual => /\ n > ListRows /\ b.scroll + by \in Nat
                        /\ b.scroll + by + b.max <= n
                        /\ b.scroll + by + b.choice < n - 1 <=> b.scroll + by + b.max < n
        PROVE  Ok(CheckScroll(b, by))
    <2> DEFINE rows == Rows(b, by, b.choice)
               a == [b EXCEPT !.shown = rows, !.scroll = b.scroll + by]
               c == ListArrows(a)
    <2> HIDE DEF rows
    <2>1. /\ DOMAIN c = CheckFields /\ c.kind = b.kind /\ c.items = b.items
          /\ c.moved = b.moved /\ c.ret = b.ret /\ c.scroll = b.scroll + by /\ c.max = b.max
          /\ c.choice = b.choice /\ c.button = b.button /\ c.drawn = b.drawn
          /\ c.shown = rows
          /\ c.up = (b.scroll + by > 0)
          /\ c.down = (n > ListRows /\ b.scroll + by + b.choice < n - 1)
      BY DEF ListArrows, CheckShape, CheckFields
    <2>2. CheckScroll(b, by) = c
      BY DEF CheckScroll, rows
    <2> HIDE DEF c
    <2>3. CheckShape(c)
      BY <2>1 DEF CheckShape
    <2>4. Usual => rows = Page(b.scroll + by, b.max, b.choice)
      BY <1>2, RowsArePage DEF rows, ListTrue
    <2>5. CheckTrue(c)
      BY <1>1, <1>2, <1>4, <2>1, <2>4 DEF CheckTrue, ListTrue
    <2> QED BY <2>1, <2>2, <2>3, <2>5
  <1>5. Ok(b)
    OBVIOUS
  <1>6. ASSUME key = "up"
        PROVE  Ok(CheckMove(b, key))
    <2>1. \/ b.choice > 0 /\ CheckMove(b, key) = CheckGo(b, b.choice - 1)
          \/ b.choice = 0 /\ b.scroll > 0 /\ CheckMove(b, key) = CheckScroll(b, -1)
          \/ CheckMove(b, key) = b
      BY <1>6 DEF CheckMove
    <2>2. CASE b.choice > 0 /\ CheckMove(b, key) = CheckGo(b, b.choice - 1)
      <3>1. Usual => b.choice - 1 \in Nat /\ (n # 0 => b.choice - 1 < b.max)
        BY <1>2, <2>2
      <3> HIDE DEF Ok
      <3> QED BY <1>3, <2>2, <3>1
    <2>3. CASE b.choice = 0 /\ b.scroll > 0 /\ CheckMove(b, key) = CheckScroll(b, -1)
      <3>1. Usual => /\ n > ListRows /\ b.scroll + -1 \in Nat
                     /\ b.scroll + -1 + b.max <= n
                     /\ b.scroll + -1 + b.choice < n - 1 <=> b.scroll + -1 + b.max < n
        BY <1>1, <1>2, <2>3, ListAssumption
      <3> HIDE DEF Ok
      <3> QED BY <1>4, <2>3, <3>1
    <2> HIDE DEF Ok
    <2> QED BY <1>5, <2>1, <2>2, <2>3
  <1>7. ASSUME key # "up"
        PROVE  Ok(CheckMove(b, key))
    <2>1. \/ b.choice # b.max - 1 /\ CheckMove(b, key) = CheckGo(b, b.choice + 1)
          \/ /\ b.choice = b.max - 1 /\ b.scroll + b.choice < n - 1
             /\ CheckMove(b, key) = CheckScroll(b, 1)
          \/ CheckMove(b, key) = b
      BY <1>7 DEF CheckMove
    <2>2. CASE b.choice # b.max - 1 /\ CheckMove(b, key) = CheckGo(b, b.choice + 1)
      <3>1. Usual => b.choice + 1 \in Nat /\ (n # 0 => b.choice + 1 < b.max)
        BY <1>2, <2>2
      <3> HIDE DEF Ok
      <3> QED BY <1>3, <2>2, <3>1
    <2>3. CASE /\ b.choice = b.max - 1 /\ b.scroll + b.choice < n - 1
               /\ CheckMove(b, key) = CheckScroll(b, 1)
      <3>1. Usual => /\ n > ListRows /\ b.scroll + 1 \in Nat
                     /\ b.scroll + 1 + b.max <= n
                     /\ b.scroll + 1 + b.choice < n - 1 <=> b.scroll + 1 + b.max < n
        BY <1>1, <1>2, <2>3, ListAssumption
      <3> HIDE DEF Ok
      <3> QED BY <1>4, <2>3, <3>1
    <2> HIDE DEF Ok
    <2> QED BY <1>5, <2>1, <2>2, <2>3
  <1> QED BY <1>6, <1>7

(* The keys of a choice. *)
LEMMA CheckKeys ==
    ASSUME NEW b, CheckShape(b), CheckTrue(b), b.ret = "open", NEW key
    PROVE  LET c == CheckKey(b, key) IN
           CheckShape(c) /\ CheckTrue(c) /\ c.moved = b.moved
  <1> DEFINE Ok(c) == CheckShape(c) /\ CheckTrue(c) /\ c.moved = b.moved
             hot == CheckHot(b, key)
             n == Len(b.items)
  <1>1. n \in Nat /\ (b.items = <<>> <=> n = 0)
    BY ListedLen DEF CheckShape
  <1>2. ASSUME hot # {}
        PROVE  Ok(CheckGo(b, Min(hot)))
    <2> DEFINE choice == Min(hot)
               rows == Rows(b, 0, choice)
               c == CheckGo(b, choice)
    <2>1. hot \subseteq 0 .. b.max - 1
      BY DEF CheckHot
    <2> HIDE DEF hot
    <2>2. b.moved = 0 => /\ ListTrue(b) /\ b.scroll \in Nat /\ b.max \in Nat
                         /\ choice \in Nat /\ choice < b.max
      <3> SUFFICES ASSUME b.moved = 0
                   PROVE  /\ ListTrue(b) /\ b.scroll \in Nat /\ b.max \in Nat
                          /\ choice \in Nat /\ choice < b.max
        OBVIOUS
      <3>1. ListTrue(b) /\ b.scroll \in Nat /\ b.max \in Nat
        BY <1>1, ListAssumption DEF CheckTrue, Failed
      <3>2. PICK i \in hot : TRUE
        BY <1>2
      <3>3. i \in 0 .. b.max - 1
        BY <2>1, <3>2
      <3>4. b.max - 1 \in Nat
        BY <3>1, <3>3
      <3>5. choice \in hot
        BY <1>2, <2>1, <3>4, MinBelow
      <3>6. choice \in 0 .. b.max - 1
        BY <2>1, <3>5
      <3> QED BY <3>1, <3>6
    <2> HIDE DEF rows, choice
    <2>3. /\ DOMAIN c = CheckFields /\ c.kind = b.kind /\ c.items = b.items
          /\ c.moved = b.moved /\ c.ret = b.ret /\ c.scroll = b.scroll /\ c.max = b.max
          /\ c.up = b.up /\ c.down = b.down /\ c.button = b.button /\ c.drawn = b.drawn
          /\ c.shown = rows /\ c.choice = choice
      BY DEF CheckGo, CheckShape, CheckFields, rows
    <2> HIDE DEF c
    <2>4. CheckShape(c)
      BY <2>3 DEF CheckShape
    <2>5. b.moved = 0 => rows = Page(b.scroll, b.max, choice)
      <3>1. b.moved = 0 => rows = Page(b.scroll + 0, b.max, choice)
        BY <2>2, RowsArePage DEF rows, ListTrue
      <3>2. b.moved = 0 => b.scroll + 0 = b.scroll
        BY <2>2
      <3> QED BY <3>1, <3>2
    <2>6. b.ret \notin Failed
      BY DEF Failed
    <2>7. CheckTrue(c)
      BY <2>2, <2>3, <2>5, <2>6 DEF CheckTrue, ListTrue
    <2> QED BY <2>3, <2>4, <2>7 DEF c, choice
  <1>3. Ok(CheckMove(b, key))
    BY CheckMoves
  <1>4. Ok(Press(b, key, 2))
    <2> DEFINE next == (IF key = "left" THEN b.button + 2 - 1 ELSE b.button + 1) % 2
               c == [b EXCEPT !.button = next, !.drawn = next]
    <2> HIDE DEF next
    <2>1. Press(b, key, 2) = c
      BY DEF Press, next
    <2>2. /\ DOMAIN c = CheckFields /\ c.kind = b.kind
          /\ c.moved = b.moved /\ c.ret = b.ret /\ c.button = c.drawn
          /\ c.shown = b.shown /\ c.scroll = b.scroll /\ c.max = b.max
          /\ c.choice = b.choice /\ c.up = b.up /\ c.down = b.down /\ c.items = b.items
      BY DEF CheckShape, CheckFields
    <2> HIDE DEF c
    <2>3. CheckShape(c) /\ CheckTrue(c)
      BY <2>2 DEF CheckShape, CheckTrue, ListTrue
    <2> QED BY <2>1, <2>2, <2>3
  <1>5. ASSUME NEW ret
        PROVE  Ok(Done(b, ret))
    <2> DEFINE c == Done(b, ret)
    <2>1. /\ DOMAIN c = CheckFields /\ c.kind = b.kind
          /\ c.moved = b.moved /\ c.button = b.button /\ c.drawn = b.drawn
          /\ c.shown = b.shown /\ c.scroll = b.scroll /\ c.max = b.max
          /\ c.choice = b.choice /\ c.up = b.up /\ c.down = b.down /\ c.items = b.items
      BY DEF Done, CheckShape, CheckFields
    <2>2. b.ret \notin Failed
      BY DEF Failed
    <2> HIDE DEF c
    <2>3. CheckShape(c) /\ CheckTrue(c)
      BY <2>1, <2>2 DEF CheckShape, CheckTrue, ListTrue
    <2> QED BY <2>1, <2>3 DEF c
  <1>6. Ok(b)
    OBVIOUS
  <1> HIDE DEF Ok
  <1>7. CASE hot # {}
    <2>1. CheckKey(b, key) = CheckGo(b, Min(hot))
      BY <1>7 DEF CheckKey
    <2> QED BY <1>2, <1>7, <2>1 DEF Ok
  <1>8. CASE hot = {}
    <2>1. \/ CheckKey(b, key) = CheckMove(b, key)
          \/ CheckKey(b, key) = Press(b, key, 2)
          \/ \E ret : CheckKey(b, key) = Done(b, ret)
          \/ CheckKey(b, key) = b
      BY <1>8 DEF CheckKey
    <2> QED BY <1>3, <1>4, <1>5, <1>6, <2>1 DEF Ok
  <1> QED BY <1>7, <1>8

LEMMA CheckLaysOut ==
    ASSUME NEW b, CheckShape(b), NEW l \in Nat
    PROVE  LET c == CheckLayout(b, l)
               n == Len(b.items) IN
           /\ CheckShape(c)
           /\ c.moved = b.moved
           /\ c.ret \notin Failed => l >= 21
           /\ /\ b.scroll = 0 /\ b.choice \in Nat /\ (n = 0 => b.choice = 0)
              /\ (n # 0 => b.choice < n) /\ b.button = 0 /\ c.ret \notin Failed
              => CheckTrue(c) /\ c.scroll + c.choice = b.choice /\ c.items = b.items
  <1> DEFINE n == Len(b.items)
             max == Min({ListRows, n})
             scroll == IF b.choice >= ListRows THEN b.choice - ListRows + 1 ELSE b.scroll
             choice == IF b.choice >= ListRows THEN ListRows - 1 ELSE b.choice
             page == Page(scroll, max, choice)
             a == [b EXCEPT !.max = max, !.scroll = scroll, !.choice = choice,
                            !.shown = page, !.drawn = 0]
             c == ListArrows(a)
             e == Done(b, "small")
  <1>1. n \in Nat /\ (b.items = <<>> <=> n = 0)
    BY ListedLen DEF CheckShape
  <1>2. max = IF ListRows <= n THEN ListRows ELSE n
    BY <1>1, MinOfTwo, ListAssumption
  <1>3. CheckLayout(b, l) = IF l < 21 THEN e ELSE c
    BY DEF CheckLayout
  <1>4. CheckShape(e) /\ e.moved = b.moved /\ e.ret = "small"
    BY DEF Done, CheckShape, CheckFields
  <1> HIDE DEF max, scroll, choice, page, e
  <1>5. /\ DOMAIN c = CheckFields /\ c.kind = b.kind /\ c.items = b.items
        /\ c.moved = b.moved /\ c.ret = b.ret /\ c.scroll = scroll /\ c.max = max
        /\ c.choice = choice /\ c.button = b.button /\ c.drawn = 0
        /\ c.shown = page
        /\ c.up = (scroll > 0)
        /\ c.down = (n > ListRows /\ scroll + choice < n - 1)
    BY DEF ListArrows, CheckShape, CheckFields
  <1> HIDE DEF c
  <1>6. CheckShape(c)
    BY <1>5 DEF CheckShape
  <1>7. ASSUME b.scroll = 0, b.choice \in Nat, n = 0 => b.choice = 0,
               n # 0 => b.choice < n, b.button = 0, c.ret \notin Failed
        PROVE  CheckTrue(c) /\ c.scroll + c.choice = b.choice /\ c.items = b.items
    <2>1. /\ scroll \in Nat /\ choice \in Nat /\ scroll + choice = b.choice
          /\ scroll + max <= n
          /\ n # 0 => choice < max
          /\ (n > ListRows /\ scroll + choice < n - 1) <=> scroll + max < n
      <3>1. CASE b.choice >= ListRows
        <4>1. scroll = b.choice - ListRows + 1 /\ choice = ListRows - 1
          BY <3>1 DEF scroll, choice
        <4>2. n # 0 /\ ListRows <= n /\ max = ListRows
          BY <1>1, <1>2, <1>7, <3>1, ListAssumption
        <4> QED BY <1>1, <1>7, <3>1, <4>1, <4>2, ListAssumption
      <3>2. CASE b.choice < ListRows
        <4>1. scroll = 0 /\ choice = b.choice
          BY <1>7, <3>2, ListAssumption DEF scroll, choice
        <4> QED BY <1>1, <1>2, <1>7, <3>2, <4>1, ListAssumption
      <3> QED BY <1>7, <3>1, <3>2, ListAssumption
    <2>2. ListTrue(c)
      BY <1>5, <1>7, <2>1 DEF ListTrue, page
    <2>3. CheckTrue(c)
      BY <1>1, <1>2, <1>5, <2>1, <2>2 DEF CheckTrue
    <2> QED BY <1>5, <2>1, <2>3
  <1> QED BY <1>3, <1>4, <1>5, <1>6, <1>7 DEF Failed

(* A choice that opens. *)
LEMMA CheckOpens ==
    ASSUME NEW items, Listed(items), NEW selected, NEW l \in Nat
    PROVE  LET c == CheckOpen(items, selected, l) IN
           /\ CheckShape(c) /\ CheckTrue(c)
           /\ c.ret \notin Failed => l >= 21
           /\ c.ret \notin Failed /\ (\E i \in DOMAIN c.items : c.items[i].data = selected) =>
                  Lit(c) = {selected}
  <1> DEFINE n == Len(items)
             those == {i \in 0 .. n - 1 : At(items, i).data = selected}
             marked == {i \in 0 .. n - 1 : At(items, i).tag = "X"}
             choice == IF those # {} THEN Min(those)
                       ELSE IF marked # {} THEN Max(marked) ELSE 0
             b == [kind |-> "check", items |-> items, scroll |-> 0,
                   choice |-> choice, max |-> 0, shown |-> Page(0, 0, 0),
                   up |-> FALSE, down |-> FALSE, button |-> 0, drawn |-> 0,
                   moved |-> 0, ret |-> "open"]
             c == CheckLayout(b, l)
  <1>1. n \in Nat /\ DOMAIN items = 1 .. n /\ (items = <<>> <=> n = 0)
    BY ListedLen
  <1>2. CheckOpen(items, selected, l) = c
    BY DEF CheckOpen
  <1>3. those # {} => Min(those) \in those
    <2>1. those \subseteq 0 .. n - 1
      OBVIOUS
    <2>2. those # {} => n - 1 \in Nat
      BY <1>1
    <2> HIDE DEF those
    <2> QED BY <2>1, <2>2, MinBelow
  <1>4. marked # {} => Max(marked) \in marked
    <2>1. marked \subseteq 0 .. n - 1
      OBVIOUS
    <2>2. marked # {} => n - 1 \in Nat
      BY <1>1
    <2> HIDE DEF marked
    <2> QED BY <2>1, <2>2, MaxBelow
  <1>5. choice \in Nat /\ (n = 0 => choice = 0) /\ (n # 0 => choice < n)
    <2>1. CASE those # {}
      <3>1. choice \in 0 .. n - 1
        BY <1>3, <2>1
      <3> QED BY <1>1, <3>1
    <2>2. CASE those = {} /\ marked # {}
      <3>1. choice \in 0 .. n - 1
        BY <1>4, <2>2
      <3> QED BY <1>1, <3>1
    <2>3. CASE those = {} /\ marked = {}
      BY <1>1, <2>3
    <2> QED BY <2>1, <2>2, <2>3
  <1>6. those # {} => At(items, choice).data = selected
    BY <1>3
  <1> HIDE DEF choice
  <1>7. /\ DOMAIN b = CheckFields /\ b.kind = "check" /\ b.items = items /\ b.scroll = 0
        /\ b.choice = choice /\ b.button = 0 /\ b.moved = 0
    BY DEF CheckFields
  <1> HIDE DEF b
  <1>8. CheckShape(b)
    BY <1>7 DEF CheckShape
  <1>9. /\ CheckShape(c)
        /\ c.moved = b.moved
        /\ c.ret \notin Failed => l >= 21
        /\ c.ret \notin Failed =>
               CheckTrue(c) /\ c.scroll + c.choice = b.choice /\ c.items = b.items
    BY <1>5, <1>7, <1>8, CheckLaysOut
  <1> HIDE DEF c
  <1>10. CheckTrue(c)
    BY <1>9 DEF CheckTrue
  <1>11. ASSUME c.ret \notin Failed, NEW i \in DOMAIN c.items, c.items[i].data = selected
         PROVE  Lit(c) = {selected}
    <2>1. i - 1 \in 0 .. n - 1 /\ (i - 1) + 1 = i /\ c.items = items /\ n # 0
      BY <1>1, <1>7, <1>9, <1>11
    <2>2. i - 1 \in those
      BY <1>11, <2>1 DEF At
    <2>3. /\ ListTrue(c) /\ c.scroll \in Nat /\ c.choice \in Nat /\ c.max \in Nat
          /\ c.choice < c.max
      BY <1>1, <1>7, <1>9, <1>11, <2>1, ListAssumption DEF CheckTrue
    <2>4. Lit(c) = {Taken(c).data}
      <3>1. c.choice \in 0 .. c.max - 1
        BY <2>3
      <3> QED BY <2>3, <3>1, LitIsTaken
    <2> QED BY <1>6, <1>7, <1>9, <1>11, <2>1, <2>2, <2>4 DEF Taken
  <1> QED BY <1>2, <1>9, <1>10, <1>11
-----------------------------------------------------------------------------
(* The box of a string *)

InputFields ==
    {"kind", "height", "was", "len", "x", "scroll", "shown", "button", "drawn",
     "moved", "ret"}

InputShape(b) ==
    DOMAIN b = InputFields /\ b.kind = "input" /\ b.height \in {10, 11} /\ b.moved \in Nat

InputTrue(b) ==
    b.moved = 0 /\ b.ret \notin Failed =>
        /\ FieldTrue(b)
        /\ b.len \in Nat /\ b.scroll \in Nat
        /\ b.x \in 0 .. FieldWidth - 1

LEMMA Types ==
    ASSUME NEW b, InputShape(b), InputTrue(b), b.ret = "open"
    PROVE  LET c == Typed(b) IN
           InputShape(c) /\ InputTrue(c) /\ c.moved = b.moved
  <1> DEFINE at == b.scroll + b.x
             w == FieldWidth
             full == b.x = w - 1
             len == IF at <= b.len THEN at + 1 ELSE b.len
             scroll == IF full THEN b.scroll + 1 ELSE b.scroll
             x == IF full THEN b.x ELSE b.x + 1
             shown == IF full
                      THEN [Window(len, b.scroll + 1, w - 1) EXCEPT ![b.x] = b.shown[b.x]]
                      ELSE [b.shown EXCEPT ![b.x] = at]
             c == [b EXCEPT !.len = len, !.scroll = scroll, !.x = x, !.shown = shown]
  <1>1. Typed(b) = IF at >= MaxLen THEN b ELSE c
    BY DEF Typed
  <1>2. ASSUME b.moved = 0
        PROVE  /\ len \in Nat /\ scroll \in Nat /\ x \in 0 .. w - 1 /\ scroll + x = len
               /\ shown = Window(len, scroll, w)
    <2>1. /\ b.shown = Window(b.len, b.scroll, w) /\ b.scroll + b.x = b.len
          /\ b.len \in Nat /\ b.scroll \in Nat /\ b.x \in Nat /\ b.x <= w - 1
          /\ w \in Nat \ {0, 1}
      BY <1>2, FieldAssumption DEF InputTrue, FieldTrue, Failed
    <2>2. len = b.len + 1 /\ at = b.len
      BY <2>1
    <2>3. CASE full
      <3>1. scroll = b.scroll + 1 /\ x = w - 1
        BY <2>3
      <3>2. b.shown[b.x] = Null
        BY <2>1, <2>3 DEF Window, Columns
      <3> DEFINE win == Window(len, b.scroll + 1, w - 1)
      <3>3. shown = [win EXCEPT ![w - 1] = Null]
        BY <2>3, <3>2
      <3>4. DOMAIN win = 0 .. w - 1
        BY DEF Window, Columns
      <3>5. \A i \in 0 .. w - 1 : i # w - 1 =>
                win[i] = IF i < w /\ scroll + i < len THEN scroll + i ELSE Null
        BY <2>1, <3>1 DEF Window, Columns
      <3>6. ~(scroll + (w - 1) < len)
        BY <2>1, <2>2, <2>3, <3>1
      <3> HIDE DEF win
      <3>7. shown = [i \in 0 .. w - 1 |-> IF i < w /\ scroll + i < len THEN scroll + i ELSE Null]
        BY <3>3, <3>4, <3>5, <3>6
      <3> QED BY <2>1, <2>2, <2>3, <3>1, <3>7 DEF Window, Columns
    <2>4. CASE ~full
      <3>1. scroll = b.scroll /\ x = b.x + 1 /\ shown = [b.shown EXCEPT ![b.x] = at]
        BY <2>4
      <3>2. DOMAIN b.shown = 0 .. w - 1
        BY <2>1 DEF Window, Columns
      <3>3. \A i \in 0 .. w - 1 :
                b.shown[i] = IF i < w /\ b.scroll + i < b.len THEN b.scroll + i ELSE Null
        BY <2>1 DEF Window, Columns
      <3>4. \A i \in 0 .. w - 1 : i # b.x => (scroll + i < len <=> b.scroll + i < b.len)
        BY <2>1, <2>2, <3>1
      <3>5. scroll + b.x < len /\ scroll + b.x = at /\ b.x < w /\ b.x \in 0 .. w - 1
        BY <2>1, <2>2, <2>4, <3>1
      <3> HIDE DEF at, shown, scroll, len
      <3>6. ASSUME NEW i \in 0 .. w - 1
            PROVE  shown[i] = IF i < w /\ scroll + i < len THEN scroll + i ELSE Null
        <4>1. i = b.x => shown[i] = at
          BY <3>1, <3>2
        <4>2. i # b.x => shown[i] = b.shown[i]
          BY <3>1, <3>2
        <4> QED BY <3>1, <3>3, <3>4, <3>5, <4>1, <4>2
      <3>7. shown = [i \in 0 .. w - 1 |-> shown[i]]
        BY <3>1, <3>2
      <3>8. shown = [i \in 0 .. w - 1 |-> IF i < w /\ scroll + i < len THEN scroll + i ELSE Null]
        BY <3>6, <3>7
      <3>9. shown = Window(len, scroll, w)
        BY <3>8 DEF Window, Columns
      <3>10. len = b.len + 1 /\ scroll = b.scroll /\ x = b.x + 1 /\ b.x # w - 1
        BY <2>1, <2>2, <2>4, <3>1
      <3>11. len \in Nat /\ scroll \in Nat /\ x \in 0 .. w - 1 /\ scroll + x = len
        <4> HIDE DEF x
        <4> QED BY <2>1, <3>10
      <3> QED BY <3>9, <3>11
    <2> QED BY <2>3, <2>4
  <1> HIDE DEF len, scroll, x, shown
  <1>3. /\ DOMAIN c = InputFields /\ c.kind = b.kind /\ c.height = b.height
        /\ c.moved = b.moved /\ c.ret = b.ret /\ c.button = b.button /\ c.drawn = b.drawn
        /\ c.len = len /\ c.scroll = scroll /\ c.x = x /\ c.shown = shown
    BY DEF InputShape, InputFields
  <1> HIDE DEF c
  <1>4. InputShape(c)
    BY <1>3 DEF InputShape
  <1>5. InputTrue(c)
    BY <1>2, <1>3 DEF InputTrue, FieldTrue, Failed
  <1> QED BY <1>1, <1>3, <1>4, <1>5

LEMMA Erases ==
    ASSUME NEW b, InputShape(b), InputTrue(b), b.ret = "open"
    PROVE  LET c == Backspace(b) IN
           InputShape(c) /\ InputTrue(c) /\ c.moved = b.moved
  <1> DEFINE w == FieldWidth
             len == Min({b.len, b.scroll + b.x - 1})
             shown == [b.shown EXCEPT ![b.x - 1] = Null]
             back == ScrolledBack(b)
             win == Window(b.len, back, w)
             c == [b EXCEPT !.len = len, !.x = b.x - 1, !.shown = shown]
             d == [b EXCEPT !.scroll = back, !.x = b.len - back, !.shown = win]
  <1>1. Backspace(b) = IF b.x > 0 THEN c ELSE IF b.scroll > 0 THEN d ELSE b
    BY DEF Backspace
  <1>2. b.moved = 0 => /\ b.shown = Window(b.len, b.scroll, w) /\ b.scroll + b.x = b.len
                       /\ b.len \in Nat /\ b.scroll \in Nat /\ b.x \in Nat /\ b.x <= w - 1
                       /\ w \in Nat \ {0, 1} /\ b.drawn = Max({b.button, 0})
    BY FieldAssumption DEF InputTrue, FieldTrue, Failed
  <1>3. ASSUME b.moved = 0, b.x > 0
        PROVE  /\ len \in Nat /\ b.x - 1 \in 0 .. w - 1 /\ b.scroll + (b.x - 1) = len
               /\ shown = Window(len, b.scroll, w)
    <2>1. b.len \in Int /\ b.scroll + b.x - 1 \in Int
      BY <1>2, <1>3
    <2>2. len = IF b.len <= b.scroll + b.x - 1 THEN b.len ELSE b.scroll + b.x - 1
      BY <2>1, MinOfTwo
    <2>3. len = b.len - 1 /\ len = b.scroll + (b.x - 1)
      BY <1>2, <1>3, <2>2
    <2> HIDE DEF len
    <2>4. DOMAIN b.shown = 0 .. w - 1
      BY <1>2, <1>3 DEF Window, Columns
    <2>5. \A i \in 0 .. w - 1 :
              b.shown[i] = IF i < w /\ b.scroll + i < b.len THEN b.scroll + i ELSE Null
      BY <1>2, <1>3 DEF Window, Columns
    <2>6. \A i \in 0 .. w - 1 : i # b.x - 1 => (b.scroll + i < len <=> b.scroll + i < b.len)
      BY <1>2, <1>3, <2>3
    <2>7. ~(b.scroll + (b.x - 1) < len) /\ b.x - 1 \in 0 .. w - 1
      BY <1>2, <1>3, <2>3
    <2>8. shown = [i \in 0 .. w - 1 |-> IF i < w /\ b.scroll + i < len THEN b.scroll + i ELSE Null]
      BY <2>4, <2>5, <2>6, <2>7
    <2> QED BY <1>2, <1>3, <2>3, <2>7, <2>8 DEF Window, Columns
  <1>4. ASSUME b.moved = 0, ~(b.x > 0), b.scroll > 0
        PROVE  back \in Nat /\ b.len - back \in 0 .. w - 1
    BY <1>2, <1>4 DEF ScrolledBack
  <1> HIDE DEF len, shown, back, win
  <1>5. /\ DOMAIN c = InputFields /\ c.kind = b.kind /\ c.height = b.height
        /\ c.moved = b.moved /\ c.ret = b.ret /\ c.button = b.button /\ c.drawn = b.drawn
        /\ c.len = len /\ c.scroll = b.scroll /\ c.x = b.x - 1 /\ c.shown = shown
    BY DEF InputShape, InputFields
  <1>6. /\ DOMAIN d = InputFields /\ d.kind = b.kind /\ d.height = b.height
        /\ d.moved = b.moved /\ d.ret = b.ret /\ d.button = b.button /\ d.drawn = b.drawn
        /\ d.len = b.len /\ d.scroll = back /\ d.x = b.len - back /\ d.shown = win
    BY DEF InputShape, InputFields
  <1> HIDE DEF c, d
  <1>7. InputShape(c) /\ InputShape(d)
    BY <1>5, <1>6 DEF InputShape
  <1>8. b.x > 0 => InputTrue(c)
    BY <1>2, <1>3, <1>5 DEF InputTrue, FieldTrue
  <1>9. ~(b.x > 0) /\ b.scroll > 0 => InputTrue(d)
    BY <1>2, <1>4, <1>6 DEF InputTrue, FieldTrue, win
  <1> QED BY <1>1, <1>5, <1>6, <1>7, <1>8, <1>9

(* The keys of the box of a string. *)
LEMMA InputKeys ==
    ASSUME NEW b, InputShape(b), InputTrue(b), b.ret = "open", NEW key
    PROVE  LET c == InputKey(b, key) IN
           InputShape(c) /\ InputTrue(c) /\ c.moved = b.moved
  <1> DEFINE Ok(c) == InputShape(c) /\ InputTrue(c) /\ c.moved = b.moved
  <1>1. Ok(InputPress(b, key))
    <2> DEFINE next == IF key \in {"up", "left"}
                       THEN (IF b.button = -1 THEN 1 ELSE b.button - 1)
                       ELSE (IF b.button = 1 THEN -1 ELSE b.button + 1)
               lit == Max({next, 0})
               c == [b EXCEPT !.button = next, !.drawn = lit]
    <2>1. InputPress(b, key) = c
      BY DEF InputPress
    <2> HIDE DEF next, lit
    <2>2. /\ DOMAIN c = InputFields /\ c.kind = b.kind /\ c.height = b.height
          /\ c.moved = b.moved /\ c.ret = b.ret /\ c.button = next /\ c.drawn = lit
          /\ c.len = b.len /\ c.scroll = b.scroll /\ c.x = b.x /\ c.shown = b.shown
      BY DEF InputShape, InputFields
    <2> HIDE DEF c
    <2>3. c.drawn = Max({c.button, 0})
      BY <2>2 DEF lit
    <2>4. InputShape(c) /\ InputTrue(c)
      BY <2>2, <2>3 DEF InputShape, InputTrue, FieldTrue
    <2> QED BY <2>1, <2>2, <2>4
  <1>2. ASSUME NEW ret
        PROVE  Ok(Done(b, ret))
    <2> DEFINE c == Done(b, ret)
    <2>1. /\ DOMAIN c = InputFields /\ c.kind = b.kind /\ c.height = b.height
          /\ c.moved = b.moved /\ c.button = b.button /\ c.drawn = b.drawn
          /\ c.len = b.len /\ c.scroll = b.scroll /\ c.x = b.x /\ c.shown = b.shown
      BY DEF Done, InputShape, InputFields
    <2>2. b.ret \notin Failed
      BY DEF Failed
    <2> HIDE DEF c
    <2>3. InputShape(c) /\ InputTrue(c)
      BY <2>1, <2>2 DEF InputShape, InputTrue, FieldTrue
    <2> QED BY <2>1, <2>3 DEF c
  <1>3. Ok(Typed(b)) /\ Ok(Backspace(b)) /\ Ok(b)
    BY Types, Erases
  <1> HIDE DEF Ok
  <1>4. \/ InputKey(b, key) \in {Typed(b), Backspace(b), InputPress(b, key), b}
        \/ \E ret : InputKey(b, key) = Done(b, ret)
    <2>1. CASE b.button = -1 /\ key \in Printable
      BY <2>1 DEF InputKey
    <2>2. CASE b.button = -1 /\ key = "backspace"
      BY <2>2 DEF InputKey, Printable
    <2>3. CASE b.button = -1 /\ key \notin Printable /\ key # "backspace"
      BY <2>3 DEF InputKey, Printable
    <2>4. CASE b.button # -1
      BY <2>4 DEF InputKey, Printable
    <2> QED BY <2>1, <2>2, <2>3, <2>4
  <1>5. Ok(InputKey(b, key))
    BY <1>1, <1>2, <1>3, <1>4
  <1> QED BY <1>5 DEF Ok

LEMMA InputLaysOut ==
    ASSUME NEW b, InputShape(b), NEW l \in Nat
    PROVE  LET c == InputLayout(b, l) IN
           /\ InputShape(c)
           /\ c.moved = b.moved
           /\ c.ret \notin Failed => l >= 9
           /\ b.len \in Nat /\ b.scroll = 0 /\ b.button = -1 => InputTrue(c)
  <1> DEFINE w == FieldWidth
             scroll == IF b.len >= w THEN b.len - w + 1 ELSE b.scroll
             x == Min({b.len, w - 1})
             shown == IF b.len >= w THEN Window(b.len, scroll, w - 1)
                      ELSE Window(b.len, 0, w)
             c == [b EXCEPT !.scroll = scroll, !.x = x, !.shown = shown, !.drawn = 0]
             e == Done(b, "small")
  <1>1. InputLayout(b, l) = IF l <= b.height - 2 THEN e ELSE c
    BY DEF InputLayout
  <1>2. InputShape(e) /\ e.moved = b.moved /\ e.ret = "small"
    BY DEF Done, InputShape, InputFields
  <1>3. ASSUME b.len \in Nat, b.scroll = 0
        PROVE  /\ scroll \in Nat /\ x \in 0 .. w - 1 /\ scroll + x = b.len
               /\ shown = Window(b.len, scroll, w)
    <2>1. w \in Nat \ {0, 1} /\ w - 1 \in Int /\ b.len \in Int
      BY <1>3, FieldAssumption
    <2>2. x = IF b.len <= w - 1 THEN b.len ELSE w - 1
      BY <2>1, MinOfTwo
    <2> HIDE DEF x
    <2>3. CASE b.len >= w
      <3>1. scroll = b.len - w + 1 /\ x = w - 1
        BY <2>1, <2>2, <2>3
      <3>2. \A i \in 0 .. w - 1 : (i < w - 1 /\ scroll + i < b.len) <=> (i < w /\ scroll + i < b.len)
        BY <1>3, <2>1, <3>1
      <3>3. shown = Window(b.len, scroll, w - 1)
        BY <2>3
      <3> HIDE DEF scroll, shown
      <3>4. shown = Window(b.len, scroll, w)
        BY <3>2, <3>3 DEF Window, Columns
      <3> QED BY <1>3, <2>1, <2>3, <3>1, <3>4
    <2>4. CASE b.len < w
      <3>1. scroll = 0 /\ x = b.len /\ shown = Window(b.len, 0, w)
        BY <1>3, <2>1, <2>2, <2>4
      <3> QED BY <1>3, <2>1, <2>4, <3>1
    <2> QED BY <1>3, <2>1, <2>3, <2>4
  <1> HIDE DEF scroll, x, shown, e
  <1>4. /\ DOMAIN c = InputFields /\ c.kind = b.kind /\ c.height = b.height
        /\ c.moved = b.moved /\ c.ret = b.ret /\ c.button = b.button /\ c.drawn = 0
        /\ c.len = b.len /\ c.scroll = scroll /\ c.x = x /\ c.shown = shown
    BY DEF InputShape, InputFields
  <1> HIDE DEF c
  <1>5. InputShape(c)
    BY <1>4 DEF InputShape
  <1>6. b.len \in Nat /\ b.scroll = 0 /\ b.button = -1 => InputTrue(c)
    <2>1. Max({-1, 0}) = 0
      BY MaxOfTwo
    <2> QED BY <1>3, <1>4, <2>1 DEF InputTrue, FieldTrue
  <1>7. ~(l <= b.height - 2) => l >= 9
    BY DEF InputShape
  <1>8. InputTrue(e)
    BY <1>2 DEF InputTrue, Failed
  <1> QED BY <1>1, <1>2, <1>4, <1>5, <1>6, <1>7, <1>8 DEF Failed

LEMMA InputOpens ==
    ASSUME NEW height \in {10, 11}, NEW n \in Nat, NEW l \in Nat
    PROVE  LET c == InputOpen(height, n, l) IN
           InputShape(c) /\ InputTrue(c) /\ (c.ret \notin Failed => l >= 9)
  <1> DEFINE b == [kind |-> "input", height |-> height, was |-> n, len |-> n,
                   x |-> 0, scroll |-> 0, shown |-> Blank, button |-> -1,
                   drawn |-> 0, moved |-> 0, ret |-> "open"]
  <1>1. /\ DOMAIN b = InputFields /\ b.kind = "input" /\ b.height = height /\ b.len = n
        /\ b.scroll = 0 /\ b.button = -1 /\ b.moved = 0
    BY DEF InputFields
  <1>2. InputOpen(height, n, l) = InputLayout(b, l)
    BY DEF InputOpen
  <1> HIDE DEF b
  <1>3. InputShape(b)
    BY <1>1 DEF InputShape
  <1> QED BY <1>1, <1>2, <1>3, InputLaysOut
-----------------------------------------------------------------------------
(* The question whether to save *)

YesNoFields == {"kind", "button", "drawn", "moved", "ret"}

YesNoTrue(b) ==
    /\ DOMAIN b = YesNoFields
    /\ b.kind = "yesno"
    /\ b.moved \in Nat
    /\ b.moved = 0 => b.drawn = b.button

LEMMA YesNoKeys ==
    ASSUME NEW b, YesNoTrue(b), NEW key
    PROVE  YesNoTrue(YesNoKey(b, key)) /\ YesNoKey(b, key).moved = b.moved
  <1>1. YesNoTrue(Press(b, key, 2)) /\ Press(b, key, 2).moved = b.moved
    <2> DEFINE next == (IF key = "left" THEN b.button + 2 - 1 ELSE b.button + 1) % 2
    <2> HIDE DEF next
    <2>1. Press(b, key, 2) = [b EXCEPT !.button = next, !.drawn = next]
      BY DEF Press, next
    <2> QED BY <2>1 DEF YesNoTrue, YesNoFields
  <1>2. \A ret : YesNoTrue(Done(b, ret)) /\ Done(b, ret).moved = b.moved
    BY DEF Done, YesNoTrue, YesNoFields
  <1>3. \/ YesNoKey(b, key) = Press(b, key, 2)
        \/ YesNoKey(b, key) = b
        \/ \E ret : YesNoKey(b, key) = Done(b, ret)
    BY DEF YesNoKey
  <1> QED BY <1>1, <1>2, <1>3

LEMMA YesNoLaysOut ==
    ASSUME NEW b, DOMAIN b = YesNoFields, b.kind = "yesno", b.moved \in Nat,
           b.moved = 0 => b.drawn = 0 /\ b.button = 0, NEW l
    PROVE  YesNoTrue(YesNoLayout(b, l)) /\ YesNoLayout(b, l).moved = b.moved
  <1>1. YesNoLayout(b, l) \in {Done(b, "small"), [b EXCEPT !.drawn = 0]}
    BY DEF YesNoLayout
  <1> QED BY <1>1 DEF Done, YesNoTrue, YesNoFields

LEMMA YesNoOpens ==
    ASSUME NEW l
    PROVE  YesNoTrue(YesNo(l))
  <1> DEFINE b == [kind |-> "yesno", button |-> 0, drawn |-> 0, moved |-> 0, ret |-> "open"]
  <1>1. /\ DOMAIN b = YesNoFields /\ b.kind = "yesno" /\ b.moved = 0 /\ b.drawn = 0
        /\ b.button = 0
    BY DEF YesNoFields
  <1>2. YesNo(l) = YesNoLayout(b, l)
    BY DEF YesNo
  <1> HIDE DEF b
  <1> QED BY <1>1, <1>2, YesNoLaysOut
-----------------------------------------------------------------------------
(* The box of a text *)

TextFields ==
    {"kind", "length", "ended", "height", "rows", "page", "begin", "end", "count",
     "column", "shown", "moved", "ret"}

TextShape(b) ==
    DOMAIN b = TextFields /\ b.kind = "text" /\ b.moved \in Nat

(* The page that begins with line p. *)
From(b, p) ==
    /\ b.page = IF p + b.rows <= b.length THEN p + b.rows ELSE b.length
    /\ b.end = (b.length < p + b.rows)
    /\ b.count = IF b.rows <= b.length - p + 1 THEN b.rows ELSE b.length - p + 1
    /\ b.shown = [i \in 1 .. b.rows |-> LineAt(b, p + i - 1)]
    /\ b.begin = (p = 0)

TextFits(b) ==
    b.ended = TRUE /\ b.length \in Nat \ {0} /\ b.rows \in Nat \ {0}

TextShown(b) ==
    b.moved = 0 /\ b.ret \notin Failed /\ b.ended =>
        TextFits(b) /\ \E p \in 0 .. b.length : From(b, p)

(* What back_lines and get_line do, field by field. *)
LEMMA BackLinesDoes ==
    ASSUME NEW b, DOMAIN b = TextFields, NEW n
    PROVE  LET c == BackLines(b, n)
               atEnd == n > 0 /\ b.page = b.length /\ b.end
               rest == IF atEnd THEN n - 1 ELSE n
           IN  /\ DOMAIN c = TextFields /\ c.kind = b.kind /\ c.length = b.length
               /\ c.ended = b.ended /\ c.height = b.height /\ c.rows = b.rows
               /\ c.count = b.count /\ c.column = b.column /\ c.shown = b.shown
               /\ c.moved = b.moved /\ c.ret = b.ret
               /\ c.page = IF rest > 0 /\ rest >= b.page THEN 0 ELSE b.page - rest
               /\ c.begin = (rest > 0 /\ rest >= b.page)
  <1> DEFINE atEnd == n > 0 /\ b.page = b.length /\ b.end
             rest == IF atEnd THEN n - 1 ELSE n
             end == IF atEnd THEN FALSE ELSE b.end
             a == [b EXCEPT !.end = end]
  <1> HIDE DEF end, rest
  <1>1. BackLines(b, n) = IF rest > 0 /\ rest >= b.page
                          THEN [a EXCEPT !.page = 0, !.begin = TRUE]
                          ELSE [a EXCEPT !.page = b.page - rest, !.begin = FALSE]
    <2>1. a.page = b.page
      BY DEF TextFields
    <2> QED BY <2>1 DEF BackLines, end, rest
  <1>2. CASE rest > 0 /\ rest >= b.page
    BY <1>1, <1>2 DEF TextFields, rest
  <1>3. CASE ~(rest > 0 /\ rest >= b.page)
    BY <1>1, <1>3 DEF TextFields, rest
  <1> QED BY <1>2, <1>3

LEMMA ReadDoes ==
    ASSUME NEW b, DOMAIN b = TextFields, TextFits(b), NEW p \in 0 .. b.length, b.page = p,
           NEW n \in Nat
    PROVE  LET c == Read(b, n) IN
           /\ DOMAIN c = TextFields /\ c.kind = b.kind /\ c.length = b.length
           /\ c.ended = b.ended /\ c.height = b.height /\ c.rows = b.rows
           /\ c.begin = b.begin /\ c.column = b.column /\ c.shown = b.shown
           /\ c.moved = b.moved /\ c.ret = b.ret
           /\ c.page = IF p + n <= b.length THEN p + n ELSE b.length
           /\ c.end = (b.length < p + n)
           /\ c.count = IF n <= b.length - p + 1 THEN n ELSE b.length - p + 1
  <1> DEFINE page == Min({b.page + n, b.length})
             end == b.page + n - 1 >= EndLine(b)
             least == Max({EndLine(b) - b.page, 0})
             count == Min({n, least + 1})
  <1>1. EndLine(b) = b.length /\ b.length \in Nat
    BY DEF EndLine, TextFits
  <1>2. page = IF p + n <= b.length THEN p + n ELSE b.length
    <2>1. p + n \in Int /\ b.length \in Int
      BY <1>1
    <2> QED BY <2>1, MinOfTwo
  <1>3. end = (b.length < p + n)
    BY <1>1
  <1>4. least = b.length - p /\ least + 1 \in Int
    <2>1. b.length - p \in Int /\ b.length - p >= 0
      BY <1>1
    <2>2. least = Max({b.length - p, 0})
      BY <1>1
    <2>3. Max({b.length - p, 0}) = b.length - p
      BY <2>1, MaxOfTwo
    <2> QED BY <2>1, <2>2, <2>3
  <1>5. count = IF n <= b.length - p + 1 THEN n ELSE b.length - p + 1
    <2> HIDE DEF least
    <2> QED BY <1>4, MinOfTwo
  <1>6. Read(b, n) = [b EXCEPT !.page = page, !.end = end, !.count = count]
    BY DEF Read
  <1> HIDE DEF page, end, count
  <1> QED BY <1>2, <1>3, <1>5, <1>6 DEF TextFields

(* A page is printed from the line that get_line returns next. *)
LEMMA PrintsFrom ==
    ASSUME NEW b, TextShape(b), TextFits(b), NEW p \in 0 .. b.length, b.page = p,
           b.begin = (p = 0)
    PROVE  LET c == PrintPage(b) IN
           /\ TextShape(c) /\ TextFits(c) /\ From(c, p)
           /\ c.moved = b.moved /\ c.ret = b.ret /\ c.length = b.length
  <1> DEFINE r == Read(b, b.rows)
             shown == [i \in 1 .. b.rows |-> LineAt(b, b.page + i - 1)]
             c == [r EXCEPT !.shown = shown]
  <1>1. PrintPage(b) = c
    BY DEF PrintPage
  <1>2. /\ DOMAIN r = TextFields /\ r.kind = b.kind /\ r.length = b.length
        /\ r.ended = b.ended /\ r.height = b.height /\ r.rows = b.rows
        /\ r.begin = b.begin /\ r.column = b.column
        /\ r.moved = b.moved /\ r.ret = b.ret
        /\ r.page = IF p + b.rows <= b.length THEN p + b.rows ELSE b.length
        /\ r.end = (b.length < p + b.rows)
        /\ r.count = IF b.rows <= b.length - p + 1 THEN b.rows ELSE b.length - p + 1
    BY ReadDoes DEF TextShape, TextFits
  <1> HIDE DEF r, shown
  <1>3. /\ DOMAIN c = TextFields /\ c.kind = r.kind /\ c.length = r.length
        /\ c.ended = r.ended /\ c.height = r.height /\ c.rows = r.rows
        /\ c.begin = r.begin /\ c.moved = r.moved /\ c.ret = r.ret
        /\ c.page = r.page /\ c.end = r.end /\ c.count = r.count /\ c.shown = shown
    BY <1>2 DEF TextFields
  <1> HIDE DEF c
  <1>4. TextShape(c) /\ TextFits(c)
    BY <1>2, <1>3 DEF TextShape, TextFits
  <1>5. c.shown = [i \in 1 .. c.rows |-> LineAt(c, p + i - 1)]
    BY <1>2, <1>3 DEF shown, LineAt
  <1>6. From(c, p)
    BY <1>2, <1>3, <1>5 DEF From
  <1> QED BY <1>1, <1>2, <1>3, <1>4, <1>6

(* Going back by the lines counted leads to the first line of the page,    *)
(* and by more of them to a line above it.                                 *)
LEMMA GoesBack ==
    ASSUME NEW b, TextShape(b), TextFits(b), NEW p \in 0 .. b.length, From(b, p),
           NEW more \in Nat, more = 0 \/ ~b.begin
    PROVE  LET c == BackLines(b, b.count + more)
               q == IF p <= more THEN 0 ELSE p - more IN
           /\ TextShape(c) /\ TextFits(c)
           /\ q \in 0 .. c.length
           /\ c.page = q /\ c.begin = (q = 0)
           /\ c.moved = b.moved /\ c.ret = b.ret /\ c.rows = b.rows
           /\ c.shown = b.shown /\ c.length = b.length
  <1> DEFINE n == b.count + more
             atEnd == n > 0 /\ b.page = b.length /\ b.end
             rest == IF atEnd THEN n - 1 ELSE n
             c == BackLines(b, n)
             q == IF p <= more THEN 0 ELSE p - more
  <1>1. /\ DOMAIN c = TextFields /\ c.kind = b.kind /\ c.length = b.length
        /\ c.ended = b.ended /\ c.rows = b.rows /\ c.shown = b.shown
        /\ c.moved = b.moved /\ c.ret = b.ret
        /\ c.page = IF rest > 0 /\ rest >= b.page THEN 0 ELSE b.page - rest
        /\ c.begin = (rest > 0 /\ rest >= b.page)
    <2> HIDE DEF n
    <2> QED BY BackLinesDoes DEF TextShape
  <1>2. b.length \in Nat \ {0} /\ b.rows \in Nat \ {0} /\ p \in Nat /\ p <= b.length
    BY DEF TextFits
  <1>3. p # 0 \/ more = 0
    BY DEF From
  <1> DEFINE back == IF rest > 0 /\ rest >= b.page THEN 0 ELSE b.page - rest
  <1>4. back = q /\ (rest > 0 /\ rest >= b.page <=> q = 0)
    <2>1. CASE p + b.rows <= b.length
      <3>1. b.page = p + b.rows /\ ~b.end /\ b.count = b.rows
        <4>1. b.page = p + b.rows
          BY <2>1 DEF From
        <4>2. b.count = b.rows
          BY <1>2, <2>1 DEF From
        <4>3. ~(b.length < p + b.rows)
          BY <1>2, <2>1
        <4>4. ~b.end
          BY <4>3 DEF From
        <4> QED BY <4>1, <4>2, <4>4
      <3>2. rest = b.rows + more
        BY <3>1
      <3> HIDE DEF rest
      <3>3. rest > 0 /\ (rest >= b.page <=> p <= more)
        BY <1>2, <3>1, <3>2
      <3>4. b.page - rest = p - more
        BY <1>2, <3>1, <3>2
      <3> QED BY <1>2, <3>3, <3>4
    <2>2. CASE b.length < p + b.rows
      <3>1. b.page = b.length /\ b.end /\ b.count = b.length - p + 1
        <4>1. ~(p + b.rows <= b.length) /\ ~(b.rows <= b.length - p)
          BY <1>2, <2>2
        <4>2. b.count = b.length - p + 1
          BY <1>2, <4>1 DEF From
        <4>3. b.page = b.length
          BY <4>1 DEF From
        <4>4. b.end
          BY <2>2 DEF From
        <4> QED BY <4>2, <4>3, <4>4
      <3>2. rest = b.length - p + more
        BY <1>2, <3>1
      <3> HIDE DEF rest
      <3>3. rest >= b.page <=> p <= more
        BY <1>2, <3>1, <3>2
      <3>4. b.page - rest = p - more
        BY <1>2, <3>1, <3>2
      <3>5. p <= more => rest > 0
        BY <1>2, <1>3, <3>2
      <3> QED BY <1>2, <3>3, <3>4, <3>5
    <2> QED BY <1>2, <2>1, <2>2
  <1>5. q \in 0 .. b.length
    BY <1>2
  <1> HIDE DEF c, q, rest
  <1>6. TextShape(c) /\ TextFits(c)
    BY <1>1 DEF TextShape, TextFits
  <1> QED BY <1>1, <1>4, <1>5, <1>6 DEF c, q, n

(* Whatever is printed, these stay. *)
SameText(c, b) ==
    DOMAIN c = TextFields /\ c.kind = b.kind /\ c.moved = b.moved /\ c.ended = b.ended

LEMMA PrintKeeps ==
    ASSUME NEW b, DOMAIN b = TextFields
    PROVE  SameText(PrintPage(b), b) /\ \A n : SameText(Read(b, n), b)
  <1>1. ASSUME NEW n
        PROVE  SameText(Read(b, n), b)
    <2> DEFINE page == Min({b.page + n, b.length})
               end == b.page + n - 1 >= EndLine(b)
               count == Min({n, Max({EndLine(b) - b.page, 0}) + 1})
    <2>1. Read(b, n) = [b EXCEPT !.page = page, !.end = end, !.count = count]
      BY DEF Read
    <2> HIDE DEF page, end, count
    <2> QED BY <2>1 DEF SameText, TextFields
  <1> DEFINE r == Read(b, b.rows)
             shown == [i \in 1 .. b.rows |-> LineAt(b, b.page + i - 1)]
  <1>2. SameText(r, b)
    BY <1>1
  <1>3. PrintPage(b) = [r EXCEPT !.shown = shown]
    BY DEF PrintPage
  <1> HIDE DEF r, shown
  <1>4. SameText(PrintPage(b), b)
    BY <1>2, <1>3 DEF SameText, TextFields
  <1> QED BY <1>1, <1>4

LEMMA BackKeeps ==
    ASSUME NEW b, DOMAIN b = TextFields, NEW n
    PROVE  SameText(BackLines(b, n), b)
  BY BackLinesDoes DEF SameText

LEMMA SameSame ==
    ASSUME NEW b, NEW c, NEW d, SameText(d, c), SameText(c, b)
    PROVE  SameText(d, b)
  BY DEF SameText

LEMMA UpKeeps ==
    ASSUME NEW b, DOMAIN b = TextFields
    PROVE  SameText(LineUp(b), b)
  <1> DEFINE c == BackLines(b, b.count + 1)
             r == Read(c, b.rows)
             shown == [i \in 1 .. b.rows |-> IF i = 1 THEN LineAt(c, c.page) ELSE b.shown[i - 1]]
  <1>1. SameText(c, b)
    BY BackKeeps
  <1>2. DOMAIN c = TextFields
    BY <1>1 DEF SameText
  <1>3. SameText(r, c)
    BY <1>2, PrintKeeps
  <1>4. LineUp(b) = [r EXCEPT !.shown = shown]
    BY DEF LineUp
  <1> HIDE DEF c, r, shown
  <1>5. SameText(r, b)
    BY <1>1, <1>3, SameSame
  <1> QED BY <1>4, <1>5 DEF SameText, TextFields

LEMMA DownKeeps ==
    ASSUME NEW b, DOMAIN b = TextFields
    PROVE  SameText(LineDown(b), b)
  <1> DEFINE r == Read(b, 1)
             shown == [i \in 1 .. b.rows |-> IF i = b.rows THEN LineAt(b, b.page) ELSE b.shown[i + 1]]
  <1>1. SameText(r, b)
    BY PrintKeeps
  <1>2. LineDown(b) = [r EXCEPT !.begin = FALSE, !.count = b.count, !.shown = shown]
    BY DEF LineDown
  <1> HIDE DEF r, shown
  <1> QED BY <1>1, <1>2 DEF SameText, TextFields

LEMMA TextKeyIs ==
    ASSUME NEW b, DOMAIN b = TextFields, NEW key
    PROVE  \/ TextKey(b, key) = Done(b, "exit")
           \/ TextKey(b, key) = b
           \/ ~b.begin /\ TextKey(b, key) = PrintPage([b EXCEPT !.page = 0, !.begin = TRUE])
           \/ TextKey(b, key) =
                  PrintPage(BackLines([b EXCEPT !.page = b.length, !.end = TRUE], b.rows))
           \/ ~b.begin /\ TextKey(b, key) = LineUp(b)
           \/ ~b.end /\ TextKey(b, key) = LineDown(b)
           \/ ~b.begin /\ TextKey(b, key) = PrintPage(BackLines(b, b.count + b.rows))
           \/ ~b.end /\ TextKey(b, key) = PrintPage([b EXCEPT !.begin = FALSE])
           \/ \E column : TextKey(b, key) = Sideways(b, column)
  <1>1. CASE key \in {"x", "enter", "esc"}
    BY <1>1 DEF TextKey
  <1>2. CASE key \in {"home", "end", "up", "down"}
    BY <1>2 DEF TextKey
  <1>3. CASE key \in {"b", "pageup", "space", "pagedown"}
    BY <1>3 DEF TextKey
  <1>4. CASE key \in {"h", "left", "right"}
    BY <1>4 DEF TextKey
  <1>5. CASE key \notin {"x", "enter", "esc", "home", "end", "up", "down", "b", "pageup",
                         "space", "pagedown", "h", "left", "right"}
    BY <1>5 DEF TextKey
  <1> QED BY <1>1, <1>2, <1>3, <1>4, <1>5

LEMMA TextKeeps ==
    ASSUME NEW b, TextShape(b), NEW key
    PROVE  SameText(TextKey(b, key), b)
  <1>1. DOMAIN b = TextFields
    BY DEF TextShape
  <1>2. ASSUME NEW a, SameText(a, b)
        PROVE  /\ SameText(PrintPage(a), b)
               /\ \A n : SameText(PrintPage(BackLines(a, n)), b)
    <2>1. DOMAIN a = TextFields
      BY <1>2 DEF SameText
    <2>2. SameText(PrintPage(a), b)
      BY <1>2, <2>1, PrintKeeps, SameSame
    <2>3. ASSUME NEW n
          PROVE  SameText(PrintPage(BackLines(a, n)), b)
      <3>1. SameText(BackLines(a, n), a)
        BY <2>1, BackKeeps
      <3>2. DOMAIN BackLines(a, n) = TextFields
        BY <3>1 DEF SameText
      <3>3. SameText(PrintPage(BackLines(a, n)), BackLines(a, n))
        BY <3>2, PrintKeeps
      <3> QED BY <1>2, <3>1, <3>3, SameSame
    <2> QED BY <2>2, <2>3
  <1>3. SameText(b, b) /\ SameText(Done(b, "exit"), b)
    BY <1>1 DEF SameText, Done, TextFields
  <1>4. SameText(LineUp(b), b) /\ SameText(LineDown(b), b)
    BY <1>1, UpKeeps, DownKeeps
  <1>5. SameText(PrintPage([b EXCEPT !.page = 0, !.begin = TRUE]), b)
    <2>1. SameText([b EXCEPT !.page = 0, !.begin = TRUE], b)
      BY <1>1 DEF SameText, TextFields
    <2> QED BY <1>2, <2>1
  <1>6. SameText(PrintPage([b EXCEPT !.begin = FALSE]), b)
    <2>1. SameText([b EXCEPT !.begin = FALSE], b)
      BY <1>1 DEF SameText, TextFields
    <2> QED BY <1>2, <2>1
  <1>7. SameText(PrintPage(BackLines([b EXCEPT !.page = b.length, !.end = TRUE], b.rows)), b)
    <2>1. SameText([b EXCEPT !.page = b.length, !.end = TRUE], b)
      BY <1>1 DEF SameText, TextFields
    <2> QED BY <1>2, <2>1
  <1>8. SameText(PrintPage(BackLines(b, b.count + b.rows)), b)
    BY <1>2, <1>3
  <1>9. ASSUME NEW column
        PROVE  SameText(Sideways(b, column), b)
    <2>1. SameText([b EXCEPT !.column = column], b)
      BY <1>1 DEF SameText, TextFields
    <2> QED BY <1>2, <2>1 DEF Sideways
  <1> QED BY <1>1, <1>3, <1>4, <1>5, <1>6, <1>7, <1>8, <1>9, TextKeyIs

(* A key prints a page from some line. *)
PageShown(c) == TextFits(c) /\ \E p \in 0 .. c.length : From(c, p)

LEMMA UpShows ==
    ASSUME NEW b, TextShape(b), TextFits(b), NEW p \in 0 .. b.length, From(b, p), ~b.begin
    PROVE  PageShown(LineUp(b))
  <1> DEFINE c == BackLines(b, b.count + 1)
             r == Read(c, b.rows)
             shown == [i \in 1 .. b.rows |-> IF i = 1 THEN LineAt(c, c.page) ELSE b.shown[i - 1]]
             d == [r EXCEPT !.shown = shown]
             q == p - 1
  <1>1. p # 0 /\ b.length \in Nat \ {0} /\ b.rows \in Nat \ {0}
    BY DEF From, TextFits
  <1>2. q = IF p <= 1 THEN 0 ELSE p - 1
    BY <1>1
  <1>3. /\ TextShape(c) /\ TextFits(c)
        /\ q \in 0 .. c.length /\ c.page = q /\ c.begin = (q = 0)
        /\ c.moved = b.moved /\ c.ret = b.ret /\ c.rows = b.rows
        /\ c.shown = b.shown /\ c.length = b.length
    <2> HIDE DEF q, c
    <2> QED BY <1>2, GoesBack DEF c
  <1>4. LineUp(b) = d
    BY DEF LineUp
  <1> HIDE DEF c
  <1>5. /\ DOMAIN r = TextFields /\ r.length = c.length
        /\ r.ended = c.ended /\ r.rows = c.rows /\ r.begin = c.begin
        /\ r.page = IF q + b.rows <= c.length THEN q + b.rows ELSE c.length
        /\ r.end = (c.length < q + b.rows)
        /\ r.count = IF b.rows <= c.length - q + 1 THEN b.rows ELSE c.length - q + 1
    <2> HIDE DEF q
    <2> QED BY <1>1, <1>3, ReadDoes DEF TextShape
  <1> HIDE DEF r, shown
  <1>6. /\ DOMAIN d = TextFields /\ d.length = r.length
        /\ d.ended = r.ended /\ d.rows = r.rows /\ d.begin = r.begin
        /\ d.page = r.page /\ d.end = r.end /\ d.count = r.count /\ d.shown = shown
    BY <1>5 DEF TextFields
  <1> HIDE DEF d
  <1>7. TextFits(d) /\ d.length = b.length /\ d.rows = b.rows
    BY <1>3, <1>5, <1>6 DEF TextFits
  <1>8. d.shown = [i \in 1 .. d.rows |-> LineAt(d, q + i - 1)]
    <2>1. \A i \in 1 .. b.rows : b.shown[i] = LineAt(b, p + i - 1)
      BY DEF From
    <2>2. ASSUME NEW i \in 1 .. b.rows
          PROVE  shown[i] = LineAt(d, q + i - 1)
      <3>1. CASE i = 1
        <4>1. shown[i] = LineAt(c, c.page) /\ q + i - 1 = q
          BY <3>1 DEF shown
        <4> QED BY <1>3, <1>7, <4>1 DEF LineAt
      <3>2. CASE i # 1
        <4>1. shown[i] = b.shown[i - 1] /\ i - 1 \in 1 .. b.rows /\ p + (i - 1) - 1 = q + i - 1
          BY <3>2, <1>1 DEF shown
        <4>2. b.shown[i - 1] = LineAt(b, p + (i - 1) - 1)
          BY <2>1, <4>1
        <4> HIDE DEF q
        <4> QED BY <1>7, <4>1, <4>2 DEF LineAt
      <3> QED BY <3>1, <3>2
    <2>3. shown = [i \in 1 .. b.rows |-> shown[i]]
      BY DEF shown
    <2> HIDE DEF q
    <2> QED BY <1>6, <1>7, <2>2, <2>3
  <1> HIDE DEF q
  <1>9. From(d, q)
    BY <1>3, <1>5, <1>6, <1>8 DEF From
  <1> QED BY <1>3, <1>4, <1>7, <1>9 DEF PageShown

LEMMA DownShows ==
    ASSUME NEW b, TextShape(b), TextFits(b), NEW p \in 0 .. b.length, From(b, p), ~b.end
    PROVE  PageShown(LineDown(b))
  <1> DEFINE r == Read(b, 1)
             shown == [i \in 1 .. b.rows |-> IF i = b.rows THEN LineAt(b, b.page) ELSE b.shown[i + 1]]
             d == [r EXCEPT !.begin = FALSE, !.count = b.count, !.shown = shown]
             q == p + 1
  <1>1. p \in Nat /\ b.length \in Nat \ {0} /\ b.rows \in Nat \ {0}
    BY DEF TextFits
  <1>2. ~(b.length < p + b.rows)
    BY DEF From
  <1>3. b.page = p + b.rows /\ b.count = b.rows /\ b.page \in 0 .. b.length
    <2>1. b.page = p + b.rows
      BY <1>1, <1>2 DEF From
    <2>2. b.count = b.rows
      BY <1>1, <1>2 DEF From
    <2> QED BY <1>1, <1>2, <2>1, <2>2
  <1>4. q \in 0 .. b.length
    BY <1>1, <1>2
  <1>5. LineDown(b) = d
    BY DEF LineDown
  <1>6. /\ DOMAIN r = TextFields /\ r.length = b.length
        /\ r.ended = b.ended /\ r.rows = b.rows
        /\ r.page = IF b.page + 1 <= b.length THEN b.page + 1 ELSE b.length
        /\ r.end = (b.length < b.page + 1)
    BY <1>3, ReadDoes DEF TextShape
  <1> HIDE DEF r, shown
  <1>7. /\ DOMAIN d = TextFields /\ d.length = r.length
        /\ d.ended = r.ended /\ d.rows = r.rows /\ d.begin = FALSE
        /\ d.page = r.page /\ d.end = r.end /\ d.count = b.count /\ d.shown = shown
    BY <1>6 DEF TextFields
  <1> HIDE DEF d
  <1>8. TextFits(d) /\ d.length = b.length /\ d.rows = b.rows
    BY <1>6, <1>7 DEF TextFits
  <1>9. d.shown = [i \in 1 .. d.rows |-> LineAt(d, q + i - 1)]
    <2>1. \A i \in 1 .. b.rows : b.shown[i] = LineAt(b, p + i - 1)
      BY DEF From
    <2>2. ASSUME NEW i \in 1 .. b.rows
          PROVE  shown[i] = LineAt(d, q + i - 1)
      <3>1. CASE i = b.rows
        <4>1. shown[i] = LineAt(b, b.page) /\ q + i - 1 = b.page
          BY <1>1, <1>3, <3>1 DEF shown
        <4> HIDE DEF q
        <4> QED BY <1>8, <4>1 DEF LineAt
      <3>2. CASE i # b.rows
        <4>1. shown[i] = b.shown[i + 1] /\ i + 1 \in 1 .. b.rows /\ p + (i + 1) - 1 = q + i - 1
          BY <1>1, <3>2 DEF shown
        <4>2. b.shown[i + 1] = LineAt(b, p + (i + 1) - 1)
          BY <2>1, <4>1
        <4> HIDE DEF q
        <4> QED BY <1>8, <4>1, <4>2 DEF LineAt
      <3> QED BY <3>1, <3>2
    <2>3. shown = [i \in 1 .. b.rows |-> shown[i]]
      BY DEF shown
    <2> HIDE DEF q
    <2> QED BY <1>7, <1>8, <2>2, <2>3
  <1>10. From(d, q)
    <2>1. d.page = IF q + d.rows <= d.length THEN q + d.rows ELSE d.length
      BY <1>1, <1>3, <1>6, <1>7, <1>8
    <2>2. d.end = (d.length < q + d.rows)
      <3>1. b.length < b.page + 1 <=> d.length < q + d.rows
        BY <1>1, <1>3, <1>8
      <3> QED BY <1>6, <1>7, <3>1
    <2>3. d.count = IF d.rows <= d.length - q + 1 THEN d.rows ELSE d.length - q + 1
      BY <1>1, <1>2, <1>3, <1>7, <1>8
    <2>4. d.begin = (q = 0)
      <3>1. q # 0
        BY <1>1
      <3> HIDE DEF q
      <3> QED BY <1>7, <3>1
    <2> HIDE DEF q
    <2> QED BY <1>9, <2>1, <2>2, <2>3, <2>4 DEF From
  <1> HIDE DEF q
  <1> QED BY <1>4, <1>5, <1>8, <1>10 DEF PageShown

(* The keys of a text. *)
LEMMA TextKeys ==
    ASSUME NEW b, TextShape(b), TextShown(b), b.ret = "open", NEW key
    PROVE  LET c == TextKey(b, key) IN
           TextShape(c) /\ TextShown(c) /\ c.moved = b.moved
  <1> DEFINE c == TextKey(b, key)
  <1>1. SameText(c, b)
    BY TextKeeps
  <1>2. TextShape(c) /\ c.moved = b.moved /\ c.ended = b.ended
    BY <1>1 DEF SameText, TextShape
  <1> SUFFICES ASSUME b.moved = 0, b.ended
               PROVE  PageShown(c)
    <2> HIDE DEF c
    <2>1. TextShape(c) /\ TextShown(c) /\ c.moved = b.moved
      BY <1>2 DEF TextShown, PageShown
    <2> QED BY <2>1 DEF c
  <1>3. TextFits(b)
    BY DEF TextShown, Failed
  <1>4. PICK p \in 0 .. b.length : From(b, p)
    BY DEF TextShown, Failed
  <1>5. DOMAIN b = TextFields /\ b.length \in Nat \ {0} /\ b.rows \in Nat \ {0} /\ p \in Nat
    BY <1>3, <1>4 DEF TextShape, TextFits
  <1>6. ASSUME NEW a, TextShape(a), TextFits(a), a.page \in 0 .. a.length,
               a.begin = (a.page = 0)
        PROVE  PageShown(PrintPage(a))
    <2>1. /\ TextFits(PrintPage(a)) /\ From(PrintPage(a), a.page)
          /\ PrintPage(a).length = a.length
      BY <1>6, PrintsFrom
    <2> QED BY <1>6, <2>1 DEF PageShown
  <1>7. ASSUME c = Done(b, "exit")
        PROVE  PageShown(c)
    <2>1. /\ c.length = b.length /\ c.ended = b.ended /\ c.rows = b.rows /\ c.page = b.page
          /\ c.begin = b.begin /\ c.end = b.end /\ c.count = b.count /\ c.shown = b.shown
      BY <1>5, <1>7 DEF Done, TextFields
    <2> HIDE DEF c
    <2> QED BY <1>3, <1>4, <2>1 DEF PageShown, TextFits, From, LineAt
  <1>8. ASSUME c = b
        PROVE  PageShown(c)
    BY <1>3, <1>4, <1>8 DEF PageShown
  <1>9. PageShown(PrintPage([b EXCEPT !.page = 0, !.begin = TRUE]))
    <2> DEFINE a == [b EXCEPT !.page = 0, !.begin = TRUE]
    <2>1. /\ DOMAIN a = TextFields /\ a.kind = b.kind /\ a.moved = b.moved
          /\ a.length = b.length /\ a.ended = b.ended /\ a.rows = b.rows
          /\ a.page = 0 /\ a.begin = TRUE
      BY <1>5 DEF TextFields
    <2> HIDE DEF a
    <2>2. TextShape(a) /\ TextFits(a) /\ a.page \in 0 .. a.length
      BY <1>3, <1>5, <2>1 DEF TextShape, TextFits
    <2>3. PageShown(PrintPage(a))
      BY <1>6, <2>1, <2>2
    <2> QED BY <2>3 DEF a
  <1>10. PageShown(PrintPage(BackLines([b EXCEPT !.page = b.length, !.end = TRUE], b.rows)))
    <2> DEFINE a == [b EXCEPT !.page = b.length, !.end = TRUE]
               n == b.rows
               d == BackLines(a, n)
    <2>1. /\ DOMAIN a = TextFields /\ a.kind = b.kind /\ a.moved = b.moved
          /\ a.length = b.length /\ a.ended = b.ended /\ a.rows = b.rows
          /\ a.page = b.length /\ a.end = TRUE
      BY <1>5 DEF TextFields
    <2> HIDE DEF a
    <2>2. /\ DOMAIN d = TextFields /\ d.kind = a.kind /\ d.length = a.length
          /\ d.ended = a.ended /\ d.rows = a.rows /\ d.moved = a.moved
          /\ d.page = IF n - 1 > 0 /\ n - 1 >= a.page THEN 0 ELSE a.page - (n - 1)
          /\ d.begin = (n - 1 > 0 /\ n - 1 >= a.page)
      <3> DEFINE atEnd == n > 0 /\ a.page = a.length /\ a.end
                 rest == IF atEnd THEN n - 1 ELSE n
      <3>1. rest = n - 1
        BY <1>5, <2>1
      <3>2. /\ DOMAIN d = TextFields /\ d.kind = a.kind /\ d.length = a.length
            /\ d.ended = a.ended /\ d.rows = a.rows /\ d.moved = a.moved
            /\ d.page = IF rest > 0 /\ rest >= a.page THEN 0 ELSE a.page - rest
            /\ d.begin = (rest > 0 /\ rest >= a.page)
        BY <2>1, BackLinesDoes
      <3> HIDE DEF rest, d
      <3> QED BY <3>1, <3>2
    <2> HIDE DEF d
    <2>3. TextShape(d) /\ TextFits(d)
      BY <1>3, <2>1, <2>2 DEF TextShape, TextFits
    <2>4. d.page \in 0 .. d.length
      <3>1. d.page = IF n - 1 > 0 /\ n - 1 >= b.length THEN 0 ELSE b.length - (n - 1)
        BY <2>1, <2>2
      <3> QED BY <1>5, <2>1, <2>2, <3>1
    <2>5. d.begin = (d.page = 0)
      <3>1. d.page = IF n - 1 > 0 /\ n - 1 >= b.length THEN 0 ELSE b.length - (n - 1)
        BY <2>1, <2>2
      <3>2. (n - 1 > 0 /\ n - 1 >= a.page) <=> d.page = 0
        BY <1>5, <2>1, <3>1
      <3> QED BY <2>2, <3>2
    <2>6. PageShown(PrintPage(d))
      BY <1>6, <2>3, <2>4, <2>5
    <2> QED BY <2>6 DEF d, a
  <1>11. ASSUME ~b.begin
         PROVE  PageShown(LineUp(b))
    BY <1>3, <1>4, <1>11, UpShows
  <1>12. ASSUME ~b.end
         PROVE  PageShown(LineDown(b))
    BY <1>3, <1>4, <1>12, DownShows
  <1>13. ASSUME ~b.begin
         PROVE  PageShown(PrintPage(BackLines(b, b.count + b.rows)))
    <2> DEFINE d == BackLines(b, b.count + b.rows)
    <2>1. /\ TextShape(d) /\ TextFits(d) /\ d.page \in 0 .. d.length
          /\ d.begin = (d.page = 0)
      <3> DEFINE more == b.rows
      <3>1. more \in Nat
        BY <1>5
      <3> HIDE DEF more
      <3>2. /\ TextShape(BackLines(b, b.count + more)) /\ TextFits(BackLines(b, b.count + more))
            /\ BackLines(b, b.count + more).page \in 0 .. BackLines(b, b.count + more).length
            /\ BackLines(b, b.count + more).begin = (BackLines(b, b.count + more).page = 0)
        BY <1>3, <1>4, <1>13, <3>1, GoesBack
      <3> QED BY <3>2 DEF more
    <2> HIDE DEF d
    <2>2. PageShown(PrintPage(d))
      BY <1>6, <2>1
    <2> QED BY <2>2 DEF d
  <1>14. ASSUME ~b.end
         PROVE  PageShown(PrintPage([b EXCEPT !.begin = FALSE]))
    <2> DEFINE a == [b EXCEPT !.begin = FALSE]
    <2>1. /\ DOMAIN a = TextFields /\ a.kind = b.kind /\ a.moved = b.moved
          /\ a.length = b.length /\ a.ended = b.ended /\ a.rows = b.rows
          /\ a.page = b.page /\ a.begin = FALSE
      BY <1>5 DEF TextFields
    <2> HIDE DEF a
    <2>2. ~(b.length < p + b.rows)
      BY <1>4, <1>14 DEF From
    <2>3. b.page = p + b.rows
      BY <1>4, <1>5, <2>2 DEF From
    <2>4. TextShape(a) /\ TextFits(a) /\ a.page \in 0 .. a.length /\ a.begin = (a.page = 0)
      <3>1. a.page \in 0 .. a.length /\ a.page # 0
        BY <1>5, <2>1, <2>2, <2>3
      <3> QED BY <1>3, <2>1, <3>1 DEF TextShape, TextFits
    <2>5. PageShown(PrintPage(a))
      BY <1>6, <2>4
    <2> QED BY <2>5 DEF a
  <1>15. ASSUME NEW column
         PROVE  PageShown(Sideways(b, column))
    <2> DEFINE a == [b EXCEPT !.column = column]
               d == BackLines(a, b.count)
    <2>1. /\ DOMAIN a = TextFields /\ a.kind = b.kind /\ a.moved = b.moved
          /\ a.length = b.length /\ a.ended = b.ended /\ a.rows = b.rows /\ a.page = b.page
          /\ a.begin = b.begin /\ a.end = b.end /\ a.count = b.count /\ a.shown = b.shown
      BY <1>5 DEF TextFields
    <2>2. Sideways(b, column) = PrintPage(d)
      BY DEF Sideways
    <2> HIDE DEF a
    <2>3. TextShape(a) /\ TextFits(a) /\ From(a, p) /\ p \in 0 .. a.length
      BY <1>3, <1>4, <2>1 DEF TextShape, TextFits, From, LineAt
    <2>4. a.count + 0 = a.count
      <3>1. a.count \in Int
        BY <1>5, <2>1, <2>3 DEF From
      <3> QED BY <3>1
    <2>5. /\ TextShape(d) /\ TextFits(d) /\ d.page \in 0 .. d.length
          /\ d.begin = (d.page = 0)
      <3>1. /\ TextShape(BackLines(a, a.count + 0)) /\ TextFits(BackLines(a, a.count + 0))
            /\ BackLines(a, a.count + 0).page \in 0 .. BackLines(a, a.count + 0).length
            /\ BackLines(a, a.count + 0).begin = (BackLines(a, a.count + 0).page = 0)
        <4>1. 0 \in Nat
          OBVIOUS
        <4> QED BY <2>3, <4>1, GoesBack
      <3> QED BY <2>1, <2>4, <3>1
    <2> HIDE DEF d
    <2> QED BY <1>6, <2>2, <2>5
  <1> HIDE DEF c
  <1> QED BY <1>5, <1>7, <1>8, <1>9, <1>10, <1>11, <1>12, <1>13, <1>14, <1>15, TextKeyIs DEF c

(* Going back by the lines counted finds the page. *)
LEMMA TextIsTrue ==
    ASSUME NEW b, TextShape(b), PageShown(b)
    PROVE  TextTrue(b)
  <1>1. PICK p \in 0 .. b.length : From(b, p)
    BY DEF PageShown
  <1>2. TextFits(b) /\ b.count \in Int
    <2>1. b.length \in Nat /\ b.rows \in Nat /\ p \in Int
      BY DEF PageShown, TextFits
    <2> QED BY <1>1, <2>1 DEF PageShown, From
  <1> DEFINE c == BackLines(b, b.count)
  <1>3. c.page = p
    <2>1. BackLines(b, b.count + 0).page = IF p <= 0 THEN 0 ELSE p - 0
      <3>1. 0 \in Nat
        OBVIOUS
      <3> QED BY <1>1, <1>2, <3>1, GoesBack
    <2>2. b.count + 0 = b.count /\ (IF p <= 0 THEN 0 ELSE p - 0) = p
      <3>1. b.length \in Nat
        BY <1>2 DEF TextFits
      <3> QED BY <1>1, <1>2, <3>1
    <2> QED BY <2>1, <2>2
  <1> HIDE DEF c
  <1> QED BY <1>1, <1>3 DEF TextTrue, From, c

(* A text that opens, a long one in a terminal with a row for it. *)
LEMMA TextOpens ==
    ASSUME NEW length, NEW ended \in BOOLEAN, NEW height, NEW l \in Nat,
           ended => length \in Nat \ {0} /\ height = 0 /\ l >= 9
    PROVE  LET c == TextOpen(length, ended, height, l) IN TextShape(c) /\ TextShown(c)
  <1> DEFINE b == [kind |-> "text", length |-> length, ended |-> ended,
                   height |-> height, rows |-> 0, page |-> 0, begin |-> TRUE,
                   end |-> FALSE, count |-> 0, column |-> 0, shown |-> <<>>,
                   moved |-> 0, ret |-> "open"]
             rows == (IF b.height # 0 THEN b.height ELSE l - 4) - 4
             a == [b EXCEPT !.rows = rows]
             c == TextLayout(b, l)
  <1>1. TextOpen(length, ended, height, l) = c
    BY DEF TextOpen
  <1>2. c = IF l < 8 THEN Done(b, "small") ELSE PrintPage(a)
    BY DEF TextLayout
  <1>3. /\ DOMAIN b = TextFields /\ b.kind = "text" /\ b.moved = 0 /\ b.ended = ended
        /\ b.length = length /\ b.page = 0 /\ b.begin = TRUE /\ b.height = height
    BY DEF TextFields
  <1> HIDE DEF b
  <1>4. ended => rows = l - 8
    BY <1>3
  <1> HIDE DEF rows
  <1>5. /\ DOMAIN a = TextFields /\ a.kind = "text" /\ a.moved = 0 /\ a.ended = ended
        /\ a.length = length /\ a.page = 0 /\ a.begin = TRUE /\ a.rows = rows
    BY <1>3 DEF TextFields
  <1>6. TextShape(Done(b, "small")) /\ TextShown(Done(b, "small"))
    BY <1>3 DEF Done, TextShape, TextShown, TextFields, Failed
  <1> HIDE DEF a
  <1>7. SameText(PrintPage(a), a)
    BY <1>5, PrintKeeps
  <1>8. TextShape(PrintPage(a)) /\ PrintPage(a).ended = ended
    BY <1>5, <1>7 DEF SameText, TextShape
  <1>9. ended => PageShown(PrintPage(a))
    <2> SUFFICES ASSUME ended PROVE PageShown(PrintPage(a))
      OBVIOUS
    <2>1. TextShape(a) /\ TextFits(a) /\ 0 \in 0 .. a.length /\ a.begin = (0 = 0)
      <3>1. ended = TRUE /\ length \in Nat \ {0} /\ rows \in Nat \ {0}
        BY <1>4
      <3>2. a.ended = TRUE
        BY <1>5, <3>1
      <3>3. a.begin = (0 = 0)
        BY <1>5
      <3>4. TextShape(a)
        BY <1>5 DEF TextShape
      <3>5. TextFits(a) /\ 0 \in 0 .. a.length
        BY <1>5, <3>1, <3>2 DEF TextFits
      <3> QED BY <3>3, <3>4, <3>5
    <2>2. /\ TextFits(PrintPage(a)) /\ From(PrintPage(a), 0)
          /\ PrintPage(a).length = a.length
      BY <1>5, <2>1, PrintsFrom
    <2> QED BY <2>1, <2>2 DEF PageShown
  <1>10. TextShown(PrintPage(a))
    BY <1>8, <1>9 DEF TextShown, PageShown
  <1> QED BY <1>1, <1>2, <1>6, <1>8, <1>10

LEMMA TextLaysOut ==
    ASSUME NEW b, TextShape(b), NEW l
    PROVE  TextShape(TextMoved(b, l)) /\ TextMoved(b, l).moved = b.moved
  <1> DEFINE c == BackLines(b, b.rows + 4)
             rows == (IF c.height # 0 THEN c.height ELSE l - 4) - 4
             a == [c EXCEPT !.rows = rows]
  <1>1. SameText(c, b)
    BY BackKeeps DEF TextShape
  <1>2. TextMoved(b, l) = IF l < 8 THEN Done(c, "small") ELSE PrintPage(a)
    BY DEF TextMoved, TextLayout
  <1> HIDE DEF c, rows
  <1>3. SameText(a, b) /\ SameText(Done(c, "small"), b)
    BY <1>1 DEF SameText, Done, TextFields
  <1> HIDE DEF a
  <1>4. SameText(PrintPage(a), b)
    <2>1. DOMAIN a = TextFields
      BY <1>3 DEF SameText
    <2> QED BY <1>3, <2>1, PrintKeeps, SameSame
  <1> QED BY <1>2, <1>3, <1>4 DEF SameText, TextShape
-----------------------------------------------------------------------------
(* What a menu lists *)

(* Going through the entries step by step. *)
LEMMA InOrderListed ==
    ASSUME NEW those
    PROVE  Listed(InOrder(those))
  <1> DEFINE len == Len(Entries)
             Step(f, n) == IF n = 0 THEN <<>>
                           ELSE IF Entries[n] \in those THEN Append(f[n - 1], Entries[n])
                           ELSE f[n - 1]
             F(f, m) == [n \in 0 .. m |-> Step(f, n)]
             upTo == CHOOSE f : f = F(f, len)
             Good == {m \in Nat : \E f : f = F(f, m)}
  <1>1. Entries \in Seq(Entry) /\ len \in Nat /\ DOMAIN Entries = 1 .. len
    BY EntryAssumption, LenProperties
  <1>2. InOrder(those) = upTo[len]
    BY DEF InOrder
  <1> HIDE DEF upTo
  <1>3. 0 \in Good
    <2> DEFINE f == [n \in {0} |-> <<>>]
    <2>1. 0 .. 0 = {0}
      BY SMT
    <2>2. f = F(f, 0)
      BY <2>1
    <2> QED BY <2>2
  <1>4. ASSUME NEW m \in Nat, m \in Good
        PROVE  m + 1 \in Good
    <2>1. PICK f : f = F(f, m)
      BY <1>4
    <2> DEFINE g == [n \in 0 .. m + 1 |-> IF n = m + 1 THEN Step(f, m + 1) ELSE f[n]]
    <2>2. \A n \in 0 .. m : g[n] = f[n]
      OBVIOUS
    <2>3. ASSUME NEW n \in 0 .. m + 1
          PROVE  g[n] = Step(g, n)
      <3>1. CASE n = m + 1
        <4>1. g[n] = Step(f, m + 1) /\ m + 1 # 0 /\ (m + 1) - 1 = m /\ m \in 0 .. m
          BY <3>1
        <4>2. g[m] = f[m]
          BY <2>2, <4>1
        <4> HIDE DEF g
        <4> QED BY <3>1, <4>1, <4>2
      <3>2. CASE n # m + 1
        <4>1. n \in 0 .. m
          BY <3>2
        <4>2. f[n] = Step(f, n)
          BY <2>1, <4>1
        <4>3. n # 0 => n - 1 \in 0 .. m
          BY <4>1
        <4> HIDE DEF g
        <4> QED BY <2>2, <4>1, <4>2, <4>3
      <3> QED BY <3>1, <3>2
    <2>4. g = [n \in 0 .. m + 1 |-> g[n]]
      OBVIOUS
    <2>5. g = F(g, m + 1)
      <3> HIDE DEF g
      <3> QED BY <2>3, <2>4
    <2> HIDE DEF g, F
    <2> QED BY <2>5
  <1>5. len \in Good
    <2> HIDE DEF Good
    <2> QED BY <1>1, <1>3, <1>4, SetInduction
  <1>6. upTo = F(upTo, len)
    BY <1>5 DEF upTo
  <1> DEFINE Seqs == {m \in Nat : m <= len => upTo[m] \in Seq(Entry)}
  <1>7. 0 \in Seqs
    BY <1>1, <1>6, EmptySeq
  <1>8. ASSUME NEW m \in Nat, m \in Seqs
        PROVE  m + 1 \in Seqs
    <2> SUFFICES ASSUME m + 1 <= len PROVE upTo[m + 1] \in Seq(Entry)
      OBVIOUS
    <2>1. m + 1 \in 0 .. len /\ m + 1 \in 1 .. len /\ m + 1 # 0 /\ (m + 1) - 1 = m
      BY <1>1
    <2>2. upTo[m] \in Seq(Entry)
      BY <1>1, <1>8, <2>1
    <2>3. Entries[m + 1] \in Entry
      BY <1>1, <2>1, ElementOfSeq
    <2>4. Append(upTo[m], Entries[m + 1]) \in Seq(Entry)
      BY <2>2, <2>3, AppendProperties
    <2>5. upTo[m + 1] = Step(upTo, m + 1)
      BY <1>6, <2>1
    <2> HIDE DEF upTo
    <2> QED BY <2>1, <2>2, <2>4, <2>5
  <1>9. len \in Seqs
    <2> HIDE DEF Seqs
    <2> QED BY <1>1, <1>7, <1>8, SetInduction
  <1>10. upTo[len] \in Seq(Entry)
    BY <1>1, <1>9
  <1> QED BY <1>2, <1>10, ListedSeq

LEMMA MappedListed ==
    ASSUME NEW s, Listed(s), NEW t, DOMAIN t = DOMAIN s, t = [i \in DOMAIN t |-> t[i]]
    PROVE  Listed(t)
  <1>1. Len(s) \in Nat /\ DOMAIN s = 1 .. Len(s)
    BY ListedLen
  <1> DEFINE S == {t[i] : i \in DOMAIN t}
  <1>2. t \in [1 .. Len(s) -> S]
    BY <1>1
  <1> HIDE DEF S
  <1>3. t \in Seq(S)
    BY <1>1, <1>2, SeqDef
  <1> QED BY <1>3, ListedSeq

LEMMA ItemsListed == \A menu : Listed(Items(menu))
  <1> TAKE menu
  <1>1. Listed(<<>>)
    <2>1. <<>> \in Seq({})
      BY EmptySeq
    <2> QED BY <2>1, ListedSeq
  <1>2. Listed(RootItems)
    <2> DEFINE a == Item(Null, ":", Null)
               b == Item(Null, Load, "l")
               c == Item(Null, Save, "s")
    <2> HIDE DEF a, b, c
    <2>1. <<a, b, c>> \in Seq({a, b, c})
      OBVIOUS
    <2>2. Listed(<<a, b, c>>)
      BY <2>1, ListedSeq
    <2> QED BY <2>2 DEF RootItems, a, b, c
  <1>3. Listed(Title(menu))
    <2> DEFINE a == Item(menu, ":", HotKey[menu])
    <2> HIDE DEF a
    <2>1. <<a>> \in Seq({a})
      OBVIOUS
    <2>2. Listed(<<a>>)
      BY <2>1, ListedSeq
    <2> QED BY <1>1, <2>2 DEF Title, a
  <1> DEFINE mine == InOrder({e \in Entry : IsVisible(e) /\ InMenu(e, menu)})
             shown == [i \in DOMAIN mine |-> EntryItem(mine[i])]
  <1>4. Listed(mine)
    BY InOrderListed
  <1>5. Listed(shown)
    <2> HIDE DEF mine
    <2>1. DOMAIN shown = DOMAIN mine /\ shown = [i \in DOMAIN shown |-> shown[i]]
      OBVIOUS
    <2> HIDE DEF shown
    <2> QED BY <1>4, <2>1, MappedListed
  <1>6. Build(menu) \in {<<>>, Title(menu) \o shown}
    BY DEF Build
  <1> HIDE DEF shown
  <1>7. Listed(Build(menu))
    BY <1>1, <1>3, <1>5, <1>6, ListedConcat
  <1>8. Items(menu) \in {Build(menu) \o RootItems, Build(menu) \o <<>>}
    BY DEF Items
  <1> QED BY <1>1, <1>2, <1>7, <1>8, ListedConcat

LEMMA ChoiceItemsListed == \A c : Listed(ChoiceItems(c))
  <1> TAKE c
  <1> DEFINE mine == InOrder({e \in Entry : IsVisible(e) /\ Above[e][1] = c})
             shown == [i \in DOMAIN mine |-> ChoiceItem(c, mine[i])]
  <1>1. Listed(mine)
    BY InOrderListed
  <1>2. ChoiceItems(c) = shown
    BY DEF ChoiceItems
  <1>3. Listed(shown)
    <2> HIDE DEF mine
    <2>1. DOMAIN shown = DOMAIN mine /\ shown = [i \in DOMAIN shown |-> shown[i]]
      OBVIOUS
    <2> HIDE DEF shown
    <2> QED BY <1>1, <2>1, MappedListed
  <1> QED BY <1>2, <1>3
-----------------------------------------------------------------------------
(* The functions that wait *)

Inputs == {"string", "search", "load", "save"}

Frame(f) ==
    /\ f.fn \in {"conf", "choice", "text", "yesno"} \cup Inputs
    /\ f.fn = "conf" => DOMAIN f = {"fn", "menu", "active", "scroll"} /\ f.scroll \in Int
    /\ f.fn = "choice" => DOMAIN f = {"fn", "menu", "active"}
    /\ f.fn = "text" => f \in {Help, Message}

(* Frames of which none is a text, with the main menu or the question      *)
(* whether to save first; a text may be the last one.                      *)
Ready(c) ==
    /\ Listed(c)
    /\ \A i \in 1 .. Len(c) : Frame(c[i]) /\ c[i].fn # "text"
    /\ Len(c) > 0 => c[1].fn \in {"conf", "yesno"}

Calls(c) ==
    /\ Listed(c) /\ c # <<>>
    /\ Ready(SubSeq(c, 1, Len(c) - 1))
    /\ Frame(c[Len(c)])
    /\ Len(c) = 1 => c[1].fn \in {"conf", "yesno"}

LEMMA ReadyCall ==
    ASSUME NEW c, Ready(c), NEW f, Frame(f), Len(c) = 0 => f.fn \in {"conf", "yesno"}
    PROVE  /\ Calls(Append(c, f))
           /\ Append(c, f)[Len(Append(c, f))] = f
           /\ Len(Append(c, f)) = Len(c) + 1
           /\ f.fn # "text" => Ready(Append(c, f))
  <1> DEFINE d == Append(c, f)
             e == SubSeq(d, 1, Len(d) - 1)
  <1>1. Listed(c) /\ Len(c) \in Nat
    BY ListedLen DEF Ready
  <1>2. /\ Listed(d) /\ Len(d) = Len(c) + 1 /\ d[Len(c) + 1] = f
        /\ \A i \in 1 .. Len(c) : d[i] = c[i]
    BY <1>1, ListedAppend
  <1> HIDE DEF d
  <1>3. Len(d) # 0 /\ d # <<>>
    BY <1>1, <1>2, ListedLen
  <1>4. Listed(e) /\ Len(e) = Len(d) - 1 /\ \A i \in 1 .. Len(e) : e[i] = d[i]
    BY <1>2, <1>3, ListedFront
  <1> HIDE DEF e
  <1>5. Len(e) = Len(c) /\ \A i \in 1 .. Len(c) : e[i] = c[i]
    BY <1>1, <1>2, <1>4
  <1>6. Len(c) > 0 => 1 \in 1 .. Len(c)
    BY <1>1
  <1>7. Ready(e)
    BY <1>4, <1>5, <1>6 DEF Ready
  <1>8. Len(d) = 1 => d[1].fn \in {"conf", "yesno"}
    <2> SUFFICES ASSUME Len(d) = 1 PROVE d[1].fn \in {"conf", "yesno"}
      OBVIOUS
    <2>1. Len(c) = 0 /\ Len(c) + 1 = 1
      BY <1>1, <1>2
    <2>2. d[1] = f
      BY <1>2, <2>1
    <2> QED BY <2>1, <2>2
  <1>9. Calls(d)
    BY <1>2, <1>3, <1>7, <1>8 DEF Calls, e
  <1>10. ASSUME f.fn # "text"
         PROVE  Ready(d)
    <2>1. ASSUME NEW i \in 1 .. Len(d)
          PROVE  Frame(d[i]) /\ d[i].fn # "text"
      <3>1. i = Len(c) + 1 \/ i \in 1 .. Len(c)
        BY <1>1, <1>2
      <3> QED BY <1>2, <1>10, <3>1 DEF Ready
    <2>2. d[1].fn \in {"conf", "yesno"}
      <3>1. CASE Len(c) = 0
        BY <1>2, <3>1
      <3>2. CASE Len(c) # 0
        BY <1>1, <1>2, <1>6, <3>2 DEF Ready
      <3> QED BY <3>1, <3>2
    <2> QED BY <1>2, <2>1, <2>2 DEF Ready
  <1> QED BY <1>2, <1>9, <1>10 DEF d

LEMMA CallsReady ==
    ASSUME NEW c, Calls(c), c[Len(c)].fn # "text"
    PROVE  Ready(c)
  <1> DEFINE e == SubSeq(c, 1, Len(c) - 1)
  <1>1. Len(c) \in Nat \ {0}
    BY ListedLen DEF Calls
  <1>2. Listed(e) /\ Len(e) = Len(c) - 1 /\ \A i \in 1 .. Len(e) : e[i] = c[i]
    BY ListedFront DEF Calls
  <1>3. Ready(e)
    BY DEF Calls
  <1> HIDE DEF e
  <1>4. ASSUME NEW i \in 1 .. Len(c)
        PROVE  Frame(c[i]) /\ c[i].fn # "text"
    <2>1. i = Len(c) \/ i \in 1 .. Len(e)
      BY <1>1, <1>2
    <2> QED BY <1>2, <1>3, <2>1 DEF Calls, Ready
  <1>5. c[1].fn \in {"conf", "yesno"}
    <2>1. CASE Len(c) = 1
      BY <2>1 DEF Calls
    <2>2. CASE Len(c) # 1
      <3>1. Len(e) > 0 /\ 1 \in 1 .. Len(e)
        BY <1>1, <1>2, <2>2
      <3> QED BY <1>2, <1>3, <3>1 DEF Ready
    <2> QED BY <2>1, <2>2
  <1> QED BY <1>4, <1>5 DEF Calls, Ready

(* A function that is not the first one returns to one that is no text. *)
LEMMA CallsLeave ==
    ASSUME NEW c, Calls(c), Len(c) > 1 \/ c[Len(c)].fn \notin {"conf", "yesno"}
    PROVE  LET d == SubSeq(c, 1, Len(c) - 1) IN
           /\ Calls(d) /\ Ready(d) /\ Len(d) = Len(c) - 1 /\ Len(d) > 0
           /\ d[Len(d)].fn # "text"
  <1> DEFINE d == SubSeq(c, 1, Len(c) - 1)
             e == SubSeq(d, 1, Len(d) - 1)
  <1>1. Len(c) \in Nat \ {0}
    BY ListedLen DEF Calls
  <1>2. Listed(d) /\ Len(d) = Len(c) - 1 /\ \A i \in 1 .. Len(d) : d[i] = c[i]
    BY ListedFront DEF Calls
  <1>3. Len(c) > 1
    <2>1. Len(c) = 1 => c[Len(c)].fn \in {"conf", "yesno"}
      BY DEF Calls
    <2> QED BY <1>1, <2>1
  <1>4. Ready(d)
    BY DEF Calls
  <1> HIDE DEF d
  <1>5. Len(d) \in Nat /\ Len(d) > 0 /\ d # <<>>
    BY <1>1, <1>2, <1>3, ListedLen
  <1>6. Listed(e) /\ Len(e) = Len(d) - 1 /\ \A i \in 1 .. Len(e) : e[i] = d[i]
    BY <1>2, <1>5, ListedFront
  <1> HIDE DEF e
  <1>7. Ready(e)
    <2>1. \A i \in 1 .. Len(e) : i \in 1 .. Len(d)
      BY <1>5, <1>6
    <2>2. Len(e) > 0 => 1 \in 1 .. Len(e)
      BY <1>5, <1>6
    <2> QED BY <1>4, <1>5, <1>6, <2>1, <2>2 DEF Ready
  <1>8. Frame(d[Len(d)]) /\ d[Len(d)].fn # "text" /\ d[1].fn \in {"conf", "yesno"}
    <2>1. Len(d) \in 1 .. Len(d)
      BY <1>5
    <2> QED BY <1>4, <1>5, <2>1 DEF Ready
  <1>9. Calls(d)
    BY <1>2, <1>5, <1>7, <1>8 DEF Calls, e
  <1> QED BY <1>2, <1>4, <1>5, <1>8, <1>9 DEF d

LEMMA Frames ==
    /\ \A m : Frame(Conf(m)) /\ Conf(m).fn = "conf" /\ Conf(m).menu = m
    /\ \A c : Frame(ConfChoice(c)) /\ ConfChoice(c).fn = "choice" /\ ConfChoice(c).menu = c
    /\ \A fn \in Inputs \cup {"yesno"} : \A m :
           Frame(Ask(fn, m)) /\ Ask(fn, m).fn = fn /\ Ask(fn, m).menu = m
    /\ Frame(Help) /\ Help.fn = "text" /\ Frame(Message) /\ Message.fn = "text"
  <1>1. ASSUME NEW m
        PROVE  Frame(Conf(m)) /\ Conf(m).fn = "conf" /\ Conf(m).menu = m
    BY DEF Frame, Conf, Inputs
  <1>2. ASSUME NEW c
        PROVE  Frame(ConfChoice(c)) /\ ConfChoice(c).fn = "choice" /\ ConfChoice(c).menu = c
    <2> DEFINE v == Value(c)
               f == [fn |-> "choice", menu |-> c, active |-> v]
    <2> HIDE DEF v
    <2>1. DOMAIN f = {"fn", "menu", "active"} /\ f.fn = "choice" /\ f.menu = c
      OBVIOUS
    <2>2. ConfChoice(c) = f
      BY DEF ConfChoice, v
    <2> HIDE DEF f
    <2> QED BY <2>1, <2>2 DEF Frame, Inputs
  <1>3. ASSUME NEW fn \in Inputs \cup {"yesno"}, NEW m
        PROVE  Frame(Ask(fn, m)) /\ Ask(fn, m).fn = fn /\ Ask(fn, m).menu = m
    BY DEF Frame, Ask, Inputs
  <1>4. Frame(Help) /\ Help.fn = "text" /\ Frame(Message) /\ Message.fn = "text"
    BY DEF Frame, Help, Message, Inputs
  <1> QED BY <1>1, <1>2, <1>3, <1>4

(* The box of a function. *)
BoxOf(fn, b, l) ==
    /\ fn = "conf" => MenuShape(b) /\ MenuTrue(b) /\ (b.ret \notin Failed => l >= 15)
    /\ fn = "choice" => CheckShape(b) /\ CheckTrue(b) /\ (b.ret \notin Failed => l >= 21)
    /\ fn \in Inputs => InputShape(b) /\ InputTrue(b) /\ (b.ret \notin Failed => l >= 9)
    /\ fn = "text" => TextShape(b) /\ TextShown(b)
    /\ fn = "yesno" => YesNoTrue(b)

LEMMA BoxKind ==
    ASSUME NEW f, Frame(f), NEW b, NEW l, BoxOf(f.fn, b, l)
    PROVE  /\ b.kind = "menu" <=> f.fn = "conf"
           /\ b.kind = "check" <=> f.fn = "choice"
           /\ b.kind = "input" <=> f.fn \in Inputs
           /\ b.kind = "text" <=> f.fn = "text"
           /\ b.kind = "yesno" <=> f.fn = "yesno"
           /\ b.kind \in {"menu", "check", "input", "text", "yesno"}
           /\ b # Closed
           /\ b.moved \in Nat
  <1>1. Closed.kind = "none"
    BY DEF Closed
  <1>2. CASE f.fn = "conf"
    BY <1>1, <1>2 DEF BoxOf, MenuShape, Inputs
  <1>3. CASE f.fn = "choice"
    BY <1>1, <1>3 DEF BoxOf, CheckShape, Inputs
  <1>4. CASE f.fn \in Inputs
    BY <1>1, <1>4 DEF BoxOf, InputShape, Inputs
  <1>5. CASE f.fn = "text"
    BY <1>1, <1>5 DEF BoxOf, TextShape, Inputs
  <1>6. CASE f.fn = "yesno"
    BY <1>1, <1>6 DEF BoxOf, YesNoTrue, Inputs
  <1> QED BY <1>2, <1>3, <1>4, <1>5, <1>6 DEF Frame

(* What holds while the program runs: the functions that wait, the box of  *)
(* the last of them, and a terminal with a row for the text to come.       *)
Running ==
    /\ lines \in Nat
    /\ Calls(calls)
    /\ box = Closed /\ Top.fn = "text" => lines >= 9
    /\ box # Closed => BoxOf(Top.fn, box, lines)

IInv == phase = "run" => Running

LEMMA OpenedFits ==
    ASSUME Running, box = Closed, NEW b \in Opened(Top)
    PROVE  BoxOf(Top.fn, b, lines)
  <1>1. Frame(Top) /\ lines \in Nat /\ (Top.fn = "text" => lines >= 9)
    BY DEF Running, Calls, Top
  <1>2. CASE Top.fn = "conf"
    <2>1. b = MenuOpen(Items(Top.menu), Top.active, Top.scroll, lines)
      BY <1>2 DEF Opened
    <2>2. Top.scroll \in Int
      BY <1>1, <1>2 DEF Frame
    <2>3. MenuShape(b) /\ MenuTrue(b) /\ (b.ret \notin Failed => lines >= 15)
      BY <1>1, <2>1, <2>2, ItemsListed, MenuOpens
    <2> QED BY <1>2, <2>3 DEF BoxOf, Inputs
  <1>3. CASE Top.fn = "choice"
    <2>1. b = CheckOpen(ChoiceItems(Top.menu), Top.active, lines)
      BY <1>3 DEF Opened
    <2>2. CheckShape(b) /\ CheckTrue(b) /\ (b.ret \notin Failed => lines >= 21)
      BY <1>1, <2>1, ChoiceItemsListed, CheckOpens
    <2> QED BY <1>3, <2>2 DEF BoxOf, Inputs
  <1>4. CASE Top.fn \in Inputs
    <2>1. \E height \in {10, 11}, n \in Nat : b = InputOpen(height, n, lines)
      <3>1. CASE Top.fn = "string"
        BY <3>1, SizeAssumption DEF Opened
      <3>2. CASE Top.fn = "search"
        BY <3>2 DEF Opened
      <3>3. CASE Top.fn \in {"load", "save"}
        BY <3>3, SizeAssumption DEF Opened
      <3> QED BY <1>4, <3>1, <3>2, <3>3 DEF Inputs
    <2>2. InputShape(b) /\ InputTrue(b) /\ (b.ret \notin Failed => lines >= 9)
      BY <1>1, <2>1, InputOpens
    <2> QED BY <1>4, <2>2 DEF BoxOf, Inputs
  <1>5. CASE Top.fn = "text"
    <2>1. b = TextOpen(Top.length, Top.ended, Top.height, lines)
      BY <1>5 DEF Opened
    <2>2. /\ Top.ended \in BOOLEAN
          /\ Top.ended => Top.length \in Nat \ {0} /\ Top.height = 0 /\ lines >= 9
      <3>1. Top \in {Help, Message}
        BY <1>1, <1>5 DEF Frame
      <3>2. CASE Top = Help
        BY <1>1, <1>5, <3>2, SizeAssumption DEF Help
      <3>3. CASE Top = Message
        BY <3>3 DEF Message
      <3> QED BY <3>1, <3>2, <3>3
    <2>3. TextShape(b) /\ TextShown(b)
      BY <1>1, <2>1, <2>2, TextOpens
    <2> QED BY <1>5, <2>3 DEF BoxOf, Inputs
  <1>6. CASE Top.fn = "yesno"
    <2>1. b = YesNo(lines)
      BY <1>6 DEF Opened
    <2> QED BY <1>6, <2>1, YesNoOpens DEF BoxOf, Inputs
  <1> QED BY <1>1, <1>2, <1>3, <1>4, <1>5, <1>6 DEF Frame

LEMMA PressedFits ==
    ASSUME Running, box # Closed, box.ret = "open", NEW key
    PROVE  BoxOf(Top.fn, Pressed(box, key), lines)
  <1>1. Frame(Top) /\ BoxOf(Top.fn, box, lines)
    BY DEF Running, Calls, Top
  <1>2. box.ret \notin Failed
    BY DEF Failed
  <1>3. CASE Top.fn = "conf"
    <2>1. Pressed(box, key) = MenuKey(box, key)
      BY <1>1, <1>3, BoxKind DEF Pressed
    <2>2. MenuShape(box) /\ MenuTrue(box) /\ lines >= 15
      BY <1>1, <1>2, <1>3 DEF BoxOf
    <2> QED BY <1>3, <2>1, <2>2, MenuKeys DEF BoxOf, Inputs
  <1>4. CASE Top.fn = "choice"
    <2>1. Pressed(box, key) = CheckKey(box, key)
      BY <1>1, <1>4, BoxKind DEF Pressed
    <2>2. CheckShape(box) /\ CheckTrue(box) /\ lines >= 21
      BY <1>1, <1>2, <1>4 DEF BoxOf
    <2> QED BY <1>4, <2>1, <2>2, CheckKeys DEF BoxOf, Inputs
  <1>5. CASE Top.fn \in Inputs
    <2>1. Pressed(box, key) = InputKey(box, key)
      BY <1>1, <1>5, BoxKind DEF Pressed
    <2>2. InputShape(box) /\ InputTrue(box) /\ lines >= 9
      BY <1>1, <1>2, <1>5 DEF BoxOf
    <2> QED BY <1>5, <2>1, <2>2, InputKeys DEF BoxOf, Inputs
  <1>6. CASE Top.fn = "text"
    <2>1. Pressed(box, key) = TextKey(box, key)
      BY <1>1, <1>6, BoxKind DEF Pressed
    <2>2. TextShape(box) /\ TextShown(box)
      BY <1>1, <1>6 DEF BoxOf
    <2> QED BY <1>6, <2>1, <2>2, TextKeys DEF BoxOf, Inputs
  <1>7. CASE Top.fn = "yesno"
    <2>1. Pressed(box, key) = YesNoKey(box, key)
      BY <1>1, <1>7, BoxKind DEF Pressed
    <2>2. YesNoTrue(box)
      BY <1>1, <1>7 DEF BoxOf
    <2> QED BY <1>7, <2>1, <2>2, YesNoKeys DEF BoxOf, Inputs
  <1> QED BY <1>1, <1>3, <1>4, <1>5, <1>6, <1>7 DEF Frame

LEMMA ResizedFits ==
    ASSUME Running, box # Closed, NEW l \in Nat
    PROVE  BoxOf(Top.fn, Resized([box EXCEPT !.moved = @ + 1], l), l)
  <1> DEFINE b == [box EXCEPT !.moved = @ + 1]
             c == Resized(b, l)
  <1>1. Frame(Top) /\ BoxOf(Top.fn, box, lines)
    BY DEF Running, Calls, Top
  <1>2. CASE Top.fn = "conf"
    <2>1. MenuShape(box)
      BY <1>1, <1>2 DEF BoxOf
    <2>2. MenuShape(b) /\ b.moved # 0 /\ b.kind = "menu"
      BY <2>1 DEF MenuShape, MenuFields
    <2> HIDE DEF b
    <2>3. c = MenuLayout(b, l)
      BY <2>2 DEF Resized
    <2> HIDE DEF c
    <2>4. MenuShape(c) /\ c.moved # 0 /\ (c.ret \notin Failed => l >= 15)
      BY <2>2, <2>3, MenuLaysOut
    <2> QED BY <1>2, <2>4 DEF BoxOf, Inputs, MenuTrue, c, b
  <1>3. CASE Top.fn = "choice"
    <2>1. CheckShape(box)
      BY <1>1, <1>3 DEF BoxOf
    <2>2. CheckShape(b) /\ b.moved # 0 /\ b.kind = "check"
      BY <2>1 DEF CheckShape, CheckFields
    <2> HIDE DEF b
    <2>3. c = CheckLayout(b, l)
      BY <2>2 DEF Resized
    <2> HIDE DEF c
    <2>4. CheckShape(c) /\ c.moved # 0 /\ (c.ret \notin Failed => l >= 21)
      BY <2>2, <2>3, CheckLaysOut
    <2> QED BY <1>3, <2>4 DEF BoxOf, Inputs, CheckTrue, c, b
  <1>4. CASE Top.fn \in Inputs
    <2>1. InputShape(box)
      BY <1>1, <1>4 DEF BoxOf
    <2>2. InputShape(b) /\ b.moved # 0 /\ b.kind = "input"
      BY <2>1 DEF InputShape, InputFields
    <2> HIDE DEF b
    <2>3. c = InputLayout(b, l)
      BY <2>2 DEF Resized
    <2> HIDE DEF c
    <2>4. InputShape(c) /\ c.moved # 0 /\ (c.ret \notin Failed => l >= 9)
      BY <2>2, <2>3, InputLaysOut
    <2> QED BY <1>4, <2>4 DEF BoxOf, Inputs, InputTrue, c, b
  <1>5. CASE Top.fn = "text"
    <2>1. TextShape(box)
      BY <1>1, <1>5 DEF BoxOf
    <2>2. TextShape(b) /\ b.moved # 0 /\ b.kind = "text"
      BY <2>1 DEF TextShape, TextFields
    <2> HIDE DEF b
    <2>3. c = TextMoved(b, l)
      BY <2>2 DEF Resized
    <2> HIDE DEF c
    <2>4. TextShape(c) /\ c.moved # 0
      BY <2>2, <2>3, TextLaysOut
    <2> QED BY <1>5, <2>4 DEF BoxOf, Inputs, TextShown, c, b
  <1>6. CASE Top.fn = "yesno"
    <2>1. YesNoTrue(box)
      BY <1>1, <1>6 DEF BoxOf
    <2>2. DOMAIN b = YesNoFields /\ b.moved \in Nat /\ b.moved # 0 /\ b.kind = "yesno"
      BY <2>1 DEF YesNoTrue, YesNoFields
    <2> HIDE DEF b
    <2>3. c = YesNoLayout(b, l)
      BY <2>2 DEF Resized
    <2> HIDE DEF c
    <2>4. YesNoTrue(c)
      BY <2>2, <2>3, YesNoLaysOut
    <2> QED BY <1>6, <2>4 DEF BoxOf, Inputs, c, b
  <1> QED BY <1>1, <1>2, <1>3, <1>4, <1>5, <1>6 DEF Frame

(* What a function leaves behind when its box has returned. *)
After(c) == Calls(c) /\ (c[Len(c)].fn = "text" => lines >= 9)

LEMMA StayKeeps ==
    ASSUME Running, Top.fn # "text"
    PROVE  After(calls)
  BY DEF Running, After, Top

LEMMA LeaveKeeps ==
    ASSUME Running, Len(calls) > 1 \/ Top.fn \notin {"conf", "yesno"}
    PROVE  After(Below) /\ Ready(Below) /\ Len(Below) = Len(calls) - 1 /\ Len(Below) > 0
  BY CallsLeave DEF Running, After, Top, Below

LEMMA EnterKeeps ==
    ASSUME Running, Top.fn # "text", NEW f, Frame(f), f.fn = "text" => lines >= 9
    PROVE  /\ After(Append(calls, f))
           /\ Append(calls, f)[Len(Append(calls, f))] = f
           /\ Len(Append(calls, f)) = Len(calls) + 1
  <1>1. Ready(calls) /\ Len(calls) # 0
    <2>1. Calls(calls)
      BY DEF Running
    <2>2. Ready(calls)
      BY <2>1, CallsReady DEF Top
    <2> QED BY <2>1, <2>2, ListedLen DEF Calls
  <1> QED BY <1>1, ReadyCall DEF After

(* The function that goes on, with what it remembers. *)
LEMMA GoOnKeeps ==
    ASSUME Running, NEW f, Frame(f), f.fn = Top.fn, f.fn # "text"
    PROVE  LET c == Append(Below, f) IN
           /\ After(c) /\ Ready(c) /\ c[Len(c)] = f /\ Len(c) = Len(calls)
           /\ Len(c) \in Nat \ {0}
  <1>1. Calls(calls) /\ Listed(calls) /\ Len(calls) \in Nat \ {0}
    BY ListedLen DEF Running, Calls
  <1>2. Ready(Below) /\ Len(Below) = Len(calls) - 1
    BY <1>1, ListedFront DEF Calls, Below
  <1>3. Len(Below) = 0 => f.fn \in {"conf", "yesno"}
    <2>1. Len(Below) = 0 => Len(calls) = 1
      BY <1>1, <1>2
    <2> QED BY <1>1, <2>1 DEF Calls, Top
  <1> DEFINE c == Append(Below, f)
  <1>4. Calls(c) /\ Ready(c) /\ c[Len(c)] = f /\ Len(c) = Len(Below) + 1
    BY <1>2, <1>3, ReadyCall
  <1> HIDE DEF c
  <1> QED BY <1>1, <1>2, <1>4 DEF After, c

LEMMA RememberedIs ==
    ASSUME Running, box # Closed, Top.fn = "conf"
    PROVE  /\ After(Remembered) /\ Ready(Remembered)
           /\ Len(Remembered) = Len(calls) /\ Len(Remembered) \in Nat \ {0}
           /\ Remembered[Len(Remembered)].fn = "conf"
           /\ LET c == Append(Below, [Top EXCEPT !.scroll = box.saved]) IN
              After(c) /\ Len(c) = Len(calls)
  <1>1. Frame(Top) /\ DOMAIN Top = {"fn", "menu", "active", "scroll"} /\ box.saved \in Int
    BY DEF Running, Calls, Top, Frame, BoxOf, MenuShape
  <1> DEFINE f == [Top EXCEPT !.active = Entered, !.scroll = box.saved]
             g == [Top EXCEPT !.scroll = box.saved]
  <1>2. /\ DOMAIN f = {"fn", "menu", "active", "scroll"} /\ f.fn = "conf"
        /\ f.scroll = box.saved
    BY <1>1
  <1>3. /\ DOMAIN g = {"fn", "menu", "active", "scroll"} /\ g.fn = "conf"
        /\ g.scroll = box.saved
    BY <1>1
  <1>4. Remembered = Append(Below, f)
    BY DEF Remembered
  <1> HIDE DEF f, g
  <1>5. Frame(f) /\ Frame(g)
    BY <1>1, <1>2, <1>3 DEF Frame
  <1>6. /\ After(Append(Below, f)) /\ Ready(Append(Below, f))
        /\ Append(Below, f)[Len(Append(Below, f))] = f
        /\ Len(Append(Below, f)) = Len(calls) /\ Len(Append(Below, f)) \in Nat \ {0}
    BY <1>2, <1>5, GoOnKeeps
  <1>7. After(Append(Below, g)) /\ Len(Append(Below, g)) = Len(calls)
    BY <1>3, <1>5, GoOnKeeps
  <1> QED BY <1>2, <1>4, <1>6, <1>7 DEF g

LEMMA ConfCalls ==
    ASSUME Running, box # Closed, Top.fn = "conf", NEW f, Frame(f),
           f.fn = "text" => lines >= 9
    PROVE  /\ After(Append(Remembered, f))
           /\ Append(Remembered, f)[Len(Append(Remembered, f))] = f
  <1>1. Ready(Remembered) /\ Len(Remembered) # 0
    BY RememberedIs
  <1> QED BY <1>1, ReadyCall DEF After

LEMMA OneCall ==
    ASSUME NEW f, Frame(f), f.fn \in {"conf", "yesno"}
    PROVE  After(<<f>>) /\ Len(<<f>>) = 1 /\ <<f>>[1] = f
  <1>1. <<>> \in Seq({}) /\ Len(<<>>) = 0
    BY EmptySeq
  <1>2. Ready(<<>>)
    <2>1. Listed(<<>>)
      BY <1>1, ListedSeq
    <2> QED BY <1>1, <2>1 DEF Ready
  <1>3. Append(<<>>, f) = <<f>>
    OBVIOUS
  <1>4. Calls(<<f>>) /\ <<f>>[Len(<<f>>)] = f
    BY <1>1, <1>2, <1>3, ReadyCall
  <1>5. Len(<<f>>) = 1 /\ <<f>>[1] = f
    OBVIOUS
  <1> QED BY <1>4, <1>5 DEF After

(* ConfSelect opens one of these, or goes on. *)
LEMMA Selects ==
    ASSUME ConfSelect
    PROVE  /\ Result("conf", {"select"}) /\ box.items # <<>> /\ lines' = lines
           /\ phase' = phase /\ on' = on /\ pick' = pick /\ changed' = changed
           /\ \/ calls' = Remembered
              \/ \E f \in {Conf(Entered), ConfChoice(Entered), Ask("string", Entered),
                           Ask("load", Null), Ask("save", Null)} :
                     calls' = Append(Remembered, f)
  <1> DEFINE tag == Taken(box).tag
  <1>1. Result("conf", {"select"}) /\ box.items # <<>> /\ lines' = lines
    BY DEF ConfSelect, ConfWith, Kept
  <1>2. on' = on /\ pick' = pick /\ changed' = changed
    BY DEF ConfSelect
  <1>3. \/ ConfCall(Conf(Entered)) \/ ConfGoesOn \/ ConfCall(ConfChoice(Entered))
        \/ ConfCall(Ask("string", Entered)) \/ ConfCall(Ask("load", Null))
        \/ ConfCall(Ask("save", Null))
    BY Zenon DEF ConfSelect
  <1> QED BY <1>1, <1>2, <1>3 DEF ConfCall, ConfGoesOn

(* The help can be shown where it is asked for. *)
LEMMA RoomForHelp ==
    ASSUME Running, box # Closed, box.ret \notin Failed,
           Top.fn \in {"conf", "choice"} \cup Inputs
    PROVE  lines >= 9
  BY DEF Running, BoxOf

LEMMA ReturnKeeps ==
    ASSUME Running, phase = "run", Return
    PROVE  /\ box' = Closed /\ lines' = lines
           /\ phase' = "run" => After(calls')
  <1> DEFINE Ok == /\ box' = Closed /\ lines' = lines
                   /\ phase' = "run" => After(calls')
  <1>1. ASSUME NEW fn, NEW rets, Result(fn, rets)
        PROVE  box # Closed /\ box' = Closed /\ Top.fn = fn /\ box.ret \in rets
    BY <1>1 DEF Result
  <1>2. ASSUME ConfBack
        PROVE  Ok
    <2>1. Result("conf", {"exit", "esc", "small"}) /\ lines' = lines
      BY <1>2 DEF ConfBack, Kept
    <2>2. CASE Len(calls) > 1
      <3>1. calls' = Below
        BY <1>2, <2>2 DEF ConfBack, Leave
      <3> QED BY <1>1, <2>1, <2>2, <3>1, LeaveKeeps
    <2>3. CASE ~(Len(calls) > 1)
      <3>1. calls' = <<Ask("yesno", Null)>> \/ phase' = "ended"
        BY <1>2, <2>3 DEF ConfBack
      <3>2. After(<<Ask("yesno", Null)>>)
        BY Frames, OneCall
      <3> QED BY <1>1, <2>1, <3>1, <3>2
    <2> QED BY <2>2, <2>3
  <1>3. ASSUME ConfNothing
        PROVE  Ok
    <2>1. /\ box # Closed /\ box' = Closed /\ Top.fn = "conf" /\ lines' = lines
          /\ calls' = Append(Below, [Top EXCEPT !.scroll = box.saved])
      BY <1>3 DEF ConfNothing, Result, Kept
    <2> QED BY <2>1, RememberedIs
  <1>4. ASSUME ConfSelect
        PROVE  Ok
    <2>1. box # Closed /\ box' = Closed /\ Top.fn = "conf" /\ lines' = lines
      BY <1>4, Selects DEF Result
    <2>2. calls' = Remembered => After(calls')
      BY <2>1, RememberedIs
    <2>3. ASSUME NEW f \in {Conf(Entered), ConfChoice(Entered), Ask("string", Entered),
                            Ask("load", Null), Ask("save", Null)},
                 calls' = Append(Remembered, f)
          PROVE  After(calls')
      <3>1. Frame(f) /\ f.fn # "text"
        BY Frames DEF Inputs
      <3> QED BY <2>1, <2>3, <3>1, ConfCalls
    <2> QED BY <1>4, <2>1, <2>2, <2>3, Selects
  <1>5. ASSUME ConfHelp
        PROVE  Ok
    <2>1. /\ box # Closed /\ box' = Closed /\ Top.fn = "conf" /\ lines' = lines
          /\ box.ret \notin Failed /\ calls' = Append(Remembered, Help)
      BY <1>5 DEF ConfHelp, ConfWith, ConfCall, Result, Kept, Failed
    <2>2. lines >= 9
      BY <2>1, RoomForHelp
    <2> QED BY <2>1, <2>2, Frames, ConfCalls
  <1>6. ASSUME ConfSet
        PROVE  Ok
    <2>1. /\ box # Closed /\ box' = Closed /\ Top.fn = "conf" /\ lines' = lines
          /\ calls' = Remembered
      BY <1>6 DEF ConfSet, ConfWith, ConfGoesOn, Result, Kept
    <2> QED BY <2>1, RememberedIs
  <1>7. ASSUME ConfToggle
        PROVE  Ok
    <2>1. /\ box # Closed /\ box' = Closed /\ Top.fn = "conf" /\ lines' = lines
          /\ calls' \in {Remembered, Append(Remembered, Conf(Entered))}
      BY <1>7 DEF ConfToggle, ConfWith, ConfGoesOn, ConfCall, Result, Kept
    <2>2. Frame(Conf(Entered)) /\ Conf(Entered).fn # "text"
      BY Frames
    <2> QED BY <2>1, <2>2, RememberedIs, ConfCalls
  <1>8. ASSUME ConfSearch
        PROVE  Ok
    <2>1. /\ box # Closed /\ box' = Closed /\ Top.fn = "conf" /\ lines' = lines
          /\ calls' = Append(Remembered, Ask("search", Null))
      BY <1>8 DEF ConfSearch, ConfWith, ConfCall, Result, Kept
    <2>2. Frame(Ask("search", Null)) /\ Ask("search", Null).fn # "text"
      BY Frames DEF Inputs
    <2> QED BY <2>1, <2>2, ConfCalls
  <1>9. ASSUME ChoiceSelect
        PROVE  Ok
    <2>1. /\ box' = Closed /\ Top.fn = "choice" /\ lines' = lines
          /\ calls' \in {Below, calls}
      BY <1>9 DEF ChoiceSelect, Leave, Stay, Result, Kept
    <2> QED BY <2>1, LeaveKeeps, StayKeeps
  <1>10. ASSUME ChoiceHelp
         PROVE  Ok
    <2> DEFINE f == [Top EXCEPT !.active = Taken(box).data]
    <2>1. /\ box # Closed /\ box' = Closed /\ Top.fn = "choice" /\ lines' = lines
          /\ box.ret \notin Failed
          /\ calls' \in {Append(calls, Help), Append(Append(Below, f), Help)}
      BY <1>10 DEF ChoiceHelp, Enter, Call, Result, Kept, Failed
    <2>2. lines >= 9
      BY <2>1, RoomForHelp
    <2>3. Frame(f) /\ f.fn = Top.fn /\ f.fn # "text"
      <3>1. DOMAIN Top = {"fn", "menu", "active"}
        BY <2>1 DEF Running, Calls, Top, Frame
      <3>2. DOMAIN f = {"fn", "menu", "active"} /\ f.fn = "choice"
        BY <2>1, <3>1
      <3> HIDE DEF f
      <3> QED BY <2>1, <3>2 DEF Frame
    <2> HIDE DEF f
    <2>4. Ready(Append(Below, f)) /\ Len(Append(Below, f)) # 0
      BY <2>3, GoOnKeeps
    <2>5. After(Append(Append(Below, f), Help))
      BY <2>2, <2>4, Frames, ReadyCall DEF After
    <2>6. After(Append(calls, Help))
      BY <2>1, <2>2, Frames, EnterKeeps
    <2> QED BY <2>1, <2>5, <2>6
  <1>11. ASSUME Back
         PROVE  Ok
    <2>1. box' = Closed /\ Top.fn \in {"choice", "text"} \cup Inputs
      BY <1>11 DEF Back, Result, Inputs
    <2>2. calls' = Below /\ lines' = lines
      BY <1>11 DEF Back, Leave, Kept
    <2>3. Top.fn \notin {"conf", "yesno"}
      BY <2>1 DEF Inputs
    <2> QED BY <2>1, <2>2, <2>3, LeaveKeeps
  <1>12. ASSUME Again
         PROVE  Ok
    <2>1. box' = Closed /\ Top.fn \in Inputs
      BY <1>12 DEF Again, Result, Inputs
    <2>2. calls' = calls /\ lines' = lines
      BY <1>12 DEF Again, Stay, Kept
    <2> QED BY <2>1, <2>2, StayKeeps DEF Inputs
  <1>13. ASSUME InputHelp
         PROVE  Ok
    <2>1. box # Closed /\ box' = Closed /\ Top.fn \in Inputs /\ box.ret \notin Failed
      BY <1>13 DEF InputHelp, Result, Inputs, Failed
    <2>2. calls' = Append(calls, Help) /\ lines' = lines
      BY <1>13 DEF InputHelp, Enter, Call, Kept
    <2>3. lines >= 9 /\ Top.fn # "text"
      BY <2>1, RoomForHelp DEF Inputs
    <2> QED BY <2>1, <2>2, <2>3, Frames, EnterKeeps
  <1>14. ASSUME StringOk \/ LoadOk \/ SaveOk
         PROVE  Ok
    <2>1. box # Closed /\ box' = Closed /\ Top.fn \in Inputs /\ box.ret \notin Failed
      BY <1>14 DEF StringOk, LoadOk, SaveOk, Result, Inputs, Failed
    <2>2. calls' \in {Below, Append(calls, Message)} /\ lines' = lines
      BY <1>14 DEF StringOk, LoadOk, SaveOk, Leave, Enter, Call, Kept
    <2>3. lines >= 9 /\ Top.fn \notin {"text", "conf", "yesno"}
      BY <2>1, RoomForHelp DEF Inputs
    <2>4. After(Append(calls, Message)) /\ After(Below)
      BY <2>3, Frames, EnterKeeps, LeaveKeeps
    <2> QED BY <2>1, <2>2, <2>4
  <1>15. ASSUME SearchOk
         PROVE  Ok
    <2>1. box # Closed /\ box' = Closed /\ Top.fn = "search" /\ box.ret \notin Failed
      BY <1>15 DEF SearchOk, Result, Failed
    <2>2. calls' = Append(Below, Help) /\ lines' = lines
      BY <1>15 DEF SearchOk, Kept
    <2>3. lines >= 9
      BY <2>1, RoomForHelp DEF Inputs
    <2>4. Ready(Below) /\ Len(Below) # 0
      BY <2>1, LeaveKeeps
    <2>5. After(Append(Below, Help))
      BY <2>3, <2>4, Frames, ReadyCall DEF After
    <2> QED BY <2>1, <2>2, <2>5
  <1>16. ASSUME AskedBack
         PROVE  Ok
    <2>1. box' = Closed /\ calls' = <<Conf(Root)>> /\ lines' = lines
      BY <1>16 DEF AskedBack, Result, Kept
    <2> QED BY <2>1, Frames, OneCall
  <1>17. ASSUME Asked
         PROVE  Ok
    <2>1. box' = Closed /\ phase' = "ended" /\ lines' = lines
      BY <1>17 DEF Asked, Result
    <2> QED BY <2>1
  <1> HIDE DEF Ok
  <1>18. Ok
    BY <1>2, <1>3, <1>4, <1>5, <1>6, <1>7, <1>8, <1>9, <1>10, <1>11, <1>12, <1>13, <1>14,
       <1>15, <1>16, <1>17 DEF Return
  <1> QED BY <1>18 DEF Ok

LEMMA InitRuns == Init => IInv
  <1> SUFFICES ASSUME Init PROVE Running
    BY DEF IInv
  <1>1. calls = <<Conf(Root)>> /\ box = Closed /\ lines \in Nat
    BY SizeAssumption DEF Init
  <1>2. /\ Calls(<<Conf(Root)>>) /\ Len(<<Conf(Root)>>) = 1 /\ <<Conf(Root)>>[1] = Conf(Root)
        /\ Conf(Root).fn = "conf"
    BY Frames, OneCall DEF After
  <1> QED BY <1>1, <1>2 DEF Running, Top

LEMMA NextRuns == IInv /\ [Next]_vars => IInv'
  <1> SUFFICES ASSUME IInv, [Next]_vars, phase' = "run"
               PROVE  Running'
    BY DEF IInv
  <1>1. CASE Open
    <2>1. /\ phase = "run" /\ box = Closed /\ calls' = calls /\ lines' = lines
          /\ box' \in Opened(Top)
      BY <1>1 DEF Open, Put
    <2>2. Running
      BY <2>1 DEF IInv
    <2>3. BoxOf(Top.fn, box', lines)
      BY <2>1, <2>2, OpenedFits
    <2>4. box' # Closed
      BY <2>2, <2>3, BoxKind DEF Running, Calls, Top
    <2> QED BY <2>1, <2>2, <2>3, <2>4 DEF Running, Top
  <1>2. ASSUME NEW key \in Keys, Key(key)
        PROVE  Running'
    <2>1. /\ phase = "run" /\ box.ret = "open" /\ calls' = calls /\ lines' = lines
          /\ box' = Pressed(box, key)
      BY <1>2 DEF Key, Waiting, Put
    <2>2. Running /\ box # Closed
      BY <2>1 DEF IInv, Closed
    <2>3. BoxOf(Top.fn, box', lines)
      BY <2>1, <2>2, PressedFits
    <2>4. box' # Closed
      BY <2>2, <2>3, BoxKind DEF Running, Calls, Top
    <2> QED BY <2>1, <2>2, <2>3, <2>4 DEF Running, Top
  <1>3. ASSUME NEW l \in Heights, Resize(l)
        PROVE  Running'
    <2>1. /\ phase = "run" /\ box.ret = "open" /\ calls' = calls /\ lines' = l
          /\ box' = Resized([box EXCEPT !.moved = @ + 1], l)
      BY <1>3 DEF Resize, Waiting, Put
    <2>2. Running /\ box # Closed /\ l \in Nat
      BY <2>1, SizeAssumption DEF IInv, Closed
    <2>3. BoxOf(Top.fn, box', lines')
      BY <2>1, <2>2, ResizedFits
    <2>4. box' # Closed
      BY <2>2, <2>3, BoxKind DEF Running, Calls, Top
    <2> QED BY <2>1, <2>2, <2>3, <2>4 DEF Running, Top
  <1>4. CASE Return
    <2>1. phase = "run"
      BY <1>4 DEF Return, ConfBack, ConfNothing, ConfSelect, ConfHelp, ConfSet, ConfToggle,
             ConfSearch, ChoiceSelect, ChoiceHelp, Back, Again, InputHelp, StringOk, LoadOk,
             SaveOk, SearchOk, AskedBack, Asked, ConfWith, Result
    <2>2. Running
      BY <2>1 DEF IInv
    <2>3. box' = Closed /\ lines' = lines /\ After(calls')
      BY <1>4, <2>1, <2>2, ReturnKeeps
    <2> QED BY <2>2, <2>3 DEF Running, After, Top
  <1>5. CASE UNCHANGED vars
    <2>1. Running
      BY <1>5 DEF vars, IInv
    <2> QED BY <1>5, <2>1 DEF vars, Running, Top
  <1> QED BY <1>1, <1>2, <1>3, <1>4, <1>5 DEF Next

LEMMA AlwaysRuns == Spec => []IInv
  BY InitRuns, NextRuns, PTL DEF Spec
-----------------------------------------------------------------------------
(* The properties *)

(* What the terminal shows is what the keys act on: in a menu and in a     *)
(* choice the rows, the highlight and the arrows are those of the list, a  *)
(* field shows its text with the cursor at the end, a text the page that   *)
(* back_lines goes back to and the question the button Enter takes.        *)
THEOREM ScreenIsTrue == Spec => []ScreenTrue
  <1>1. ASSUME IInv PROVE ScreenTrue
    <2> SUFFICES ASSUME Waiting, box.moved = 0
                 PROVE  CASE box.kind \in {"menu", "check"} -> ListTrue(box)
                          [] box.kind = "input" -> FieldTrue(box)
                          [] box.kind = "text" -> box.ended => TextTrue(box)
                          [] box.kind = "yesno" -> box.drawn = box.button
      BY DEF ScreenTrue
    <2>1. Running /\ box # Closed /\ box.ret \notin Failed
      BY <1>1 DEF IInv, Waiting, Closed, Failed
    <2>2. Frame(Top) /\ BoxOf(Top.fn, box, lines)
      BY <2>1 DEF Running, Calls, Top
    <2>3. CASE box.kind \in {"menu", "check"}
      <3>1. ListTrue(box)
        BY <2>1, <2>2, <2>3, BoxKind DEF BoxOf, MenuTrue, CheckTrue
      <3> QED BY <2>3, <3>1
    <2>4. CASE box.kind = "input"
      <3>1. FieldTrue(box)
        BY <2>1, <2>2, <2>4, BoxKind DEF BoxOf, InputTrue
      <3> QED BY <2>4, <3>1
    <2>5. CASE box.kind = "text"
      <3>1. ASSUME box.ended PROVE TextTrue(box)
        <4>1. TextShape(box) /\ PageShown(box)
          BY <2>1, <2>2, <2>5, <3>1, BoxKind DEF BoxOf, TextShown, PageShown
        <4> QED BY <4>1, TextIsTrue
      <3> QED BY <2>5, <3>1
    <2>6. CASE box.kind = "yesno"
      <3>1. box.drawn = box.button
        BY <2>2, <2>6, BoxKind DEF BoxOf, YesNoTrue
      <3> QED BY <2>6, <3>1
    <2> QED BY <2>2, <2>3, <2>4, <2>5, <2>6, BoxKind
  <1> QED BY <1>1, AlwaysRuns, PTL

(* menuconfig gives changes up only for the answer No, when the file       *)
(* cannot be written and when there is no room for the question.           *)
THEOREM ChangesKept == Spec => []EndsAsAsked
  <1>1. Init => EndsAsAsked
    BY DEF Init, EndsAsAsked
  <1>2. EndsAsAsked /\ [Next]_vars => EndsAsAsked'
    <2> SUFFICES ASSUME EndsAsAsked, [Next]_vars, phase' = "ended", changed'
                 PROVE  answer' \in {"no", "failed", "small"}
      BY DEF EndsAsAsked
    <2>1. CASE UNCHANGED vars
      BY <2>1 DEF vars, EndsAsAsked
    <2>2. CASE Open \/ \E key \in Keys : Key(key)
      BY <2>2 DEF Open, Key, Waiting, Put
    <2>3. CASE \E l \in Heights : Resize(l)
      BY <2>3 DEF Resize, Waiting, Put
    <2>4. CASE ConfBack
      BY <2>4 DEF ConfBack, Result, Leave, Values
    <2>5. CASE Asked
      BY <2>5 DEF Asked, Result
    <2>6. CASE ConfSelect
      BY <2>6, Selects DEF Result
    <2>7. CASE ChoiceHelp
      BY <2>7 DEF ChoiceHelp, Result, Enter
    <2>8. CASE ConfNothing \/ ConfHelp \/ ConfSet \/ ConfToggle \/ ConfSearch
      BY <2>8 DEF ConfNothing, ConfHelp, ConfSet, ConfToggle, ConfSearch, ConfWith, Result,
         ConfCall, ConfGoesOn
    <2>9. CASE ChoiceSelect \/ Back \/ Again \/ InputHelp
      BY <2>9 DEF ChoiceSelect, Back, Again, InputHelp, Result, Leave, Stay, Enter
    <2>10. CASE StringOk \/ LoadOk \/ SaveOk \/ SearchOk \/ AskedBack
      BY <2>10 DEF StringOk, LoadOk, SaveOk, SearchOk, AskedBack, Result, Leave, Enter
    <2> QED BY <2>1, <2>2, <2>3, <2>4, <2>5, <2>6, <2>7, <2>8, <2>9, <2>10
            DEF Next, Return
  <1> QED BY <1>1, <1>2, PTL DEF Spec

(* A menu that opens again has the highlight on the entry that was acted   *)
(* on, however the items above it changed; a choice has it on the member   *)
(* whose help was read.                                                    *)
THEOREM FoundAgain == Spec => ComesBack
  <1> DEFINE A == box = Closed /\ box'.ret = "open" /\ box'.kind \in {"menu", "check"} =>
                      LET there == {box'.items[i].data : i \in DOMAIN box'.items}
                      IN  Top.active # Null /\ Top.active \in there =>
                              Lit(box') = {Top.active}
  <1>1. IInv /\ [Next]_vars => [A]_vars
    <2> SUFFICES ASSUME IInv, [Next]_vars, box = Closed, box'.ret = "open",
                        box'.kind \in {"menu", "check"}, Top.active # Null,
                        NEW i \in DOMAIN box'.items, box'.items[i].data = Top.active
                 PROVE  Lit(box') = {Top.active}
      OBVIOUS
    <2>1. box'.ret # "closed" /\ box.ret = "closed"
      BY DEF Closed
    <2>2. Open
      <3>1. ~(UNCHANGED vars)
        BY <2>1 DEF vars
      <3>2. ~(\E key \in Keys : Key(key)) /\ ~(\E l \in Heights : Resize(l))
        BY <2>1 DEF Key, Resize, Waiting
      <3>3. ~Return
        <4>1. Return => box' = Closed
          BY DEF Return, ConfBack, ConfNothing, ConfSelect, ConfHelp, ConfSet, ConfToggle,
             ConfSearch, ChoiceSelect, ChoiceHelp, Back, Again, InputHelp, StringOk, LoadOk,
             SaveOk, SearchOk, AskedBack, Asked, ConfWith, Result
        <4> QED BY <2>1, <4>1 DEF Closed
      <3> QED BY <3>1, <3>2, <3>3 DEF Next
    <2>3. Running /\ box' \in Opened(Top)
      BY <2>2 DEF Open, Put, IInv
    <2>4. Frame(Top) /\ BoxOf(Top.fn, box', lines) /\ lines \in Nat
      BY <2>3, OpenedFits DEF Running, Calls, Top
    <2>5. box'.ret \notin Failed
      BY DEF Failed
    <2>6. CASE Top.fn = "conf"
      <3>1. box' = MenuOpen(Items(Top.menu), Top.active, Top.scroll, lines)
        BY <2>3, <2>6 DEF Opened
      <3>2. Top.scroll \in Int
        BY <2>4, <2>6 DEF Frame
      <3> QED BY <2>4, <2>5, <3>1, <3>2, ItemsListed, MenuOpens
    <2>7. CASE Top.fn = "choice"
      <3>1. box' = CheckOpen(ChoiceItems(Top.menu), Top.active, lines)
        BY <2>3, <2>7 DEF Opened
      <3> QED BY <2>4, <2>5, <3>1, ChoiceItemsListed, CheckOpens
    <2> QED BY <2>4, <2>6, <2>7, BoxKind
  <1> QED BY <1>1, AlwaysRuns, PTL DEF Spec, ComesBack

(* What a result changes or opens is what had the highlight: the symbol    *)
(* that gets another value, the member a choice gets, the menu, choice or  *)
(* string that is entered.                                                 *)
THEOREM LitIsMeant == Spec => ActsOnLit
  <1> DEFINE A == box.kind \in {"menu", "check"} /\ box.moved = 0 /\ box' = Closed =>
                      LET lit == Lit(box) IN
                      /\ \A b \in Bools : (b \in on) # (b \in on') => b \in lit
                      /\ \A c \in DOMAIN pick : pick'[c] # pick[c] => pick'[c] \in lit
                      /\ Len(calls') > Len(calls) =>
                             LET f == calls'[Len(calls')] IN
                             f.fn \in {"conf", "choice", "string"} => f.menu \in lit
  <1>1. IInv /\ [Next]_vars => [A]_vars
    <2> DEFINE lit == Lit(box)
               last == calls'[Len(calls')]
               Alike == on' = on /\ pick' = pick
               Few == Len(calls') > Len(calls) =>
                          (last.fn \in {"conf", "choice", "string"} => last.menu \in lit)
               Meant == /\ \A b \in Bools : (b \in on) # (b \in on') => b \in lit
                        /\ \A c \in DOMAIN pick : pick'[c] # pick[c] => pick'[c] \in lit
                        /\ Few
    <2> SUFFICES ASSUME IInv, [Next]_vars, box.kind \in {"menu", "check"}, box.moved = 0,
                        box' = Closed
                 PROVE  Meant
      OBVIOUS
    <2>1. box # Closed /\ box'.kind \notin {"menu", "check"} /\ box'.ret = "closed"
      BY DEF Closed
    <2>2. Return /\ Running
      <3>1. ~(UNCHANGED vars)
        BY <2>1 DEF vars
      <3>2. ~Open
        BY <2>1 DEF Open
      <3>3. ASSUME NEW key \in Keys, Key(key) PROVE FALSE
        <4>1. Running /\ box.ret = "open" /\ box' = Pressed(box, key)
          BY <3>3 DEF Key, Waiting, Put, IInv
        <4>2. BoxOf(Top.fn, box', lines)
          BY <2>1, <4>1, PressedFits
        <4> QED BY <4>1, <4>2, BoxKind DEF Running, Calls, Top
      <3>4. ASSUME NEW l \in Heights, Resize(l) PROVE FALSE
        <4>1. Running /\ l \in Nat /\ box' = Resized([box EXCEPT !.moved = @ + 1], l)
          BY <3>4, SizeAssumption DEF Resize, Waiting, Put, IInv
        <4>2. BoxOf(Top.fn, box', l)
          BY <2>1, <4>1, ResizedFits
        <4> QED BY <4>1, <4>2, BoxKind DEF Running, Calls, Top
      <3>5. Return => phase = "run"
        BY DEF Return, ConfBack, ConfNothing, ConfSelect, ConfHelp, ConfSet, ConfToggle,
           ConfSearch, ChoiceSelect, ChoiceHelp, Back, Again, InputHelp, StringOk, LoadOk,
           SaveOk, SearchOk, AskedBack, Asked, ConfWith, Result
      <3> QED BY <3>1, <3>2, <3>3, <3>4, <3>5 DEF Next, IInv
    <2>3. Frame(Top) /\ BoxOf(Top.fn, box, lines) /\ Len(calls) \in Nat \ {0}
      BY <2>1, <2>2, ListedLen DEF Running, Calls, Top
    <2>4. Top.fn \in {"conf", "choice"}
      BY <2>3, BoxKind
    <2>5. ASSUME box.items # <<>>, box.ret \notin Failed
          PROVE  lit = {Entered}
      <3>1. CASE Top.fn = "conf"
        <4>1. ListTrue(box) /\ box.max \in Nat /\ box.choice \in 0 .. box.max - 1
              /\ box.scroll \in Int
          BY <2>3, <2>5, <3>1 DEF BoxOf, MenuTrue, MenuShape
        <4> QED BY <4>1, LitIsTaken DEF Entered
      <3>2. CASE Top.fn = "choice"
        <4>1. /\ ListTrue(box) /\ box.scroll \in Nat /\ box.choice \in Nat
              /\ box.max = IF ListRows <= Len(box.items) THEN ListRows ELSE Len(box.items)
              /\ box.choice < box.max /\ Listed(box.items)
          BY <2>3, <2>5, <3>2 DEF BoxOf, CheckTrue, CheckShape
        <4>2. box.max \in Nat /\ box.choice \in 0 .. box.max - 1 /\ box.scroll \in Int
          <5>1. Len(box.items) \in Nat
            BY <4>1, ListedLen
          <5>2. box.max \in Nat
            BY <4>1, <5>1, ListAssumption
          <5> QED BY <4>1, <5>2
        <4> QED BY <4>1, <4>2, LitIsTaken DEF Entered
      <3> QED BY <2>4, <3>1, <3>2
    <2> HIDE DEF lit, last
    <2>6. ASSUME Alike, Few
          PROVE  Meant
      BY <2>6
    <2>7. Len(calls') \in Int /\ Len(calls') <= Len(calls) => Few
      BY <2>3
    <2>8. last.fn \notin {"conf", "choice", "string"} => Few
      OBVIOUS
    <2>9. ASSUME ConfBack PROVE Meant
      <3>1. Alike /\ Top.fn = "conf"
        BY <2>9 DEF ConfBack, Values, Result
      <3>2. calls' = Below \/ calls' = <<>> \/ calls' = <<Ask("yesno", Null)>>
        BY <2>9 DEF ConfBack, Leave
      <3>3. Len(Below) = Len(calls) - 1
        BY <2>2, ListedFront DEF Running, Calls, Below
      <3>4. Len(calls') \in Int /\ Len(calls') <= Len(calls)
        <4>1. Len(<<>>) = 0 /\ Len(<<Ask("yesno", Null)>>) = 1
          OBVIOUS
        <4>2. Len(calls') \in {Len(calls) - 1, 0, 1}
          BY <3>2, <3>3, <4>1
        <4> DEFINE n == Len(calls)
                   m == Len(calls')
        <4>3. n \in Nat \ {0} /\ m \in {n - 1, 0, 1}
          BY <2>3, <4>2
        <4> HIDE DEF n, m
        <4>4. m \in Int /\ m <= n
          BY <4>3
        <4> QED BY <4>4 DEF n, m
      <3> QED BY <2>6, <2>7, <3>1, <3>4
    <2>10. ASSUME ConfNothing PROVE Meant
      <3>1. /\ Alike /\ Top.fn = "conf"
            /\ calls' = Append(Below, [Top EXCEPT !.scroll = box.saved])
        BY <2>10 DEF ConfNothing, Values, Result
      <3>2. Len(calls') = Len(calls)
        BY <2>1, <2>2, <3>1, RememberedIs
      <3> QED BY <2>3, <2>6, <2>7, <3>1, <3>2
    <2>11. ASSUME Top.fn = "conf", calls' = Remembered
           PROVE  Few
      <3>1. Len(calls') = Len(calls)
        BY <2>1, <2>2, <2>11, RememberedIs
      <3> QED BY <2>3, <2>7, <3>1
    <2>12. ASSUME Top.fn = "conf", NEW f, Frame(f), f.fn = "text" => lines >= 9,
                  calls' = Append(Remembered, f)
           PROVE  last = f
      BY <2>1, <2>2, <2>12, ConfCalls DEF last
    <2>13. ASSUME ConfSelect PROVE Meant
      <3>1. /\ Top.fn = "conf" /\ box.items # <<>> /\ Alike /\ box.ret \notin Failed
        BY <2>13, Selects DEF Result, Failed
      <3>2. ASSUME NEW f \in {Conf(Entered), ConfChoice(Entered), Ask("string", Entered),
                              Ask("load", Null), Ask("save", Null)},
                   calls' = Append(Remembered, f)
            PROVE  Few
        <4>1. Frame(f) /\ f.fn # "text"
          BY Frames DEF Inputs
        <4>2. last = f
          BY <2>12, <3>1, <3>2, <4>1
        <4>3. f.fn \in {"conf", "choice", "string"} => f.menu = Entered
          BY Frames DEF Inputs
        <4> QED BY <2>5, <3>1, <4>2, <4>3
      <3>3. Few
        BY <2>11, <2>13, <3>1, <3>2, Selects
      <3> QED BY <2>6, <3>1, <3>3
    <2>14. ASSUME ConfHelp \/ ConfSearch PROVE Meant
      <3>1. /\ Top.fn = "conf" /\ Alike /\ box.ret \notin Failed
            /\ calls' \in {Append(Remembered, Help), Append(Remembered, Ask("search", Null))}
        BY <2>14 DEF ConfHelp, ConfSearch, ConfWith, ConfCall, Result, Values, Failed
      <3>2. lines >= 9
        BY <2>1, <2>2, <3>1, RoomForHelp
      <3>3. last \in {Help, Ask("search", Null)}
        BY <2>12, <3>1, <3>2, Frames DEF Inputs
      <3>4. last.fn \in {"text", "search"}
        BY <3>3, Frames DEF Inputs
      <3> QED BY <2>6, <2>8, <3>1, <3>4
    <2>15. ASSUME Top.fn = "conf", box.items # <<>>, box.ret \notin Failed, pick' = pick,
                  NEW val, SetSym(val) \/ on' = on, Few
           PROVE  Meant
      <3>1. \A b : (b \in on) # (b \in on') => b = Entered
        BY <2>15 DEF SetSym
      <3> QED BY <2>5, <2>15, <3>1
    <2>16. ASSUME ConfSet PROVE Meant
      <3>1. /\ Top.fn = "conf" /\ box.items # <<>> /\ box.ret \notin Failed
            /\ pick' = pick /\ calls' = Remembered
        BY <2>16 DEF ConfSet, ConfWith, ConfGoesOn, Result, Failed
      <3>2. SetSym(box.ret = "yes") \/ on' = on
        BY <2>16 DEF ConfSet
      <3> QED BY <2>11, <2>15, <3>1, <3>2
    <2>17. ASSUME ConfToggle PROVE Meant
      <3>1. /\ Top.fn = "conf" /\ box.items # <<>> /\ box.ret \notin Failed
            /\ pick' = pick /\ calls' \in {Remembered, Append(Remembered, Conf(Entered))}
        BY <2>17 DEF ConfToggle, ConfWith, ConfGoesOn, ConfCall, Result, Failed
      <3>2. SetSym(~IsOn(Entered))
        BY <2>17 DEF ConfToggle
      <3>3. ASSUME calls' = Append(Remembered, Conf(Entered))
            PROVE  Few
        <4>1. last = Conf(Entered) /\ Conf(Entered).menu = Entered
          BY <2>12, <3>1, <3>3, Frames
        <4> QED BY <2>5, <3>1, <4>1
      <3> QED BY <2>11, <2>15, <3>1, <3>2, <3>3
    <2>18. ASSUME ChoiceSelect PROVE Meant
      <3>1. /\ Top.fn = "choice" /\ on' = on /\ box.ret \notin Failed
            /\ calls' \in {Below, calls}
        BY <2>18 DEF ChoiceSelect, Leave, Stay, Result, Values, Failed
      <3>2. Few
        <4>1. Len(Below) = Len(calls) - 1
          BY <2>2, ListedFront DEF Running, Calls, Below
        <4> QED BY <2>3, <2>7, <3>1, <4>1
      <3>3. \/ pick' = pick
            \/ box.items # <<>> /\ pick' = [pick EXCEPT ![Top.menu] = Entered]
        BY <2>18 DEF ChoiceSelect, Values, Entered
      <3>4. \A c \in DOMAIN pick : pick'[c] # pick[c] =>
                box.items # <<>> /\ pick'[c] = Entered
        BY <3>3
      <3> QED BY <2>5, <3>1, <3>2, <3>4
    <2>19. ASSUME ChoiceHelp PROVE Meant
      <3> DEFINE f == [Top EXCEPT !.active = Taken(box).data]
      <3>1. /\ Top.fn = "choice" /\ Alike /\ box.ret \notin Failed
            /\ calls' \in {Append(calls, Help), Append(Append(Below, f), Help)}
        BY <2>19 DEF ChoiceHelp, Enter, Call, Result, Values, Failed
      <3>2. lines >= 9
        BY <2>1, <2>2, <3>1, RoomForHelp
      <3>3. Frame(f) /\ f.fn = Top.fn /\ f.fn # "text"
        <4>1. DOMAIN Top = {"fn", "menu", "active"}
          BY <2>3, <3>1 DEF Frame
        <4>2. DOMAIN f = {"fn", "menu", "active"} /\ f.fn = "choice"
          BY <3>1, <4>1
        <4> HIDE DEF f
        <4> QED BY <3>1, <4>2 DEF Frame
      <3> HIDE DEF f
      <3>4. Ready(Append(Below, f)) /\ Len(Append(Below, f)) # 0
        BY <2>2, <3>3, GoOnKeeps
      <3>5. Append(Append(Below, f), Help)[Len(Append(Append(Below, f), Help))] = Help
        BY <3>4, Frames, ReadyCall
      <3>6. Append(calls, Help)[Len(Append(calls, Help))] = Help
        BY <2>2, <3>1, <3>2, Frames, EnterKeeps
      <3>7. last.fn = "text"
        BY <3>1, <3>5, <3>6, Frames DEF last
      <3> QED BY <2>6, <2>8, <3>1, <3>7
    <2>20. ASSUME Back PROVE Meant
      <3>1. Alike /\ calls' = Below
        BY <2>20 DEF Back, Leave, Values
      <3>2. Len(Below) = Len(calls) - 1
        BY <2>2, ListedFront DEF Running, Calls, Below
      <3> QED BY <2>3, <2>6, <2>7, <3>1, <3>2
    <2>21. ~(Again \/ InputHelp \/ StringOk \/ LoadOk \/ SaveOk \/ SearchOk
                \/ AskedBack \/ Asked)
      BY <2>4 DEF Again, InputHelp, StringOk, LoadOk, SaveOk, SearchOk, AskedBack, Asked,
         Result
    <2> HIDE DEF Meant
    <2> QED BY <2>2, <2>9, <2>10, <2>13, <2>14, <2>16, <2>17, <2>18, <2>19, <2>20, <2>21
            DEF Return
  <1> QED BY <1>1, AlwaysRuns, PTL DEF Spec, ActsOnLit
=============================================================================
