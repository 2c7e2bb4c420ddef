------------------------------ MODULE ConfigIn ------------------------------
(***************************************************************************)
(* What conf_parse does with the tree the parser has read (Parser):        *)
(* menu_finalize (menu.c), which gives each entry the dependencies of what *)
(* encloses it and moves entries under those they depend on, and           *)
(* sym_check_deps (symbol.c), which refuses circular dependencies.  They   *)
(* are the values the configuration gives Finalized and Circular.          *)
(***************************************************************************)
EXTENDS Expr, Parser

PromptVis(t, m) == t.props[t.prompt[m]].vis

-----------------------------------------------------------------------------
(* menu_finalize                                                           *)

ParentPrompt(t, p) == IF t.prompt[p] # Null THEN PromptVis(t, p) ELSE t.dep[p]

ParentDep(t, p) ==
    CASE IsChoice(t, p) -> Symbol(SymOf(t, p))
      [] ~IsChoice(t, p) /\ t.prompt[p] # Null -> PromptVis(t, p)
      [] OTHER -> t.dep[p]

(* What m selects, added to rev_dep of each target. *)
AddReverse(rev, t, m) ==
    FoldLeft(LAMBDA r, p : IF p.kind # "select" \/ p.menu # m THEN r
                           ELSE [r EXCEPT ![p.val.s] =
                                    Join("or", @, Join("and", Symbol(SymOf(t, m)), p.vis))],
             rev, t.props)

(* The dependencies of p go to its entry m and to the properties of m. *)
BaseDep(t, p, m) == EliminateDups(Join("and", ParentDep(t, p), Transform(t.dep[m])))

PropVis(t, m, base, vis) ==
    LET e == EliminateDups(Join("and", base, Transform(vis)))
    IN  IF SymOf(t, m) = NoSym \/ SymOf(t, m) \in TriSym THEN e ELSE TransBool(e)

WithDep(t, m, base) ==
    [t EXCEPT !.dep[m] = base,
              !.props = [i \in DOMAIN @ |->
                           IF @[i].menu = m THEN [@[i] EXCEPT !.vis = PropVis(t, m, base, @)]
                           ELSE @[i]]]

WithReverse(t, m) == [t EXCEPT !.rev = AddReverse(@, t, m)]

Inherit(t, p, m) == WithReverse(WithDep(t, m, BaseDep(t, p, m)), m)

(* An entry and those linked after it. *)
RECURSIVE Chain(_, _)
Chain(t, m) == IF m = Null THEN <<>> ELSE <<m>> \o Chain(t, t.next[m])

Below(t, p) == Chain(t, t.list[p])

(* e != n, in normal form *)
NotNo(e) == EliminateDups(Transform(TransCompare(e, "ne", "n")))

RECURSIVE Finalize(_, _), FinalizeFrom(_, _), Absorb(_, _, _, _), Gather(_, _, _)

FinalizeFrom(t, m) ==
    IF m = Null THEN t
    ELSE LET u == Finalize(t, m) IN FinalizeFrom(u, u.next[m])

(* m depends on the symbol of p, or is invisible when p is. *)
AbsorbsAny(t, p, m) ==
    ContainsSymbol(IF t.prompt[m] # Null THEN PromptVis(t, m) ELSE t.dep[m], SymOf(t, p))

Absorbs(t, p, m) ==
    LET dep == IF t.prompt[m] # Null THEN PromptVis(t, m) ELSE t.dep[m]
        own == IF t.prompt[p] # Null THEN PromptVis(t, p) ELSE NoExpr
    IN  /\ ContainsSymbol(dep, SymOf(t, p))
        /\ \/ DependsSymbol(dep, SymOf(t, p))
           \/ IsYes(EliminateEq(NotNo(dep), NotNo(own))[2])

(* The entries that follow p and depend on it become its submenu.  The     *)
(* last one that was moved is "to".                                        *)
Absorb(t, p, m, to) ==
    LET u == Finalize(t, m)
    IN  IF m # Null /\ Absorbs(t, p, m)
        THEN Absorb([u EXCEPT !.parent[m] = p], p, u.next[m], m)
        ELSE IF to = Null THEN t
        ELSE [t EXCEPT !.list[p] = t.next[p], !.next[p] = t.next[to], !.next[to] = Null]

(* Entries of a choice become its values; those below an entry without a   *)
(* prompt move up beside it.                                               *)
Gather(t, p, m) ==
    IF m = Null THEN t
    ELSE LET s == SymOf(t, m)
             u == IF IsChoice(t, p) /\ s # NoSym
                  THEN IF t.choice[s] = NoSym THEN [t EXCEPT !.choice[s] = SymOf(t, p)] ELSE t
                  ELSE t
             kids == Below(u, m)
             w == IF kids = <<>> \/ u.prompt[m] # Null THEN u
                  ELSE [u EXCEPT !.parent = [i \in DOMAIN @ |-> IF i \in Range(kids) THEN p ELSE @[i]],
                                 !.next[Last(kids)] = u.next[m],
                                 !.next[m] = u.list[m],
                                 !.list[m] = Null]
         IN  Gather(w, p, w.next[m])

InheritAll(t, p) == FoldLeft(LAMBDA u, m : Inherit(u, p, m), t, Below(t, p))

Settle(t, p) ==
    IF t.list[p] # Null THEN FinalizeFrom(t, t.list[p])
    ELSE IF SymOf(t, p) # NoSym THEN Absorb(t, p, t.next[p], Null)
    ELSE t

GatherAll(t, p) == Gather(t, p, t.list[p])

(* A choice is on when its prompt is visible. *)
SelectSelf(t, p) ==
    IF IsChoice(t, p) /\ t.prompt[p] # Null
    THEN [t EXCEPT !.rev[SymOf(t, p)] =
            Join("or", @, Join("and", PromptVis(t, p), Symbol("m")))]
    ELSE t

Finalize(t, p) == SelectSelf(GatherAll(Settle(InheritAll(t, p), p), p), p)

FinalizeRoot(t) == Finalize(t, Root)

-----------------------------------------------------------------------------
(* The texts considered                                                    *)

Mentioned(t) ==
    {s \in Config : \/ \E m \in Entries(t) : ContainsSymbol(t.dep[m], s)
                    \/ \E p \in Range(t.props) :
                          ContainsSymbol(p.vis, s) \/ ContainsSymbol(p.val, s)}

Declared(t) == {SymOf(t, m) : m \in Entries(t)}

(* The files declare what they mention, and the default of a choice is one *)
(* of the symbols it chooses from.                                         *)
WellFormed(t, u) ==
    /\ Mentioned(t) \subseteq Declared(t)
    /\ \A p \in Range(t.props) :
           p.kind = "default" /\ IsChoice(t, p.menu) => u.choice[p.val.s] = SymOf(t, p.menu)

-----------------------------------------------------------------------------
(* sym_check_deps.  The flags of the symbols are a record, with the count  *)
(* of errors; a check gives the symbol it ran into, or NoSym.              *)

Unchecked == [check |-> {}, checked |-> {}, errs |-> 0, hit |-> NoSym]

PropsOf(t, s) == SelectSeq(t.props, LAMBDA p : SymOf(t, p.menu) = s)

ValuesOf(t, c) == {s \in DOMAIN t.choice : t.choice[s] = c}

RECURSIVE CheckDeps(_, _, _), CheckExpr(_, _, _), CheckSym(_, _, _),
          CheckProps(_, _, _, _), CheckAll(_, _, _), CheckChoice(_, _, _)

CheckExpr(t, e, k) ==
    CASE e.op = "null" -> k
      [] e.op = "sym" -> CheckDeps(t, e.s, k)
      [] e.op = "not" -> CheckExpr(t, e.l, k)
      [] e.op \in {"eq", "ne"} ->
            LET l == CheckDeps(t, e.s, k)
            IN  IF l.hit # NoSym THEN l ELSE CheckDeps(t, e.t, l)
      [] e.op \in Junction ->
            LET l == CheckExpr(t, e.l, k)
            IN  IF l.hit # NoSym THEN l ELSE CheckExpr(t, e.r, l)

CheckProps(t, s, props, k) ==
    IF props = <<>> \/ k.hit # NoSym THEN k
    ELSE LET p == Head(props)
             seen == IF p.kind = "select" THEN k ELSE CheckExpr(t, p.vis, k)
             u == IF seen.hit # NoSym \/ p.kind # "default" \/ s \in Range(ChoiceSym)
                  THEN seen ELSE CheckExpr(t, p.val, seen)
         IN  CheckProps(t, s, Tail(props), u)

CheckOwnProps(t, s, k) == CheckProps(t, s, PropsOf(t, s), k)

(* sym_check_sym_deps *)
CheckSym(t, s, k) == CheckProps(t, s, PropsOf(t, s), CheckExpr(t, t.rev[s], k))

(* The values of a choice one after the other, as far as the first error. *)
CheckAll(t, S, k) ==
    IF S = {} \/ k.hit # NoSym THEN k
    ELSE LET s == CHOOSE s \in S : TRUE IN CheckAll(t, S \ {s}, CheckSym(t, s, k))

(* sym_check_choice_deps *)
CheckChoice(t, c, k) ==
    LET group == ValuesOf(t, c) \cup {c}
        own == CheckSym(t, c, [k EXCEPT !.check = @ \cup group, !.checked = @ \cup group])
        all == CheckAll(t, ValuesOf(t, c), [own EXCEPT !.check = @ \ {c}])
    IN  [all EXCEPT !.check = @ \ group,
                    !.hit = IF @ \in ValuesOf(t, c) THEN c ELSE @]

CheckDeps(t, s, k) ==
    LET flagged == [k EXCEPT !.check = @ \cup {s}, !.checked = @ \cup {s}]
        u == IF t.choice[s] # NoSym THEN CheckDeps(t, t.choice[s], k)
             ELSE IF s \in Range(ChoiceSym) THEN CheckChoice(t, s, k)
             ELSE [CheckSym(t, s, flagged) EXCEPT !.check = @ \ {s}]
    IN  IF s \in Const THEN k
        ELSE IF s \in k.check THEN [k EXCEPT !.hit = s]
        ELSE IF s \in k.checked THEN k
        ELSE IF u.hit = s THEN [u EXCEPT !.errs = @ + 1, !.hit = NoSym]
        ELSE u

RECURSIVE CheckEach(_, _, _)
CheckEach(t, S, k) ==
    IF S = {} THEN k
    ELSE LET s == CHOOSE s \in S : TRUE
             u == CheckDeps(t, s, k)
         IN  CheckEach(t, S \ {s},
                       IF u.hit = NoSym THEN u
                       ELSE [u EXCEPT !.errs = @ + 1, !.hit = NoSym])

SomeCircle(t) == CheckEach(t, DOMAIN t.rev, Unchecked).errs > 0

-----------------------------------------------------------------------------
(* What must hold                                                          *)

(* No symbol is m: the Config.in files of this tree have no MODULES.       *)
Valuation == [BoolSym \cup TriSym -> {0, 2}]

(* The value of the conditions of what an entry is written in.             *)
RECURSIVE Within(_, _)
Within(m, v) ==
    LET p == tree.parent[m]
    IN  IF m = Root THEN 2
        ELSE IF IsChoice(tree, p) THEN v[SymOf(tree, p)]
        ELSE Least(Within(p, v), CalcExpr(tree.dep[p], v))

(* A prompt is visible, and a default or a select applies, under its own   *)
(* condition and those of its entry and of all that encloses it.           *)
DepsSpread ==
    stage = "accepted" =>
        \A i \in DOMAIN tree.props, v \in Valuation :
            LET p == tree.props[i]
            IN  CalcExpr(final.props[i].vis, v) =
                    Least(CalcExpr(p.vis, v),
                          Least(CalcExpr(tree.dep[p.menu], v), Within(p.menu, v)))

(* menu_is_visible *)
RECURSIVE MenuIsVisible(_, _, _)
MenuIsVisible(t, m, v) ==
    /\ t.prompt[m] # Null
    /\ \/ CalcExpr(PromptVis(t, m), v) # 0
       \/ /\ SymOf(t, m) # NoSym /\ v[SymOf(t, m)] # 0
          /\ \E k \in Range(Below(t, m)) : MenuIsVisible(t, k, v)

RECURSIVE Above(_, _)
Above(t, m) == IF m = Null THEN {} ELSE {m} \cup Above(t, t.parent[m])

Syms == Declared(final) \ {NoSym}

ChoiceSyms == Syms \cap Range(ChoiceSym)

(* What sym_calc_value goes by when the symbols have the values v and the  *)
(* user chose pick: the symbols with a visible prompt, those rev_dep and   *)
(* those a default switches on, and what the choices take.                 *)
Basis(v, pick) ==
    LET Applies(p) == CalcExpr(p.vis, v) # 0
        Defaults(s) == SelectSeq(PropsOf(final, s), LAMBDA p : p.kind = "default" /\ Applies(p))
        shown == {s \in Syms : \E p \in Range(PropsOf(final, s)) :
                                   p.kind = "prompt" /\ Applies(p)}
        Offers(c) ==
            SelectSeq(<<pick[c]>> \o [i \in DOMAIN Defaults(c) |-> Defaults(c)[i].val.s]
                        \o SelectSeq([i \in Entries(final) |-> SymOf(final, i)],
                                     LAMBDA s : s \in ValuesOf(final, c)),
                      LAMBDA s : s \in shown)
    IN  [v |-> v, shown |-> shown,
         reverse |-> {s \in Syms : /\ final.choice[s] = NoSym /\ final.rev[s] # NoExpr
                                   /\ CalcExpr(final.rev[s], v) # 0},
         default |-> {s \in Syms \ ChoiceSyms : /\ Defaults(s) # <<>>
                                                /\ CalcExpr(Defaults(s)[1].val, v) # 0},
         taken |-> {Head(Offers(c)) : c \in {c \in ChoiceSyms : Offers(c) # <<>>}}]

(* Those values agree with each other if the user set what set says, 1     *)
(* being nothing.                                                          *)
Agree(b, set) ==
    LET Expected(s) ==
            LET c == final.choice[s]
            IN  IF c # NoSym /\ s \in b.shown THEN b.v[c] = 2 /\ s \in b.taken
                ELSE IF s \in b.shown \ ChoiceSyms /\ set[s] # 1
                THEN set[s] = 2 \/ s \in b.reverse
                ELSE s \in b.reverse \cup b.default
    IN  \A s \in Syms : Expected(s) = (b.v[s] = 2)

(* sym_check_deps refuses every circle: whatever the user sets, an         *)
(* accepted tree gives the symbols exactly one set of values.              *)
Determined ==
    stage = "accepted" =>
        LET values == {v \in Valuation : \A s \in DOMAIN v \ Syms : v[s] = 0}
            Can(c) == ValuesOf(final, c) \cup {NoSym}
        IN  \A pick \in [ChoiceSyms -> UNION {Can(c) : c \in ChoiceSyms}] :
                (\A c \in ChoiceSyms : pick[c] \in Can(c)) =>
                    LET bases == {Basis(v, pick) : v \in values}
                    IN  \A set \in [Syms \ ChoiceSyms -> {0, 1, 2}] :
                            Cardinality({b \in bases : Agree(b, set)}) = 1

(* When menu_finalize has moved entries, the walk still comes to every     *)
(* entry in the order of the text, and a prompt that is visible is in      *)
(* visible menus only: moving entries below what they depend on hides none *)
(* of them, whatever the user set.                                         *)
Reachable ==
    stage = "accepted" =>
        /\ Linked(final)
        /\ LET Chosen(v) == [c \in ChoiceSyms |->
                               IF \E s \in ValuesOf(final, c) : v[s] = 2
                               THEN CHOOSE s \in ValuesOf(final, c) : v[s] = 2 ELSE NoSym]
           IN  \A v \in Valuation, m \in Entries(final) :
                   /\ final.prompt[m] # Null
                   /\ CalcExpr(PromptVis(final, m), v) # 0
                   /\ \E a \in Above(final, m) : ~MenuIsVisible(final, a, v)
                   => ~Agree(Basis(v, Chosen(v)), v)

=============================================================================
