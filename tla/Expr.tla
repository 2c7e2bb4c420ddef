-------------------------------- MODULE Expr --------------------------------
(***************************************************************************)
(* The expressions of Config.in files and the algebra of                   *)
(* package/config/expr.c, which menu_finalize uses to work out when an     *)
(* entry is visible.                                                       *)
(*                                                                         *)
(* The code rewrites expressions in place, often two at a time, and one of *)
(* the two may be a part of the other.  Where that matters (Dups1, Dups2)  *)
(* an expression is named by its path from the root of one tree; where the *)
(* two are separate, an operator returns the pair of what they become.     *)
(***************************************************************************)
EXTENDS ExprSyntax, Integers, Sequences

-----------------------------------------------------------------------------
(* Values are 0 (n), 1 (m) and 2 (y); v gives those of the symbols.        *)

ValueOfSymbol(s, v) ==
    CASE s = "y" -> 2 [] s = "m" -> 1 [] s = "n" -> 0 [] OTHER -> v[s]

Least(a, b) == IF a < b THEN a ELSE b

Greatest(a, b) == IF a < b THEN b ELSE a

RECURSIVE CalcExpr(_, _)
CalcExpr(e, v) ==
    CASE e.op = "null" -> 2
      [] e.op = "sym" -> ValueOfSymbol(e.s, v)
      [] e.op = "not" -> 2 - CalcExpr(e.l, v)
      [] e.op = "and" -> Least(CalcExpr(e.l, v), CalcExpr(e.r, v))
      [] e.op = "or" -> Greatest(CalcExpr(e.l, v), CalcExpr(e.r, v))
      [] e.op = "eq" -> IF ValueOfSymbol(e.s, v) = ValueOfSymbol(e.t, v) THEN 2 ELSE 0
      [] e.op = "ne" -> IF ValueOfSymbol(e.s, v) = ValueOfSymbol(e.t, v) THEN 0 ELSE 2

RECURSIVE ContainsSymbol(_, _)
ContainsSymbol(e, s) ==
    CASE e.op = "null" -> FALSE
      [] e.op = "sym" -> e.s = s
      [] e.op \in {"eq", "ne"} -> s \in {e.s, e.t}
      [] e.op = "not" -> ContainsSymbol(e.l, s)
      [] e.op \in Junction -> ContainsSymbol(e.l, s) \/ ContainsSymbol(e.r, s)

(* expr_depends_symbol: that e holds only when s is on, as far as can be   *)
(* read off its conjuncts.                                                 *)
RECURSIVE DependsSymbol(_, _)
DependsInPart(e, s) ==
    IF e.op \in Junction THEN DependsSymbol(e.l, s) \/ DependsSymbol(e.r, s) ELSE e = Symbol(s)

DependsSymbol(e, s) ==
    CASE e.op = "and" -> DependsSymbol(e.l, s) \/ DependsSymbol(e.r, s)
      [] e.op = "sym" -> e.s = s
      [] e.op = "eq" -> e.s = s /\ e.t \in {"y", "m"}
      [] e.op = "ne" -> e.s = s /\ e.t = "n"
      [] OTHER -> FALSE

-----------------------------------------------------------------------------
(* expr_eliminate_yn *)
Simplify(op, l, r) ==
    IF Zero(op) \in {l, r} THEN Zero(op)
    ELSE IF l = Unit(op) THEN r
    ELSE IF r = Unit(op) THEN l
    ELSE Two(op, l, r)

RECURSIVE EliminateYN(_)
EliminateYN(e) ==
    IF e.op \in Junction THEN Simplify(e.op, EliminateYN(e.l), EliminateYN(e.r)) ELSE e

RECURSIVE CancelEq(_, _, _), EliminateEq(_, _), ExprEq(_, _)

(* __expr_eliminate_eq: terms both have become the unit of op in both. *)
CancelEq(op, e, f) ==
    IF e.op = op
    THEN LET a == CancelEq(op, e.l, f)
             b == CancelEq(op, e.r, a[2])
         IN  <<Two(op, a[1], b[1]), b[2]>>
    ELSE IF f.op = op
    THEN LET a == CancelEq(op, e, f.l)
             b == CancelEq(op, a[1], f.r)
         IN  <<b[1], Two(op, a[2], b[2])>>
    ELSE IF (e = f /\ e \in {Yes, No}) \/ ~ExprEq(e, f) THEN <<e, f>>
    ELSE <<Unit(op), Unit(op)>>

EliminateEq(e, f) ==
    LET a == IF e.op \in Junction THEN CancelEq(e.op, e, f) ELSE <<e, f>>
        b == IF a[1].op # a[2].op /\ a[2].op \in Junction
             THEN CancelEq(a[2].op, a[1], a[2]) ELSE a
    IN  IF NoExpr \in {e, f} THEN <<e, f>>
        ELSE <<EliminateYN(b[1]), EliminateYN(b[2])>>

EqSymbols(e, f) == e.op = f.op /\ (e.op \in {"sym", "eq", "ne"} => e.s = f.s)

(* expr_eq: junctions are equal if nothing is left of either. *)
ExprEq(e, f) ==
    /\ e.op = f.op
    /\ CASE e.op \in {"sym", "eq", "ne"} -> e = f
         [] e.op = "not" -> ExprEq(e.l, f.l)
         [] e.op \in Junction ->
                LET p == EliminateEq(e, f) IN p[1].op = "sym" /\ p[1] = p[2]

(* expr_extract_eq: x collects the terms that are cancelled. *)
RECURSIVE ExtractEq(_, _, _, _)
ExtractEq(op, x, e, f) ==
    IF e.op = op
    THEN LET a == ExtractEq(op, x, e.l, f)
             b == ExtractEq(op, a.common, e.r, a.right)
         IN  [common |-> b.common, left |-> Two(op, a.left, b.left), right |-> b.right]
    ELSE IF f.op = op
    THEN LET a == ExtractEq(op, x, e, f.l)
             b == ExtractEq(op, a.common, a.left, f.r)
         IN  [common |-> b.common, left |-> b.left, right |-> Two(op, a.right, b.right)]
    ELSE IF ExprEq(e, f)
    THEN [common |-> Join(op, x, e), left |-> Unit(op), right |-> Unit(op)]
    ELSE [common |-> x, left |-> e, right |-> f]

(* expr_extract_eq_and, expr_extract_eq_or: what is left of e. *)
Remainder(op, e, f) ==
    LET x == ExtractEq(op, NoExpr, e, f)
    IN  IF x.common = NoExpr THEN x.left ELSE EliminateYN(x.left)

-----------------------------------------------------------------------------
(* expr_transform: comparisons of Boolean symbols become the symbols, and  *)
(* negations move to the symbols.                                          *)

BoolCompare(e) ==
    LET same == e.op = "eq"
    IN  CASE e.t = "y" -> IF same THEN Symbol(e.s) ELSE Not(Symbol(e.s))
          [] e.t = "n" -> IF same THEN Not(Symbol(e.s)) ELSE Symbol(e.s)
          [] e.t = "m" -> IF same THEN No ELSE Yes
          [] OTHER -> e

RECURSIVE Transform(_)
Transform(e) ==
    CASE e.op \in {"eq", "ne"} -> IF e.s \in BoolSym THEN BoolCompare(e) ELSE e
      [] e.op \in Junction -> Two(e.op, Transform(e.l), Transform(e.r))
      [] e.op = "not" ->
            LET x == Transform(e.l)
            IN  CASE x.op = "not" -> Transform(x.l)
                  [] x.op = "eq" -> [x EXCEPT !.op = "ne"]
                  [] x.op = "ne" -> [x EXCEPT !.op = "eq"]
                  [] x.op \in Junction ->
                        Transform(Two(Dual(x.op), Not(x.l), Not(x.r)))
                  [] x = Yes -> No
                  [] x = No -> Yes
                  [] x = Symbol("m") -> x
                  [] OTHER -> Not(x)
      [] OTHER -> e

(* expr_trans_bool *)
RECURSIVE TransBool(_)
TransBool(e) ==
    CASE e.op \in Junction -> Two(e.op, TransBool(e.l), TransBool(e.r))
      [] e.op = "not" -> Not(TransBool(e.l))
      [] e.op = "ne" /\ e.s \in TriSym /\ e.t = "n" -> Symbol(e.s)
      [] OTHER -> e

(* expr_trans_compare, with sym one of y and n *)
RECURSIVE TransCompare(_, _, _)
TransCompare(e, op, c) ==
    LET Negated(x) == IF op = "ne" THEN Not(x) ELSE x
    IN  CASE e.op = "null" -> Negated(Symbol(c))
          [] e.op \in Junction ->
                Negated(Two(IF c = "y" THEN e.op ELSE Dual(e.op),
                            TransCompare(e.l, "eq", c), TransCompare(e.r, "eq", c)))
          [] e.op = "not" -> TransCompare(e.l, IF op = "eq" THEN "ne" ELSE "eq", c)
          [] e.op \in {"eq", "ne"} -> IF (op = "eq") = (c = "y") THEN e ELSE Not(e)
          [] e.op = "sym" -> Compare(op, e.s, c)

-----------------------------------------------------------------------------
(* expr_join_or and expr_join_and: one term for two about the same symbol. *)
(* Of a negated comparison they look at the symbol in the first term only. *)

SymbolOf(e, negated) ==
    CASE e.op \in {"sym", "eq", "ne"} -> e.s
      [] e.op = "not" /\ e.l.op \in negated -> e.l.s
      [] OTHER -> NoSym

Subject(e, f) ==
    LET s == SymbolOf(e, {"sym", "eq", "ne"})
    IN  IF s = SymbolOf(f, {"sym"}) /\ s \in BoolSym \cup TriSym THEN s ELSE NoSym

(* The value a tristate symbol has, or has not, when two are ruled out. *)
Third(e, f, op, to) ==
    IF e.op = op /\ f.op = op /\ {e.t, f.t} \subseteq Const
    THEN Compare(to, e.s, CHOOSE c \in Const : c \notin {e.t, f.t})
    ELSE NoExpr

JoinOr(e, f, s) ==
    CASE s \in TriSym -> Third(e, f, "eq", "ne")
      [] s \in BoolSym /\ {e, f} = {Symbol(s), Not(Symbol(s))} -> Yes
      [] OTHER -> NoExpr

KeepsOther(e, f) == IF {e.t, f.t} \subseteq Const THEN IF e.t # f.t THEN e ELSE f ELSE NoExpr

(* a='b' && a!='c' *)
EqualAndNot(e, f) ==
    IF {e.t, f.t} \subseteq Const THEN IF e.t # f.t THEN e ELSE No ELSE NoExpr

JoinAnd(e, f, s) ==
    LET With(op, c) == {e, f} = {Symbol(s), Compare(op, s, c)}
    IN  CASE s = NoSym -> NoExpr
          [] With("eq", "y") \/ With("ne", "m") -> Compare("eq", s, "y")
          [] With("ne", "n") -> Symbol(s)
          [] s \in TriSym /\ e.op = "eq" /\ f.op = "ne" -> EqualAndNot(e, f)
          [] s \in TriSym /\ e.op = "ne" /\ f.op = "eq" -> EqualAndNot(f, e)
          [] s \in TriSym /\ e.op = "ne" /\ f.op = "ne" /\ e # f -> Third(e, f, "ne", "eq")
          [] OTHER -> NoExpr

JoinTerms(op, e, f) ==
    IF ExprEq(e, f) THEN e
    ELSE IF op = "or" THEN JoinOr(e, f, Subject(e, f)) ELSE JoinAnd(e, f, Subject(e, f))

-----------------------------------------------------------------------------
(* expr_eliminate_dups.  A tree is [e |->, n |->]: the expression, and     *)
(* whether it changed (trans_count).                                       *)

RECURSIVE At(_, _), PutAt(_, _, _)
At(e, p) ==
    IF p = <<>> THEN e ELSE At(IF Head(p) = "l" THEN e.l ELSE e.r, Tail(p))

PutAt(e, p, x) ==
    IF p = <<>> THEN x
    ELSE IF Head(p) = "l" THEN [e EXCEPT !.l = PutAt(@, Tail(p), x)]
    ELSE [e EXCEPT !.r = PutAt(@, Tail(p), x)]

Rewrite(tree, p, x) == [e |-> PutAt(tree.e, p, x), n |-> TRUE]

L(p) == Append(p, "l")

R(p) == Append(p, "r")

(* Each term at p with each at q: two that can be joined become one. *)
RECURSIVE Dups1(_, _, _, _)
Dups1(op, p, q, tree) ==
    LET e == At(tree.e, p)
    IN  IF e.op = op THEN Dups1(op, R(p), q, Dups1(op, L(p), q, tree))
        ELSE IF At(tree.e, q).op = op THEN Dups1(op, p, R(q), Dups1(op, p, L(q), tree))
        ELSE IF p = q THEN tree
        ELSE LET t == IF e.op \in Junction THEN Dups1(e.op, p, p, tree) ELSE tree
                 x == JoinTerms(op, At(t.e, p), At(t.e, q))
             IN  IF x = NoExpr THEN t ELSE Rewrite(Rewrite(t, p, Unit(op)), q, x)

(* A term at p that the terms at q contradict, or complete.  q itself is   *)
(* tried after its parts.                                                  *)
RECURSIVE Dups2(_, _, _, _)
Dups2(op, p, q, tree) ==
    IF At(tree.e, p).op = op THEN Dups2(op, R(p), q, Dups2(op, L(p), q, tree))
    ELSE LET t == IF At(tree.e, q).op = op
                  THEN Dups2(op, p, R(q), Dups2(op, p, L(q), tree)) ELSE tree
             inner == At(t.e, p).op
         IN  IF p = q \/ inner \notin Junction THEN t
             ELSE LET u == Dups2(inner, p, p, t)
                      rest == Remainder(Dual(inner), Transform(Not(At(u.e, p))), At(u.e, q))
                  IN  IF rest = Unit(Dual(inner)) THEN Rewrite(u, p, Unit(inner)) ELSE u

Dups(e) == Dups2(e.op, <<>>, <<>>, Dups1(e.op, <<>>, <<>>, [e |-> e, n |-> FALSE]))

RECURSIVE EliminateDups(_), UntilSame(_, _)
UntilSame(e, t) == IF t.n THEN EliminateDups(EliminateYN(t.e)) ELSE e

EliminateDups(e) == IF e.op \in Junction THEN UntilSame(e, Dups(e)) ELSE e
=============================================================================
