----------------------------- MODULE MCConfigIn -----------------------------
(***************************************************************************)
(* Config.in files for TLC: their conditions and options, and, as the rest *)
(* depends on it, how expressions are read and rewritten.  What is read is *)
(* either the statements of a text, as in Parser, or expressions, built    *)
(* the way the grammar (zconf.y) builds them: the terms, and the operators *)
(* that combine what was read last.                                        *)
(***************************************************************************)
EXTENDS ConfigIn

CONSTANTS
    Terms,      \* the symbols and comparisons of the expressions
    MaxTerms    \* terms of the expressions together

VARIABLE exprs  \* what was read and is not yet part of another expression

BOn == Compare("ne", "B", "n")

MCConditions == {Compare("ne", "A", "n"), Not(Symbol("B"))}

MCOptions ==
    {[kind |-> "prompt", val |-> NoExpr, vis |-> Symbol("A")],
     [kind |-> "default", val |-> Symbol("A"), vis |-> BOn],
     [kind |-> "select", val |-> Symbol("B"), vis |-> NoExpr]}

MCChoiceSym == <<"C">>

MCTerms ==
    {Symbol("A"), Symbol("C"), Compare("ne", "A", "m"),
     Symbol("B"), Compare("eq", "B", "m"), Compare("ne", "B", "y")}

-----------------------------------------------------------------------------
RECURSIVE Size(_)
Size(e) ==
    IF e.op \in Junction THEN Size(e.l) + Size(e.r)
    ELSE IF e.op = "not" THEN Size(e.l) ELSE 1

(* An expression is read before any statement. *)
Expression == read = 0 /\ stage = "parsing" /\ UNCHANGED vars

ReadTerm ==
    /\ Expression
    /\ FoldLeft(LAMBDA n, e : n + Size(e), 0, exprs) < MaxTerms
    /\ \E e \in Terms : exprs' = Append(exprs, e)

ReadNot ==
    /\ Expression
    /\ exprs # <<>> /\ Last(exprs).op # "not"
    /\ exprs' = Append(Front(exprs), Not(Last(exprs)))

ReadJunction ==
    /\ Expression
    /\ Len(exprs) > 1
    /\ \E op \in Junction :
           exprs' = Append(Front(Front(exprs)), Two(op, Last(Front(exprs)), Last(exprs)))

(* The actions of Parser, each for itself. *)
Text == exprs = <<>> /\ UNCHANGED exprs

InitBoth == Init /\ exprs = <<>>

NextBoth ==
    \/ ReadTerm \/ ReadNot \/ ReadJunction
    \/ \E s \in Config, prompt \in BOOLEAN : ReadConfig(s, prompt) /\ Text
    \/ ReadComment /\ Text
    \/ ReadMenu /\ Text
    \/ ReadChoice /\ Text
    \/ \E e \in Conditions, ended \in 0..Len(busy) : ReadIf(e, ended) /\ Text
    \/ \E e \in Conditions : ReadDepends(e) /\ Text
    \/ \E o \in Options : ReadOption(o) /\ Text
    \/ \E kind \in {"menu", "choice", "if"} : ReadEnd(kind) /\ Text
    \/ \E f \in Files : ReadSource(f) /\ Text
    \/ EndOfFile /\ Text
    \/ EndOfInput /\ Text

SpecBoth == InitBoth /\ [][NextBoth]_<<vars, exprs>>

-----------------------------------------------------------------------------
Normal(e) == EliminateDups(Transform(e))

(* expr_transform and expr_eliminate_dups keep the value of an expression, *)
(* whatever the values of the symbols; and so they do for what             *)
(* menu_finalize makes of "e is not n", which says that e is not n.        *)
NormalFormKept ==
    Len(exprs) = 1 =>
        LET notNo == TransCompare(exprs[1], "ne", "n")
        IN  /\ \A v \in Valuation :
                   CalcExpr(notNo, v) = IF CalcExpr(exprs[1], v) = 0 THEN 0 ELSE 2
            /\ \A e \in {exprs[1], notNo} : \A f \in {Normal(e)} :
                   \A v \in Valuation : CalcExpr(f, v) = CalcExpr(e, v)

(* Where expr_depends_symbol finds that e depends on s, e is n if s is.    *)
DependsSound ==
    Len(exprs) = 1 =>
        \A s \in BoolSym \cup TriSym :
            DependsSymbol(exprs[1], s) =>
                \A v \in Valuation : v[s] = 0 => CalcExpr(exprs[1], v) = 0

(* If expr_eliminate_eq leaves nothing of the second expression, then the  *)
(* first implies it: this is how menu_finalize decides that an entry may   *)
(* move below one that is not always visible.                              *)
Implied ==
    Len(exprs) = 2 =>
        \A normal \in {[i \in 1..2 |-> Normal(exprs[i])]} :
            IsYes(EliminateEq(normal[1], normal[2])[2]) =>
                \A v \in Valuation : CalcExpr(normal[1], v) <= CalcExpr(normal[2], v)
=============================================================================
