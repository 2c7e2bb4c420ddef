----------------------------- MODULE ExprSyntax -----------------------------
(***************************************************************************)
(* The symbols and expressions of Config.in files, and how the parser puts *)
(* expressions together.  Expr says what they mean.                        *)
(***************************************************************************)
CONSTANTS
    BoolSym,    \* the symbols of type S_BOOLEAN
    TriSym      \* the symbols of type S_TRISTATE

ASSUME SymbolAssumption == BoolSym \cap TriSym = {}

Const == {"y", "m", "n"}    \* symbol_yes, symbol_mod, symbol_no

NoSym == "no symbol"

-----------------------------------------------------------------------------
(* Expressions; NoExpr is the null pointer.                                *)

NoExpr == [op |-> "null"]

Symbol(s) == [op |-> "sym", s |-> s]

Compare(op, s, t) == [op |-> op, s |-> s, t |-> t]     \* op is "eq" or "ne"

Not(e) == [op |-> "not", l |-> e]

Two(op, e, f) == [op |-> op, l |-> e, r |-> f]         \* op is "and" or "or"

Yes == Symbol("y")

No == Symbol("n")

Junction == {"and", "or"}

Unit(op) == IF op = "and" THEN Yes ELSE No

Zero(op) == IF op = "and" THEN No ELSE Yes

Dual(op) == IF op = "and" THEN "or" ELSE "and"

IsYes(e) == e = NoExpr \/ e = Yes

(* expr_alloc_and, expr_alloc_or *)
Join(op, e, f) ==
    IF e = NoExpr THEN f ELSE IF f = NoExpr THEN e ELSE Two(op, e, f)
=============================================================================
