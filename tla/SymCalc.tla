------------------------------- MODULE SymCalc -------------------------------
(***************************************************************************)
(* How symbol.c computes the values that Menu describes.                   *)
(*                                                                         *)
(* sym_calc_value calculates a symbol when its value is asked for, and the *)
(* symbols it depends on before it, and marks it SYMBOL_VALID so that it   *)
(* is calculated once.  Who sets a symbol takes the mark off all symbols.  *)
(* A cache is a record: the symbols that are on, the member each choice    *)
(* last chose, the symbols that are valid, and those with SYMBOL_WRITE.    *)
(*                                                                         *)
(* calc[s][k] is the cache that asking for s leaves of k.  The functions   *)
(* that sym_calc_value calls, and that call it, have calc as a parameter.  *)
(***************************************************************************)
EXTENDS Menu, FiniteSetsExt

ASSUME FiniteMenu == IsFiniteSet(All)

Cache == [on : SUBSET All, pick : Vals, valid : SUBSET All, write : SUBSET Sym]

Put(S, s, b) == IF b THEN S \cup {s} ELSE S \ {s}

(* expr_calc_value calculates both sides of an expression, whatever the    *)
(* first one gives.                                                        *)
AskAll(calc, S, k) == FoldSet(LAMBDA s, r : calc[s][r], k, S)

CalcVisibilityOwn(calc, s, k) ==
    AskAll(calc, Mentions(Prompt[s]) \cup (IF s \in Plain THEN Mentions(Select[s]) ELSE {}), k)

(* sym_calc_visibility *)
CalcVisibility(calc, s, k) ==
    AskAll(calc, Mentions(Prompt[s])
                     \cup (IF s \in Plain THEN Mentions(Select[s]) ELSE {})
                     \cup (IF s \in Member THEN {ChoiceOf(s)} ELSE {}), k)

(* sym_get_default_prop: the first default that applies, 0 if none does. *)
DefaultProp(calc, s, k) ==
    LET found[i \in 0..Len(Default[s])] ==
            IF i = 0 THEN [at |-> 0, cache |-> k]
            ELSE LET f == found[i - 1]
                     t == AskAll(calc, Mentions(Default[s][i].when), f.cache)
                 IN  IF f.at # 0 THEN f
                     ELSE [at |-> IF Holds(Default[s][i].when, t.on) THEN i ELSE 0,
                           cache |-> t]
    IN  found[Len(Default[s])]

(* sym_calc_choice: the first member that can be chosen, or none. *)
CalcChoice(calc, c, k, u) ==
    LET tried[i \in 0..Len(Candidates(c, u))] ==
            IF i = 0 THEN [to |-> None, cache |-> k]
            ELSE LET f == tried[i - 1]
                     n == Candidates(c, u)[i]
                     t == AskAll(calc, Mentions(n.when), f.cache)
                     w == CalcVisibility(calc, n.to, t)
                 IN  IF f.to # None THEN f
                     ELSE IF ~Holds(n.when, t.on) THEN [to |-> None, cache |-> t]
                     ELSE [to |-> IF Visible(n.to, w.on) THEN n.to ELSE None,
                           cache |-> w]
        r == tried[Len(Candidates(c, u))]
    IN  [r.cache EXCEPT !.pick[c] = r.to,
                        !.on = IF r.to = None THEN @ \ {c} ELSE @]

(* A symbol that nobody can set, and one that was not set, has its default. *)
CalcPlain(calc, s, k, u) ==
    LET t == CalcVisibility(calc, s, k)
        visible == Visible(s, t.on)
        selected == Selected(s, t.on)
        clear == [t EXCEPT !.on = @ \ {s}]
        d == DefaultProp(calc, s, clear)
        e == IF d.at = 0 THEN d.cache
             ELSE AskAll(calc, Mentions(Default[s][d.at].value), d.cache)
    IN  IF visible /\ u.def[s] # "new"
        THEN [clear EXCEPT !.on = Put(@, s, u.def[s] = "y" \/ selected),
                           !.write = @ \cup {s}]
        ELSE [e EXCEPT
                !.on = Put(@, s, selected \/ (d.at # 0
                                    /\ Holds(Default[s][d.at].value, e.on))),
                !.write = Put(@, s, visible \/ selected \/ d.at # 0)]

(* sym_calc_value of a symbol that is not valid.  A choice that is visible *)
(* marks its members.                                                      *)
Calculate(calc, s, k, u) ==
    LET t == CalcVisibility(calc, s, k) IN
    CASE s \in Plain -> CalcPlain(calc, s, k, u)
      [] s \in Choice ->
             IF Visible(s, t.on)
             THEN CalcChoice(calc, s, [t EXCEPT !.on = @ \cup {s},
                                                !.write = @ \cup In(s)], u)
             ELSE [t EXCEPT !.on = @ \ {s}, !.pick[s] = None]
      [] s \in Member ->
             [t EXCEPT !.on = Put(@, s, /\ Visible(s, t.on)
                                        /\ t.pick[ChoiceOf(s)] = s)]

(* sym_calc_value: a symbol is valid from when its calculation begins. *)
Calc(u) ==
    LET calc[s \in All] ==
            [k \in Cache |->
                IF s \in k.valid THEN k
                ELSE Calculate(calc, s, [k EXCEPT !.valid = @ \cup {s}], u)]
    IN  calc

CalcValue(s, k, u) == Calc(u)[s][k]

CalcAll(S, k, u) == AskAll(Calc(u), S, k)

(* sym_clear_all_valid *)
ClearAllValid(k) == [k EXCEPT !.valid = {}]
=============================================================================
