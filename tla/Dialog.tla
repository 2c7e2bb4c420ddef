------------------------------- MODULE Dialog -------------------------------
(***************************************************************************)
(* What the boxes of package/config/lxdialog have in common.               *)
(*                                                                         *)
(* A box is a record.  It holds the variables of its dialog_ function and, *)
(* apart from them, what the terminal shows: nothing keeps the two alike   *)
(* but the calls that print.  "ret" is "open" while the function waits for *)
(* a key and the name of its result once it has one; "moved" counts how    *)
(* often the terminal changed its size while the box was open.             *)
(*                                                                         *)
(* The key '-' is "up" and '+' is "down".  "esc" is the key pressed twice: *)
(* on_key_esc drops a single one, with the sequence that it began.         *)
(***************************************************************************)
EXTENDS Integers, Sequences, FiniteSetsExt

CONSTANT Null       \* no data, no entry

Keys == {"up", "down", "pageup", "pagedown", "home", "end", "left", "right", "tab",
         "enter", "space", "backspace", "esc",
         "y", "n", "m", "h", "s", "x", "/", "a", "b", "o"}

Closed == [ret |-> "closed", kind |-> "none"]

(* The list that item_make builds: item_count is its length and item_set   *)
(* goes to one of its items, which it numbers from 0.                      *)
Item(data, tag, hot) == [data |-> data, tag |-> tag, hot |-> hot]

At(items, n) == items[n + 1]

Printed(n, lit) == [item |-> n, lit |-> lit]

Page(first, max, choice) ==
    [i \in 0 .. max - 1 |-> Printed(first + i, i = choice)]

(* The row that has the highlight gets it off, the rows move up by "by"    *)
(* lines and the rows that appear are printed; the highlight goes to the   *)
(* row "choice".                                                           *)
KeepLit(b, by, choice) ==
    LET max == Cardinality(DOMAIN b.shown)
        rows == [i \in 0 .. max - 1 |->
                    IF i + by \in 0 .. max - 1 THEN b.shown[i + by]
                    ELSE Printed(b.scroll + by + i, FALSE)]
    IN  [rows EXCEPT ![choice] = Printed(b.scroll + by + choice, TRUE)]

Rows(b, by, choice) ==
    LET max == Cardinality(DOMAIN b.shown)
        plain == [b.shown EXCEPT ![b.choice] = Printed(b.scroll + b.choice, FALSE)]
        rows == [i \in 0 .. max - 1 |->
                    IF i + by \in 0 .. max - 1 THEN plain[i + by]
                    ELSE Printed(b.scroll + by + i, FALSE)]
    IN  [rows EXCEPT ![choice] = Printed(b.scroll + by + choice, TRUE)]

(* The buttons are in a ring. *)
Press(b, key, buttons) ==
    LET next == IF key = "left" THEN b.button + buttons - 1 ELSE b.button + 1
    IN  [b EXCEPT !.button = next % buttons, !.drawn = next % buttons]

Done(b, ret) == [b EXCEPT !.ret = ret]

-----------------------------------------------------------------------------
(* dialog_yesno *)

YesNoLayout(b, lines) ==
    IF lines < 6 + 4 THEN Done(b, "small") ELSE [b EXCEPT !.drawn = 0]

YesNo(lines) ==
    YesNoLayout([kind |-> "yesno", button |-> 0, drawn |-> 0,
                 moved |-> 0, ret |-> "open"], lines)

YesNoKey(b, key) ==
    CASE key = "y" -> Done(b, "yes")
      [] key = "n" -> Done(b, "no")
      [] key \in {"left", "right", "tab"} -> Press(b, key, 2)
      [] key \in {"enter", "space"} -> Done(b, IF b.button = 0 THEN "yes" ELSE "no")
      [] key = "esc" -> Done(b, "esc")
      [] OTHER -> b
=============================================================================
