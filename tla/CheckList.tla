------------------------------ MODULE CheckList -----------------------------
(***************************************************************************)
(* package/config/lxdialog/checklist.c: the box of a choice.               *)
(***************************************************************************)
EXTENDS Dialog

CONSTANT ListRows   \* list_height, the rows of the list

ASSUME ListAssumption == ListRows \in Nat \ {0, 1}

CheckButtons == <<"select", "help">>

ListArrows(b) ==
    [b EXCEPT !.up = b.scroll > 0,
              !.down = Len(b.items) > ListRows /\ b.scroll + b.choice < Len(b.items) - 1]

CheckLayout(b, lines) ==
    LET max == Min({ListRows, Len(b.items)})
        scroll == IF b.choice >= ListRows THEN b.choice - ListRows + 1 ELSE b.scroll
        choice == IF b.choice >= ListRows THEN ListRows - 1 ELSE b.choice
    IN  IF lines < 15 + 6 THEN Done(b, "small")
        ELSE ListArrows([b EXCEPT !.max = max, !.scroll = scroll, !.choice = choice,
                                  !.shown = Page(scroll, max, choice), !.drawn = 0])

(* The item that is selected has the highlight, else the one with the X. *)
CheckOpen(items, selected, lines) ==
    LET those(d) == {n \in 0 .. Len(items) - 1 : At(items, n).data = d}
        marked == {n \in 0 .. Len(items) - 1 : At(items, n).tag = "X"}
        choice == IF those(selected) # {} THEN Min(those(selected))
                  ELSE IF marked # {} THEN Max(marked) ELSE 0
    IN  CheckLayout([kind |-> "check", items |-> items, scroll |-> 0,
                     choice |-> choice, max |-> 0, shown |-> Page(0, 0, 0),
                     up |-> FALSE, down |-> FALSE, button |-> 0, drawn |-> 0,
                     moved |-> 0, ret |-> "open"], lines)

(* The first row that begins with the key, whatever else the key means. *)
CheckHot(b, key) == {i \in 0 .. b.max - 1 : At(b.items, b.scroll + i).hot = key}

(* Within the page the arrows stay as they are. *)
CheckGo(b, choice) == [b EXCEPT !.shown = Rows(b, 0, choice), !.choice = choice]

CheckScroll(b, by) ==
    ListArrows([b EXCEPT !.shown = Rows(b, by, b.choice), !.scroll = b.scroll + by])

CheckMove(b, key) ==
    IF key = "up"
    THEN CASE b.choice > 0 -> CheckGo(b, b.choice - 1)
           [] b.choice = 0 /\ b.scroll > 0 -> CheckScroll(b, -1)
           [] OTHER -> b
    ELSE CASE b.choice # b.max - 1 -> CheckGo(b, b.choice + 1)
           [] b.choice = b.max - 1 /\ b.scroll + b.choice < Len(b.items) - 1 ->
                  CheckScroll(b, 1)
           [] OTHER -> b

CheckKey(b, key) ==
    IF CheckHot(b, key) # {} THEN CheckGo(b, Min(CheckHot(b, key)))
    ELSE CASE key \in {"up", "down"} -> CheckMove(b, key)
           [] key \in {"left", "right", "tab"} -> Press(b, key, 2)
           [] key = "h" -> Done(b, "help")
           [] key \in {"s", "space", "enter"} -> Done(b, CheckButtons[b.button + 1])
           [] key \in {"x", "esc"} -> Done(b, "esc")
           [] OTHER -> b
=============================================================================
