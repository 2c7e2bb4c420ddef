------------------------------ MODULE MenuBox -------------------------------
(***************************************************************************)
(* package/config/lxdialog/menubox.c: the box of a menu.                   *)
(*                                                                         *)
(* "first" is first_item, "max" is max_choice; "selected" and "saved" are  *)
(* what conf passes: the entry it acted on last and s_scroll.              *)
(***************************************************************************)
EXTENDS Dialog

MenuButtons == <<"select", "exit", "help">>

(* The arrows say that there is more. *)
MenuArrows(b) == [b EXCEPT !.up = b.scroll > 0,
                           !.down = b.scroll + b.max < Len(b.items)]

NextToDefault(b) ==
    LET those == {n \in 0 .. Len(b.items) - 1 : At(b.items, n).data = b.selected}
    IN  IF b.selected = Null \/ those = {} THEN b.choice
        ELSE Min({Max(those) + 1, Len(b.items) - 1})

(* The last item that has the data, else the choice as it is. *)
DefaultChoice(b) ==
    LET those == {n \in 0 .. Len(b.items) - 1 : At(b.items, n).data = b.selected}
    IN  IF b.selected = Null \/ those = {} THEN b.choice ELSE Max(those)

(* The saved scroll is used if the choice is on that page; else the choice *)
(* goes to the middle, unless it is on the first page.                     *)
Place(b, choice, max) ==
    LET n == Len(b.items)
        middle == IF choice >= n - max \div 2 THEN n - max ELSE choice - max \div 2
    IN  IF b.saved <= choice /\ choice < b.saved + max /\ b.saved + max <= n
        THEN [first |-> b.saved, scroll |-> b.saved, choice |-> choice - b.saved]
        ELSE IF choice >= max
        THEN [first |-> middle, scroll |-> middle, choice |-> choice - middle]
        ELSE [first |-> b.first, scroll |-> 0, choice |-> choice]

(* A row past the last item has none to print: item_cur is NULL. *)
MenuDraw(b, place, max) ==
    IF place.first + max > Len(b.items) THEN Done(b, "crash")
    ELSE MenuArrows([b EXCEPT !.first = place.first, !.scroll = place.scroll,
                              !.choice = place.choice, !.max = max,
                              !.shown = Page(place.first, max, place.choice),
                              !.drawn = 0])

MenuLayout(b, lines) ==
    LET max == Min({lines - 14, Len(b.items)})
    IN  IF lines < 15 THEN Done(b, "small")
        ELSE MenuDraw(b, Place(b, DefaultChoice(b), max), max)

MenuOpen(items, selected, saved, lines) ==
    MenuLayout([kind |-> "menu", items |-> items, selected |-> selected,
                saved |-> saved, first |-> 0, scroll |-> 0, choice |-> 0,
                max |-> 0, shown |-> Page(0, 0, 0), up |-> FALSE, down |-> FALSE,
                button |-> 0, drawn |-> 0, moved |-> 0, ret |-> "open"], lines)

(* The rows whose highlighted letter the key is; y, n, m and h are none. *)
MenuHot(b, key) ==
    IF key \in {"y", "n", "m", "h"} THEN {}
    ELSE {i \in 0 .. b.max - 1 : At(b.items, b.scroll + i).hot = key}

(* The next of them below the highlight, or else the first. *)
NextHot(b, hot) ==
    LET below == {i \in hot : i > b.choice}
    IN  Min(IF below # {} THEN below ELSE hot)

MenuGo(b, by, choice) ==
    MenuArrows([b EXCEPT !.shown = Rows(b, by, choice),
                         !.scroll = b.scroll + by, !.choice = choice])

(* Near the edge the rows move; else the highlight does. *)
MenuMove(b, key) ==
    LET below == Len(b.items) - b.max - b.scroll
        back == Min({b.scroll, b.max})
        ahead == Min({below, b.max})
    IN  CASE key = "up" ->
                 IF b.choice < 2 /\ b.scroll > 0 THEN MenuGo(b, -1, b.choice)
                 ELSE MenuGo(b, 0, Max({b.choice - 1, 0}))
          [] key = "down" ->
                 IF b.choice > b.max - 3 /\ below > 0 THEN MenuGo(b, 1, b.choice)
                 ELSE MenuGo(b, 0, Min({b.choice + 1, b.max - 1}))
          [] key = "pageup" ->
                 MenuGo(b, -back, Max({Min({b.choice, 0}), b.choice - (b.max - back)}))
          [] key = "pagedown" ->
                 MenuGo(b, ahead, Max({b.choice, Min({b.choice + b.max - ahead, b.max - 1})}))

(* The scroll is saved with every result but that of ESC. *)
MenuDone(b, ret) == [b EXCEPT !.ret = ret, !.saved = b.scroll]

MenuKey(b, key) ==
    IF MenuHot(b, key) # {} THEN MenuGo(b, 0, NextHot(b, MenuHot(b, key)))
    ELSE CASE key \in {"up", "down", "pageup", "pagedown"} -> MenuMove(b, key)
           [] key \in {"left", "right", "tab"} -> Press(b, key, 3)
           [] key \in {"s", "y"} -> MenuDone(b, "yes")
           [] key = "n" -> MenuDone(b, "no")
           [] key = "m" -> MenuDone(b, "mod")
           [] key = "space" -> MenuDone(b, "toggle")
           [] key = "/" -> MenuDone(b, "search")
           [] key = "h" -> MenuDone(b, "help")
           [] key = "enter" -> MenuDone(b, MenuButtons[b.button + 1])
           [] key \in {"x", "esc"} -> Done(b, "esc")
           [] OTHER -> b

TakenOnFirstPage(b) == At(b.items, b.choice)

(* The item that is selected when a key returns, and the one that the      *)
(* screen highlights.                                                      *)
Taken(b) == At(b.items, b.scroll + b.choice)

Lit(b) == {At(b.items, b.shown[i].item).data : i \in {j \in DOMAIN b.shown : b.shown[j].lit}}
=============================================================================
