------------------------------ MODULE InputBox ------------------------------
(***************************************************************************)
(* package/config/lxdialog/inputbox.c: the box of a string.                *)
(*                                                                         *)
(* Of dialog_input_result only the length counts here; "shown" says for    *)
(* each column of the field which character of it the terminal shows.      *)
(* "was" is the length of the text the box was opened with.                *)
(***************************************************************************)
EXTENDS Dialog

CONSTANTS
    FieldWidth,     \* box_width, the columns of the field
    MaxLen          \* MAX_LEN, the size of the buffer

ASSUME FieldAssumption == FieldWidth \in Nat \ {0, 1} /\ MaxLen \in Nat

Columns == 0 .. FieldWidth - 1

Blank == [c \in Columns |-> Null]

(* The characters from "scroll" on; the last column is for the cursor when *)
(* the text does not fit.                                                  *)
Window(len, scroll, width) ==
    [c \in Columns |-> IF c < width /\ scroll + c < len THEN scroll + c ELSE Null]

InputLayout(b, lines) ==
    LET scroll == IF b.len >= FieldWidth THEN b.len - FieldWidth + 1 ELSE b.scroll
    IN  IF lines <= b.height - 2 THEN Done(b, "small")
        ELSE [b EXCEPT !.scroll = scroll,
                       !.x = Min({b.len, FieldWidth - 1}),
                       !.shown = IF b.len >= FieldWidth
                                 THEN Window(b.len, scroll, FieldWidth - 1)
                                 ELSE Window(b.len, 0, FieldWidth),
                       !.drawn = 0]

(* The button -1 is the field itself. *)
InputOpen(height, len, lines) ==
    InputLayout([kind |-> "input", height |-> height, was |-> len, len |-> len,
                 x |-> 0, scroll |-> 0, shown |-> Blank, button |-> -1,
                 drawn |-> 0, moved |-> 0, ret |-> "open"], lines)

(* What is typed ends the text, unless the cursor is past its end.  At the *)
(* last column the text moves.                                             *)
Typed(b) ==
    LET at == b.scroll + b.x
        full == b.x = FieldWidth - 1
        len == IF at <= b.len THEN at + 1 ELSE b.len
    IN  IF at >= MaxLen THEN b
        ELSE [b EXCEPT !.len = len,
                       !.scroll = IF full THEN b.scroll + 1 ELSE b.scroll,
                       !.x = IF full THEN b.x ELSE b.x + 1,
                       !.shown = IF full
                                 THEN [Window(len, b.scroll + 1, FieldWidth - 1)
                                          EXCEPT ![b.x] = b.shown[b.x]]
                                 ELSE [b.shown EXCEPT ![b.x] = at]]

(* At the left edge of a text that has moved it moves back, almost a page. *)
ScrolledBack(b) == IF b.scroll < FieldWidth - 1 THEN 0 ELSE b.scroll - (FieldWidth - 1)

Backspace(b) ==
    IF b.x > 0
    THEN [b EXCEPT !.len = Min({b.len, b.scroll + b.x - 1}), !.x = b.x - 1,
                   !.shown = [b.shown EXCEPT ![b.x - 1] = Null]]
    ELSE IF b.scroll > 0
    THEN [b EXCEPT !.scroll = ScrolledBack(b), !.x = b.len - ScrolledBack(b),
                   !.shown = Window(b.len, ScrolledBack(b), FieldWidth)]
    ELSE b

(* From the field the keys go to Ok, to Help and back to the field. *)
InputPress(b, key) ==
    LET next == IF key \in {"up", "left"}
                THEN (IF b.button = -1 THEN 1 ELSE b.button - 1)
                ELSE (IF b.button = 1 THEN -1 ELSE b.button + 1)
    IN  [b EXCEPT !.button = next, !.drawn = Max({next, 0})]

Printable == Keys \ {"up", "down", "pageup", "pagedown", "home", "end", "left",
                     "right", "tab", "enter", "backspace", "esc"}

InputKey(b, key) ==
    CASE b.button = -1 /\ key \in Printable -> Typed(b)
      [] b.button = -1 /\ key = "backspace" -> Backspace(b)
      [] b.button = -1 /\ key = "left" -> b
      [] b.button # -1 /\ key = "o" -> Done(b, "ok")
      [] b.button # -1 /\ key = "h" -> Done(b, "help")
      [] b.button # -1 /\ key = "x" -> Done(b, "esc")
      [] b.button = -1 /\ key = "right" -> b
      [] key \in {"up", "down", "left", "right", "tab"} -> InputPress(b, key)
      [] key \in {"enter", "space"} -> Done(b, IF b.button = 1 THEN "help" ELSE "ok")
      [] key = "esc" -> Done(b, "esc")
      [] OTHER -> b
=============================================================================
