------------------------------ MODULE TextBox -------------------------------
(***************************************************************************)
(* package/config/lxdialog/textbox.c: the box of a text.                   *)
(*                                                                         *)
(* A text is its number of lines, which are numbered from 0, and whether   *)
(* the last one ends with a newline.  "page" is the line that get_line     *)
(* returns next; page = length is the end of the text, where it returns an *)
(* empty line.                                                             *)
(***************************************************************************)
EXTENDS Dialog

CONSTANT MaxScroll      \* the columns a text can be scrolled (MAX_LEN)

ASSUME ScrollAssumption == MaxScroll \in Nat

(* The line with which get_line reaches the end. *)
EndLine(b) == IF b.ended THEN b.length ELSE b.length - 1

LineAt(b, n) == IF n < b.length THEN n ELSE Null

(* get_line, n times: page, end_reached, and page_length, which counts the *)
(* lines up to the one with which the end is reached.                      *)
Read(b, n) ==
    [b EXCEPT !.page = Min({b.page + n, b.length}),
              !.end = (b.page + n - 1 >= EndLine(b)),
              !.count = Min({n, Max({EndLine(b) - b.page, 0}) + 1})]

(* back_lines: at the end of the text the first line back is the empty     *)
(* line there, if it was read.                                             *)
BackLines(b, n) ==
    LET atEnd == n > 0 /\ b.page = b.length /\ b.end
        rest == IF atEnd THEN n - 1 ELSE n
        c == [b EXCEPT !.end = IF atEnd THEN FALSE ELSE b.end]
    IN  IF rest > 0 /\ rest >= b.page
        THEN [c EXCEPT !.page = 0, !.begin = TRUE]
        ELSE [c EXCEPT !.page = b.page - rest, !.begin = FALSE]

PrintPage(b) ==
    [Read(b, b.rows) EXCEPT !.shown = [i \in 1 .. b.rows |-> LineAt(b, b.page + i - 1)]]

TextLayout(b, lines) ==
    IF lines < 8 THEN Done(b, "small")
    ELSE PrintPage([b EXCEPT !.rows = (IF b.height # 0 THEN b.height ELSE lines - 4) - 4])

(* height 0 is that of the terminal *)
TextOpen(length, ended, height, lines) ==
    TextLayout([kind |-> "text", length |-> length, ended |-> ended,
                height |-> height, rows |-> 0, page |-> 0, begin |-> TRUE,
                end |-> FALSE, count |-> 0, column |-> 0, shown |-> <<>>,
                moved |-> 0, ret |-> "open"], lines)

(* One line up or down: the other rows move by one. *)
LineUp(b) ==
    LET c == BackLines(b, b.count + 1)
    IN  [Read(c, b.rows) EXCEPT
            !.shown = [i \in 1 .. b.rows |->
                          IF i = 1 THEN LineAt(c, c.page) ELSE b.shown[i - 1]]]

LineDown(b) ==
    [Read(b, 1) EXCEPT
        !.begin = FALSE,
        !.count = b.count,
        !.shown = [i \in 1 .. b.rows |->
                      IF i = b.rows THEN LineAt(b, b.page) ELSE b.shown[i + 1]]]

(* Scrolling sideways prints the page again. *)
Sideways(b, column) ==
    PrintPage(BackLines([b EXCEPT !.column = column], b.count))

TextKey(b, key) ==
    CASE key \in {"x", "enter", "esc"} -> Done(b, "exit")
      [] key = "home" /\ ~b.begin -> PrintPage([b EXCEPT !.page = 0, !.begin = TRUE])
      [] key = "end" ->
             PrintPage(BackLines([b EXCEPT !.page = b.length, !.end = TRUE], b.rows))
      [] key = "up" /\ ~b.begin -> LineUp(b)
      [] key = "down" /\ ~b.end -> LineDown(b)
      [] key \in {"b", "pageup"} /\ ~b.begin -> PrintPage(BackLines(b, b.count + b.rows))
      [] key \in {"space", "pagedown"} /\ ~b.end -> PrintPage([b EXCEPT !.begin = FALSE])
      [] key \in {"h", "left"} /\ b.column > 0 -> Sideways(b, b.column - 1)
      [] key = "right" /\ b.column < MaxScroll -> Sideways(b, b.column + 1)
      [] OTHER -> b

(* The text goes back by the height of the box before it is printed anew.  *)
TextMoved(b, lines) ==
    TextLayout(BackLines(b, b.rows + 4), lines)
=============================================================================
