------------------------------- MODULE Views -------------------------------
(***************************************************************************)
(* gconf, the configuration program with a GTK+ window (gconf.c): the menu *)
(* as rows of one or two trees, in three views, and the callbacks that     *)
(* change values and rows.  After a change of a value the rows are brought *)
(* up to date one by one (update_tree); what they must agree with is what  *)
(* display_tree shows of an empty tree.                                    *)
(*                                                                         *)
(* Left out: which columns are shown (a key does what a click in a hidden  *)
(* column would do), rows that are folded in, and the text pane.           *)
(***************************************************************************)
EXTENDS Integers, Sequences, SequencesExt

CONSTANTS
    Entry,      \* the entries of the menu in their order
    Root,       \* rootmenu
    Kind,       \* "menu", "menuconfig", "bool", "choice", "member", "string", "comment"
    Parent,     \* the entry an entry is below
    Cond,       \* literals [sym, on] of which all must hold for the prompt
    Texts,      \* values of strings
    Presets,    \* what a file may hold: [on, pick, text]
    MaxCalls,   \* bound: the callbacks of a session
    Null

Syms == {e \in Range(Entry) : Kind[e] \notin {"menu", "comment"}}
Strings == {e \in Syms : Kind[e] = "string"}
ChoiceSyms == {e \in Syms : Kind[e] = "choice"}
Bools == {e \in Syms : Kind[e] \in {"bool", "menuconfig"}}

IsMenu(e) == Kind[e] \in {"menu", "menuconfig"}     \* P_MENU

Below(m) == SelectSeq(Entry, LAMBDA e : Parent[e] = m)

(* What menu_finalize leaves: an entry is not visible where the one it is  *)
(* below is not.                                                           *)
ASSUME NestedAssumption ==
    \A e \in Range(Entry) : Parent[e] # Root =>
        Cond[Parent[e]] \subseteq Cond[e] \/ [sym |-> Parent[e], on |-> TRUE] \in Cond[e]

(* A string that was not set, and one whose S_DEF_USER holds no string.    *)
Unset == "unset"
NoString == "null"

VARIABLES
    view,       \* view_mode
    showAll,    \* show_all
    back, save, \* whether the buttons are sensitive
    current,    \* the menu shown in the single view
    browsed,    \* the menu shown on the right of the split view
    left,       \* rows of tree1
    right,      \* rows of tree2
    dirty,      \* symbols with SYMBOL_CHANGED
    user,       \* the settings, and the strings as they were last calculated
    changed,    \* conf_get_changed()
    stage,      \* "open", "asking", "closed", "crashed"
    since,      \* history: what happened to tree2 since it was cleared
    calls       \* callbacks so far

rows == <<left, right>>
where == <<view, showAll, back, current, browsed>>
vars == <<where, rows, dirty, user, changed, save, stage, since, calls>>

-----------------------------------------------------------------------------
(* The values of the symbols for the settings u.                           *)

RECURSIVE IsOn(_, _)
PromptOn(u, e) == \A l \in Cond[e] : IsOn(u, l.sym) = l.on

Offered(u, c) == SelectSeq(Below(c), LAMBDA e : Kind[e] = "member" /\ PromptOn(u, e))

(* sym_calc_choice *)
Taken(u, c) ==
    IF u.pick[c] \in Range(Offered(u, c)) THEN u.pick[c]
    ELSE IF Offered(u, c) # <<>> THEN Offered(u, c)[1] ELSE Null

IsOn(u, e) ==
    /\ Kind[e] \in {"bool", "menuconfig", "choice", "member"}
    /\ PromptOn(u, e)
    /\ e \in Bools => e \in u.on
    /\ Kind[e] = "member" => Taken(u, Parent[e]) = e

(* menu_is_visible *)
RECURSIVE Visible(_, _)
Visible(u, e) ==
    PromptOn(u, e) \/ (IsOn(u, e) /\ \E k \in Range(Below(e)) : Visible(u, k))

(* sym_clear_all_valid, and the strings are calculated anew. *)
Recalculated(u) ==
    [u EXCEPT !.live = [s \in Strings |->
        IF PromptOn(u, s) /\ u.text[s] # Unset THEN u.text[s] ELSE ""]]

(* As Moved, but that a symbol can be set now, or cannot any more, is not  *)
(* taken for a change.                                                     *)
MovedByValue(u, v) ==
    {e \in Syms : \/ IsOn(u, e) # IsOn(v, e)
                  \/ e \in Strings /\ u.live[e] # v.live[e]
                  \/ e \in ChoiceSyms /\ Taken(u, e) # Taken(v, e)}

(* What sym_calc_value marks as changed: a value or the visibility of a    *)
(* symbol, and with a choice all its members.                              *)
Moved(u, v) ==
    LET Differs(e) == \/ PromptOn(u, e) # PromptOn(v, e)
                      \/ IsOn(u, e) # IsOn(v, e)
                      \/ e \in Strings /\ u.live[e] # v.live[e]
                      \/ e \in ChoiceSyms /\ Taken(u, e) # Taken(v, e)
    IN  {e \in Syms : Differs(e) \/ (Kind[e] = "member" /\ Differs(Parent[e]))}

(* sym_set_tristate_value where it does not fail *)
SetTo(u, e, yes) ==
    LET v == IF Kind[e] = "member" THEN [u EXCEPT !.pick[Parent[e]] = e]
             ELSE [u EXCEPT !.on = IF yes THEN @ \cup {e} ELSE @ \ {e}]
    IN  IF yes = IsOn(u, e) THEN v ELSE Recalculated(v)

(* sym_toggle_tristate_value: a symbol that is not visible is set to the n *)
(* it has; and so is a string, which then holds none.                      *)
Toggled(u, e) ==
    CASE e \in Bools -> SetTo(u, e, PromptOn(u, e) /\ ~IsOn(u, e))
      [] Kind[e] = "member" /\ PromptOn(u, e) -> SetTo(u, e, TRUE)
      [] e \in Strings /\ u.text[e] = Unset -> [u EXCEPT !.text[e] = NoString]
      [] OTHER -> u

(* change_sym_value: what is not in range is taken for y.                  *)
Changed(u, e, yes) ==
    IF e \notin Strings \cup ChoiceSyms /\ PromptOn(u, e)
    THEN SetTo(u, e, yes \/ Kind[e] = "member") ELSE u

(* sym_set_string_value: no matter whether the symbol is visible.          *)
Edited(u, s, t) ==
    IF u.text[s] = t THEN u ELSE Recalculated([u EXCEPT !.text[s] = t])

-----------------------------------------------------------------------------
(* The rows.  w is what they are to show: the settings and show_all.       *)

World(u, all) == [user |-> u, all |-> all]

Listed(w, e) == w.all \/ Visible(w.user, e)

(* fill_row *)
Cell(w, e) ==
    LET u == w.user
    IN  [gray |-> w.all /\ ~Visible(u, e),
         value |-> CASE e \in ChoiceSyms -> IF IsOn(u, e) THEN Taken(u, e) ELSE Null
                     [] e \in Strings -> IF u.live[e] = NoString THEN "" ELSE u.live[e]
                     [] e \in Syms -> IF IsOn(u, e) THEN "Y" ELSE "N"
                     [] OTHER -> Null,
         open |-> e \in Syms \ (ChoiceSyms \cup Strings) /\ PromptOn(u, e)]

(* place_node and set_node *)
Node(w, e, kids) == [menu |-> e, cell |-> Cell(w, e), kids |-> kids]

(* fixup_rootmenu: MENU_ROOT *)
RECURSIVE FixUp(_, _)
FixUp(m, inMenu) ==
    {m} \cup UNION {IF IsMenu(e) THEN FixUp(e, TRUE)
                    ELSE IF inMenu THEN {} ELSE FixUp(e, FALSE) : e \in Range(Below(m))}

MenuRoot == FixUp(Root, FALSE)

(* display_tree: each tree of the split view has entries the other has not *)
SkippedIn(v, e, pane) == v = "split" /\ ((e \in MenuRoot) # (pane = "left"))

Descends(v, m, e, pane) ==
    /\ v # "full" /\ pane = "right" => ~IsMenu(e)
    /\ v = "single" => m \in MenuRoot

RECURSIVE DisplayTree(_, _, _, _)
DisplayTree(w, v, m, pane) ==
    LET shown == SelectSeq(Below(m), LAMBDA e : ~SkippedIn(v, e, pane) /\ Listed(w, e))
    IN  [i \in DOMAIN shown |->
            Node(w, shown[i], IF Descends(v, m, shown[i], pane)
                              THEN DisplayTree(w, v, shown[i], pane) ELSE <<>>)]

(* The entries display_tree goes past: it clears SYMBOL_CHANGED of each.   *)
(* Whether one that is not shown is marked makes no difference: where it   *)
(* gets a row, the row is filled.                                          *)
RECURSIVE Met(_, _, _)
Met(v, m, pane) ==
    Range(Below(m)) \cup
        UNION {Met(v, e, pane) : e \in {k \in Range(Below(m)) :
                   ~SkippedIn(v, k, pane) /\ Descends(v, m, k, pane)}}

(* gtktree_iter_find_node *)
RECURSIVE Menus(_)
Menus(rs) == UNION {{rs[i].menu} \cup Menus(rs[i].kids) : i \in DOMAIN rs}

(* update_tree.  r are the rows below one parent, the marks, and whether   *)
(* entries were passed over: after the last row was removed the function   *)
(* returns, whatever is still to add.                                      *)
RECURSIVE UpdateFrom(_, _, _, _)
UpdateTree(w, m, rs, marks) ==
    UpdateFrom(w, Below(m), [rows |-> rs, dirty |-> marks, cut |-> FALSE], 1)

UpdateFrom(w, todo, r, i) ==
    IF todo = <<>> THEN r
    ELSE
    LET e == todo[1]
        here == i <= Len(r.rows) /\ r.rows[i].menu = e
        removed == [r EXCEPT !.rows = RemoveAt(@, i)]
    IN  IF e \in Menus(r.rows) /\ ~(Listed(w, e) /\ here)
        THEN IF i < Len(r.rows) THEN UpdateFrom(w, todo, removed, i)
             ELSE [removed EXCEPT !.cut = @ \/ \E k \in Range(todo) : Listed(w, k)]
        ELSE IF ~Listed(w, e) THEN UpdateFrom(w, Tail(todo), r, i)
        ELSE LET fill == ~here \/ e \in r.dirty
                 kids == IF here THEN r.rows[i].kids ELSE <<>>
                 row == IF fill THEN Node(w, e, kids) ELSE r.rows[i]
                 under == UpdateTree(w, e, kids, IF fill THEN r.dirty \ {e} ELSE r.dirty)
                 all == [row EXCEPT !.kids = under.rows]
             IN  UpdateFrom(w, Tail(todo),
                            [rows |-> IF here THEN [r.rows EXCEPT ![i] = all]
                                      ELSE InsertAt(r.rows, i, all),
                             dirty |-> under.dirty, cut |-> r.cut \/ under.cut],
                            i + 1)
-----------------------------------------------------------------------------
(* Showing.                                                                *)

Cut(r) == IF r.cut THEN {"cut"} ELSE {}

(* tree2 is cleared and filled with what is below m. *)
Display(u, v, all, m, marks) ==
    /\ right' = DisplayTree(World(u, all), v, m, "right")
    /\ dirty' = marks \ Met(v, m, "right")
    /\ since' = {}

(* display_list *)
DisplayList(u, v) == left' = DisplayTree(World(u, showAll), v, Root, "left")

(* What the callbacks do after a value was set: update the rows (full),    *)
(* update them and fill the left tree again (split), or display the menu   *)
(* again (single).                                                         *)
ShowValues(u) ==
    LET marks == dirty \cup Moved(user, u)
        m == IF view = "full" THEN Root ELSE browsed
        r == UpdateTree(World(u, showAll), m, right, marks)
    IN  \/ /\ view = "single"
           /\ Display(u, view, showAll, current, marks)
           /\ UNCHANGED <<left, current>>
        \/ /\ view # "single"
           /\ right' = r.rows
           /\ since' = (since \ {"cut"}) \cup Cut(r)
           /\ IF view = "split"
              THEN /\ DisplayList(u, view) /\ current' = Root
                   /\ dirty' = r.dirty \ Met(view, Root, "left")
              ELSE dirty' = r.dirty /\ UNCHANGED <<left, current>>

(* update_tree(&rootmenu), whatever tree2 shows *)
UpdateFromRoot(u) ==
    LET r == UpdateTree(World(u, showAll), Root, right, dirty \cup Moved(user, u))
    IN  /\ right' = r.rows /\ dirty' = r.dirty
        /\ since' = (since \ {"cut"}) \cup Cut(r) \cup (IF view = "full" THEN {} ELSE {"other"})
        /\ UNCHANGED <<left, current>>

Crash ==
    /\ stage' = "crashed"
    /\ UNCHANGED <<where, rows, dirty, user, changed, save, since>>

(* conf_changed is called when the change count leaves or reaches 0. *)
Count(c) ==
    /\ changed' = c
    /\ save' = IF c = changed THEN save ELSE c

Counts(u) == \/ \E e \in Syms : IsOn(u, e) # IsOn(user, e)
             \/ \E s \in Strings : u.text[s] # user.text[s] /\ u.text[s] # NoString

Store(u) == user' = u /\ Count(changed \/ Counts(u))

-----------------------------------------------------------------------------
(* main: the file is read and the whole tree is displayed.                 *)

(* conf_read drops what was set of symbols that are not visible. *)
Read(p) ==
    LET u == [on |-> p.on, pick |-> p.pick, text |-> p.text, live |-> [s \in Strings |-> ""]]
    IN  Recalculated([u EXCEPT !.on = {e \in @ : PromptOn(u, e)},
                               !.text = [s \in Strings |->
                                            IF PromptOn(u, s) THEN @[s] ELSE Unset]])

Init ==
    /\ view = "full" /\ showAll = FALSE /\ back = FALSE
    /\ current = Root /\ browsed = Null
    /\ user \in {Read(p) : p \in Presets}
    /\ left = <<>>
    /\ right = DisplayTree(World(user, FALSE), "full", Root, "right")
    /\ dirty = {} /\ since = {}
    /\ changed \in BOOLEAN /\ save = TRUE
    /\ stage = "open" /\ calls = 0

-----------------------------------------------------------------------------
(* Clicks and keys on a row.                                               *)

(* toggle_sym_value: a click on the value, two on the option. *)
Toggle(e) ==
    /\ stage = "open" /\ e \in Menus(right) \cap Syms
    /\ IF view = "split" /\ browsed = Null THEN Crash
       ELSE LET u == Toggled(user, e)
            IN  /\ Store(u) /\ ShowValues(u)
                /\ UNCHANGED <<view, showAll, back, browsed, stage>>

(* change_sym_value: a click on N, M or Y, or the key. *)
Change(e, yes) ==
    /\ stage = "open" /\ e \in (Menus(right) \cap Syms) \ Strings
    /\ IF view = "split" /\ browsed = Null THEN Crash
       ELSE LET u == Changed(user, e, yes)
            IN  /\ Store(u) /\ ShowValues(u)
                /\ UNCHANGED <<view, showAll, back, browsed, stage>>

(* renderer_edited *)
Edit(s, t) ==
    /\ stage = "open" /\ s \in Menus(right) \cap Strings
    /\ LET u == Edited(user, s, t)
       IN  Store(u) /\ UpdateFromRoot(u)
    /\ UNCHANGED <<view, showAll, back, browsed, stage>>

(* Two clicks on a menu: down into it. *)
GoDown(e) ==
    /\ stage = "open" /\ view # "full" /\ e \in Menus(right) /\ IsMenu(e)
    /\ IF view = "split" /\ browsed = Null THEN Crash
       ELSE /\ current' = e /\ back' = TRUE
            /\ Display(user, view, showAll, IF view = "single" THEN e ELSE browsed, dirty)
            /\ UNCHANGED <<view, showAll, browsed, left, user, changed, save, stage>>

(* on_back_clicked *)
Back ==
    /\ stage = "open" /\ back
    /\ IF current = Root THEN Crash
       ELSE LET up == Parent[current]
                to == IF up = Root \/ IsMenu(up) THEN up ELSE Parent[up]
            IN  /\ current' = to /\ back' = (to # Root)
                /\ Display(user, view, showAll, IF view = "single" THEN to ELSE browsed, dirty)
                /\ UNCHANGED <<view, showAll, browsed, left, user, changed, save, stage>>

(* A click in the left tree, and the second one. *)
Browse(e) ==
    /\ stage = "open" /\ view = "split" /\ e \in Menus(left)
    /\ browsed' = e
    /\ Display(user, view, showAll, e, dirty)
    /\ UNCHANGED <<view, showAll, back, current, left, user, changed, save, stage>>

ToggleBrowsed ==
    /\ stage = "open" /\ view = "split" /\ browsed \in Menus(left)
    /\ current' = browsed
    /\ IF browsed \in Syms
       THEN LET u == Toggled(user, browsed)
                r == UpdateTree(World(u, showAll), browsed, right, dirty \cup Moved(user, u))
            IN  /\ Store(u) /\ DisplayList(u, view)
                /\ Display(u, view, showAll, browsed, r.dirty \ Met(view, Root, "left"))
       ELSE /\ Display(user, view, showAll, browsed, dirty)
            /\ UNCHANGED <<left, user, changed, save>>
    /\ UNCHANGED <<view, showAll, back, browsed, stage>>

-----------------------------------------------------------------------------
(* The tool bar and the menus of the window.                               *)

Single ==
    /\ stage = "open" /\ view' = "single" /\ current' = Root
    /\ Display(user, "single", showAll, Root, dirty)
    /\ UNCHANGED <<showAll, back, browsed, left, user, changed, save, stage>>

Split ==
    /\ stage = "open" /\ view' = "split" /\ current' = Root /\ back' = FALSE
    /\ right' = <<>> /\ since' = {"empty"}
    /\ DisplayList(user, "split") /\ dirty' = dirty \ Met("split", Root, "left")
    /\ UNCHANGED <<showAll, browsed, user, changed, save, stage>>

Full ==
    /\ stage = "open" /\ view' = "full" /\ current' = Root /\ back' = FALSE
    /\ Display(user, "full", showAll, Root, dirty)
    /\ UNCHANGED <<showAll, browsed, left, user, changed, save, stage>>

(* on_show_all_options1_activate: from the root in every view. *)
ShowAll ==
    /\ stage = "open" /\ showAll' = ~showAll /\ current' = Root
    /\ right' = DisplayTree(World(user, ~showAll), view, Root, "right")
    /\ dirty' = dirty \ Met(view, Root, "right")
    /\ since' = IF view = "split" THEN {"other"} ELSE {}
    /\ UNCHANGED <<view, back, browsed, left, user, changed, save, stage>>

ShowDebug ==
    /\ stage = "open" /\ UpdateFromRoot(user)
    /\ UNCHANGED <<view, showAll, back, browsed, user, changed, save, stage>>

(* load_filename: tree2 is not cleared.  The file may lack symbols, which  *)
(* counts as a change.                                                     *)
Load(p) ==
    /\ stage = "open" /\ "loaded" \notin since
    /\ user' = Read(p) /\ current' = Root
    /\ right' = right \o DisplayTree(World(user', showAll), view, Root, "right")
    /\ dirty' = (dirty \cup Moved(user, user')) \ Met(view, Root, "right")
    /\ since' = since \cup {"loaded"}
    /\ \E c \in BOOLEAN : Count(c)
    /\ UNCHANGED <<view, showAll, back, browsed, left, stage>>

(* A file that cannot be read: the change count is gone. *)
LoadFails ==
    /\ stage = "open" /\ Count(FALSE)
    /\ UNCHANGED <<where, rows, dirty, user, stage, since>>

(* conf_write calculates all values again if nothing changed, and runs     *)
(* into a string that holds none.                                          *)
Written == IF changed THEN user ELSE Recalculated(user)

Writes(then) ==
    IF \E s \in Strings : PromptOn(user, s) /\ Written.live[s] = NoString THEN Crash
    ELSE /\ user' = Written /\ dirty' = dirty \cup Moved(user, Written)
         /\ Count(FALSE) /\ stage' = then
         /\ UNCHANGED <<where, rows, since>>

(* on_save_activate and store_filename.  Nothing happens where conf_write  *)
(* fails.                                                                  *)
Save == stage = "open" /\ save /\ Writes("open")

SaveAs == stage = "open" /\ Writes("open")

(* on_window1_delete_event; on_quit1_activate asks the same. *)
Quit ==
    /\ stage = "open" /\ stage' = IF changed THEN "asking" ELSE "closed"
    /\ UNCHANGED <<where, rows, dirty, user, changed, save, since>>

AnswerYes == stage = "asking" /\ Writes("closed")

(* No, and Yes where conf_write fails. *)
AnswerNo ==
    /\ stage = "asking" /\ stage' = "closed"
    /\ UNCHANGED <<where, rows, dirty, user, changed, save, since>>

Cancel ==
    /\ stage = "asking" /\ stage' = "open"
    /\ UNCHANGED <<where, rows, dirty, user, changed, save, since>>

OnRow ==
    \/ \E e \in Range(Entry) : Toggle(e) \/ GoDown(e) \/ Browse(e)
    \/ \E e \in Range(Entry), yes \in BOOLEAN : Change(e, yes)
    \/ \E s \in Strings, t \in Texts : Edit(s, t)
    \/ ToggleBrowsed

OnWindow ==
    \/ Back \/ Single \/ Split \/ Full \/ ShowAll \/ ShowDebug
    \/ (\E p \in Presets : Load(p)) \/ LoadFails \/ Save \/ SaveAs
    \/ Quit \/ AnswerYes \/ AnswerNo \/ Cancel

(* The callbacks run to their end one after the other in gtk_main. *)
Next ==
    /\ calls < MaxCalls /\ calls' = calls + 1
    /\ OnRow \/ OnWindow

Spec == Init /\ [][Next]_vars

-----------------------------------------------------------------------------
(* The row as it is compared: update_tree does not bring the colour of an  *)
(* entry without a symbol up to date.                                      *)
Looks(n) == IF n.menu \in Syms THEN n.cell ELSE [n.cell EXCEPT !.gray = FALSE]

RECURSIVE Same(_, _)
Same(rs, ts) ==
    /\ Len(rs) = Len(ts)
    /\ \A i \in DOMAIN rs : /\ rs[i].menu = ts[i].menu /\ Looks(rs[i]) = Looks(ts[i])
                            /\ Same(rs[i].kids, ts[i].kids)

(* In the split view display_tree leaves the menus of the left tree out of *)
(* the right one, and update_tree does not.                                *)
OwnRows(rs) == IF view # "split" THEN rs ELSE SelectSeq(rs, LAMBDA n : n.menu \notin MenuRoot)

(* After any sequence of changes, in each view, the rows are those that    *)
(* displaying the same menu anew would give: the visible entries and no    *)
(* other, in order, below the right one, each with the value its symbol    *)
(* has.  Not so after a file was loaded into rows that stay, after an      *)
(* update from the root in a view that does not show it, and where         *)
(* update_tree returned with entries to add.                               *)
TreeShown ==
    stage # "crashed" /\ since = {} =>
        LET m == CASE view = "full" -> Root [] view = "single" -> current [] OTHER -> browsed
        IN  Same(OwnRows(right), DisplayTree(World(user, showAll), view, m, "right"))
=============================================================================
