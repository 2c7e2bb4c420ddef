------------------------------ MODULE Screens -------------------------------
(***************************************************************************)
(* package/config/mconf.c (make menuconfig): the functions that call each  *)
(* other with a box of lxdialog at the end, and what they do with what the *)
(* developer picks in it.                                                  *)
(*                                                                         *)
(* "calls" is the stack of the functions that wait: conf for a menu,       *)
(* conf_choice, conf_string, conf_load, conf_save, search_conf,            *)
(* show_textbox and, in main, the question whether to save.  The last one  *)
(* opens its box (Open), keys and changes of the size of the terminal go   *)
(* to the box (Key, Resize) and with its result the function goes on       *)
(* (Return).                                                               *)
(*                                                                         *)
(* An entry of the Config.in files is here what a menu shows of it; which  *)
(* values a change of one symbol gives to the others is in Session.        *)
(***************************************************************************)
EXTENDS MenuBox, CheckList, InputBox, TextBox

CONSTANTS
    Entries,    \* the entries in the order of the files
    Kind,       \* "menu", "comment", "bool", "menuconfig", "choice", "member"
                \* or "string"
    Above,      \* Above[e]: the entries that e is below, the nearest first
    Dep,        \* Dep[e]: what e depends on
    HotKey,     \* HotKey[e]: the letter that e is found by
    Root,       \* rootmenu
    Load, Save, \* the items below the main menu
    Lengths,    \* the lengths of strings to edit
    Heights,    \* the sizes of the terminal
    HelpLines,  \* the lines of a long text
    MaxMoves    \* how often the size changes while a box is open

Entry == {Entries[i] : i \in DOMAIN Entries}

ASSUME EntryAssumption ==
    /\ Entries \in Seq(Entry)
    /\ \A e \in Entry : Above[e] # <<>> /\ Above[e][Len(Above[e])] = Root
    /\ \A e \in Entry : Dep[e] \subseteq Entry /\ \A d \in Dep[e] : Dep[d] = {}
    /\ \A e \in Entry : Above[e][1] # Root =>
           /\ Dep[Above[e][1]] \subseteq Dep[e]
           /\ Kind[Above[e][1]] = "bool" => Above[e][1] \in Dep[e]
    /\ Entry \cap {Root, Load, Save, Null} = {}

ASSUME SizeAssumption ==
    Lengths \subseteq Nat /\ Heights \subseteq Nat /\ HelpLines \in Nat \ {0}

VARIABLES
    phase,      \* "run", "ended" or "crashed"
    calls,      \* the functions that wait, the last one called last
    box,        \* the box that is open
    lines,      \* the lines of the terminal
    single,     \* single_menu_mode
    unfolded,   \* the menus whose data is set
    on,         \* the Boolean symbols that the developer set to yes
    pick,       \* pick[c]: the member of the choice c that is set
    changed,    \* conf_get_changed()
    answer      \* history: how the question whether to save was answered

vars == <<phase, calls, box, lines, single, unfolded, on, pick, changed, answer>>

Set(kinds) == {e \in Entry : Kind[e] \in kinds}

Menus == Set({"menu", "menuconfig"}) \cup {Root}

Bools == Set({"bool", "menuconfig"})

MembersOf(c) == {m \in Set({"member"}) : Above[m][1] = c}

Picks == {f \in [Set({"choice"}) -> Set({"member"})] :
             \A c \in Set({"choice"}) : f[c] \in MembersOf(c)}

HasSym(e) == e \in Set({"bool", "menuconfig", "choice", "member", "string"})

(* Some of the entries, in the order of the files. *)
InOrder(those) ==
    LET upTo[n \in 0 .. Len(Entries)] ==
            IF n = 0 THEN <<>>
            ELSE IF Entries[n] \in those THEN Append(upTo[n - 1], Entries[n])
            ELSE upTo[n - 1]
    IN  upTo[Len(Entries)]

-----------------------------------------------------------------------------
(* What a menu shows: build_conf *)

IsOn(e) == e \in on /\ Dep[e] \subseteq on

IsVisible(e) == e = Root \/ \A d \in Dep[e] : IsOn(d)

(* sym_calc_choice: the member that is set, else the first one that is     *)
(* visible, as no choice here has a default; without one it is off.        *)
Value(c) ==
    LET seen == InOrder({m \in MembersOf(c) : IsVisible(m)})
    IN  IF IsVisible(pick[c]) THEN pick[c]
        ELSE IF seen = <<>> THEN Null ELSE seen[1]

(* The items of these are followed by those of what is below them. *)
Transparent(e) ==
    \/ Kind[e] \in {"comment", "bool", "string"}
    \/ Kind[e] = "choice" /\ Value(e) = Null
    \/ Kind[e] = "menu" /\ single /\ e \in unfolded

Between(e, menu) ==
    {Above[e][i] : i \in {j \in DOMAIN Above[e] : \A k \in 1 .. j : Above[e][k] # menu}}

InMenu(e, menu) ==
    /\ menu \in {Above[e][i] : i \in DOMAIN Above[e]}
    /\ \A a \in Between(e, menu) : IsVisible(a) /\ Transparent(a)

Tag == [menu |-> "m", comment |-> ":", bool |-> "t", menuconfig |-> "t",
        choice |-> "t", member |-> ":", string |-> "s"]

EntryItem(e) == Item(e, Tag[Kind[e]], HotKey[e])

(* A menu that is a symbol shows itself in the first row. *)
Title(menu) ==
    IF menu # Root /\ HasSym(menu) THEN <<Item(menu, ":", HotKey[menu])>> ELSE <<>>

Build(menu) ==
    LET mine == InOrder({e \in Entry : IsVisible(e) /\ InMenu(e, menu)})
    IN  IF ~IsVisible(menu) THEN <<>>
        ELSE Title(menu) \o [i \in DOMAIN mine |-> EntryItem(mine[i])]

(* Below the main menu: a line and two items without data. *)
RootItems ==
    <<Item(Null, ":", Null), Item(Null, Load, "l"), Item(Null, Save, "s")>>

Items(menu) == Build(menu) \o (IF menu = Root THEN RootItems ELSE <<>>)

(* conf_choice: the member that the choice has has the X. *)
ChoiceItem(c, e) ==
    Item(e, IF e = Value(c) THEN "X" ELSE IF Kind[e] = "comment" THEN ":" ELSE "o",
         HotKey[e])

ChoiceItems(c) ==
    LET mine == InOrder({e \in Entry : IsVisible(e) /\ Above[e][1] = c})
    IN  [i \in DOMAIN mine |-> ChoiceItem(c, mine[i])]

-----------------------------------------------------------------------------
(* The functions that wait *)

Conf(menu) == [fn |-> "conf", menu |-> menu, active |-> Null, scroll |-> 0]

ConfChoice(c) == [fn |-> "choice", menu |-> c, active |-> Value(c)]

Ask(fn, menu) == [fn |-> fn, menu |-> menu]

(* show_textbox with a help, which is long and ends with a newline, and    *)
(* with a message, which is one line without one in a small box.           *)
Help == [fn |-> "text", length |-> HelpLines, ended |-> TRUE, height |-> 0]

Message == [fn |-> "text", length |-> 1, ended |-> FALSE, height |-> 5]

Top == calls[Len(calls)]

Below == SubSeq(calls, 1, Len(calls) - 1)

Call(f) == calls' = Append(calls, f)

(* init_dialog *)
LargeEnough(l) == l >= 19

Init ==
    /\ phase = "run"
    /\ calls = <<Conf(Root)>>
    /\ box = Closed
    /\ lines \in {l \in Heights : LargeEnough(l)}
    /\ single \in BOOLEAN
    /\ unfolded = {}
    /\ on \in SUBSET Bools
    /\ pick \in Picks
    /\ changed \in BOOLEAN
    /\ answer = "none"

Values == <<single, unfolded, on, pick, changed>>

Opened(f) ==
    CASE f.fn = "conf" -> {MenuOpen(Items(f.menu), f.active, f.scroll, lines)}
      [] f.fn = "choice" -> {CheckOpen(ChoiceItems(f.menu), f.active, lines)}
      [] f.fn = "string" -> {InputOpen(10, n, lines) : n \in Lengths}
      [] f.fn = "search" -> {InputOpen(10, 0, lines)}
      [] f.fn \in {"load", "save"} -> {InputOpen(11, n, lines) : n \in Lengths \ {0}}
      [] f.fn = "text" -> {TextOpen(f.length, f.ended, f.height, lines)}
      [] f.fn = "yesno" -> {YesNo(lines)}

Crashed(b) == b.ret = "crash"

Put(b) ==
    /\ box' = b
    /\ phase' = IF Crashed(b) THEN "crashed" ELSE phase

Open ==
    /\ phase = "run"
    /\ box = Closed
    /\ \E b \in Opened(Top) : Put(b)
    /\ UNCHANGED <<calls, lines, answer>> /\ UNCHANGED Values

Waiting == phase = "run" /\ box.ret = "open"

Pressed(b, key) ==
    CASE b.kind = "menu" -> MenuKey(b, key)
      [] b.kind = "check" -> CheckKey(b, key)
      [] b.kind = "input" -> InputKey(b, key)
      [] b.kind = "text" -> TextKey(b, key)
      [] b.kind = "yesno" -> YesNoKey(b, key)

Key(key) ==
    /\ Waiting
    /\ Put(Pressed(box, key))
    /\ UNCHANGED <<calls, lines, answer>> /\ UNCHANGED Values

Resized(b, l) ==
    CASE b.kind = "menu" -> MenuLayout(b, l)
      [] b.kind = "check" -> CheckLayout(b, l)
      [] b.kind = "input" -> InputLayout(b, l)
      [] b.kind = "text" -> TextMoved(b, l)
      [] b.kind = "yesno" -> YesNoLayout(b, l)

Resize(l) ==
    /\ Waiting
    /\ box.moved < MaxMoves
    /\ l # lines
    /\ lines' = l
    /\ Put(Resized([box EXCEPT !.moved = @ + 1], l))
    /\ UNCHANGED <<calls, answer>> /\ UNCHANGED Values

-----------------------------------------------------------------------------
(* What the functions do with the result *)

Result(fn, rets) ==
    /\ phase = "run"
    /\ box # Closed
    /\ Top.fn = fn
    /\ box.ret \in rets
    /\ box' = Closed

Leave == calls' = Below /\ phase' = phase

Stay == calls' = calls /\ phase' = phase

Enter(f) == Call(f) /\ phase' = phase

Kept == UNCHANGED <<lines, answer>>

(* conf returns for the results Exit and ESC and when the terminal is too  *)
(* small.  After that of the main menu main asks whether to save.          *)
ConfBack ==
    /\ Result("conf", {"exit", "esc", "small"})
    /\ IF Len(calls) > 1 THEN Leave
       ELSE IF changed THEN calls' = <<Ask("yesno", Null)>> /\ phase' = phase
       ELSE calls' = <<>> /\ phase' = "ended"
    /\ Kept /\ UNCHANGED Values

(* Otherwise it remembers the entry and the scroll for the next time. *)
ConfWith(rets) ==
    /\ Result("conf", rets)
    /\ box.items # <<>>
    /\ Kept

Entered == Taken(box).data

Remembered ==
    Append(Below, [Top EXCEPT !.active = Entered, !.scroll = box.saved])

ConfCall(f) == calls' = Append(Remembered, f) /\ phase' = phase

ConfGoesOn == calls' = Remembered /\ phase' = phase

(* There is no item to take: it shows the menu anew. *)
ConfNothing ==
    /\ Result("conf", {"select", "help", "yes", "no", "mod", "toggle", "search"})
    /\ box.items = <<>>
    /\ calls' = Append(Below, [Top EXCEPT !.scroll = box.saved])
    /\ phase' = phase
    /\ Kept /\ UNCHANGED Values

ConfSelect ==
    /\ ConfWith({"select"})
    /\ LET tag == Taken(box).tag IN
       CASE tag = "m" /\ ~single -> ConfCall(Conf(Entered)) /\ unfolded' = unfolded
         [] tag = "m" /\ single ->
                /\ ConfGoesOn
                /\ unfolded' = (unfolded \ {Entered}) \cup ({Entered} \ unfolded)
         [] tag = "t" /\ Kind[Entered] = "choice" /\ Value(Entered) # Null ->
                ConfCall(ConfChoice(Entered)) /\ unfolded' = unfolded
         [] tag = "t" /\ Kind[Entered] = "menuconfig" ->
                ConfCall(Conf(Entered)) /\ unfolded' = unfolded
         [] tag = "s" -> ConfCall(Ask("string", Entered)) /\ unfolded' = unfolded
         [] tag = Load -> ConfCall(Ask("load", Null)) /\ unfolded' = unfolded
         [] tag = Save -> ConfCall(Ask("save", Null)) /\ unfolded' = unfolded
         [] OTHER -> ConfGoesOn /\ unfolded' = unfolded
    /\ UNCHANGED <<single, on, pick, changed>>

(* The help of the entry, or for an entry without a symbol the README. *)
ConfHelp ==
    /\ ConfWith({"help"})
    /\ ConfCall(Help)
    /\ UNCHANGED Values

(* sym_set_tristate_value: m is no value of a Boolean symbol. *)
SetSym(val) ==
    IF Entered \in Bools /\ Taken(box).tag = "t"
    THEN /\ on' = IF val THEN on \cup {Entered} ELSE on \ {Entered}
         /\ changed' = (changed \/ val # IsOn(Entered))
    ELSE UNCHANGED <<on, changed>>

ConfSet ==
    /\ ConfWith({"yes", "no", "mod"})
    /\ ConfGoesOn
    /\ IF box.ret = "mod" THEN UNCHANGED <<on, changed>> ELSE SetSym(box.ret = "yes")
    /\ UNCHANGED <<single, unfolded, pick>>

(* The space bar: the other value of a symbol; a menu it opens. *)
ConfToggle ==
    /\ ConfWith({"toggle"})
    /\ IF Taken(box).tag = "m" THEN ConfCall(Conf(Entered)) ELSE ConfGoesOn
    /\ SetSym(~IsOn(Entered))
    /\ UNCHANGED <<single, unfolded, pick>>

ConfSearch ==
    /\ ConfWith({"search"})
    /\ ConfCall(Ask("search", Null))
    /\ UNCHANGED Values

(* A comment cannot be chosen; without an item conf_choice returns. *)
ChoiceSelect ==
    /\ Result("choice", {"select"})
    /\ LET child == Taken(box).data IN
       IF box.items = <<>> THEN Leave /\ UNCHANGED Values
       ELSE IF Kind[child] = "comment" THEN Stay /\ UNCHANGED Values
       ELSE /\ Leave
            /\ pick' = [pick EXCEPT ![Top.menu] = child]
            /\ changed' = (changed \/ child # Value(Top.menu))
            /\ UNCHANGED <<single, unfolded, on>>
    /\ Kept

(* show_help needs the symbol that a comment has not; without an item the  *)
(* help is that of the choice.                                             *)
ChoiceHelp ==
    /\ Result("choice", {"help"})
    /\ LET child == Taken(box).data IN
       IF box.items = <<>> THEN Enter(Help) ELSE
       /\ phase' = IF HasSym(child) THEN phase ELSE "crashed"
       /\ calls' = Append(Append(Below, [Top EXCEPT !.active = child]), Help)
    /\ Kept /\ UNCHANGED Values

(* The functions that return on ESC; those with an input box open it again *)
(* when the terminal is too small for it.                                  *)
Back ==
    /\ \/ Result("choice", {"esc", "small"})
       \/ Result("search", {"esc", "small"})
       \/ Result("text", {"exit", "small"})
       \/ Result("string", {"esc"})
       \/ Result("load", {"esc"})
       \/ Result("save", {"esc"})
    /\ Leave
    /\ Kept /\ UNCHANGED Values

Again ==
    /\ \/ Result("string", {"small"})
       \/ Result("load", {"small"})
       \/ Result("save", {"small"})
    /\ Stay
    /\ Kept /\ UNCHANGED Values

InputHelp ==
    /\ \/ Result("string", {"help"})
       \/ Result("load", {"help"})
       \/ Result("save", {"help"})
       \/ Result("search", {"help"})
    /\ Enter(Help)
    /\ Kept /\ UNCHANGED Values

(* sym_set_string_value takes the text or not.  *)
StringOk ==
    /\ Result("string", {"ok"})
    /\ \/ Leave /\ changed' \in {TRUE} \cup (IF box.len = box.was THEN {changed} ELSE {})
       \/ Enter(Message) /\ changed' = changed
    /\ Kept /\ UNCHANGED <<single, unfolded, on, pick>>

(* conf_read sets anything, and the values count as changed. *)
LoadOk ==
    /\ Result("load", {"ok"})
    /\ \/ box.len = 0 /\ Leave /\ UNCHANGED Values
       \/ /\ box.len > 0 /\ Leave
          /\ on' \in SUBSET Bools
          /\ pick' \in Picks
          /\ changed' = TRUE
          /\ UNCHANGED <<single, unfolded>>
       \/ box.len > 0 /\ Enter(Message) /\ UNCHANGED Values
    /\ Kept

SaveOk ==
    /\ Result("save", {"ok"})
    /\ \/ box.len = 0 /\ Leave /\ changed' = changed
       \/ box.len > 0 /\ Leave /\ changed' = FALSE
       \/ box.len > 0 /\ Enter(Message) /\ changed' = changed
    /\ Kept /\ UNCHANGED <<single, unfolded, on, pick>>

(* The matches are a long text. *)
SearchOk ==
    /\ Result("search", {"ok"})
    /\ calls' = Append(Below, Help) /\ phase' = phase
    /\ Kept /\ UNCHANGED Values

(* Without the loop in main. *)
AskedOnce ==
    /\ Result("yesno", {"esc"})
    /\ calls' = <<>> /\ phase' = "ended" /\ answer' = "esc"
    /\ UNCHANGED lines /\ UNCHANGED Values

(* main: ESC goes back to the main menu. *)
AskedBack ==
    /\ Result("yesno", {"esc"})
    /\ calls' = <<Conf(Root)>> /\ phase' = phase
    /\ Kept /\ UNCHANGED Values

(* Yes writes the file, which may fail; anything else does not. *)
Asked ==
    /\ Result("yesno", {"yes", "no", "small"})
    /\ calls' = <<>> /\ phase' = "ended"
    /\ \/ box.ret = "yes" /\ answer' = "saved" /\ changed' = FALSE
       \/ box.ret = "yes" /\ answer' = "failed" /\ changed' = changed
       \/ box.ret # "yes" /\ answer' = box.ret /\ changed' = changed
    /\ UNCHANGED <<lines, single, unfolded, on, pick>>

Return ==
    \/ ConfBack \/ ConfNothing \/ ConfSelect \/ ConfHelp \/ ConfSet
    \/ ConfToggle \/ ConfSearch
    \/ ChoiceSelect \/ ChoiceHelp
    \/ Back \/ Again \/ InputHelp
    \/ StringOk \/ LoadOk \/ SaveOk \/ SearchOk
    \/ AskedBack \/ Asked

Next ==
    \/ Open
    \/ \E key \in Keys : Key(key)
    \/ \E l \in Heights : Resize(l)
    \/ Return

Spec == Init /\ [][Next]_vars

-----------------------------------------------------------------------------
(* Properties *)

ListTrue(b) ==
    /\ b.shown = Page(b.scroll, b.max, b.choice)
    /\ b.up = (b.scroll > 0)
    /\ b.down = (b.scroll + b.max < Len(b.items))
    /\ b.drawn = b.button

FieldTrue(b) ==
    /\ b.shown = Window(b.len, b.scroll, FieldWidth)
    /\ b.scroll + b.x = b.len
    /\ b.drawn = Max({b.button, 0})

(* Going back by the lines counted leads to the first line shown. *)
TextTrue(b) ==
    LET first == BackLines(b, b.count)
    IN  /\ b.shown = [i \in 1 .. b.rows |-> LineAt(b, first.page + i - 1)]
        /\ b.begin = (first.page = 0)

(* The terminal shows what the keys will act on: the rows, the highlight   *)
(* and the arrows are those of the list, the field shows the text with the *)
(* cursor at its end, the page is where back_lines finds it, and the       *)
(* button that is lit is the one that Enter takes.  Not so after a change  *)
(* of the size, and where a text ends without a newline.                   *)
ScreenTrue ==
    Waiting /\ box.moved = 0 =>
        CASE box.kind \in {"menu", "check"} -> ListTrue(box)
          [] box.kind = "input" -> FieldTrue(box)
          [] box.kind = "text" -> box.ended => TextTrue(box)
          [] box.kind = "yesno" -> box.drawn = box.button

(* What a result changes or opens is what had the highlight: a symbol, the *)
(* member of a choice, the menu or string that is entered.                 *)
ActsOnLit ==
    [][box.kind \in {"menu", "check"} /\ box.moved = 0 /\ box' = Closed =>
           LET lit == Lit(box) IN
           /\ \A b \in Bools : (b \in on) # (b \in on') => b \in lit
           /\ \A c \in DOMAIN pick : pick'[c] # pick[c] => pick'[c] \in lit
           /\ Len(calls') > Len(calls) =>
                  LET f == calls'[Len(calls')] IN
                  f.fn \in {"conf", "choice", "string"} => f.menu \in lit]_vars

(* A menu that opens again has the highlight on the entry that was acted   *)
(* on, wherever it is now and whatever came or went above it; a choice has *)
(* it on the member whose help was read.                                   *)
ComesBack ==
    [][box = Closed /\ box'.ret = "open" /\ box'.kind \in {"menu", "check"} =>
           LET there == {box'.items[i].data : i \in DOMAIN box'.items}
           IN  Top.active # Null /\ Top.active \in there => Lit(box') = {Top.active}]_vars

(* Changes are given up only by the answer No, when the file cannot be     *)
(* written and when the terminal is too small for the question.            *)
EndsAsAsked ==
    phase = "ended" /\ changed => answer \in {"no", "failed", "small"}
=============================================================================
