------------------------------- MODULE Session -------------------------------
(***************************************************************************)
(* What the configuration programs do with the values: read .config, let   *)
(* the developer set symbols, write .config.                               *)
(*                                                                         *)
(* "ask" is conf -o (make oldconfig), which asks for each symbol that has  *)
(* no value until there is none left; "edit" is mconf (make menuconfig).   *)
(* conf -d (make defconfig) and conf -y and -n (make allyesconfig,         *)
(* allnopackageconfig and so on) talk to nobody and are one step each.     *)
(* How a file is replaced and what may go wrong with it is in ConfFiles;   *)
(* conf -r is in Randconfig.                                               *)
(***************************************************************************)
EXTENDS SymCalc

CONSTANT
    NoFile          \* .config does not exist

VARIABLES
    prog,       \* the program that runs: "none", "ask", "edit"
    user,       \* what is set, see Menu
    on,         \* the symbols and choices whose value is yes
    has,        \* members and choices that carry SYMBOL_DEF_USER
    marked,     \* members that carry SYMBOL_WRITE
    changed,    \* conf_get_changed()
    file,       \* .config: a line for each symbol, or none
    saved       \* history: the values when .config was written, or Foreign

vars == <<prog, user, on, has, marked, changed, file, saved>>

Line == {"absent", "n", "y"}

File == [Sym -> Line]

ASSUME FileAssumption == NoFile \notin File

(* .config was not written by these programs from this menu. *)
Foreign == {None}

HasValue(s) == IF s \in Plain THEN user.def[s] # "new" ELSE s \in has

ChangeableVisible(s, v) == Visible(s, v)

Changeable(s, v) == Visible(s, v) /\ (s \in Plain => ~Selected(s, v))

OnOff(b) == IF b THEN "y" ELSE "n"

(* Everything a program holds is gone when it ends. *)
Exit ==
    /\ prog' = "none"
    /\ user' = NoUser
    /\ on' = {}
    /\ has' = {}
    /\ marked' = {}
    /\ changed' = FALSE

Init ==
    /\ prog = "none"
    /\ user = NoUser
    /\ on = {}
    /\ has = {}
    /\ marked = {}
    /\ changed = FALSE
    /\ file \in File \cup {NoFile}
    /\ saved = Foreign

-----------------------------------------------------------------------------
(* Reading: conf_read_simple, then what conf_read makes of it. *)

ReadSettingsLast(f) ==
    {[def |-> [s \in Plain |-> IF f[s] = "absent" THEN "new" ELSE f[s]],
      val |-> g] :
        g \in {h \in Vals : \A c \in Choice :
                  LET set == {m \in In(c) : f[m] # "absent"}
                  IN  h[c] \in IF set = {} THEN {None} ELSE set}}

(* What the lines of f set.  Of several members of a choice that are set   *)
(* the last one counts, whichever that is.                                 *)
ReadSettings(f) ==
    {[def |-> [s \in Plain |-> IF f[s] = "absent" THEN "new" ELSE f[s]],
      val |-> g] :
        g \in {h \in Vals : \A c \in Choice :
                  LET set == {m \in In(c) : f[m] = "y"}
                  IN  h[c] \in IF set = {} THEN {None} ELSE set}}

UnsavedLines(f, v, mark) ==
    \E s \in Sym : f[s] # "absent" /\ (s \in Written(v) \cup mark => f[s] # OnOff(s \in v))

(* conf_unsaved: a symbol has no line but would be written, or a line but  *)
(* would not be, or the line says something else than its value.           *)
Unsaved(f, v, mark) ==
    \E s \in Sym : f[s] # (IF s \in Written(v) \cup mark THEN OnOff(s \in v)
                                                         ELSE "absent")

(* What is invisible loses its value, so that it is new when it appears,   *)
(* unless the file and the menu disagree.                                  *)
ReadUser(u, v, unsaved) ==
    [u EXCEPT !.def = [s \in Plain |->
        IF Visible(s, v) \/ unsaved THEN u.def[s] ELSE "new"]]

ReadHasOn(f, v, unsaved) ==
    {m \in Member : f[m] = "y"}
        \cup {c \in Choice :
                 /\ \A m \in In(c) : Visible(m, v) => f[m] = "y"
                 /\ Visible(c, v) \/ unsaved}

(* A choice has a value if all of its visible members have one. *)
ReadHas(f, v, unsaved) ==
    {m \in Member : f[m] # "absent"}
        \cup {c \in Choice :
                 /\ \A m \in In(c) : Visible(m, v) => f[m] # "absent"
                 /\ Visible(c, v) \/ unsaved}

Read ==
    \E u \in ReadSettings(file) :
        LET v == ValueOf(u)
            mark == marked \cup ChoiceWritten(v)
            unsaved == Unsaved(file, v, mark)
        IN  /\ user' = ReadUser(u, v, unsaved)
            /\ on' = v
            /\ has' = ReadHas(file, v, unsaved)
            /\ marked' = mark
            /\ changed' = (unsaved \/ prog # "none")

Start(p) ==
    /\ prog = "none"
    /\ file # NoFile
    /\ prog' = p
    /\ UNCHANGED <<file, saved>>
    /\ Read

(* Without a file nothing is set. *)
StartNew(p) ==
    /\ prog = "none"
    /\ file = NoFile
    /\ prog' = p
    /\ on' = ValueOf(NoUser)
    /\ changed' = TRUE
    /\ UNCHANGED <<user, has, marked, file, saved>>

-----------------------------------------------------------------------------
(* Setting a value: sym_set_tristate_value.  A change of value makes all   *)
(* values be calculated again.  That happens when they are asked for, so   *)
(* some choices mark their members before the next change and some do not. *)

RecalculateLater(anew) ==
    /\ changed' = (changed \/ anew)
    /\ on' = on
    /\ marked' = marked

Recalculate(anew) ==
    /\ changed' = (changed \/ anew)
    /\ on' = IF anew THEN ValueOf(user') ELSE on
    /\ IF anew
       THEN \E C \in SUBSET Choice :
                marked' = marked
                    \cup UNION {In(c) : c \in {d \in C : Visible(d, on')}}
       ELSE marked' = marked

SetPlain(s, val) ==
    /\ val = OnOff(s \in on) \/ Changeable(s, on)
    /\ UNCHANGED <<prog, has, file, saved>>
    /\ user' = [user EXCEPT !.def[s] = val]
    /\ Recalculate(val # OnOff(s \in on))

SetMemberOnly(m) ==
    LET c == ChoiceOf(m) IN
    /\ Visible(m, on)
    /\ UNCHANGED <<prog, file, saved>>
    /\ user' = [user EXCEPT !.val[c] = m]
    /\ has' = has \cup {n \in In(c) : Visible(n, on)}
    /\ Recalculate(m \notin on)

(* Setting a member to yes also gives its choice and all other visible     *)
(* members a value.                                                        *)
SetMember(m) ==
    LET c == ChoiceOf(m) IN
    /\ Visible(m, on)
    /\ UNCHANGED <<prog, file, saved>>
    /\ user' = [user EXCEPT !.val[c] = m]
    /\ has' = has \cup {c} \cup {n \in In(c) : Visible(n, on)}
    /\ Recalculate(m \notin on)

-----------------------------------------------------------------------------
(* Writing: conf_write. *)

WriteFileShown(v, mark) ==
    /\ file' = [s \in Sym |-> IF s \in Written(v) \cup mark /\ (s \in Plain => Visible(s, v))
                              THEN OnOff(s \in v) ELSE "absent"]
    /\ saved' = v

WriteFile(v, mark) ==
    /\ file' = [s \in Sym |-> IF s \in Written(v) \cup mark
                              THEN OnOff(s \in v) ELSE "absent"]
    /\ saved' = v

(* mconf saves and goes on.  Each line that is written takes the mark off. *)
Save ==
    /\ prog = "edit"
    /\ WriteFile(on, marked)
    /\ marked' = {}
    /\ changed' = FALSE
    /\ UNCHANGED <<prog, user, on, has>>

-----------------------------------------------------------------------------
(* mconf *)

(* An item is shown if its prompt is visible, or if it is on and something *)
(* below it in the menu is visible.                                        *)
Shown(s) == Visible(s, on) \/ (Prompt[s] # {} /\ s \in on)

Toggle(s, val) == prog = "edit" /\ Shown(s) /\ SetPlain(s, val)

PickMember(m) == prog = "edit" /\ SetMember(m)

(* The keys y and space on a choice give it a value, the one it has. *)
TouchChoice(c) ==
    /\ prog = "edit"
    /\ c \in on
    /\ has' = has \cup {c}
    /\ UNCHANGED <<prog, user, on, marked, changed, file, saved>>

(* mconf reads .config once more, "Load an Alternate Configuration File";  *)
(* it then counts as changed.                                              *)
Load ==
    /\ prog = "edit"
    /\ file # NoFile
    /\ Read
    /\ UNCHANGED <<prog, file, saved>>

Leave ==
    /\ prog = "edit"
    /\ Exit
    /\ UNCHANGED <<file, saved>>

-----------------------------------------------------------------------------
(* conf *)

(* What check_conf stops at: what could be set and has no value. *)
Pending(v) ==
    {s \in Sym : Changeable(s, v) /\ ~HasValue(s)} \cup {c \in Choice \cap v : ~HasValue(c)}

Answer(s, val) ==
    /\ prog = "ask"
    /\ s \in Pending(on)
    /\ SetPlain(s, val)

(* A new choice is asked for, unless only one of its members is visible. *)
AnswerChoice(c, m) ==
    /\ prog = "ask"
    /\ c \in Pending(on)
    /\ m \in In(c)
    /\ SetMember(m)

(* Wherever conf starts to ask it goes through the whole menu, and sets a  *)
(* choice that is not new to the member it has.                            *)
Walk(c) ==
    /\ prog = "ask"
    /\ Pending(on) # {}
    /\ c \in on \cap has
    /\ SetMember(Picked(c, on, user))

(* Nothing is left to ask: write and end. *)
Finish ==
    /\ prog = "ask"
    /\ Pending(on) = {}
    /\ WriteFile(on, marked)
    /\ Exit

Abort ==
    /\ prog = "ask"
    /\ Exit
    /\ UNCHANGED <<file, saved>>

(* conf -d: .defconfig may set anything; the rest has its default. *)
Defconfig ==
    /\ prog = "none"
    /\ \E e \in Solutions : WriteFile(e[2], {})
    /\ UNCHANGED <<prog, user, on, has, marked, changed>>

(* The lines of .config that are left when those of some symbols are not.  *)
Part(S) ==
    [s \in Sym |-> IF file # NoFile /\ s \in S THEN file[s] ELSE "absent"]

(* conf -y and -n: a file with some of the lines of .config or without any *)
(* says what to start from.                                                *)
AllNew(val) ==
    /\ prog = "none"
    /\ \E S \in SUBSET Sym : \E u \in ReadSettings(Part(S)) :
           WriteFile(ValueOf([u EXCEPT !.def = [s \in Plain |->
                         IF u.def[s] = "new" THEN val ELSE u.def[s]]]), {})
    /\ UNCHANGED <<prog, user, on, has, marked, changed>>

-----------------------------------------------------------------------------
AskStep ==
    \/ \E s \in Plain, val \in {"n", "y"} : Answer(s, val)
    \/ \E c \in Choice, m \in Member : AnswerChoice(c, m)
    \/ \E c \in Choice : Walk(c)
    \/ Finish

EditStep ==
    \/ \E s \in Plain, val \in {"n", "y"} : Toggle(s, val)
    \/ \E m \in Member : PickMember(m)
    \/ \E c \in Choice : TouchChoice(c)
    \/ Save
    \/ Load
    \/ Leave

Next ==
    \/ \E p \in {"ask", "edit"} : Start(p) \/ StartNew(p)
    \/ Defconfig
    \/ \E val \in {"n", "y"} : AllNew(val)
    \/ AskStep
    \/ EditStep
    \/ Abort

Spec == Init /\ [][Next]_vars

(* Every question gets an answer: conf takes the end of its input for one. *)
FairSpec == Spec /\ WF_vars(AskStep)

-----------------------------------------------------------------------------
(* Properties *)

TypeOK ==
    /\ prog \in {"none", "ask", "edit"}
    /\ user \in User
    /\ on \subseteq All
    /\ has \subseteq Member \cup Choice
    /\ marked \subseteq Member
    /\ changed \in BOOLEAN
    /\ file \in File \cup {NoFile}
    /\ saved \in (SUBSET All) \cup {Foreign}
    /\ saved # Foreign => file # NoFile

(* f has the values v: a line for what is written, and no line that turns  *)
(* on what is not.                                                         *)
HasValues(f, v) ==
    /\ f # NoFile
    /\ \A s \in Sym :
           IF s \in Written(v) THEN f[s] = OnOff(s \in v)
                               ELSE f[s] \in {"absent"} \cup (IF s \in Member THEN {"n"} ELSE {})

(* No value is stale: where a program does not calculate the values again, *)
(* they are still those that its settings give.                            *)
Fresh == prog # "none" => Consistent(on, user)

(* mconf leaves without asking whether to save when conf_get_changed() is  *)
(* 0.  The file then has the values the developer sees, whatever was set   *)
(* and set back, whatever file was read.                                   *)
InSync == prog # "none" /\ ~changed => HasValues(file, on)

(* Of each choice that is on, a written file sets one member and no more;  *)
(* of the others none.                                                     *)
OneSet ==
    saved # Foreign =>
        \A c \in Choice : Cardinality({m \in In(c) : file[m] = "y"})
                              = (IF c \in saved THEN 1 ELSE 0)

(* A program that reads what a program wrote has the same values, though   *)
(* the file says nothing of what the user set and what was a default.      *)
RoundTrip ==
    [][\A p \in {"ask", "edit"} :
           Start(p) /\ saved # Foreign => on' = saved]_vars

(* The file has no line of a member whose choice was invisible: conf_write *)
(* writes such lines for members marked before.                            *)
Clean == \A m \in Member : file[m] # "absent" => m \in Written(saved)

(* A program that reads such a file finds nothing to save, so that what is *)
(* invisible is new when it appears.                                       *)
QuietRead ==
    [][\A p \in {"ask", "edit"} :
           Start(p) /\ saved # Foreign /\ Clean => ~changed']_vars

(* "make oldconfig" after any program has written .config asks nothing.    *)
NothingAsked == [][Start("ask") /\ saved # Foreign => Pending(on)' = {}]_vars

(* A value that is accepted is the value the symbol then has, whatever     *)
(* else changes with it.                                                   *)
Effective ==
    [][/\ \A s \in Plain, val \in {"n", "y"} :
              SetPlain(s, val) => OnOff(s \in on') = val
       /\ \A m \in Member : SetMember(m) => m \in on']_vars

(* Whatever symbol is asked for first, and whatever values the symbols had *)
(* before, sym_calc_value gives all symbols the values Menu describes, and *)
(* SYMBOL_WRITE to those of which .config gets a line: for all that can be *)
(* set in menuconfig without a .config.                                    *)
CalcAgrees ==
    prog = "edit" /\ file = NoFile =>
        \A s \in All, before \in {{}, All} :
            LET k == [on |-> before, pick |-> NoUser.val, valid |-> {}, write |-> {}]
                t == CalcAll(All, CalcValue(s, k, user), user)
            IN  t.on = on /\ t.write = Written(on)

(* conf ends, though each answer may bring up new questions. *)
ConfEnds == prog = "ask" ~> prog = "none"
=============================================================================
