------------------------------- MODULE Parser -------------------------------
(***************************************************************************)
(* Reading the Config.in files: the parser (zconf.y, zconf.l), which links *)
(* entries into a tree (menu.c) as it reduces the statements.              *)
(*                                                                         *)
(* One action per statement, taken when the parser reduces it.  What the   *)
(* files say is chosen as it is read.  Statements the grammar refuses are  *)
(* left out; those the actions of the grammar refuse lead to "rejected".   *)
(* What conf_parse does with the tree at the end of the input is the       *)
(* business of ConfigIn, and a parameter here.                             *)
(***************************************************************************)
EXTENDS ExprSyntax, Integers, FiniteSets, SequencesExt

CONSTANTS
    ChoiceSym,      \* the nameless symbols of choices, in the order they are made
    Files,          \* the files; the first one is given to conf_parse
    Top,            \* the file given to conf_parse
    Conditions,     \* the expressions of if and depends on
    Options,        \* the prompt, default and select lines, [kind |->, val |->, vis |->]
    MaxStatements,  \* statements and options in them
    Finalized(_),   \* the tree that menu_finalize makes of a tree
    Usable(_, _),   \* the texts considered: a tree, and what is made of it
    Circular(_)     \* sym_check_deps finds a symbol that depends on itself

Config == (BoolSym \cup TriSym) \ Range(ChoiceSym)

ASSUME ParserAssumption ==
    /\ ChoiceSym \in Seq(BoolSym)
    /\ Top \in Files
    /\ MaxStatements \in Nat

Null == 0

Root == 1

VARIABLES
    stage,      \* "parsing", "accepted", "rejected" or "circular" (exit(1)), "crashed"
    busy,       \* the files being read, the innermost last (FILE_BUSY)
    scanned,    \* those that were read (FILE_SCANNED)
    tree,       \* the menu tree as it is parsed
    last,       \* last_entry_ptr: where the next entry is linked
    cur,        \* current_menu, current_entry, whether its option list is open,
                \* and whether the parser has read a token of the next statement
    nest,       \* the blocks that were begun and not ended, with their files
    crossed,    \* the kinds of blocks that were ended in another file
    final,      \* the tree menu_finalize makes of it
    read        \* the statements read, against MaxStatements

vars == <<stage, busy, scanned, tree, last, cur, nest, crossed, final, read>>

-----------------------------------------------------------------------------
(* A tree: its entries (struct menu; Root is the first), the links between *)
(* them, the properties of all symbols in the order they were added, and   *)
(* for each symbol rev_dep and the choice it is a value of.                *)

SymOf(t, m) == t.entry[m].sym

IsChoice(t, m) == t.entry[m].kind = "choice"

Entries(t) == 1..Len(t.entry)


(* menu_add_entry *)
AddEntry(t, kind, sym, file, menu, slot) ==
    LET id == Len(t.entry) + 1
        u == [t EXCEPT !.entry = Append(@, [kind |-> kind, sym |-> sym, file |-> file]),
                       !.parent = Append(@, menu), !.list = Append(@, Null),
                       !.next = Append(@, Null), !.dep = Append(@, NoExpr),
                       !.prompt = Append(@, Null)]
    IN  IF slot.in = "list" THEN [u EXCEPT !.list[slot.of] = id]
        ELSE [u EXCEPT !.next[slot.of] = id]

(* menu_add_prop *)
AddProp(t, kind, m, val, vis) ==
    LET u == [t EXCEPT !.props = Append(@, [kind |-> kind, menu |-> m,
                                            vis |-> vis, val |-> val])]
    IN  IF kind = "prompt" THEN [u EXCEPT !.prompt[m] = Len(u.props)] ELSE u

(* menu_add_dep *)
AddDep(t, m, e) == [t EXCEPT !.dep[m] = Join("and", @, e)]


-----------------------------------------------------------------------------
(* Reading                                                                 *)

NewTree ==
    [entry |-> <<[kind |-> "menu", sym |-> NoSym, file |-> Top]>>,
     parent |-> <<Null>>, list |-> <<Null>>, next |-> <<Null>>,
     dep |-> <<NoExpr>>, prompt |-> <<1>>,
     props |-> <<[kind |-> "prompt", menu |-> Root, vis |-> NoExpr, val |-> NoExpr]>>,
     rev |-> [s \in BoolSym \cup TriSym |-> NoExpr],
     choice |-> [s \in BoolSym \cup TriSym |-> NoSym]]

Init ==
    /\ stage = "parsing"
    /\ busy = <<Top>> /\ scanned = {}
    /\ tree = NewTree /\ final = NewTree
    /\ last = [of |-> Root, in |-> "list"]
    /\ cur = [menu |-> Root, entry |-> Root, open |-> FALSE, ahead |-> FALSE]
    /\ nest = <<>> /\ crossed = {} /\ read = 0

InFile == UNCHANGED <<stage, busy, scanned, crossed, final>>

Statement ==
    /\ stage = "parsing"
    /\ read < MaxStatements
    /\ read' = read + 1

NewId == Len(tree.entry) + 1

(* Where the next entry goes when m is complete. *)
Inside(m) == [of |-> m, in |-> "list"]

After(m) == [of |-> m, in |-> "next"]

InBlock == tree.entry[cur.menu].kind

(* config, menuconfig and comment: an entry of its own.  prompt says       *)
(* whether the line with the type has one.                                 *)
Entry(kind, sym, prompt) ==
    LET t == AddEntry(tree, kind, sym, Last(busy), cur.menu, last)
    IN  /\ Statement
        /\ tree' = IF prompt THEN AddProp(t, "prompt", NewId, NoExpr, NoExpr) ELSE t
        /\ last' = After(NewId)
        /\ cur' = [cur EXCEPT !.entry = NewId, !.open = TRUE, !.ahead = FALSE]
        /\ InFile /\ UNCHANGED nest

ReadConfig(s, prompt) == Entry("config", s, prompt)

ReadComment == Entry("comment", NoSym, TRUE)

(* menu_add_menu after menu_add_entry: entries go below this one. *)
Begin(kind, file) ==
    /\ last' = Inside(NewId)
    /\ cur' = [menu |-> NewId, entry |-> NewId, open |-> kind # "if", ahead |-> kind = "if"]
    /\ nest' = Append(nest, [id |-> NewId, kind |-> kind, file |-> file])

ReadBlock(kind, sym) ==
    /\ Statement
    /\ InBlock # "choice"
    /\ tree' = AddProp(AddEntry(tree, kind, sym, Last(busy), cur.menu, last),
                       "prompt", NewId, NoExpr, NoExpr)
    /\ Begin(kind, Last(busy))
    /\ InFile

ReadMenu == ReadBlock("menu", NoSym)

ChoiceEntries(t) == {m \in Entries(t) : IsChoice(t, m)}

ReadChoice ==
    /\ Cardinality(ChoiceEntries(tree)) < Len(ChoiceSym)
    /\ ReadBlock("choice", ChoiceSym[Cardinality(ChoiceEntries(tree)) + 1])

(* The line of an "if" ends with the next token that is no end of line,    *)
(* and a file that ends counts as an end of line: the entry is made when   *)
(* the "ended" innermost files have been left.  If all have, the entry has *)
(* no file, and the parser dereferences it when it reports that the block  *)
(* is not ended.                                                           *)
ReadIf(e, ended) ==
    LET rest == SubSeq(busy, 1, Len(busy) - ended)
        file == IF rest = <<>> THEN "no file" ELSE Last(rest)
    IN  /\ Statement
        /\ tree' = AddDep(AddEntry(tree, "if", NoSym, file, cur.menu, last), NewId, e)
        /\ Begin("if", Last(busy))
        /\ busy' = rest
        /\ scanned' = scanned \cup {busy[i] : i \in (Len(rest) + 1)..Len(busy)}
        /\ stage' = IF rest = <<>> THEN "crashed" ELSE stage
        /\ UNCHANGED <<crossed, final>>

(* Options go to the entry whose option list is open.  The end of a file   *)
(* does not close it.                                                      *)
Option(kinds, t) ==
    /\ cur.open /\ tree.entry[cur.entry].kind \in kinds
    /\ tree' = t
    /\ InFile /\ UNCHANGED <<last, cur, nest>>

ReadDepends(e) ==
    /\ Statement
    /\ Option({"config", "comment", "menu", "choice"}, AddDep(tree, cur.entry, e))

(* A choice has no select, and its default is a symbol. *)
ReadOption(o) ==
    /\ Statement
    /\ o.kind = "prompt" => tree.prompt[cur.entry] = Null
    /\ Option({"config"} \cup (IF o.kind = "default" /\ o.val.op = "sym" THEN {"choice"} ELSE {}),
              AddProp(tree, o.kind, cur.entry, o.val, o.vis))

Rejects ==
    /\ stage' = "rejected"
    /\ UNCHANGED <<busy, scanned, crossed, tree, last, cur, nest, final>>

SameFile(m) == tree.entry[m].file = Last(busy)

(* zconf_endtoken and menu_end_menu *)
ReadEnd(kind) ==
    LET m == cur.menu
        begun == Last(nest)
    IN  /\ Statement
        /\ IF nest = <<>> \/ InBlock # kind \/ ~SameFile(m)
           THEN Rejects
           ELSE /\ last' = After(m)
                /\ cur' = [cur EXCEPT !.menu = tree.parent[m], !.open = FALSE,
                                         !.ahead = FALSE]
                /\ nest' = Front(nest)
                /\ crossed' = IF begun.file = Last(busy) THEN crossed
                              ELSE crossed \cup {begun.kind}
                /\ UNCHANGED <<stage, busy, scanned, tree, final>>

(* zconf_nextfile *)
ReadSource(f) ==
    /\ Statement
    /\ IF f \in Range(busy) \cup scanned
       THEN Rejects
       ELSE /\ busy' = Append(busy, f)
            /\ cur' = [cur EXCEPT !.open = FALSE, !.ahead = FALSE]
            /\ UNCHANGED <<stage, scanned, crossed, tree, last, nest, final>>

(* zconf_endfile *)
EndOfFile ==
    /\ stage = "parsing"
    /\ Len(busy) > 1 /\ ~cur.ahead
    /\ busy' = Front(busy) /\ scanned' = scanned \cup {Last(busy)}
    /\ UNCHANGED <<stage, crossed, tree, last, cur, nest, final, read>>

(* The end of the first file.  A block that is not ended is warned about   *)
(* and ended (the destructors of the grammar), and the parser stops there  *)
(* without counting an error.                                              *)
EndOfInput ==
    /\ stage = "parsing"
    /\ Len(busy) = 1 /\ ~cur.ahead
    /\ final' = Finalized(tree)
    /\ Usable(tree, final')
    /\ stage' = IF Circular(final') THEN "circular" ELSE "accepted"
    /\ busy' = <<>> /\ scanned' = scanned \cup Range(busy)
    /\ UNCHANGED <<crossed, tree, last, cur, nest, read>>

Next ==
    \/ \E s \in Config, prompt \in BOOLEAN : ReadConfig(s, prompt)
    \/ ReadComment
    \/ ReadMenu
    \/ ReadChoice
    \/ \E e \in Conditions, ended \in 0..Len(busy) : ReadIf(e, ended)
    \/ \E e \in Conditions : ReadDepends(e)
    \/ \E o \in Options : ReadOption(o)
    \/ \E kind \in {"menu", "choice", "if"} : ReadEnd(kind)
    \/ \E f \in Files : ReadSource(f)
    \/ EndOfFile
    \/ EndOfInput

Spec == Init /\ [][Next]_vars

-----------------------------------------------------------------------------
(* What must hold                                                          *)

(* The walk of conf_write: into the list of an entry, else on to the next, *)
(* else up to the first of the enclosing entries that has a next.          *)
Follower(t, m) ==
    LET up[k \in Entries(t)] ==
            IF t.next[k] # Null THEN t.next[k]
            ELSE IF t.parent[k] = Null THEN Null
            ELSE up[t.parent[k]]
    IN  IF t.list[m] # Null THEN t.list[m] ELSE up[m]

Linked(t) ==
    \A m \in Entries(t) :
        /\ Follower(t, m) = IF m = Len(t.entry) THEN Null ELSE m + 1
        /\ t.list[m] # Null => t.parent[t.list[m]] = m
        /\ t.next[m] # Null => t.parent[t.next[m]] = t.parent[m]

(* The links of the tree follow the text at every step of the parser: the  *)
(* walk comes to every entry, in the order of the statements, and every    *)
(* list is of entries of one block; the block that is open is the one the  *)
(* statements are in.  Over any sequence of source and end statements, a   *)
(* menu and a choice are ended in the file they begin in (zconf_endtoken); *)
(* an if need not be.                                                      *)
OrderKept ==
    /\ Linked(tree)
    /\ cur.menu = (IF nest = <<>> THEN Root ELSE Last(nest).id)
    /\ crossed \subseteq {"if"}

=============================================================================
