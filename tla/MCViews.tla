------------------------------ MODULE MCViews ------------------------------
(***************************************************************************)
(* A symbol with a comment that is visible when the symbol is not set; and *)
(* a menu with a choice, of which a member depends on what follows, and    *)
(* with a menu of its own that holds a string.                             *)
(***************************************************************************)
EXTENDS Views, TLC

CONSTANTS a, note, menu, choice, x, y, deep, str

MCEntry == <<a, note, menu, choice, x, y, deep, str>>

MCKind ==
    a :> "bool" @@ note :> "comment" @@ menu :> "menu" @@ choice :> "choice"
        @@ [e \in {x, y} |-> "member"] @@ deep :> "menuconfig" @@ str :> "string"

MCParent ==
    [e \in {a, menu} |-> Root] @@ note :> a @@ [e \in {choice, deep} |-> menu]
        @@ [e \in {x, y} |-> choice] @@ str :> deep

Needs(e) == [sym |-> e, on |-> TRUE]

MCCond ==
    [e \in {a, menu, deep} |-> {}] @@ note :> {[sym |-> a, on |-> FALSE]}
        @@ choice :> {Needs(a)} @@ x :> {Needs(a), Needs(choice), Needs(deep)}
        @@ y :> {Needs(a), Needs(choice)} @@ str :> {Needs(deep)}

MCTexts == {"t"}

Preset(on, pick, text) == [on |-> on, pick |-> choice :> pick, text |-> str :> text]

MCPresets == {Preset({}, Null, Unset), Preset({a, deep}, y, "t")}
=============================================================================
