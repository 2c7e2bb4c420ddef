-------------------------------- MODULE Menu --------------------------------
(***************************************************************************)
(* The symbols of the Config.in files and the values they have.            *)
(*                                                                         *)
(* package/config/menu.c turns the files into symbols with prompts,        *)
(* defaults, selects and choices; symbol.c gives each symbol a value, from *)
(* what the user set and from the values of other symbols.  This module    *)
(* says which values those are, without saying how they are computed:      *)
(* Consistent(v, u) holds of the set v of symbols that are on when the     *)
(* user set u.  The algorithm is in SymCalc.                               *)
(*                                                                         *)
(* All symbols are Boolean and no choice is optional, as in the Config.in  *)
(* files of this tree.                                                     *)
(***************************************************************************)
EXTENDS Naturals, Sequences, FiniteSets, Functions

CONSTANTS
    Plain,          \* the symbols that are no choice and no member of one
    Choice,         \* the choices
    Members,        \* Members[c]: the symbols choice c chooses from, in order
    None,           \* no member
    Prompt,         \* Prompt[s]: when a prompt of s is visible
    Select,         \* Select[s]: when another symbol selects s
    Default,        \* Default[s]: the defaults of s, [value |->, when |->]
    ChoiceDefault   \* ChoiceDefault[c]: those of c, [to |->, when |->]

In(c) == Range(Members[c])

Member == UNION {In(c) : c \in Choice}

Sym == Plain \cup Member

All == Sym \cup Choice

ChoiceOf(m) == CHOOSE c \in Choice : m \in In(c)

-----------------------------------------------------------------------------
(* A condition is a set of alternatives, each a conjunction: the symbols   *)
(* in "on" are on and those in "off" are off.                              *)

Alternative == [on : SUBSET Sym, off : SUBSET Sym]

Condition == SUBSET Alternative

Always == {[on |-> {}, off |-> {}]}

Holds(cond, v) == \E k \in cond : k.on \subseteq v /\ k.off \cap v = {}

Mentions(cond) == UNION {k.on \cup k.off : k \in cond}

ASSUME ChoiceAssumption ==
    /\ Members \in [Choice -> Seq(Member)]
    /\ \A c, d \in Choice : c # d => In(c) \cap In(d) = {}
    /\ Plain \cap Member = {} /\ Choice \cap Sym = {} /\ None \notin All

ASSUME PropAssumption ==
    /\ Prompt \in [All -> Condition]
    /\ Select \in [Plain -> Condition]
    /\ Default \in [Plain -> Seq([value : Condition, when : Condition])]
    /\ ChoiceDefault \in [Choice -> Seq([to : Member, when : Condition])]
    /\ \A c \in Choice : \A i \in DOMAIN ChoiceDefault[c] :
           ChoiceDefault[c][i].to \in In(c)

-----------------------------------------------------------------------------
(* What the user set: def[s] is "new" where a plain symbol has no          *)
(* SYMBOL_DEF_USER, val[c] is the member of c that was chosen last.        *)

Setting == {"new", "n", "y"}

Vals == {f \in [Choice -> Member \cup {None}] :
            \A c \in Choice : f[c] \in In(c) \cup {None}}

User == [def : [Plain -> Setting], val : Vals]

NoUser == [def |-> [s \in Plain |-> "new"], val |-> [c \in Choice |-> None]]

Visible(s, v) ==
    /\ Holds(Prompt[s], v)
    /\ s \in Member => ChoiceOf(s) \in v

Selected(s, v) == Holds(Select[s], v)

First(I) == CHOOSE i \in I : \A j \in I : i <= j

Applicable(s, v) == {i \in DOMAIN Default[s] : Holds(Default[s][i].when, v)}

DefaultOn(s, v) ==
    /\ Applicable(s, v) # {}
    /\ Holds(Default[s][First(Applicable(s, v))].value, v)

(* The members a choice considers, in order: the user's, the defaults, all. *)
Candidates(c, u) ==
    (IF u.val[c] = None THEN <<>> ELSE <<[to |-> u.val[c], when |-> Always]>>)
        \o ChoiceDefault[c]
        \o [i \in DOMAIN Members[c] |-> [to |-> Members[c][i], when |-> Always]]

(* Those that can be chosen; c counts as on while it chooses. *)
Possible(c, v, u) ==
    {i \in DOMAIN Candidates(c, u) :
        /\ Holds(Candidates(c, u)[i].when, v)
        /\ Holds(Prompt[Candidates(c, u)[i].to], v)}

Picked(c, v, u) == Candidates(c, u)[First(Possible(c, v, u))].to

PlainOn(s, v, u) ==
    \/ Selected(s, v)
    \/ Visible(s, v) /\ u.def[s] = "y"
    \/ ~(Visible(s, v) /\ u.def[s] # "new") /\ DefaultOn(s, v)

ChoiceOn(c, v, u) == Visible(c, v) /\ Possible(c, v, u) # {}

MemberOn(c, m, v, u) == ChoiceOn(c, v, u) /\ m = Picked(c, v, u)

Consistent(v, u) ==
    /\ \A s \in Plain : s \in v <=> PlainOn(s, v, u)
    /\ \A c \in Choice : c \in v <=> ChoiceOn(c, v, u)
    /\ \A c \in Choice : \A m \in In(c) : m \in v <=> MemberOn(c, m, v, u)

(* Each setting with the values it gives. *)
Solutions == {<<u, CHOOSE v \in SUBSET All : Consistent(v, u)>> : u \in User}

ValueOf(u) == (CHOOSE e \in Solutions : e[1] = u)[2]

(* Every setting determines the values. *)
Determined ==
    \A u \in User : \E v \in SUBSET All :
        /\ Consistent(v, u)
        /\ \A w \in SUBSET All : Consistent(w, u) => w = v

-----------------------------------------------------------------------------
(* sym_check_deps looks for symbols that depend on themselves, a choice    *)
(* and its members counting as one.                                        *)

Groups == Plain \cup Choice

Group(s) == IF s \in Member THEN ChoiceOf(s) ELSE s

(* What the conditions of a symbol, or of a choice and its members, name.  *)
Needs(g) ==
    IF g \in Choice
    THEN (UNION {Mentions(Prompt[s]) : s \in In(g) \cup {g}})
             \cup (UNION {Mentions(d.when) : d \in Range(ChoiceDefault[g])})
    ELSE Mentions(Prompt[g]) \cup Mentions(Select[g])
             \cup (UNION {Mentions(d.when) \cup Mentions(d.value) :
                              d \in Range(Default[g])})

(* The programs reject Config.in files with a circle: with some groups     *)
(* each of which needs another of them, or itself.                         *)
ASSUME NoCircles ==
    \A S \in SUBSET Groups :
        S # {} => \E g \in S : \A s \in Needs(g) : Group(s) \notin S

-----------------------------------------------------------------------------
(* SYMBOL_WRITE: the symbols of which the configuration file has a line.   *)

ChoiceWritten(v) == UNION {In(c) : c \in {d \in Choice : Visible(d, v)}}

WrittenPlain(v) ==
    {s \in Plain : Visible(s, v) \/ Selected(s, v) \/ Applicable(s, v) # {}}

Written(v) ==
    ChoiceWritten(v)
        \cup {s \in Plain : \/ Visible(s, v)
                            \/ Selected(s, v)
                            \/ Applicable(s, v) # {}}
=============================================================================
