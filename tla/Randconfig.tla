------------------------------ MODULE Randconfig ------------------------------
(***************************************************************************)
(* conf -r (make randconfig): each symbol that has no value gets a random  *)
(* one, then each choice that is on chooses a random member, then .config  *)
(* and auto.conf are written (conf_set_all_new_symbols, conf_write and     *)
(* conf_write_autoconf in confdata.c).                                     *)
(***************************************************************************)
EXTENDS SymCalc

CONSTANTS
    Order,          \* the choices, each once, as for_all_symbols visits them
    MenuOrder       \* the symbols, each once, in the order of the menu

VARIABLES
    user,       \* what is set
    cache,      \* the calculated values
    next,       \* the choice in Order that is next, Len(Order) + 1: all done
    config,     \* .config: the symbols it sets, or None
    auto        \* auto.conf: likewise

vars == <<user, cache, next, config, auto>>

Empty == [on |-> {}, pick |-> NoUser.val, valid |-> {}, write |-> {}]

(* Without a file of values to start from, every plain symbol gets one. *)
Init ==
    /\ user \in {u \in User : u.val = NoUser.val /\ \A s \in Plain : u.def[s] # "new"}
    /\ cache = Empty
    /\ next = 1
    /\ config = None
    /\ auto = None

(* A choice that is calculated to be on gets a random member, which need   *)
(* not be visible, and alone is calculated again.                          *)
RandomMember ==
    /\ next <= Len(Order)
    /\ LET c == Order[next]
           k == CalcValue(c, cache, user)
       IN  IF c \in k.on
           THEN \E m \in In(c) :
                  /\ user' = [user EXCEPT !.val[c] = m]
                  /\ cache' = [k EXCEPT !.valid = @ \ {c}]
           ELSE user' = user /\ cache' = k
    /\ next' = next + 1
    /\ UNCHANGED <<config, auto>>

(* conf_write clears the marks only if nothing counts as changed, which    *)
(* here is not so.  Symbols are calculated one by one as they are written. *)
RECURSIVE Calculated(_, _)
Calculated(i, k) ==
    IF i > Len(MenuOrder) THEN k
    ELSE Calculated(i + 1, CalcValue(MenuOrder[i], k, user))

Write ==
    /\ next > Len(Order)
    /\ config = None
    /\ cache' = Calculated(1, cache)
    /\ config' = cache'.on \cap cache'.write
    /\ UNCHANGED <<user, next, auto>>

WriteAutoconf ==
    /\ config # None
    /\ auto = None
    /\ cache' = Calculated(1, ClearAllValid(cache))
    /\ auto' = cache'.on \cap cache'.write
    /\ UNCHANGED <<user, next, config>>

Next == RandomMember \/ Write \/ WriteAutoconf

Spec == Init /\ [][Next]_vars

(* confdata.c:894, on what it does to a choice: "find a random value and   *)
(* set it to yes, set the rest to no so we have only one set".             *)
OnlyOneSet ==
    config # None => \A c \in Choice : Cardinality(config \cap In(c)) <= 1
=============================================================================
