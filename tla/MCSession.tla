------------------------------ MODULE MCSession ------------------------------
(* A menu for TLC, in which everything a symbol may depend on occurs. *)
EXTENDS Session

MCPlain == {"a", "b", "d", "f"}
MCMembers == [c \in {"c"} |-> <<"x", "y">>]

When(s) == {[on |-> {s}, off |-> {}]}
Unless(s) == {[on |-> {}, off |-> {s}]}

(* c and d depend on a; y on d.  b depends on d and is selected by x; f    *)
(* has no prompt.                                                          *)
MCPrompt ==
    [s \in {"a", "b", "c", "d", "f", "x", "y"} |->
        CASE s \in {"a", "x"} -> Always
          [] s \in {"c"} -> When("a")
          [] s = "d" -> Always
          [] s \in {"b", "y"} -> When("d")
          [] s = "f" -> {}]
MCSelect == [s \in MCPlain |-> IF s = "b" THEN When("x") ELSE {}]
MCDefault ==
    [s \in MCPlain |->
        CASE s = "a" -> <<>>
          [] s = "b" -> <<[value |-> Always, when |-> Unless("d")]>>
          [] s = "d" -> <<[value |-> When("a"), when |-> Always]>>
          [] s = "f" -> <<[value |-> Unless("b"), when |-> When("y")],
                          [value |-> Always, when |-> When("d")]>>]
MCChoiceDefault == [c \in {"c"} |-> <<[to |-> "y", when |-> Always]>>]
=============================================================================
