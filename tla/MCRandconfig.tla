---------------------------- MODULE MCRandconfig ----------------------------
(* Two choices, as of architectures and of the variants of one of them.    *)
EXTENDS Randconfig

MCMembers == [arch |-> <<"arm", "i386">>, variant |-> <<"v1", "v2">>]

MCPrompt ==
    [s \in {"p", "arch", "variant", "arm", "i386", "v1", "v2"} |->
        IF s = "variant" THEN {[on |-> {"arm"}, off |-> {}]} ELSE Always]
MCSelect == [s \in {"p"} |-> {}]
MCDefault == [s \in {"p"} |-> <<>>]
MCChoiceDefault == [c \in {"arch", "variant"} |-> <<>>]
MCOrder == <<"variant", "arch">>
MCMenuOrder == <<"p", "arm", "i386", "v1", "v2">>
=============================================================================
