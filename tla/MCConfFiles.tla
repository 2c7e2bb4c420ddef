----------------------------- MODULE MCConfFiles -----------------------------
(* Small instances of ConfFiles for TLC.                                    *)
EXTENDS ConfFiles

CONSTANTS a, b, alt

\* Every symbol off: the default, .defconfig and a preset with a alone on.
AllOff == [s \in Sym |-> FALSE]
OnlyA == [s \in Sym |-> s = a]
MCPresets == {OnlyA}

=============================================================================
