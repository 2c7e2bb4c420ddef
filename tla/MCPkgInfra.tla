----------------------------- MODULE MCPkgInfra -----------------------------
(* Small instances of the package infrastructure for TLC. *)
EXTENDS PkgInfra

CONSTANTS app, hosttool

\* app is configured against a host tool; alone, it depends on nothing.
AppNeedsTool == [p \in Pkg |-> IF p = app THEN <<hosttool>> ELSE << >>]
NoDeps == [p \in Pkg |-> << >>]

JustApp == <<app>>
JustTool == <<hosttool>>
NoPkgs == << >>

\* Every package has a source file of its own.
OwnFile == [p \in Pkg |-> p]
NoPatchFile == [p \in Pkg |-> NoFile]

AllGoals == Goals
DepsGoals == {<<Top, "world">>, <<Top, "source">>, <<hosttool, "clean">>}
BuildGoals == {<<app, "pkg">>, <<app, "dirclean">>}
WorldOnly == {<<Top, "world">>}
=============================================================================
