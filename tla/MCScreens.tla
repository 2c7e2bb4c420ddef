----------------------------- MODULE MCScreens ------------------------------
(***************************************************************************)
(* A main menu with four entries: a symbol that is a menu with a string, a *)
(* second symbol, a menu with a comment, which is empty while the first    *)
(* symbol is off, and a choice, which has no member then and one or two of *)
(* them after that.                                                        *)
(***************************************************************************)
EXTENDS Screens, TLC

CONSTANTS net, host, fast, tool, note, arch, x86, old, arm

MCEntries == <<net, host, fast, tool, note, arch, x86, old, arm>>

MCKind ==
    net :> "menuconfig" @@ host :> "string" @@ fast :> "bool" @@ tool :> "menu"
        @@ arch :> "choice" @@ [e \in {arm, x86} |-> "member"]
        @@ [e \in {note, old} |-> "comment"]

MCAbove ==
    [e \in {net, fast, tool, arch} |-> <<Root>>] @@ host :> <<net, Root>>
        @@ note :> <<tool, Root>> @@ [e \in {arm, old, x86} |-> <<arch, Root>>]

MCDep ==
    [e \in {host, note, arm} |-> {net}] @@ x86 :> {net, fast} @@ old :> {fast}
        @@ [e \in {net, fast, tool, arch} |-> {}]

MCHotKey ==
    [e \in {net, tool, arch, arm} |-> "a"] @@ host :> "s" @@ x86 :> "x"
        @@ [e \in {old, note} |-> "o"] @@ fast :> "b"

MCListRows == 2

MCFieldWidth == 3

MCMaxLen == 4

MCMaxScroll == 1

MCLengths == {0, 4}

MCHeights == {9, 17, 21}

MCHelpLines == 10

MCMaxMoves == 1
=============================================================================
