------------------------------ MODULE ConfFiles ------------------------------
(***************************************************************************)
(* The configuration on its way from the developer to the build.           *)
(*                                                                         *)
(* "make menuconfig" (package/config/mconf.c) and "make oldconfig"         *)
(* (package/config/conf.c) read .config, let the developer change the      *)
(* values, write .config through a temporary file and a .old copy, and     *)
(* then write what the build depends on: an empty header for each symbol   *)
(* that changed, autoconf.h and, as the last step, auto.conf.  A later     *)
(* make reads .config, copies the headers next to the packages and redoes  *)
(* a consumer (gcc-uclibc-4.x.mk) when a header is newer than its stamp.   *)
(*                                                                         *)
(* The files outlive the programs, so a program may be killed between any  *)
(* two of these steps, and any of them may fail.  One program acts at a    *)
(* time: a configuration program, a make, or nobody.                       *)
(***************************************************************************)
EXTENDS Naturals, FiniteSets

CONSTANTS
    Sym,        \* the symbols, all Boolean and visible, the consumer reads
    Alt,        \* names the developer gives alternate configuration files
    Main,       \* the name .config
    NoFile,     \* the file does not exist
    Empty,      \* a configuration file with its heading and no symbol
    Default,    \* the values the Config.in files give
    Shipped,    \* .defconfig
    Presets,    \* configs/*_defconfig
    Used,       \* the tree was configured before the first state
    Choices,    \* what the developer does in menuconfig
    Faults      \* what may go wrong

Conf == [Sym -> BOOLEAN]

Name == Alt \cup {Main}

ASSUME NameAssumption == Main \notin Alt
ASSUME ContentAssumption == {NoFile, Empty} \cap Conf = {} /\ NoFile # Empty
ASSUME ConfAssumption == Default \in Conf /\ Shipped \in Conf
                             /\ Presets \subseteq Conf
ASSUME ModeAssumption ==
    /\ Used \in BOOLEAN
    /\ Choices \subseteq {"save_as", "load", "load_missing", "decline"}
    /\ Faults \subseteq {"kill", "display", "create", "touch", "rename"}

VARIABLES
    file,       \* file[f]: configuration file f
    old,        \* old[f]: f.old
    auto,       \* auto.conf
    header,     \* autoconf.h
    heads,      \* symbols whose header exists in $(CONFIG)/buildroot-config
    newer,      \* those whose header is newer than the consumer's stamp
    cmd,        \* .config.cmd exists
    tools,      \* the configuration programs that are compiled
    pc,         \* the step the running program is at
    prog,       \* the configuration program that runs
    mem,        \* the values it holds
    changed,    \* conf_get_changed()
    live,       \* the symbols carry SYMBOL_WRITE
    filename,   \* mconf's current file
    target,     \* the file conf_write writes
    tmp,        \* .tmpconfig.<pid>
    leaving,    \* conf_write was called to end the program
    todo,       \* symbols conf_split_config has still to touch
    copied,     \* headers in BR2_DEPENDS_DIR
    prereqs,    \* headers $(wildcard) found there when make read its Makefiles
    using,      \* the values make read from .config
    built,      \* the values the consumer was built with
    saved,      \* saved[f]: what the developer was told f holds (a history)
    declined,   \* the developer answered no (a history)
    agreed,     \* auto.conf agreed with .config at the last build (a history)
    made        \* the last thing that happened is a make that ended and had
                \* found every header (a history)

disk    == <<file, old, auto, header, heads, newer, cmd, tools>>
session == <<prog, mem, changed, live, filename, target, tmp, leaving, todo>>
build   == <<copied, prereqs, using, built>>
history == <<saved, declined, agreed, made>>
vars    == <<disk, pc, session, build, history>>

Content == Conf \cup {NoFile, Empty}

-----------------------------------------------------------------------------
Init ==
    /\ file = [f \in Name |-> NoFile]
    /\ old = [f \in Name |-> NoFile]
    /\ auto = NoFile
    /\ header = NoFile
    /\ heads = {}
    /\ newer = {}
    /\ cmd = Used
    /\ tools = IF Used THEN {"conf", "mconf"} ELSE {}
    /\ pc = "off"
    /\ prog = "conf"
    /\ mem = Default
    /\ changed = FALSE
    /\ live = TRUE
    /\ filename = Main
    /\ target = Main
    /\ tmp = NoFile
    /\ leaving = FALSE
    /\ todo = {}
    /\ copied = {}
    /\ prereqs = {}
    /\ using = Default
    /\ built = NoFile
    /\ saved = [f \in Name |-> NoFile]
    /\ declined = FALSE
    /\ agreed = FALSE
    /\ made = FALSE

\* What a program held in memory goes with it.
Forget ==
    /\ prog' = "conf"
    /\ mem' = Default
    /\ changed' = FALSE
    /\ live' = TRUE
    /\ filename' = Main
    /\ target' = Main
    /\ tmp' = NoFile
    /\ leaving' = FALSE
    /\ todo' = {}
    /\ declined' = FALSE

-----------------------------------------------------------------------------
(* Starting a configuration program                                        *)

\* $(CONFIG)/conf, $(CONFIG)/mconf: the rule that compiles the program also
\* copies .defconfig to .config when there is none.
Start(p) ==
    /\ pc = "off"
    /\ pc' = "read"
    /\ prog' = p
    /\ tools' = tools \cup {p}
    /\ file' = IF p \notin tools /\ file[Main] = NoFile
               THEN [file EXCEPT ![Main] = Shipped] ELSE file
    /\ made' = FALSE
    /\ UNCHANGED <<old, auto, header, heads, newer, cmd, mem, changed, live,
                   filename, target, tmp, leaving, todo, build, saved, declined,
                   agreed>>

\* %_defconfig: cp $^ .config, then make oldconfig.
StartPreset(c) ==
    /\ pc = "off"
    /\ pc' = "read"
    /\ prog' = "conf"
    /\ tools' = tools \cup {"conf"}
    /\ file' = [file EXCEPT ![Main] = c]
    /\ saved' = [saved EXCEPT ![Main] = c]
    /\ made' = FALSE
    /\ UNCHANGED <<old, auto, header, heads, newer, cmd, mem, changed, live,
                   filename, target, tmp, leaving, todo, build, declined,
                   agreed>>

\* conf_read(NULL).  Without .config, or with symbols .config does not give,
\* the configuration counts as changed.  conf -o asks for what is not given
\* and goes on to write; mconf shows its menu.
ReadConfig ==
    /\ pc = "read"
    /\ changed' = (file[Main] \notin Conf)
    /\ live' = TRUE
    /\ filename' = Main
    /\ target' = Main
    /\ IF prog = "conf"
       THEN /\ mem' \in IF file[Main] \in Conf THEN {file[Main]} ELSE Conf
            /\ pc' = "write"
            /\ leaving' = TRUE
       ELSE /\ mem' = IF file[Main] \in Conf THEN file[Main] ELSE Default
            /\ pc' = "menu"
            /\ leaving' = FALSE
    /\ UNCHANGED <<disk, prog, tmp, todo, build, history>>

-----------------------------------------------------------------------------
(* menuconfig                                                              *)

EditSilently(s) ==
    /\ pc = "menu"
    /\ mem' = [mem EXCEPT ![s] = ~@]
    /\ live' = TRUE
    /\ UNCHANGED <<disk, pc, prog, changed, filename, target, tmp, leaving,
                   todo, build, history>>

\* sym_set_tristate_value: the new value makes every symbol be calculated
\* again, which gives the visible ones SYMBOL_WRITE.
Edit(s) ==
    /\ pc = "menu"
    /\ mem' = [mem EXCEPT ![s] = ~@]
    /\ changed' = TRUE
    /\ live' = TRUE
    /\ UNCHANGED <<disk, pc, prog, filename, target, tmp, leaving, todo, build,
                   history>>

\* conf_save: conf_write of a name the developer types.
SaveAs(f) ==
    /\ "save_as" \in Choices
    /\ pc = "menu"
    /\ target' = f
    /\ pc' = "write"
    /\ UNCHANGED <<disk, prog, mem, changed, live, filename, tmp, leaving,
                   todo, build, history>>

\* conf_load of a file that exists: its name becomes the current one.
Load(f) ==
    /\ "load" \in Choices
    /\ pc = "menu"
    /\ file[f] # NoFile
    /\ mem' = IF file[f] = Empty THEN Default ELSE file[f]
    /\ changed' = TRUE
    /\ live' = TRUE
    /\ filename' = f
    /\ UNCHANGED <<disk, pc, prog, target, tmp, leaving, todo, build, history>>

\* conf_load of a file that does not: conf_read has already reset the change
\* count when conf_read_simple finds out.
LoadMissing(f) ==
    /\ "load_missing" \in Choices
    /\ pc = "menu"
    /\ file[f] = NoFile
    /\ changed' = FALSE
    /\ UNCHANGED <<disk, pc, prog, mem, live, filename, target, tmp, leaving,
                   todo, build, history>>

\* The main menu is left and nothing has changed: nobody is asked.
LeaveUnchanged ==
    /\ pc = "menu"
    /\ ~changed
    /\ pc' = "dep"
    /\ UNCHANGED <<disk, session, build, history>>

\* "Do you wish to save your new Buildroot configuration?"
AnswerYes ==
    /\ pc = "menu"
    /\ changed
    /\ target' = filename
    /\ leaving' = TRUE
    /\ pc' = "write"
    /\ UNCHANGED <<disk, prog, mem, changed, live, filename, tmp, todo, build,
                   history>>

\* The answer is no; conf_write_autoconf runs all the same.
AnswerNo ==
    /\ "decline" \in Choices
    /\ pc = "menu"
    /\ changed
    /\ declined' = TRUE
    /\ pc' = "dep"
    /\ UNCHANGED <<disk, session, build, saved, agreed, made>>

-----------------------------------------------------------------------------
(* conf_write                                                              *)

\* The program ends in failure.  menuconfig: test -f .config.cmd ||
\* rm -f .config.
ProgramFails ==
    /\ pc' = "off"
    /\ Forget
    /\ file' = IF prog = "mconf" /\ ~cmd
               THEN [file EXCEPT ![Main] = NoFile] ELSE file

\* What conf_write does when it returns 1: back to the menu, or the end.
WriteReturns1 ==
    \/ /\ leaving
       /\ ProgramFails
    \/ /\ ~leaving
       /\ pc' = "menu"
       /\ UNCHANGED <<file, session, declined>>

\* The temporary file cannot be created.
CreateFails ==
    /\ "create" \in Faults
    /\ pc = "write"
    /\ WriteReturns1
    /\ UNCHANGED <<old, auto, header, heads, newer, cmd, tools, build, saved,
                   agreed, made>>

\* Symbols are written while they carry SYMBOL_WRITE, which this clears; they
\* are calculated afresh only if nothing has changed since the last write.
WriteTmp ==
    /\ pc = "write"
    /\ tmp' = IF changed /\ ~live THEN Empty ELSE mem
    /\ live' = FALSE
    /\ changed' = TRUE
    /\ pc' = "backup"
    /\ UNCHANGED <<disk, prog, mem, filename, target, leaving, todo, build,
                   history>>

BackupUnlinks ==
    /\ pc = "backup"
    /\ file' = [file EXCEPT ![target] = NoFile]
    /\ pc' = "install"
    /\ UNCHANGED <<old, auto, header, heads, newer, cmd, tools, session, build,
                   history>>

\* rename(newname, newname.old), whose result is not looked at.
Backup ==
    /\ pc = "backup"
    /\ \/ /\ file[target] # NoFile
          /\ old' = [old EXCEPT ![target] = file[target]]
          /\ file' = [file EXCEPT ![target] = NoFile]
       \/ /\ file[target] = NoFile \/ "rename" \in Faults
          /\ UNCHANGED <<file, old>>
    /\ pc' = "install"
    /\ UNCHANGED <<auto, header, heads, newer, cmd, tools, session, build,
                   history>>

\* rename(tmpname, newname): "configuration written to".
InstallConfig ==
    /\ pc = "install"
    /\ file' = [file EXCEPT ![target] = tmp]
    /\ saved' = [saved EXCEPT ![target] = mem]
    /\ changed' = FALSE
    /\ filename' = IF leaving THEN filename ELSE target
    /\ tmp' = NoFile
    /\ pc' = IF leaving THEN "dep" ELSE "menu"
    /\ UNCHANGED <<old, auto, header, heads, newer, cmd, tools, prog, mem, live,
                   target, leaving, todo, build, declined, agreed, made>>

InstallFails ==
    /\ "rename" \in Faults
    /\ pc = "install"
    /\ WriteReturns1
    /\ UNCHANGED <<old, auto, header, heads, newer, cmd, tools, build, saved,
                   agreed, made>>

-----------------------------------------------------------------------------
(* conf_write_autoconf                                                     *)

\* A symbol that is off is not in auto.conf.
WasOn(s) == auto # NoFile /\ auto[s]

DiffersWhenOn(s) == mem[s] /\ ~WasOn(s)

\* conf_split_config: the value differs from the one in auto.conf.
Differs(s) == mem[s] # WasOn(s)

\* file_write_dep, whose result is not looked at, and the comparison.
WriteDep ==
    /\ pc = "dep"
    /\ \/ cmd' = TRUE
       \/ "create" \in Faults /\ UNCHANGED cmd
    /\ live' = TRUE
    /\ changed' = TRUE
    /\ todo' = {s \in Sym : Differs(s)}
    /\ pc' = "split"
    /\ UNCHANGED <<file, old, auto, header, heads, newer, tools, prog, mem,
                   filename, target, tmp, leaving, build, history>>

\* The symbol's header is created or truncated.
Touch(s) ==
    /\ pc = "split"
    /\ s \in todo
    /\ heads' = heads \cup {s}
    /\ newer' = newer \cup {s}
    /\ todo' = todo \ {s}
    /\ UNCHANGED <<file, old, auto, header, cmd, tools, pc, prog, mem, changed,
                   live, filename, target, tmp, leaving, build, history>>

TouchFailsUnseen ==
    /\ "touch" \in Faults
    /\ pc = "split"
    /\ todo # {}
    /\ todo' = {}
    /\ UNCHANGED <<disk, pc, prog, mem, changed, live, filename, target, tmp,
                   leaving, build, history>>

\* A header cannot be written: conf_write_autoconf returns 1.
TouchFails ==
    /\ "touch" \in Faults
    /\ pc = "split"
    /\ todo # {}
    /\ ProgramFails
    /\ UNCHANGED <<old, auto, header, heads, newer, cmd, tools, build, saved,
                   agreed, made>>

\* The two temporary files are written and the first is renamed.
InstallHeader ==
    /\ pc = "split"
    /\ todo = {}
    /\ header' = mem
    /\ pc' = "auto"
    /\ UNCHANGED <<file, old, auto, heads, newer, cmd, tools, session, build,
                   history>>

InstallAuto ==
    /\ pc = "auto"
    /\ auto' = mem
    /\ pc' = "off"
    /\ Forget
    /\ UNCHANGED <<file, old, header, heads, newer, cmd, tools, build, saved,
                   agreed, made>>

\* A temporary file cannot be created or a rename is refused.
AutoconfFails ==
    /\ \/ pc = "split" /\ todo = {} /\ Faults \cap {"create", "rename"} # {}
       \/ pc = "auto" /\ "rename" \in Faults
    /\ ProgramFails
    /\ UNCHANGED <<old, auto, header, heads, newer, cmd, tools, build, saved,
                   agreed, made>>

\* mconf finds the terminal too small.
DisplayFails ==
    /\ "display" \in Faults
    /\ pc = "read"
    /\ prog = "mconf"
    /\ ProgramFails
    /\ UNCHANGED <<old, auto, header, heads, newer, cmd, tools, build, saved,
                   agreed, made>>

-----------------------------------------------------------------------------
(* make                                                                    *)

\* make includes .config and looks for headers in the copy it has.
StartBuild ==
    /\ pc = "off"
    /\ file[Main] \in Conf
    /\ using' = file[Main]
    /\ prereqs' = copied
    /\ pc' = "dirs"
    /\ made' = FALSE
    /\ UNCHANGED <<disk, session, copied, built, saved, declined, agreed>>

\* $(BR2_DEPENDS_DIR), a phony target: rm -rf, then cp -dpRf, which keeps the
\* headers' times.
CopyDepends ==
    /\ pc = "dirs"
    /\ copied' = heads
    /\ pc' = "consumer"
    /\ UNCHANGED <<disk, session, prereqs, using, built, history>>

\* The consumer's stamp is missing or older than a header it depends on.
Outdated == built = NoFile \/ prereqs \cap newer # {}

MakeEnds ==
    /\ pc' = "off"
    /\ made' = (heads \subseteq prereqs)
    /\ prereqs' = {}
    /\ using' = Default

Rebuild ==
    /\ pc = "consumer"
    /\ Outdated
    /\ built' = using
    /\ newer' = {}
    /\ agreed' = (using = auto)
    /\ MakeEnds
    /\ UNCHANGED <<file, old, auto, header, heads, cmd, tools, session, copied,
                   saved, declined>>

LeaveBuilt ==
    /\ pc = "consumer"
    /\ ~Outdated
    /\ MakeEnds
    /\ UNCHANGED <<disk, session, copied, built, saved, declined, agreed>>

\* make clean removes BUILD_DIR, which holds BR2_DEPENDS_DIR, and the
\* toolchain.
Clean ==
    /\ pc = "off"
    /\ copied' = {}
    /\ built' = NoFile
    /\ agreed' = FALSE
    /\ made' = FALSE
    /\ UNCHANGED <<disk, pc, session, prereqs, using, saved, declined>>

-----------------------------------------------------------------------------
\* Everything that runs is killed.  What has been copied stays.
Kill ==
    /\ "kill" \in Faults
    /\ pc # "off"
    /\ IF pc = "dirs" THEN copied' \in SUBSET heads ELSE UNCHANGED copied
    /\ pc' = "off"
    /\ Forget
    /\ prereqs' = {}
    /\ using' = Default
    /\ UNCHANGED <<disk, built, saved, agreed, made>>

Menuconfig == \/ \E s \in Sym : Edit(s)
              \/ \E f \in Name : SaveAs(f) \/ Load(f) \/ LoadMissing(f)
              \/ LeaveUnchanged \/ AnswerYes \/ AnswerNo

ConfWrite == CreateFails \/ WriteTmp \/ Backup \/ InstallConfig \/ InstallFails

ConfWriteAutoconf == \/ WriteDep
                     \/ \E s \in Sym : Touch(s)
                     \/ TouchFails \/ InstallHeader \/ InstallAuto
                     \/ AutoconfFails

Make == StartBuild \/ CopyDepends \/ Rebuild \/ LeaveBuilt \/ Clean

Next == \/ \E p \in {"conf", "mconf"} : Start(p)
        \/ \E c \in Presets : StartPreset(c)
        \/ ReadConfig \/ DisplayFails
        \/ Menuconfig \/ ConfWrite \/ ConfWriteAutoconf
        \/ Make
        \/ Kill

Spec == Init /\ [][Next]_vars

-----------------------------------------------------------------------------
(* Properties                                                              *)

\* Every variable keeps its type.
TypeOK ==
    /\ file \in [Name -> Content] /\ old \in [Name -> Content]
    /\ auto \in Conf \cup {NoFile} /\ header \in Conf \cup {NoFile}
    /\ heads \subseteq Sym /\ newer \subseteq heads
    /\ cmd \in BOOLEAN /\ tools \subseteq {"conf", "mconf"}
    /\ pc \in {"off", "read", "menu", "write", "backup", "install", "dep",
               "split", "auto", "dirs", "consumer"}
    /\ prog \in {"conf", "mconf"}
    /\ mem \in Conf /\ changed \in BOOLEAN /\ live \in BOOLEAN
    /\ filename \in Name /\ target \in Name /\ tmp \in Content
    /\ leaving \in BOOLEAN
    /\ todo \subseteq Sym
    /\ copied \subseteq heads /\ prereqs \subseteq heads
    /\ using \in Conf /\ built \in Conf \cup {NoFile}
    /\ saved \in [Name -> Conf \cup {NoFile}]
    /\ declined \in BOOLEAN /\ agreed \in BOOLEAN /\ made \in BOOLEAN

\* What conf_write reported as written (confdata.c:548) is not lost, whenever
\* a program is killed or fails: the file or its .old copy holds it until the
\* next write is reported.
ConfigKept == \A f \in Name :
    saved[f] # NoFile => saved[f] \in {file[f], old[f]}

\* A menuconfig that comes to its end with the developer's values in no file
\* has asked whether to save them (mconf.c:903).
NoSilentLoss == pc = "dep" => declined \/ \E f \in Name : file[f] = mem

\* confdata.c:789: auto.conf "must be the last step [...] this marks the
\* successful completion of the previous steps".  When it is replaced the
\* header agrees with it, and every symbol it changes has been touched.
AutoMarksCompletion ==
    [][auto' # auto =>
          /\ header' = auto'
          /\ \A s \in Sym : auto'[s] # WasOn(s) => s \in newer']_vars

\* After a make the consumer stands for the values in .config.  The headers
\* that cause this are compared with auto.conf, not with .config, so it needs
\* the two to agree now and when the consumer was last built; and make sees
\* only headers the make before it copied.
BuiltIsConfigured ==
    made /\ agreed /\ file[Main] = auto => built = file[Main]

-----------------------------------------------------------------------------
(* Parts of an inductive invariant                                         *)

\* While auto.conf and .config agreed at the last build, what auto.conf says
\* of a symbol differs from what the consumer was built with only if the
\* symbol's header tells.
StaleIsMarked == agreed => /\ built \in Conf
                           /\ auto \in Conf
                           /\ \A s \in Sym : built[s] # auto[s] => s \in newer

\* Everything auto.conf will change has been touched or is still to be.
SplitDone ==
    /\ pc = "split" => \A s \in Sym : Differs(s) => s \in newer \cup todo
    /\ pc = "auto" => /\ header = mem
                      /\ \A s \in Sym : Differs(s) => s \in newer

\* In a tree that was configured before, a file is what was last reported, or
\* is on its way to .old.
FilesReported == \A f \in Name :
    IF file[f] = NoFile THEN saved[f] \in {NoFile, old[f]}
                        ELSE file[f] = saved[f]

\* conf_write writes the values it holds.
WriteFull ==
    /\ pc \in {"menu", "write"} => live \/ ~changed
    /\ pc \in {"backup", "install"} => tmp = mem

\* Values that do not count as changed are in a file.
UnchangedHeld ==
    /\ pc \in {"menu", "write"}
    /\ ~changed
    /\ pc = "menu" \/ ~leaving
    => \E f \in Name : file[f] = mem

\* In a tree that was configured before, both programs are compiled and
\* .config.cmd exists.
UsedTree == cmd /\ tools = {"conf", "mconf"}

\* When make has seen every header, none tells anything it has not acted on.
MadeQuiet == made => pc = "off" /\ newer = {}

=============================================================================
