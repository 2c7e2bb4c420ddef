# Verification of Buildroot

TLA+ modules, TLC configurations and machine-checked proofs for the parts of
Buildroot (the 2010 tree in `src/`) that decide what is built, in which order,
and from which configuration. Buildroot is a set of makefiles, a configuration
program in C and shell scripts; almost all of its state is files that outlive
the processes that write them. What is hard about it is therefore not so much
concurrency as *interruption*: a command fails or a process is killed between
two files that have to agree, and the next run goes on from there, trusting
the files.

## 1. Inventory

| Component | State it keeps | Operations | Interacts with |
|---|---|---|---|
| **Package infrastructure** `package/Makefile.package.in`, `toolchain/patch-kernel.sh` | stamp files in `output/build/<pkg>`, the unpacked tree, installed files, `DL_DIR` | download, extract, patch, configure, build, install (host, staging, target), uninstall, clean, dirclean; the human targets that list them | walked by GNU make from `world`, `source` or a target the developer types |
| **Autotools packages** `package/Makefile.autotools.in` | none | fills the hooks of the package infrastructure | package infrastructure |
| **Configuration files** `package/config/confdata.c`, the session in `mconf.c` | `.config`, `.config.old`, `auto.conf`, `autoconf.h`, one empty header per symbol, `.config.cmd`; values, change count and write flags in memory | read, edit, save, save to / load from an alternate file, leave and answer, write auto.conf and headers | the Makefile reads `.config`; packages depend on the headers |
| **Symbol evaluation** `symbol.c`, `expr.c`, `menu.c` | value, visibility and flags of every symbol and menu | calculate, set, select, choices, the algebra of expressions | configuration programs, parser |
| **conf** `conf.c` | input mode, count of questions | ask until nothing is left to ask | symbol evaluation, configuration files |
| **Menus and windows** `mconf.c` with `lxdialog/`, `gconf.c`, `qconf.cc` | the stack of menus and the box on the terminal; rows of one or two trees and the view | move, select, scroll, type, resize; toggle, browse, change the view; load, save, leave | symbol evaluation, configuration files |
| **Parser** `zconf.y`, `zconf.l`, `menu_finalize`, `sym_check_deps` | the menu tree, the properties of symbols | parse `Config.in`, pass dependencies down, move entries below what they depend on, refuse circles | expressions, symbol evaluation |
| **Top-level Makefile** | `output/` directories, `.root`, `BR2_DEPENDS_DIR`, configure cache | `world`, `source`, `clean`, `menuconfig`, `%_defconfig`, skeleton, `target-finalize` | all of the above |
| **Toolchain** `toolchain/gcc`, `uClibc`, `binutils`, `kernel-headers`, `external-toolchain` | stamp files with real prerequisites | three-stage bootstrap of the cross compiler | headers of symbols, `.config` |
| **Root file systems** `target/*/` | images, fakeroot state | one recipe per format | `target-finalize`, makedevs |
| **makedevs** `target/makedevs/makedevs.c` | none | interprets a device table | root file systems |
| **Kernel, boot loaders** `target/linux`, `target/u-boot` | stamp files | build other projects | root file systems |
| **Run-time scripts** `target/generic/target_skeleton`, `package/webif` | files on the device | init scripts, udhcpc hook, web pages | none of the above |
| **Packages, scripts, configurations, docs** | data | | package infrastructure |

Hard behaviours, and what makes each component correct (`PROJECT.json` lists
them line by line as hazards):

- *Package infrastructure*: no stamp has a prerequisite. That a package is
  configured after it was patched, and after its dependencies were installed,
  follows only from the order in which phony targets list their prerequisites,
  across commands that fail, makes that are killed, and removals that were
  broken off. Correct means: a stamp never claims what is not on disk.
- *Configuration files*: a save is two renames, and what the build depends on
  is written afterwards in a third, fourth and n-th file. Correct means: a
  configuration once reported as written is never lost, and every value that
  changed reaches what was built from it.
- *Symbol evaluation*, *conf*: values are calculated on demand and cached, and
  setting one symbol may change any other. Correct means: the values a program
  shows are those its settings give, in whatever order they were asked for; the
  file carries them to the next program although it does not say what was set
  and what was a default; a choice has one value; `conf` terminates.
- *Parser*: an expression is rewritten in place several times before anything
  is decided by it. Correct means: no rewriting changes what it says, an entry
  depends on all that encloses it, and moves only below what it cannot be
  visible without.
- *Menus and windows*: what is on the terminal or in the window is brought up
  to date piece by piece, apart from the variables it stands for. Correct
  means: the developer acts on what the screen shows, and leaves with what was
  asked for.
- *Top-level Makefile, images*: steps share one target directory and one order,
  and an interrupted make leaves all of it to the next one. Correct means: an
  image of a make that ended well is complete, of this configuration, and whole.
- *makedevs*: a range is arithmetic on table columns, done as root under
  fakeroot where mistakes show on the device.

## 2. Modules

| Module | Models | Checked by |
|---|---|---|
| `PkgInfra` | package infrastructure under GNU make | `pkg_all_goals`, `pkg_deps`, `pkg_ends` |
| `PkgInfraProofs` | theorems of `PkgInfra` | tlapm |
| `PkgGoalsProofs` | theorems about what `make source`, the clean targets and a stamp removed by hand promise; extends `PkgInfraProofs` | tlapm |
| `MCPkgInfra` | packages and goals for TLC | |
| `ConfFiles` | configuration programs, their files, and a package that depends on them | `conf_kept`, `conf_built` |
| `ConfFilesProofs` | theorems of `ConfFiles` | tlapm |
| `MCConfFiles` | symbols and presets for TLC | |
| `Menu` | which values the symbols have, for what is set | `session` |
| `SymCalc` | how `symbol.c` calculates them, on demand and cached; extends `Menu` | `session` |
| `Session` | reading, setting and writing values in mconf and conf; extends `SymCalc` | `session` |
| `SessionProofs` | theorems of `Menu`, `SymCalc` and `Session` | tlapm |
| `MCSession` | a menu for TLC | |
| `Randconfig` | `conf -r`; extends `SymCalc` | `doc_random` |
| `MCRandconfig` | two choices for TLC | |
| `ExprSyntax` | the expressions of `Config.in` files | `config_in` |
| `Expr` | `expr.c`: values of expressions and how they are rewritten; extends `ExprSyntax` | `config_in` |
| `Parser` | the parser's statements and the chain of entries they make; extends `ExprSyntax` | `config_in` |
| `ParserProofs` | a theorem of `Parser` | tlapm |
| `ConfigIn` | `menu_finalize` and `sym_check_deps`; extends `Expr` and `Parser` | `config_in` |
| `MCConfigIn` | expressions as the grammar builds them, and statements, for TLC | |
| `MakeDevs` | makedevs: a device table and a directory tree | `images`, `doc_devices` |
| `RootFs` | skeleton, packages, `target-finalize`, images, clean; extends `MakeDevs` | `images`, `doc_devices` |
| `ImageStore` | the abstract specification of the images directory | `images`, tlapm |
| `RootFsProofs`, `ImageStoreProofs` | their theorems, what a tree holds after `MakeDevs` read a table, and that `RootFs` implements `ImageStore` | tlapm |
| `MCRootFs` | images, configurations and tables for TLC | |
| `Dialog` | what the boxes of lxdialog share, and the yes/no box | `dialogs` |
| `MenuBox`, `CheckList`, `InputBox`, `TextBox` | one box each; extend `Dialog` | `dialogs` |
| `Screens` | `mconf.c` around the boxes; extends all four | `dialogs` |
| `ScreensProofs` | theorems of the boxes and of `Screens` | tlapm |
| `MCScreens` | a menu and terminals for TLC | |
| `Views` | `gconf.c` | `views` |
| `MCViews` | a menu for TLC | |

`ConfFiles` and `Session` look at the same programs from two sides: in
`ConfFiles` files fail and programs are killed, and values have no meaning; in
`Session` a file is written at once, and values depend on each other.

### PkgInfra

The state is the disk (`stamp`, `dl`, `tree`) and GNU make's walk (`goal`,
`stack`, `done`, `failed`, `line`, `site`).

- `Prereqs` is the target graph of `GENTARGETS_INNER`, one operator per human
  target, in listing order. `Deps`, `HostPkg`, `InstallStaging`,
  `InstallTarget` are what a package's `.mk` file sets.
- `Consider`, `FinishHuman`, `GiveUp`, `UpToDate`, `BeginRecipe` are GNU make:
  it takes up the first prerequisite it has not dealt with, skips a file that
  exists (it has no prerequisites), and runs the recipe of one that does not.
  Phony targets are external code; they are modelled from how the Makefiles
  use them.
- Each recipe is then run line by line: `TestE`, `WgetOk`, `WgetNextSite` for
  `DOWNLOAD`; `RunWork` and `Touch` for the six build steps;
  `UninstallStaging`, `RmStagingStamp`, `UninstallTarget`, `RmTargetStamp`;
  `CleanObjects`, `RmBuiltStamp`; `RmDir`.
- `CommandFails` breaks the current line off with whatever it leaves
  (`BrokenOff`) and stops make, or with `-k` goes on elsewhere. `Kill` breaks
  it off and forgets the walk. `RemoveStamp` is the developer who edits
  something a step reads and removes its stamp (docs/buildroot.html:468).

What a step left is one of `none`, `part`, `stale` (complete, but made from
something incomplete or since redone) and `good`; that is all the properties
tell apart. `unsettled` is a history variable: the removals that were begun and
not completed since the build directory was last removed.

### ConfFiles

The state is the configuration files and their `.old` copies, `auto.conf`,
`autoconf.h`, the symbol headers (`heads`; `newer` are those newer than the
consumer's stamp), the program in memory (`mem`, `changed`, `live`, `filename`,
`target`, `tmp`, `leaving`, `todo`) and the step it is at (`pc`).

- `Start`, `StartPreset`, `ReadConfig`: the Makefile's rules and `conf_read`.
- `Edit`, `SaveAs`, `Load`, `LoadMissing`, `LeaveUnchanged`, `AnswerYes`,
  `AnswerNo`: the session of menuconfig.
- `WriteTmp`, `Backup`, `InstallConfig`, with `CreateFails` and `InstallFails`:
  `conf_write`. `live` is SYMBOL_WRITE, which `conf_write` clears on each
  symbol it writes.
- `WriteDep`, `Touch`, `InstallHeader`, `InstallAuto`, with `TouchFails` and
  `AutoconfFails`: `conf_write_autoconf` and `conf_split_config`.
- `StartBuild`, `CopyDepends`, `Rebuild`, `LeaveBuilt`, `Clean`: a make, and
  the consumer `gcc-uclibc-4.x.mk`, whose prerequisites are a `$(wildcard)` of
  header copies, evaluated before the copies are made.
- `Kill`, `DisplayFails`: everything that runs is killed; the terminal is too
  small for menuconfig.

`Choices` and `Faults` say which choices and faults an instance has, so that a
property that needs one excluded says so. `saved`, `declined`, `agreed` and
`made` are history variables.

### Menu, SymCalc

The constants are what `menu_finalize` leaves of the `Config.in` files: for
each symbol when a prompt is visible, when it is selected, its defaults in
order; for each choice its members and defaults. A condition is in disjunctive
form. `User` is what was set (`S_DEF_USER`).

`Menu` says what the values are and not how they are found: `Consistent(v, u)`
relates the set of symbols that are on to the settings, with one clause for
plain symbols (`PlainOn`), one for choices (`ChoiceOn`) and one for members
(`MemberOn`); `Written(v)` are the symbols with SYMBOL_WRITE. `NoCircles`
assumes what `sym_check_deps` makes sure of: among any symbols and choices
(`Groups`, a choice with its members counting as one) there is one whose
conditions (`Needs`) name none of them. That every setting then has exactly one
solution (`Determined`) is proved.

`SymCalc` is `sym_calc_value` with its cache: SYMBOL_VALID, the values of
before, the last pick of each choice, and the symbols calculated on the way.
`Calc(u)` is a recursive function: `calc[s][k]` is the cache that asking for s
leaves of the cache k. What it calls and what calls it again (`AskAll` for
`expr_calc_value`, `CalcVisibility`, `DefaultProp`, `CalcChoice`, `CalcPlain`,
`Calculate`) has that function as a parameter, so that each can be spoken of
apart from the others. `FiniteMenu` assumes that there are finitely many
symbols.

### Session

The state is the program that runs (`prog`), what it holds (`user`; `on`, the
values; `has`, SYMBOL_DEF_USER of choices and members; `marked`, SYMBOL_WRITE
of members, which calculating does not clear; `changed`), the file, and the
history variable `saved`, the values that were written.

- `Start`, `StartNew`, `Load`: `conf_read`. The file may be anything at first.
- `SetPlain`, `SetMember`: `sym_set_tristate_value`, on behalf of `Toggle`,
  `PickMember` and `TouchChoice` (mconf) and `Answer`, `AnswerChoice`, `Walk`
  (conf). Values are calculated again only if the value changes.
- `Save`, `Finish`: `conf_write`; `Defconfig`, `AllNew`: programs that read,
  set all at once and write; `Leave`, `Abort`: the program ends.
- `Pending` is what `check_conf` stops at.

### Randconfig

`RandomMember`, `Write`, `WriteAutoconf`: conf -r, on the cache of `SymCalc`,
with the order in which symbols are met as a constant.

### ExprSyntax, Expr, Parser, ConfigIn

`Expr` has no state: one operator per function of `expr.c` that calculates or
rewrites. The code works on two trees at a time and in place; where one may be
part of the other (`Dups1`, `Dups2`) an expression is a path into one tree,
otherwise an operator gives the pair of results.

`ExprSyntax` has the expressions themselves and how the parser puts them
together.

`Parser` takes one action per statement the parser reduces: `ReadConfig`,
`ReadComment`, `ReadMenu`, `ReadChoice`, `ReadIf`, `ReadDepends`, `ReadOption`,
`ReadEnd`, `ReadSource`, `EndOfFile` and `EndOfInput`. The state is the chain
`last_entry_ptr` links entries into (`tree`, `last`), what the current
statement is (`cur`), the files being read (`busy`, `scanned`), the open blocks
(`nest`) and the tree that results (`final`). What the files say is chosen as
they are read. Files end with a newline, and the default of a choice names a
member. `Linked` follows the links as `conf_write` does (`Follower`).

What `EndOfInput` makes of the tree is a parameter of `Parser`: `Finalized`
(`menu_finalize`), `Circular` (`sym_check_deps`) and `Usable`, which texts are
considered. `ConfigIn` defines them, as `FinalizeRoot`, `SomeCircle` and
`WellFormed`, and the configuration file of `config_in` assigns them. So
`Parser` can be proved about although `ConfigIn` is written with RECURSIVE
operators.

### RootFs, MakeDevs, ImageStore

`RootFs` is the tail of a top-level make. The state is `TARGET_DIR` as a tree,
the stamps (`root`, `installed`), the files fakeroot scripts leave
(`fragments`), the images with their compressed and copied forms, and where
make is in `TARGETS`. `TestBin`, `CopyEntry` and `TouchRoot` are
`$(BUILD_DIR)/.root`; `Install` reduces a package to a program, a header and a
manual page; `Finalize` is `target-finalize`; `RunScript`, `Compress`,
`CopyOut` and `EraseFakeroots` are the image recipes, which differ in five
parameters; `Break` breaks any of them off, as a kill or a failing command
does; `Clean`, `RemoveTarget`, `RemoveBuild` and `BreakClean` are `make clean`.
`Configure` is the developer between makes. In `MakeDevs` `ReadLine` is the
loop of `main` in makedevs, with `MakeDirectory` for a directory and
`NodesAt` and `MakeNodes` for one node or a numbering of them. `NodesOf` is
what a line asks for by the usage text of makedevs, `Reached` what of it the
loop comes to.

A manual page is in `usr/man` or, for packages in `SharePkg`, in
`usr/share/man`. nfs-utils installs in the session of an image (`FragPkg`); its
fragment also removes `usr/share/man`, whoever put it there (`Fragmented`,
`Swept`). The history variable `dropped` has the packages whose manual page was
removed after they were installed, by this or by `target-finalize`.

`ImageStore` says what this promises: a make that ends well drew every image it
was asked for; one that fails leaves any of them broken or as it was.

### Dialog, MenuBox, CheckList, InputBox, TextBox, Screens

A box is a record with the variables of its `dialog_` function and, apart from
them, what the terminal shows (`shown`, `drawn`, `up`, `down`), which only the
calls that print change. Each module has a `...Layout` (the part from
`do_resize`), a `...Open` and a `...Key`. `Screens` keeps the stack of
functions of `mconf.c` that wait (`calls`); `Open` opens the box of the last
one, `Key` and `Resize` go to the box, and `Return` is what the function does
with the result, one operator per case (`ConfSelect`, `ChoiceSelect`,
`StringOk`, `LoadOk`, `SaveOk`, `Asked` and others).

### Views

The state is the rows of both trees (`left`, `right`), the view, the buttons,
`current` and `browsed`, the settings and SYMBOL_CHANGED (`dirty`). One action
per callback: `Toggle`, `Change`, `Edit`, `GoDown`, `Back`, `Browse`,
`ToggleBrowsed` on rows; `Single`, `Split`, `Full`, `ShowAll`, `ShowDebug`,
`Load`, `Save`, `SaveAs`, `Quit` and its answers on the window. `DisplayTree`
is `display_tree`, and `UpdateTree` with `UpdateFrom` is `update_tree`, row by
row. `since` is a history variable: what happened to the right tree since it
was last cleared. Where the code follows a null pointer the stage is
`"crashed"`.

## 3. Runs

| Run | Question | Instance |
|---|---|---|
| `pkg_all_goals` | Do the stamps of one package tell the truth after any sequence of goals, failures and kills? | one package with patches, staging and target installation, five goals |
| `pkg_deps` | Are dependencies installed first, is everything made installed, is what is removed by hand redone in its place, with nothing left out? | a target package and the host tool it needs; `world`, `source`, clean of the tool; `.stamp_configured` and `.stamp_built` removed by hand |
| `pkg_ends` | Does every make end? | as above with `-k`, two download sites |
| `conf_kept` | Does a reported configuration survive? Is anything dropped without a question? | one symbol, one alternate file; kills, failing files |
| `conf_built` | Does every changed value reach the consumer? | two symbols in a fresh tree; declined edits, kills, refused renames |
| `session` | Are the values those the settings give, in memory, in the file and in the next program? Does oldconfig end, and ask nothing twice? Does the calculation give the values of `Menu`? | one choice of two, four plain symbols, of which one is selected, one has no prompt, one is a dependency of the others |
| `config_in` | Does the normal form keep the value of an expression? Are the two questions `menu_finalize` asks of it answered soundly? Are entries linked in the order of the files, with the dependencies of all that encloses them, below what they depend on? Does what is accepted determine the values? | all expressions of up to three terms out of six, and pairs of them; five statements or options in two files; three symbols, of which one is a choice |
| `images` | Is an image of a make that ended well complete, of one make, with what was asked for and no more? Are the devices of the table there, as far as makedevs comes to them? Does it implement `ImageStore`? | three packages, one of them like nfs-utils, four formats, three configurations, three commands; kills, failing copies, failing mknod |
| `dialogs` | Is what the terminal shows what the variables say? Is what is acted on what was lit? Is the highlight where it was left? Are changes given up only when asked? | a menu of nine entries, terminals of 9, 17 and 21 lines, one resize per box |
| `views` | Are rows that were updated in place those a new display would show? | a menu of eight entries, five callbacks |
| `doc_devices` | makedevs makes the devices its usage text and the head of device_table.txt say it makes (it does not) | one make, a table line with start 1 and count 3 |
| `doc_random` | `conf -r` sets one member of each choice, as confdata.c:894 says (it does not) | two choices, of which one depends on a member of the other |

Bounds. `PkgInfra`, `ConfFiles` and `Session` have no unbounded counter, so
their runs need no bound besides the constants: any number of makes, failures,
kills and sessions is explored. One package suffices for the properties of its own stamps, as
packages share nothing but downloads; two give one dependency edge, and the
dependency properties relate the two ends of one edge. Two download sites make
the loop of `DOWNLOAD` go round. Two symbols let a program stop between two
headers; one alternate file lets the current file differ from `.config`.

`session` starts from every file of its six symbols, 729, and from none. Its
menu has a symbol in each role a symbol can have for another: dependency of a
choice, of a member and of a plain symbol; selected by a member; defaults with
conditions, of which a later one applies; a default that depends on a symbol
being off. `CalcAgrees` is evaluated in what can be reached in menuconfig
without a file, which is every combination of settings, for each symbol asked
first and for two sets of values of before. One choice bounds how choices
depend on each other; `doc_random` has two, and the theorems any number of
everything.

`config_in`: the rewriting works on pairs, so that three leaves (`MaxTerms` 3)
are what a pair leaves over for a second round. Symbols are y or n: the files
of this tree have no MODULES symbol, so no symbol is m. Five statements
(`MaxStatements` 5) are a block, what it encloses, an entry after it and one in
another file. `images` (`MaxCommands` 3): a make, one that fails or another
configuration, and the make that must make up for it; each of the five
parameters that tell the formats apart is set for one format and not for
another. `dialogs`: 21 lines are the least at which all boxes open; with
17 a choice does not, and a menu has more items than rows; with 9 there is room
only for inputs and texts. The list of a choice has two rows and up to three
items, one of them a comment; the string has more characters than the field and
the text more lines than the box, so that all of them scroll; which entries a
menu has changes above the one that was left; one resize (`MaxMoves`) per box, as each redraws from
the same variables. `views` (`MaxCalls` 5): to change to a view, go to a menu,
change two symbols and look again; a file is loaded once between two clears of
the tree.

Fairness. `MakeEnds` assumes weak fairness of `MakeStep` alone: a command make
starts ends, in success or failure. GNU make waits for its commands and takes
its next step itself, so nothing else can keep it. Nothing is assumed of the
developer or of kills. A make without deadlock has nothing to wait for; TLC
checks deadlock in the runs of `PkgInfra`, `ConfFiles` and `Session`. The
others stop by nature: the expressions and statements are bounded, the commands
of `images` and `doc_devices` and the callbacks of `views` are counted, and
`dialogs` and `doc_random` end with their program.

`ConfEnds` assumes weak fairness of `AskStep`: each question gets some answer.
conf takes the end of its input for an empty line, which means the value shown.
Which answer is given is not constrained, and nothing is assumed of mconf. The
other modules assume no fairness, as they state no liveness.

### Where the code does not keep what it says

`doc_random`: `conf -r` means to set one member of each choice, and writes a
`.config` that sets two: it invalidates the choice and not its members, one of
which was calculated for the sake of another choice. `auto.conf` has only the
one that was meant.

`doc_devices`: the usage text of makedevs and device_table.txt (lines 13 to 16)
say that a line with start 1 and count 15 gives `/dev/hda[0-15]` with the line
for `/dev/hda`; the loop ends before its count (makedevs.c:492) and makes
`hda1` to `hda14`. The lines for hda and sda of device_table.txt have this form,
and so has a line of the runs: its last partition is in no image, and makedevs
says nothing. `DevicesMade` is therefore about the nodes the loop comes to
(`ReachedNodes`), and `DevicesDocumented`, which TLC finds violated, about all.

These are in the modules, and the properties are stated around them:

- Packages: docs/buildroot.html:483 says that removing `.stamp_configured` has
  the package recompiled from there on. Only the configuration runs again: the
  stamps of what was built and installed from the old one stay, and those files
  with them. `RedoneInOrder` says that what is redone is redone in its place
  and that no step is left out, not that results are made from each other
  again; `StampSound` excepts what was made before a removal by hand.
  `.stamp_downloaded` may stand for a partial file.
- Configuration files: changes menuconfig says were NOT saved go to
  `auto.conf`; after loading a file that does not exist it leaves without
  asking; a save repeated after a refused rename (confdata.c:543) writes an
  empty configuration and reports it as written, as SYMBOL_WRITE was cleared
  the first time. `ConfigKept` holds without refused renames, `NoSilentLoss` in
  addition without loads of missing files.
- Parser: an `if` may be ended in another file (zconf.y:526 checks menus and
  choices only, which `OrderKept` states); an `if` on the last line of the top
  file follows a null pointer; a missing end statement is only warned of.
- makedevs: besides the lost end of a numbering, a range with a start other
  than 0 and an increment other than 1 gets wrong minor numbers (makedevs.c:494
  subtracts the start after it multiplies). No table of this tree or of the
  runs has a line of that second kind (`PlainTable`).
- Images: the fragment of nfs-utils removes `usr/share/man` (nfs-utils.mk:66)
  in the session of every image, after `target-finalize` kept it: where
  nfs-utils is selected, the pages there are in no image although manual pages
  are asked for. A fragment that a killed make left does the same under the
  next configuration, and the stamps keep the pages from coming back.
  `ExactlyAskedFor` excepts them by name (`Unkept`, `dropped`).
- Boxes: after a resize the first button is drawn as the active one, whichever
  is; the input box keeps its scroll offset, a text goes back a screen. A string,
  a load and a save ask again and again on a terminal too small for their box.
  Where the last question does not fit, the changes are dropped. A choice needs
  21 lines, where mconf.c:893 asks for 19. The help of a comment in a
  choice follows a null pointer, and so does a menu whose terminal grows
  while it is scrolled. Lines of a text without a newline at its end are lost
  when it is scrolled sideways.
- gconf: a load adds the rows of the new file to those of the old; show_debug
  and an edited string bring the right tree up to date from the root in every
  view; `update_tree` returns when the last row is removed, and what is to
  follow it appears at the next update; Back after Single, a click in the split
  view before anything was chosen on the left, and a save after two clicks on a
  string that was never set follow null pointers. The window closes although
  the file could not be written. `TreeShown` leaves out the first three.

## 4. Proofs

All theorems hold for every value of the constants that the modules' named
assumptions allow. Type correctness is proved and not a property of a run.

What a fold or a recursive function computes is proved by induction over the
natural numbers. The library's induction theorems have an operator as their
parameter, which the provers cannot instantiate; `SetInduction` in
`RootFsProofs`, `ScreensProofs` and `SessionProofs` says the same of a set. It
rests on every set of natural numbers having a least element, which follows
from the library's theorem that `<` is well-founded. A recursive function is a
`CHOOSE` of one that satisfies its equation: before anything can be said of it,
a proof has to show that there is one.

**PkgInfra.** `TypeCorrect` is unconditional. `StampsInOrder`,
`StampsTellTheTruth`, `DependenciesFirst`, `MadeInstalled` and `StampsProtect`
assume `~KeepGoing`, as they are false with `-k`: make then goes on to a
package whose dependency failed. None of them is inductive. A stamp is touched
because of where make is in its walk, so the inductive invariant
`IInv == TypeInv /\ ControlInv /\ DataInv` first says what the walk knows:
make has seen no failure (`NoFailure`); what is listed before a recipe's target
was brought up to date (`ListedOrder`); what is up to date rests on what is up
to date (`DoneClosed`); a removal is only reached from the goal that asks for
it and nothing is built after it (`RemovalPath`, `AfterRemoval`); and the
stamps of what make went past still exist (`DoneStamped`). Only with these can
`TouchSound`, `StampOrder` and `StampSound` be preserved. The proof has one
lemma per action and conjunct that the action can disturb.

Three theorems are about what a goal promises. `SourceIsComplete`
(`SelectedSourced`) holds with `-k` too, as a target is up to date only with
all its prerequisites (`HumanClosed`), and a file in `DL_DIR` is never removed
(`DlStep`). `CleanIsUninstalled` (`CleanUninstalls`) rests on `UninstallDone`:
what a removal has gone past is gone, and make installs nothing after it.
`RedoneByHand` (`RedoneInOrder`) holds whichever stamps are removed by hand.
Where the commands of a step run follows from `ListedOrder`, `DoneClosed` and
`DoneStamped`. That results are complete is `EntireUnderStamp`: under a stamp a
result goes stale at most, and only a removal that was broken off (`Leaves`
names which) takes it away; `EntireTouch` says that it is there when its stamp
is touched.

**ConfFiles.** `TypeCorrect`, `BuiltAsConfigured` and `AutoIsLast` hold with
all faults and choices. The invariant behind `BuiltAsConfigured` is
`StaleIsMarked`: where `auto.conf` differs from what the consumer was built
with, the symbol's header is newer; it is kept because the headers are touched
first (`SplitDone`). `ConfigurationKept` assumes a tree that was configured
before and no refused rename; `NothingLostSilently` in addition no load of a
missing file; section 3 says what happens without. `FilesReported` and `WriteFull` carry `ConfigurationKept`:
a file is what was last reported or is on its way to `.old`, and what
conf_write writes is what it holds.

**Session.** `SessionTyped`, `NeverStale`, `NothingToSave`, `ReadsBack`,
`OneLineSet`, `ReadsQuietly`, `AsksNothing` and `SettingsTakeEffect` hold for
every menu with `NoCircles`: any number of choices and symbols. The inductive
invariant `IInv`
adds to the properties that what was written are values of the menu and that
the file has them (`SavedGiven`), and that a program starts with nothing set
(`NothingHeld`). Two lemmas carry the proof. `InvisibleDoesNotCount`: settings
of invisible symbols may change, and defaults become settings, without a change
of values, which is why neither `sym_set_tristate_value` nor `conf_read` has to
calculate again. `ReadBack`: the settings a file gives solve the same equations
as those it was written from. For choices they rest on `PossibleIffOpen` (a
choice is on or off whatever was chosen) and `OwnIsPicked`, which follow from
the order of candidates.

`OneSetOfValues` proves `Determined` from `NoCircles`. A symbol depends on no
more than its conditions name (`PlainLocal`, `ChoiceLocal`); so two solutions
that differ would differ first in a group whose needs they agree on
(`SameBelow`), and the solutions for groups that need nothing outside them
join into one, to which another group can be added as long as one is left
(`SomeValues`). `SettingsTakeEffect` needs the same: what a group needs lies
below it, so that setting it changes nothing of that (`NeedsUnchanged`); it
stays visible and unselected, and the member that was set is the first
candidate. That there is one set of values for each setting would not be
enough: a symbol could hide itself.

`CalculatedRight` says that `sym_calc_value` gives these values, and
SYMBOL_WRITE to what `Written` names: for every setting, whatever is asked for
first and whatever values, picks and order there were before. It needs no
reachable state; `CalculationAgrees` (`CalcAgrees`) is what it says of a
session, together with `NeverStale`. The functions call each other without a
visible end, so the proof is in two halves.

- The calculation ends (`CalcWorks`). A symbol is valid from when its
  calculation begins, so that each question inside another is asked with fewer
  symbols left. `Alike(g, h, D)` says that two candidates for the function are
  the same on the caches in D; what calls them is then the same too, on caches
  where one symbol less is valid (`AskAlike` up to `CalculateAlike`). Rounds of
  substitution from any start thus settle after as many rounds as there are
  symbols (`SomeCalc`), and any function with the same equation is the same
  (`CalcWorks`).
- It is right (`AllCorrect`). A symbol that is valid is not yet right: it may
  be one whose calculation goes on, with the preliminary no that
  `sym_calc_value` gives it. `Depends(s)` is all that calculating s can ask
  for, directly or not, and by `NoCircles` it does not have s itself
  (`DependsClosed`). The induction, on how many symbols are not valid, is
  therefore about closed sets of symbols of which the valid ones are right
  (`Sound`). What a calculation does to the cache is `Leads(x, k, r)`: valid
  symbols other than x stay what they are, those that become valid are right,
  and members of a choice that was not calculated are not marked. It composes
  (`LeadsOn`), which carries it through a search for a default or a member
  (`DefaultRight`, `ChoiceRight`). The one place where the code does ask for
  what is in progress is a choice that looks at its members, whose visibility
  depends on the choice: there the choice is valid and counts as on, which is
  what `Possible` says.

**RootFs, ImageStore.** `TypeCorrect`, `OneProduct` (`OneImage`), `Complete`
(`NothingMissing`) and `Implements`: every step of `RootFs` is a step or a
stutter of `ImageStore`, and its first states are first states there. The
invariant behind them says where make is: `Steps` (which files each step of a
recipe may find), `SkeletonThere` and `ProgramsThere` (what the tree holds once
make is past the targets that put it there), `PackagesMade`, `Drawing` and
`Packing` (which images this make has drawn, compressed and copied so far).
`NothingMissing` alone is not inductive: an image is complete because the tree
was when it was drawn, and that because of the order of `Targets`
(`TargetsAssumption`).

`NothingStays` (`NothingLeftOver`), `WithDevices` (`DevicesMade`) and `AsAsked`
(`ExactlyAskedFor`) say what else is in an image and what is not. Their
invariant `CInv` adds to the one above: what was installed is in the tree until
it is removed by name (`Installed`); once `target-finalize` is past, the tree
has nothing it takes away (`Finalized`); while one configuration is built, the
tree has nothing another one asked for (`OfOneConfig`); and the images drawn so
far have what they should (`Contents`). The device table enters through
`TableReads`: whatever tree it is read into, it keeps what
is there, adds nothing but the paths it names, and, unless makedevs said that
it failed, leaves every node the loop comes to with the number the table asks
for. That needs that no later line undoes an earlier one and no line gets wrong
minor numbers, which `PlainTable` says and `TableAssumption` assumes of each
configuration; that the end of a numbering may be missing is in `Reached`.
A fragment may take manual pages from the tree after `target-finalize`: while
one configuration is built only those of `Unkept`, as all fragments are then of
packages it selects, and never one of a package that is not in `dropped`.
`TableAssumption` also says that a table names no header, manual page or
`/init`, as those of this tree do not.

`StoreKept` proves of `ImageStore` itself that a make that is done drew what
was wanted; with `Implements` it holds of `RootFs`.

**Parser.** `ParserKeepsOrder` (`OrderKept`) holds for all texts, files and
symbols, and whatever `menu_finalize` and `sym_check_deps` make of the tree:
nothing is assumed of `Finalized`, `Usable` and `Circular`. That the links are
right so far does not say that the next entry goes where it belongs: `last` may
be any slot. The invariant `Inv` adds how entries hang together (`Hangs`: each
is below an earlier one, what is below an entry follows it without a gap, and
`next` passes over just that); that `last` is the list of the current block, or
the `next` of its last entry, the only one there that has none (`Fits`); that
the open blocks are inside each other and end with the text so far (`Opened`),
so that after an end statement `last` fits the block around; and that menus and
choices are noted with the file of their entry (`Begun`). `Follower` climbs to
the parent where there is no next; that this ends is that a parent comes before
its entries.

**Screens.** `ScreenIsTrue` (`ScreenTrue`), `LitIsMeant` (`ActsOnLit`),
`FoundAgain` (`ComesBack`) and `ChangesKept` (`EndsAsAsked`) hold for every
menu, table of hot keys, text, string and set of terminal sizes. The first
three need the inductive invariant `IInv`: while the program runs, the
functions that wait are a stack that begins with the main menu or the question
and has a text at most on top (`Calls`), the box is of the function on top, and
what the box holds is right for its kind (`BoxOf`). For each kind that is a
predicate of its own with one lemma for a box that opens, one for a key and one
for a resize:

- `MenuTrue`, `CheckTrue`: the rows are the page from the scroll on, and the
  choice is one of them. `RowsArePage` says that moving the rows that are
  shown and printing the missing ones gives the page that would be printed
  anew; `MenuMoves`, `CheckMoves` that the page stays inside the list.
- `InputTrue`: typing and erasing keep the cursor at the end of the text
  (`Types`, `Erases`).
- `TextShown`: some line p is the one the page begins with, and the number of
  lines counted leads back from the position in the text to p (`From`). That is
  what `back_lines` gets right (`GoesBack`), and what fails for a text without
  a newline at its end.

`MenuOpens` and `CheckOpens` say where the highlight is when a box opens, and
`LitIsTaken` that it is on the item the result is about. A message of one
line, which has no newline, opens on any terminal, a long text needs a row:
`BoxOf` therefore also says which terminals have which box open. After a resize
nothing is claimed of what is shown, as section 3 says.

**Only model-checked.** `MakeEnds` and `ConfEnds`, as the prover has no rule
for liveness under fairness. `NormalFormKept`, `DependsSound` and `Implied` of
`MCConfigIn`, `DepsSpread`, `Reachable` and `Determined` of `ConfigIn`, and
`TreeShown` of `Views`: their operators are RECURSIVE ones over expressions,
trees and rows, of which the prover knows nothing; before anything can be
proved of them they have to be functions on data of bounded depth.

## 5. Not modelled

- Package infrastructure: `SPIDER` mode, the `POST_*` hook stamps
  (Makefile.package.in:287), whose guards no package satisfies, a top-level
  `-j`, downloads removed by hand, and the staleness of a package when its
  dependency is rebuilt.
- Configuration files: the line format; in `ConfFiles` symbol dependencies and
  visibility; `KCONFIG_OVERWRITECONFIG`, which
  nothing in the tree sets; two configuration programs at once; equal times
  of files.
- Symbols: values of string, int and hex symbols, ranges, optional choices,
  lines of symbols the menu does not have; `conf` without options and with `-s`.
- Parser: the characters of tokens, and recovery inside a statement.
- menuconfig: colours and themes, wrapping of texts, and what a search finds.
- gconf: which columns are shown, "(NEW)" (which it shows of the symbols that
  are not, line 1177), rows folded in, the text pane. qconf.cc repeats it on Qt
  with slots that call each other through the library; its order is Qt's.
- Images: purging of locales, the post-build script, owners, modes and major
  numbers, the options of the tools.
- The top-level Makefile's configure cache and `distclean`.
- The toolchain: its stamps are plain make rules with prerequisites, one file
  per version of gcc; only how gcc depends on the headers is used, in
  `ConfFiles`. elf2flt and the other helpers are programs of other projects
  that transform ELF files, without state.
- The components listed as `not_modelled` in `PROJECT.json`.

## 6. Plan

1. `Toolchain`: the bootstrap with real prerequisites, composed with the
   headers of `ConfFiles`.
2. Abstract specifications: a store of configurations that `ConfFiles`
   implements where renames are not refused, and `Session` where nothing fails;
   an atomic package build that `PkgInfra` implements.
3. Proofs: `NormalFormKept`, `DepsSpread` and `TreeShown`, with the recursion of
   their modules written as functions; the refinements of 2.
