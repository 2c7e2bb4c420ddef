------------------------------ MODULE PkgInfra ------------------------------
(***************************************************************************)
(* The package infrastructure of Buildroot, package/Makefile.package.in:   *)
(* GNU make walks the human targets of a package (foo, foo-install,        *)
(* foo-build, ...) and runs the recipes of its stamp files.  No stamp has  *)
(* a prerequisite: what orders download, extraction, patches, configure,   *)
(* build and installation is only the order in which a human target lists  *)
(* its prerequisites, and what is not redone is only what a stamp file     *)
(* says was done.  Between two invocations of make the stamps, the build   *)
(* directory, the installed files and the download directory stay on disk, *)
(* so the module also models commands that fail and a make that is killed  *)
(* in the middle of a recipe.                                              *)
(*                                                                         *)
(* One process acts at a time: a make without -j, whose targets under      *)
(* consideration form a stack, or, when no make runs, the developer.       *)
(***************************************************************************)
EXTENDS Naturals, Sequences, FiniteSets

CONSTANTS
    Pkg,             \* packages handed to GENTARGETS or AUTOTARGETS
    Top,             \* stands for the top-level Makefile in <<Top, "world">>
    File,            \* names of downloaded files
    NoFile,          \* "this package downloads no patch"
    NoGoal,          \* no make has run, or the last one was killed
    Deps,            \* Deps[p]: $(p)_DEPENDENCIES, in the order they are listed
    HostPkg,         \* packages of type host; the others are of type target
    InstallStaging,  \* packages with $(p)_INSTALL_STAGING = YES
    InstallTarget,   \* packages with $(p)_INSTALL_TARGET = YES
    LocalPatches,    \* packages with patches in their package directory
    SourceFile,      \* SourceFile[p]: $(p)_SOURCE in DL_DIR
    PatchFile,       \* PatchFile[p]: $(p)_PATCH in DL_DIR, or NoFile
    Sites,           \* how many sites DOWNLOAD tries: primary, own, backup
    Selected,        \* TARGETS: the packages the configuration selects
    HostSource,      \* HOST_SOURCE: packages whose -source is listed by hand
    KeepGoing,       \* make runs with -k
    Asked,           \* the goals the developer asks make for
    ByHand           \* steps whose stamps the developer removes by hand

ASSUME DepsAssumption == Deps \in [Pkg -> Seq(Pkg)]
ASSUME DepsAcyclic ==
    \E rank \in [Pkg -> 1 .. Cardinality(Pkg)] :
        \A p \in Pkg : \A i \in DOMAIN Deps[p] : rank[Deps[p][i]] < rank[p]
ASSUME SelectedAssumption == Selected \in Seq(Pkg) /\ HostSource \in Seq(Pkg)
ASSUME FileAssumption == /\ SourceFile \in [Pkg -> File]
                         /\ PatchFile \in [Pkg -> File \cup {NoFile}]
                         /\ NoFile \notin File
ASSUME SitesAssumption == Sites \in Nat \ {0}
ASSUME TopAssumption == Top \notin Pkg
ASSUME ModeAssumption == KeepGoing \in BOOLEAN
ASSUME KindAssumption == /\ HostPkg \subseteq Pkg
                         /\ InstallStaging \subseteq Pkg
                         /\ InstallTarget \subseteq Pkg

VARIABLES
    goal,       \* the target on make's command line
    stack,      \* the targets under consideration, the goal first
    done,       \* targets this make has brought up to date
    failed,     \* targets this make could not bring up to date
    line,       \* the recipe line of the target on top of the stack
    site,       \* how many sites the current DOWNLOAD has tried
    stamp,      \* the stamp files on disk
    dl,         \* dl[f]: the state of file f in DL_DIR
    tree,       \* tree[p][s]: what the commands of step s left on disk
    unsettled   \* removals of p begun and not completed (a history)

vars == <<goal, stack, done, failed, line, site, stamp, dl, tree, unsettled>>

-----------------------------------------------------------------------------
(* Names                                                                   *)

\* The steps that leave something on disk besides their stamp.
Work == {"extracted", "patched", "configured", "built",
         "host_installed", "staging_installed", "target_installed"}

Steps == Work \cup {"downloaded"}

\* Recipes whose "stamp" is never created, so they run every time.
Removals == {"uninstalled", "cleaned", "dircleaned"}

\* The human targets of a package.
PkgHuman == {"pkg", "install", "install-host", "install-staging",
             "install-target", "build", "configure", "patch", "extract",
             "depends", "source", "uninstall", "clean", "dirclean"}

Human == PkgHuman \cup {"world"}

Target == (Pkg \X (PkgHuman \cup Steps \cup Removals))
              \cup ({Top} \X {"world", "source"})

\* "stale" is complete, but not made from complete, current inputs.
Quality == {"none", "part", "stale", "good"}

Lines == {"idle", "fetch_source", "fetch_patch", "work", "touch",
          "uninstall_staging", "rm_staging", "uninstall_target", "rm_target",
          "clean", "rm_built", "rm_dir"}

HasPatches(p) == p \in LocalPatches \/ PatchFile[p] # NoFile

-----------------------------------------------------------------------------
(* The target graph                                                        *)

TargetsOf(pkgs, n) == [i \in 1 .. Len(pkgs) |-> <<pkgs[i], n>>]

\* $(1): $(1)-install
PkgPrereqs(p) == << <<p, "install">> >>

\* $(1)-install, by the type of the package
InstallPrereqs(p) ==
    IF p \in HostPkg THEN << <<p, "install-host">> >>
    ELSE << <<p, "install-staging">>, <<p, "install-target">> >>

\* $(1)-install-target, with and without $(2)_INSTALL_TARGET = YES
InstallTargetPrereqs(p) ==
    IF p \in InstallTarget
    THEN << <<p, "build">>, <<p, "target_installed">> >> ELSE << >>

InstallStagingUnbuilt(p) ==
    IF p \in InstallStaging THEN << <<p, "staging_installed">> >> ELSE << >>

\* $(1)-install-staging, with and without $(2)_INSTALL_STAGING = YES
InstallStagingPrereqs(p) ==
    IF p \in InstallStaging
    THEN << <<p, "build">>, <<p, "staging_installed">> >> ELSE << >>

InstallHostBuildsOnly(p) == << <<p, "build">> >>

\* $(1)-install-host: $(1)-build $($(2)_TARGET_INSTALL_HOST)
InstallHostPrereqs(p) == << <<p, "build">>, <<p, "host_installed">> >>

BuildBeforeConfigure(p) == << <<p, "built">>, <<p, "configure">> >>

\* $(1)-build: $(1)-configure $($(2)_TARGET_BUILD)
BuildPrereqs(p) == << <<p, "configure">>, <<p, "built">> >>

\* $(1)-configure: $(1)-patch $($(2)_TARGET_CONFIGURE)
ConfigurePrereqs(p) == << <<p, "patch">>, <<p, "configured">> >>

PatchBeforeExtract(p) == << <<p, "patched">>, <<p, "extract">> >>

\* $(1)-patch: $(1)-extract $($(2)_TARGET_PATCH)
PatchPrereqs(p) == << <<p, "extract">>, <<p, "patched">> >>

\* $(1)-extract: $(1)-depends $($(2)_TARGET_EXTRACT)
ExtractPrereqs(p) == << <<p, "depends">>, <<p, "extracted">> >>

DependsOnSource(p) == << <<p, "source">> >>

\* $(1)-depends: $(1)-source $($(2)_DEPENDENCIES)
DependsPrereqs(p) == << <<p, "source">> >> \o TargetsOf(Deps[p], "pkg")

\* $(1)-source: $($(2)_TARGET_SOURCE)
SourcePrereqs(p) == << <<p, "downloaded">> >>

\* $(1)-uninstall: $(1)-configure $($(2)_TARGET_UNINSTALL)
UninstallPrereqs(p) == << <<p, "configure">>, <<p, "uninstalled">> >>

CleanOnly(p) == << <<p, "configure">>, <<p, "cleaned">> >>

\* $(1)-clean: $(1)-uninstall $($(2)_TARGET_CLEAN)
CleanPrereqs(p) == << <<p, "uninstall">>, <<p, "cleaned">> >>

\* $(1)-dirclean: $($(2)_TARGET_DIRCLEAN)
DircleanPrereqs(p) == << <<p, "dircleaned">> >>

\* world takes up $(TARGETS), to which every selected package adds itself.
WorldPrereqs == TargetsOf(Selected, "pkg")

HostSourceOnly == TargetsOf(HostSource, "source")

\* source: $(TARGETS_SOURCE) $(HOST_SOURCE)
AllSourcePrereqs ==
    TargetsOf(Selected, "source") \o TargetsOf(HostSource, "source")

\* The prerequisites of a target, in the order they are listed.
Prereqs(t) ==
    LET p == t[1]  n == t[2] IN
    CASE n = "world"              -> WorldPrereqs
      [] n = "source" /\ p = Top  -> AllSourcePrereqs
      [] n = "pkg"                -> PkgPrereqs(p)
      [] n = "install"            -> InstallPrereqs(p)
      [] n = "install-host"       -> InstallHostPrereqs(p)
      [] n = "install-staging"    -> InstallStagingPrereqs(p)
      [] n = "install-target"     -> InstallTargetPrereqs(p)
      [] n = "build"              -> BuildPrereqs(p)
      [] n = "configure"          -> ConfigurePrereqs(p)
      [] n = "patch"              -> PatchPrereqs(p)
      [] n = "extract"            -> ExtractPrereqs(p)
      [] n = "depends"            -> DependsPrereqs(p)
      [] n = "source" /\ p # Top  -> SourcePrereqs(p)
      [] n = "uninstall"          -> UninstallPrereqs(p)
      [] n = "clean"              -> CleanPrereqs(p)
      [] n = "dirclean"           -> DircleanPrereqs(p)
      [] OTHER                    -> << >>

\* What a developer may ask make for.
Goals == ({Top} \X {"world", "source"})
            \cup (Pkg \X {"pkg", "source", "uninstall", "clean", "dirclean"})

ASSUME AskedAssumption == Asked \subseteq Goals /\ ByHand \subseteq Work

-----------------------------------------------------------------------------
(* What the recipes do to the disk                                         *)

\* The steps of a package whose result is made from the result of step s.
Later(s) ==
    CASE s = "extracted"  -> Work \ {"extracted"}
      [] s = "patched"    -> Work \ {"extracted", "patched"}
      [] s = "configured" -> Work \ {"extracted", "patched", "configured"}
      [] s = "built" -> {"host_installed", "staging_installed",
                         "target_installed"}
      [] OTHER -> {}

\* Step s of p leaves quality q; what was made from its old result is stale.
Rewrite(p, s, q) ==
    [tree EXCEPT ![p] = [w \in Work |->
        IF w = s THEN q
        ELSE IF w \in Later(s) /\ tree[p][w] = "good" THEN "stale"
        ELSE tree[p][w]]]

PatchFileGood(p) == PatchFile[p] = NoFile \/ dl[PatchFile[p]] = "good"

\* Everything the commands of step s read is complete and current.
InputsGood(p, s) ==
    CASE s = "extracted"  -> dl[SourceFile[p]] = "good"
      [] s = "patched"    -> tree[p]["extracted"] = "good" /\ PatchFileGood(p)
      [] s = "configured" -> tree[p]["patched"] = "good"
      [] s = "built"      -> tree[p]["configured"] = "good"
      [] OTHER            -> tree[p]["built"] = "good"

\* patch-kernel.sh stops at the first reject, and finds one when it runs over
\* a tree its patches were applied to, unless the tree was unpacked again.
CanSucceed(p, s) ==
    CASE s = "extracted" -> dl[SourceFile[p]] # "none"
      [] s = "patched"   -> HasPatches(p) => tree[p]["patched"]
                                                \in {"none", "stale"}
      [] OTHER -> TRUE

\* The part of a tree a broken-off removal of step s leaves.
Remnant(q) == IF q = "none" THEN "none" ELSE "part"

-----------------------------------------------------------------------------
Init == /\ goal = NoGoal
        /\ stack = << >>
        /\ done = {}
        /\ failed = {}
        /\ line = "idle"
        /\ site = 0
        /\ stamp = {}
        /\ dl = [f \in File |-> "none"]
        /\ tree = [p \in Pkg |-> [w \in Work |-> "none"]]
        /\ unsettled = {}

Cur == stack[Len(stack)]

Pop == SubSeq(stack, 1, Len(stack) - 1)

disk == <<stamp, dl, tree>>

\* The target on top of the stack is up to date: back to what asked for it.
Return == /\ stack' = Pop
          /\ done' = done \cup {Cur}
          /\ line' = "idle"
          /\ UNCHANGED <<goal, failed>>

\* The developer types make g.
StartMake(g) ==
    /\ stack = << >>
    /\ goal' = g
    /\ stack' = <<g>>
    /\ done' = {}
    /\ failed' = {}
    /\ UNCHANGED <<line, site, disk, unsettled>>

\* make takes up the first prerequisite it has not dealt with.
Consider(i) ==
    /\ stack # << >>
    /\ line = "idle"
    /\ i \in DOMAIN Prereqs(Cur)
    /\ \A j \in 1 .. i - 1 : Prereqs(Cur)[j] \in done \cup failed
    /\ Prereqs(Cur)[i] \notin done \cup failed
    /\ stack' = Append(stack, Prereqs(Cur)[i])
    /\ UNCHANGED <<goal, done, failed, line, site, disk, unsettled>>

\* A human target has no recipe: it is up to date with its prerequisites.
FinishHuman ==
    /\ stack # << >>
    /\ Cur[2] \in Human
    /\ \A i \in DOMAIN Prereqs(Cur) : Prereqs(Cur)[i] \in done
    /\ Return
    /\ UNCHANGED <<site, disk, unsettled>>

\* With -k, a target one of whose prerequisites failed is given up only when
\* all of them have been tried.
GiveUp ==
    /\ stack # << >>
    /\ Cur[2] \in Human
    /\ \A i \in DOMAIN Prereqs(Cur) : Prereqs(Cur)[i] \in done \cup failed
    /\ \E i \in DOMAIN Prereqs(Cur) : Prereqs(Cur)[i] \in failed
    /\ stack' = Pop
    /\ failed' = failed \cup {Cur}
    /\ UNCHANGED <<goal, done, line, site, disk, unsettled>>

UpToDateForgotten ==
    /\ stack # << >>
    /\ line = "idle"
    /\ Cur \in stamp
    /\ stack' = Pop
    /\ UNCHANGED <<goal, done, failed, line, site, disk, unsettled>>

\* A stamp file that exists is up to date: it has no prerequisites.
UpToDate ==
    /\ stack # << >>
    /\ line = "idle"
    /\ Cur \in stamp
    /\ Return
    /\ UNCHANGED <<site, disk, unsettled>>

FirstLine(s) ==
    CASE s = "downloaded"  -> "fetch_source"
      [] s \in Work        -> "work"
      [] s = "uninstalled" -> "uninstall_staging"
      [] s = "cleaned"     -> "clean"
      [] OTHER             -> "rm_dir"

BeginRecipeAlways ==
    /\ stack # << >>
    /\ line = "idle"
    /\ Cur[2] \in Steps \cup Removals
    /\ line' = FirstLine(Cur[2])
    /\ unsettled' = IF Cur[2] \in Removals THEN unsettled \cup {Cur}
                                           ELSE unsettled
    /\ UNCHANGED <<goal, stack, done, failed, site, disk>>

\* A stamp file that does not exist: its recipe starts.
BeginRecipe ==
    /\ stack # << >>
    /\ line = "idle"
    /\ Cur[2] \in Steps \cup Removals
    /\ Cur \notin stamp
    /\ line' = FirstLine(Cur[2])
    /\ unsettled' = IF Cur[2] \in Removals THEN unsettled \cup {Cur}
                                           ELSE unsettled
    /\ UNCHANGED <<goal, stack, done, failed, site, disk>>

-----------------------------------------------------------------------------
(* .stamp_downloaded                                                       *)

Fetching == line \in {"fetch_source", "fetch_patch"}

FetchedFile == IF line = "fetch_source" THEN SourceFile[Cur[1]]
                                        ELSE PatchFile[Cur[1]]

AfterFetch == IF line = "fetch_source" /\ PatchFile[Cur[1]] # NoFile
              THEN "fetch_patch" ELSE "touch"

\* test -e: a file that exists, whatever is in it, is not downloaded again.
TestE ==
    /\ stack # << >>
    /\ Fetching
    /\ site = 0
    /\ IF dl[FetchedFile] # "none"
       THEN line' = AfterFetch /\ site' = 0
       ELSE line' = line /\ site' = 1
    /\ UNCHANGED <<goal, stack, done, failed, disk, unsettled>>

\* wget succeeds and the loop exits.  When an earlier site left a partial
\* file, wget saves what it gets under another name and the partial file stays.
WgetOk ==
    /\ stack # << >>
    /\ Fetching
    /\ site > 0
    /\ dl' = [dl EXCEPT ![FetchedFile] = IF @ = "none" THEN "good" ELSE @]
    /\ line' = AfterFetch
    /\ site' = 0
    /\ UNCHANGED <<goal, stack, done, failed, stamp, tree, unsettled>>

\* What a broken-off wget leaves of the file.
WgetRemnant == \E q \in {"none", "part"} :
    dl' = [dl EXCEPT ![FetchedFile] = IF @ = "none" THEN q ELSE @]

\* wget fails and the loop goes on to the next site.
WgetNextSite ==
    /\ stack # << >>
    /\ Fetching
    /\ site > 0
    /\ site < Sites
    /\ WgetRemnant
    /\ site' = site + 1
    /\ UNCHANGED <<goal, stack, done, failed, line, stamp, tree, unsettled>>

-----------------------------------------------------------------------------
(* The other recipes, line by line                                         *)

\* The commands and hooks of a build step all succeed.
RunWork ==
    /\ stack # << >>
    /\ line = "work"
    /\ LET p == Cur[1]  s == Cur[2] IN
       /\ CanSucceed(p, s)
       /\ tree' = Rewrite(p, s, IF InputsGood(p, s) THEN "good" ELSE "stale")
    /\ line' = "touch"
    /\ UNCHANGED <<goal, stack, done, failed, site, stamp, dl, unsettled>>

\* $(Q)touch $@
Touch ==
    /\ stack # << >>
    /\ line = "touch"
    /\ stamp' = stamp \cup {Cur}
    /\ Return
    /\ UNCHANGED <<site, dl, tree, unsettled>>

\* $($(PKG)_UNINSTALL_STAGING_CMDS), then the same for the target directory.
UninstallFiles(s, this, next) ==
    /\ stack # << >>
    /\ line = this
    /\ tree' = [tree EXCEPT ![Cur[1]][s] = "none"]
    /\ line' = next
    /\ UNCHANGED <<goal, stack, done, failed, site, stamp, dl, unsettled>>

UninstallStaging ==
    UninstallFiles("staging_installed", "uninstall_staging", "rm_staging")

UninstallTarget ==
    UninstallFiles("target_installed", "uninstall_target", "rm_target")

\* rm -f $($(PKG)_TARGET_INSTALL_STAGING)
RmStagingStamp ==
    /\ stack # << >>
    /\ line = "rm_staging"
    /\ stamp' = stamp \ {<<Cur[1], "staging_installed">>}
    /\ line' = "uninstall_target"
    /\ UNCHANGED <<goal, stack, done, failed, site, dl, tree, unsettled>>

\* rm -f $($(PKG)_TARGET_INSTALL_TARGET) ends the uninstall recipe.
RmTargetStamp ==
    /\ stack # << >>
    /\ line = "rm_target"
    /\ stamp' = stamp \ {<<Cur[1], "target_installed">>}
    /\ unsettled' = unsettled \ {Cur}
    /\ Return
    /\ UNCHANGED <<site, dl, tree>>

\* $($(PKG)_CLEAN_CMDS).  The autotools clean ignores its errors (a leading
\* '-'), so objects may be left.
CleanObjects ==
    /\ stack # << >>
    /\ line = "clean"
    /\ \E q \in {"none", Remnant(tree[Cur[1]]["built"])} :
           tree' = [tree EXCEPT ![Cur[1]]["built"] = q]
    /\ line' = "rm_built"
    /\ UNCHANGED <<goal, stack, done, failed, site, stamp, dl, unsettled>>

\* rm -f $(@D)/.stamp_built ends the clean recipe.
RmBuiltStamp ==
    /\ stack # << >>
    /\ line = "rm_built"
    /\ stamp' = stamp \ {<<Cur[1], "built">>}
    /\ unsettled' = unsettled \ {Cur}
    /\ Return
    /\ UNCHANGED <<site, dl, tree>>

\* The build directory holds the unpacked tree and every stamp of p.
InBuildDir == {"extracted", "patched", "configured", "built"}

StampsOf(p) == {p} \X Steps

\* rm -Rf $(@D)
RmDir ==
    /\ stack # << >>
    /\ line = "rm_dir"
    /\ LET p == Cur[1] IN
       /\ stamp' = stamp \ StampsOf(p)
       /\ tree' = [tree EXCEPT ![p] = [w \in Work |->
                       IF w \in InBuildDir THEN "none" ELSE tree[p][w]]]
       /\ unsettled' = {u \in unsettled : u[1] # p}
    /\ Return
    /\ UNCHANGED <<site, dl>>

-----------------------------------------------------------------------------
(* Failures                                                                *)

\* What is on disk when the current line is broken off: by a command that
\* fails, or by the signal that kills make.
BrokenOff ==
    \/ /\ Fetching /\ site > 0
       /\ WgetRemnant
       /\ UNCHANGED <<stamp, tree>>
    \/ /\ line = "work"
       /\ tree' = Rewrite(Cur[1], Cur[2], "part")
       /\ UNCHANGED <<stamp, dl>>
    \/ /\ line = "uninstall_staging"
       /\ tree' = [tree EXCEPT ![Cur[1]]["staging_installed"] = Remnant(@)]
       /\ UNCHANGED <<stamp, dl>>
    \/ /\ line = "uninstall_target"
       /\ tree' = [tree EXCEPT ![Cur[1]]["target_installed"] = Remnant(@)]
       /\ UNCHANGED <<stamp, dl>>
    \/ /\ line = "clean"
       /\ tree' = [tree EXCEPT ![Cur[1]]["built"] = Remnant(@)]
       /\ UNCHANGED <<stamp, dl>>
    \/ /\ line = "rm_dir"  \* rm -Rf had reached an arbitrary set of files
       /\ \E gone \in SUBSET StampsOf(Cur[1]) : stamp' = stamp \ gone
       /\ tree' = [tree EXCEPT ![Cur[1]] = [w \in Work |->
              IF w \in InBuildDir THEN Remnant(tree[Cur[1]][w])
                                  ELSE tree[Cur[1]][w]]]
       /\ UNCHANGED dl
    \/ /\ \/ line \in {"idle", "touch", "rm_staging", "rm_target", "rm_built"}
          \/ Fetching /\ site = 0
       /\ UNCHANGED disk

\* A command of the recipe fails: make stops, or with -k goes on elsewhere.
\* DOWNLOAD fails when the last site fails.
CommandFails ==
    /\ stack # << >>
    /\ line \in {"work", "uninstall_staging", "uninstall_target", "clean",
                 "rm_dir"}
           \/ (Fetching /\ site = Sites)
    /\ BrokenOff
    /\ line' = "idle"
    /\ site' = 0
    /\ failed' = failed \cup {Cur}
    /\ stack' = IF KeepGoing THEN Pop ELSE << >>
    /\ UNCHANGED <<goal, done, unsettled>>

\* make is killed, or the machine stops.
Kill ==
    /\ stack # << >>
    /\ BrokenOff
    /\ line' = "idle"
    /\ site' = 0
    /\ goal' = NoGoal
    /\ stack' = << >>
    /\ done' = {}
    /\ failed' = {}
    /\ UNCHANGED unsettled

\* The developer changes something step s of p reads and removes the stamp of
\* step s to have it redone.
RemoveStamp(p, s) ==
    /\ stack = << >>
    /\ <<p, s>> \in stamp
    /\ stamp' = stamp \ {<<p, s>>}
    /\ tree' = Rewrite(p, s, "stale")
    /\ unsettled' = unsettled \cup {<<p, "byhand">>}
    /\ goal' = NoGoal
    /\ done' = {}
    /\ failed' = {}
    /\ UNCHANGED <<stack, line, site, dl>>

-----------------------------------------------------------------------------
\* What make does, to the end of its goal.
MakeStep ==
    \/ \E i \in 1 .. (IF stack = << >> THEN 0 ELSE Len(Prereqs(Cur))) :
           Consider(i)
    \/ FinishHuman \/ GiveUp \/ UpToDate \/ BeginRecipe
    \/ TestE \/ WgetOk \/ WgetNextSite
    \/ RunWork \/ Touch
    \/ UninstallStaging \/ RmStagingStamp \/ UninstallTarget \/ RmTargetStamp
    \/ CleanObjects \/ RmBuiltStamp
    \/ RmDir
    \/ CommandFails

Next == \/ MakeStep
        \/ Kill
        \/ \E g \in Asked : StartMake(g)
        \/ \E p \in Pkg, s \in ByHand : RemoveStamp(p, s)

Spec == Init /\ [][Next]_vars

\* Every command make starts ends, in success or failure.
FairSpec == Spec /\ WF_vars(MakeStep)

-----------------------------------------------------------------------------
(* Properties                                                              *)

\* Every variable keeps its type: the stamps are those of recipes that create
\* one, and the stack holds targets of the Makefile.
TypeOK ==
    /\ goal \in Goals \cup {NoGoal}
    /\ stack \in Seq(Target)
    /\ done \subseteq Target
    /\ failed \subseteq Target
    /\ line \in Lines
    /\ site \in 0 .. Sites
    /\ stamp \subseteq Pkg \X Steps
    /\ dl \in [File -> {"none", "part", "good"}]
    /\ tree \in [Pkg -> [Work -> Quality]]
    /\ unsettled \subseteq Pkg \X (Removals \cup {"byhand"})

\* No file p downloads is a partial one.
Whole(p) == /\ dl[SourceFile[p]] # "part"
            /\ PatchFile[p] # NoFile => dl[PatchFile[p]] # "part"

\* The removals that, broken off, can leave the stamp of step s without what
\* it stands for.
Excuses(s) ==
    CASE s \in {"downloaded", "extracted", "patched", "configured"} ->
            {"dircleaned", "byhand"}
      [] s = "built" -> {"dircleaned", "byhand", "cleaned"}
      [] s \in {"staging_installed", "target_installed"} ->
            {"dircleaned", "byhand", "cleaned", "uninstalled"}
      [] OTHER -> {}

Intact(p, s) == Whole(p) /\ \A k \in Excuses(s) : <<p, k>> \notin unsettled

\* What the stamp of step s says was done is on disk, complete and made from
\* complete, current inputs.  No removal touches the installed copy of a host
\* package or its stamp, so a host package that was cleaned and rebuilt stays
\* installed in its old form.
Accomplished(p, s) ==
    CASE s = "downloaded" -> dl[SourceFile[p]] = "good" /\ PatchFileGood(p)
      [] s = "host_installed" -> tree[p][s] \in {"good", "stale"}
      [] OTHER -> tree[p][s] = "good"

\* The stamp files tell the truth, whatever commands failed and whenever make
\* was killed, unless a removal of the package was broken off since its build
\* directory was last removed, or one of its downloads is a partial file.
StampSound == \A p \in Pkg, s \in Steps :
    <<p, s>> \in stamp /\ Intact(p, s) => Accomplished(p, s)

\* The step whose stamp a stamp presupposes.  A host package cleaned after it
\* was installed keeps its installation stamp and loses .stamp_built.
Presupposes(s) ==
    CASE s = "extracted"  -> "downloaded"
      [] s = "patched"    -> "extracted"
      [] s = "configured" -> "patched"
      [] s = "built"      -> "configured"
      [] s = "host_installed" -> "configured"
      [] s \in {"staging_installed", "target_installed"} -> "built"
      [] OTHER -> "downloaded"

\* No step is marked as done before the one it builds on, although no stamp
\* is a prerequisite of another: only the listing order of the human targets,
\* and the order in which uninstall and clean remove stamps, keeps it so.
StampOrder == \A p \in Pkg, s \in Steps :
    /\ <<p, s>> \in stamp
    /\ <<p, "dircleaned">> \notin unsettled
    /\ <<p, "byhand">> \notin unsettled
    => <<p, Presupposes(s)>> \in stamp

\* The installation steps of a package, by its type and its settings.
InstallSteps(p) ==
    IF p \in HostPkg THEN {"host_installed"}
    ELSE (IF p \in InstallStaging THEN {"staging_installed"} ELSE {})
         \cup (IF p \in InstallTarget THEN {"target_installed"} ELSE {})

Installed(p) == \A s \in InstallSteps(p) :
    <<p, s>> \in stamp /\ (Intact(p, s) => Accomplished(p, s))

\* docs/buildroot.html:1068: the dependencies of a package are "guaranteed to
\* be compiled and installed before the configuration of the current package
\* starts".
DependenciesInstalled ==
    stack # << >> /\ line = "work" /\ Cur[2] = "configured" =>
        \A i \in DOMAIN Deps[Cur[1]] : Installed(Deps[Cur[1]][i])

\* A make of packages that ends well leaves everything it was asked for, and
\* everything it needed on the way, installed.
MadeIsInstalled ==
    goal # NoGoal /\ goal[2] \in {"pkg", "world"} =>
        \A p \in Pkg : <<p, "pkg">> \in done => Installed(p)

\* docs/buildroot.html:1577: the -clean target "MUST uninstall all files of
\* the package from $(STAGING_DIR) and from $(TARGET_DIR)"; a later make
\* must not find a stamp that says they are still there.
CleanUninstalls == \A p \in Pkg :
    goal = <<p, "clean">> /\ goal \in done =>
        \A s \in {"staging_installed", "target_installed"} :
            tree[p][s] = "none" /\ <<p, s>> \notin stamp

\* What a stamp protects is not redone or made stale under it: no step of
\* make changes the result of a step whose stamp stays on disk.
StampProtects == [][
    \A p \in Pkg, s \in Work \ {"host_installed"} :
        /\ <<p, s>> \in stamp /\ <<p, s>> \in stamp'
        /\ Intact(p, s) /\ Intact(p, s)'
        => tree'[p][s] = tree[p][s]]_vars

\* Every make comes to an end.
MakeEnds == stack # << >> ~> stack = << >>

-----------------------------------------------------------------------------
(* Parts of an inductive invariant                                         *)

\* The lines of the recipe of a stamp.
RecipeLines(s) ==
    CASE s = "downloaded"  -> {"fetch_source", "fetch_patch", "touch"}
      [] s \in Work        -> {"work", "touch"}
      [] s = "uninstalled" -> {"uninstall_staging", "rm_staging",
                               "uninstall_target", "rm_target"}
      [] s = "cleaned"     -> {"clean", "rm_built"}
      [] s = "dircleaned"  -> {"rm_dir"}
      [] OTHER             -> {}

\* The line that runs is one of the recipe of the target on top of the stack.
LineFits == line # "idle" =>
    /\ stack # << >>
    /\ Cur[1] \in Pkg
    /\ line \in RecipeLines(Cur[2])
    /\ line = "fetch_patch" => PatchFile[Cur[1]] # NoFile
    /\ Cur \notin stamp

\* The human target a recipe's target is listed after.
Before(s) ==
    CASE s = "extracted"   -> "depends"
      [] s = "patched"     -> "extract"
      [] s = "configured"  -> "patch"
      [] s = "built"       -> "configure"
      [] s = "uninstalled" -> "configure"
      [] s = "cleaned"     -> "uninstall"
      [] OTHER             -> "build"

Ordered == (Work \cup Removals) \ {"dircleaned"}

\* make without -k stops at the first failure.
NoFailure == stack # << >> => failed = {}

\* What is listed before a recipe's target is up to date when it is taken up.
ListedOrder == \A i \in DOMAIN stack :
    stack[i][2] \in Ordered => <<stack[i][1], Before(stack[i][2])>> \in done

\* What is up to date rests on what is up to date.
DoneClosed == \A t \in done :
    /\ t[2] \in Human => \A k \in DOMAIN Prereqs(t) : Prereqs(t)[k] \in done
    /\ t[2] \in Ordered => <<t[1], Before(t[2])>> \in done

RemovalNames == {"uninstall", "uninstalled", "clean", "cleaned", "dirclean",
                 "dircleaned"}

RemovalGoals(n) == IF n \in {"dirclean", "dircleaned"} THEN {"dirclean"}
                   ELSE {"uninstall", "clean"}

\* A removal is taken up only for the goal that asks for it.
RemovalPath ==
    /\ \A i \in DOMAIN stack : stack[i][2] \in RemovalNames =>
           /\ \E m \in RemovalGoals(stack[i][2]) : goal = <<stack[i][1], m>>
           /\ \A j \in 1 .. i : stack[j][2] \in RemovalNames
    /\ \A t \in done : t[2] \in RemovalNames =>
           \E m \in RemovalGoals(t[2]) : goal = <<t[1], m>>

\* Once a removal is done nothing is built again by the same make.
AfterRemoval == (\E t \in done : t[2] \in Removals) =>
    \A i \in DOMAIN stack : stack[i][2] \in RemovalNames

\* This make has not come to a removal.
Undisturbed ==
    \/ goal \notin Pkg \X {"uninstall", "clean", "dirclean"}
    \/ /\ stack # << >>
       /\ Cur[2] \notin Removals
       /\ \A t \in done : t[2] \notin Removals

\* The stamps of the steps make has gone past exist.
DoneStamped == Undisturbed =>
    \A t \in done : t[2] \in Steps => t \in stamp

\* An uninstall that is done has removed the stamps of what it uninstalled.
UninstallSeen ==
    /\ \A p \in Pkg : <<p, "uninstalled">> \in done =>
           /\ <<p, "staging_installed">> \notin stamp
           /\ <<p, "target_installed">> \notin stamp
    /\ line \in {"uninstall_target", "rm_target"} =>
           <<Cur[1], "staging_installed">> \notin stamp

RemovalUnsettled ==
    line # "idle" /\ Cur[2] \in Removals => Cur \in unsettled

\* A file make has gone past is there.
FetchSeen ==
    /\ line = "fetch_patch" => dl[SourceFile[Cur[1]]] # "none"
    /\ line = "touch" /\ Cur[2] = "downloaded" =>
           /\ dl[SourceFile[Cur[1]]] # "none"
           /\ PatchFile[Cur[1]] # NoFile => dl[PatchFile[Cur[1]]] # "none"

\* Before the stamp is touched, the work it stands for is there.
TouchSound == line = "touch" /\ Intact(Cur[1], Cur[2]) =>
    Accomplished(Cur[1], Cur[2])

\* The control part: what the stack and the targets already made say.
ControlInv == /\ NoFailure /\ ListedOrder /\ DoneClosed
              /\ RemovalPath /\ AfterRemoval
              /\ DoneStamped /\ UninstallSeen /\ RemovalUnsettled

\* The data part.
DataInv == FetchSeen /\ TouchSound /\ StampOrder /\ StampSound

-----------------------------------------------------------------------------
(* What the documentation says                                             *)

\* The steps that come before step s.
Earlier(s) ==
    CASE s = "downloaded" -> {}
      [] s = "extracted"  -> {"downloaded"}
      [] s = "patched"    -> {"downloaded", "extracted"}
      [] s = "configured" -> {"downloaded", "extracted", "patched"}
      [] s = "built"      -> {"downloaded", "extracted", "patched", "configured"}
      [] OTHER            -> Steps \ {"host_installed", "staging_installed",
                                      "target_installed"}

\* The removals, other than by hand, that broken off leave the stamp of step s
\* without the whole of its result.
Leaves(s) ==
    CASE s = "host_installed" -> {}
      [] s = "built" -> {"dircleaned", "cleaned"}
      [] s \in {"staging_installed", "target_installed"} ->
            {"dircleaned", "uninstalled"}
      [] OTHER -> {"dircleaned"}

\* The result of step s is there and complete, if not made from current inputs.
Entire(p, s) ==
    IF s = "downloaded" THEN dl[SourceFile[p]] = "good" /\ PatchFileGood(p)
    ELSE tree[p][s] \in {"good", "stale"}

Settled(p, s) == Whole(p) /\ \A k \in Leaves(s) : <<p, k>> \notin unsettled

\* docs/buildroot.html:475: the stamps "keep track of which steps have been
\* done and which steps remain to be done", and a developer may remove one.
\* Whichever were removed, and whatever failed or was killed since: the
\* commands of a step run only when every step before it is marked as done,
\* and a make of packages that ends well leaves every step of what it came to
\* marked and its result complete.
RedoneInOrder ==
    /\ stack # << >> /\ line = "work" =>
           \A s \in Earlier(Cur[2]) : <<Cur[1], s>> \in stamp
    /\ goal # NoGoal /\ goal[2] \in {"pkg", "world"} =>
           \A p \in Pkg, i \in {"host_installed", "staging_installed",
                                "target_installed"} :
               <<p, "pkg">> \in done /\ i \in InstallSteps(p) =>
                   \A s \in Earlier(i) \cup {i} :
                       /\ <<p, s>> \in stamp
                       /\ Settled(p, s) => Entire(p, s)

\* docs/buildroot.html:253: "make source" downloads "all sources that you
\* previously selected": after it no selected package is without its source.
SelectedSourced ==
    goal = <<Top, "source">> /\ goal \in done =>
        \A i \in DOMAIN Selected : dl[SourceFile[Selected[i]]] # "none"

=============================================================================
