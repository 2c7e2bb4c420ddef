------------------------------- MODULE RootFs -------------------------------
(***************************************************************************)
(* The target directory and the images made of it: the part of a top-level *)
(* make that copies the skeleton ($(BUILD_DIR)/.root), installs packages,  *)
(* cleans up (target-finalize) and runs an image tool per selected file    *)
(* system under fakeroot (target/*/*.mk), and make clean.                  *)
(*                                                                         *)
(* make takes the targets one after the other, in the order the Makefiles  *)
(* added them to TARGETS; one action per command that can be told apart    *)
(* when make is killed or the command fails.  The developer configures     *)
(* between makes.  Packages are reduced to three files: a program, a       *)
(* header and a manual page (PkgInfra models how they are made).           *)
(***************************************************************************)
EXTENDS MakeDevs, FiniteSets

CONSTANTS
    Pkg, Image,
    Configs,        \* what may be in .config: [pkgs |->, images |->, keep |->, table |->]
    FragPkg,        \* packages installed by a fragment of the fakeroot script (nfs-utils)
    SharePkg,       \* packages with their manual page in usr/share/man; others have usr/man
    Targets,        \* TARGETS in their order, and "root" before them
    Skeleton,       \* the entries of TARGET_SKELETON in the order cp takes them
    Linked,         \* images whose rule makes /init first (cpio, initramfs)
    Packed,         \* images that are compressed
    CopyTo,         \* images with a COPYTO
    RawCopy,        \* those whose COPYTO gets the image, not the compressed one (tar)
    Carrier,        \* the image that carries another one as its initrd (iso9660)
    Carried,        \* that one (ext2)
    Faults,         \* subset of {"kill", "copy", "mknod", "clean"}
    MaxCommands     \* makes and make cleans

Other == {"root", "finalize", "erase"}

ASSUME RootFsAssumption ==
    /\ Pkg \cap Image = {} /\ Pkg \cap Other = {} /\ Image \cap Other = {}
    /\ FragPkg \subseteq Pkg /\ SharePkg \subseteq Pkg
    /\ \A c \in Configs : c.pkgs \subseteq Pkg /\ c.images \subseteq Image
    /\ Targets \in Seq(Pkg \cup Image \cup Other)
    /\ Skeleton \in Seq(Seq(STRING)) /\ \A k \in DOMAIN Skeleton : Len(Skeleton[k]) = 1
    /\ MaxCommands \in Nat

(* The order the includes of the top-level Makefile give TARGETS. *)
ASSUME TargetsAssumption ==
    /\ \A t \in Pkg \cup Image \cup Other : \E k \in DOMAIN Targets : Targets[k] = t
    /\ \A j, k \in DOMAIN Targets :
          /\ Targets[j] = Targets[k] => j = k
          /\ j < k => /\ Targets[k] # "root" /\ Targets[j] # "erase"
                      /\ Targets[j] = "finalize" => Targets[k] \notin Pkg
                      /\ Targets[j] \in Image => Targets[k] # "finalize"
                      /\ Targets[j] = Carrier => Targets[k] # Carried

(* BR2_TARGET_ROOTFS_ISO9660 selects BR2_TARGET_ROOTFS_EXT2. *)
ASSUME CarrierAssumption ==
    /\ Carrier \in Image /\ Carried \in Image /\ Carrier # Carried
    /\ Carrier \notin Packed
    /\ \A c \in Configs : Carrier \in c.images => Carried \in c.images

VARIABLES
    config,     \* the .config of the make
    phase,      \* "idle", "making", "done", "failed" or "cleaning"
    at, step,   \* the target being made, by its place in Targets, and how far it is
    target,     \* TARGET_DIR, a tree
    staged,     \* the packages with a header in STAGING_DIR
    root,       \* $(BUILD_DIR)/.root exists
    installed,  \* the packages whose stamp says they are in TARGET_DIR
    fragments,  \* the .fakeroot.* files of packages in BUILD_DIR
    image,      \* what each image tool wrote
    archive,    \* the compressed images
    copied,     \* what was copied to each COPYTO
    commands,   \* the makes and make cleans so far, against MaxCommands
    spoiled,    \* history: "skeleton" or "clean" was broken off
    dropped,    \* history: packages whose manual page was removed after they were installed
    said,       \* history: images for which makedevs complained
    fresh       \* history: no configuration but this one was built since the last clean

tool == <<image, archive, copied>>
past == <<spoiled, dropped, said, fresh>>
vars == <<config, phase, at, step, target, staged, root, installed, fragments,
          tool, commands, past>>

-----------------------------------------------------------------------------
NoTree == <<>>

(* A file: run is the command whose tool wrote what it holds. *)
NoFile == [state |-> "none", tree |-> NoTree, run |-> 0]
Damaged == [state |-> "broken", tree |-> NoTree, run |-> 0]
Whole(t) == [state |-> "whole", tree |-> t, run |-> commands]

Entry == {PathOf(Skeleton[k]) : k \in DOMAIN Skeleton}
Bin == PathOf(<<"bin">>)
InitLink == PathOf(<<"init">>)
Program(p) == PathOf(<<"bin", p>>)
Header(p) == PathOf(<<"usr", "include", p>>)
Manual(p) == PathOf(IF p \in SharePkg THEN <<"usr", "share", "man", p>>
                                      ELSE <<"usr", "man", p>>)

Headers == {Header(p) : p \in Pkg}
Manuals == {Manual(p) : p \in Pkg}

(* The device tables are like those of the tree; neither they nor the      *)
(* skeleton bring what the packages install or the rules of images make.   *)
ASSUME TableAssumption ==
    /\ \A c \in Configs : PlainTable(c.table)
    /\ \A c \in Configs : Placed(c.table) \cap (Headers \cup Manuals \cup {InitLink}) = {}
    /\ InitLink \notin Entry

With(t, paths, what) ==
    [q \in DOMAIN t \cup paths |-> IF q \in paths THEN [what |-> what, minor |-> 0] ELSE t[q]]

Without(t, paths) == [q \in DOMAIN t \ paths |-> t[q]]

Current == Targets[at]

Wanted(t) == /\ t \in Pkg => t \in config.pkgs
             /\ t \in Image => t \in config.images

Making(t) == phase = "making" /\ at \in DOMAIN Targets /\ Current = t

Advance == at' = at + 1 /\ step' = 0

Stay == UNCHANGED <<config, phase, commands>>

-----------------------------------------------------------------------------
Init ==
    /\ config \in Configs
    /\ phase = "idle" /\ at = 1 /\ step = 0 /\ commands = 0
    /\ target = NoTree /\ staged = {} /\ root = FALSE
    /\ installed = {} /\ fragments = {}
    /\ image = [i \in Image |-> NoFile] /\ archive = image /\ copied = image
    /\ spoiled = {} /\ dropped = {} /\ said = {} /\ fresh = TRUE

Configure ==
    /\ phase \in {"idle", "done", "failed"}
    /\ config' \in Configs \ {config}
    /\ phase' = "idle"
    /\ fresh' = (fresh /\ target = NoTree /\ ~root /\ installed = {} /\ fragments = {})
    /\ UNCHANGED <<at, step, target, staged, root, installed, fragments, tool,
                   commands, spoiled, dropped, said>>

Make ==
    /\ phase \in {"idle", "done", "failed"}
    /\ commands < MaxCommands /\ commands' = commands + 1
    /\ phase' = "making" /\ at' = 1 /\ step' = 0
    /\ UNCHANGED <<config, target, staged, root, installed, fragments, tool, past>>

(* A target that .config does not ask for is not in TARGETS. *)
Skip ==
    /\ phase = "making" /\ at \in DOMAIN Targets /\ ~Wanted(Current)
    /\ Advance /\ Stay
    /\ UNCHANGED <<target, staged, root, installed, fragments, tool, past>>

Finish ==
    /\ phase = "making" /\ at = Len(Targets) + 1
    /\ phase' = "done"
    /\ UNCHANGED <<config, at, step, target, staged, root, installed, fragments,
                   tool, commands, past>>

(* $(BUILD_DIR)/.root: the skeleton is copied unless there is a bin. *)
TestBin ==
    /\ Making("root") /\ step = 0
    /\ IF root THEN Advance
       ELSE /\ step' = IF Bin \in DOMAIN target THEN Len(Skeleton) + 1 ELSE 1
            /\ UNCHANGED at
    /\ Stay
    /\ UNCHANGED <<target, staged, root, installed, fragments, tool, past>>

(* cp leaves out an entry it cannot copy; what follows it in the shell     *)
(* decides the status of the command.                                      *)
CopyEntry ==
    /\ Making("root") /\ step \in 1..Len(Skeleton)
    /\ \/ /\ target' = With(target, {PathOf(Skeleton[step])}, "d")
          /\ UNCHANGED spoiled
       \/ /\ "copy" \in Faults
          /\ spoiled' = spoiled \cup {"skeleton"}
          /\ UNCHANGED target
    /\ step' = step + 1
    /\ Stay
    /\ UNCHANGED <<at, staged, root, installed, fragments, tool, dropped, said, fresh>>

TouchRoot ==
    /\ Making("root") /\ step = Len(Skeleton) + 1
    /\ root' = TRUE
    /\ Advance /\ Stay
    /\ UNCHANGED <<target, staged, installed, fragments, tool, past>>

Install(p) ==
    /\ Making(p) /\ p \in config.pkgs
    /\ IF p \in FragPkg
       THEN /\ fragments' = fragments \cup {p}
            /\ UNCHANGED <<target, staged, installed, dropped>>
       ELSE /\ IF p \in installed THEN UNCHANGED <<target, staged, installed, dropped>>
               ELSE /\ target' = With(With(target, {Program(p)}, "raw"),
                                      {Header(p), Manual(p)}, "f")
                    /\ staged' = staged \cup {p}
                    /\ installed' = installed \cup {p}
                    /\ dropped' = dropped \ {p}
            /\ UNCHANGED fragments
    /\ Advance /\ Stay
    /\ UNCHANGED <<root, tool, spoiled, said, fresh>>

(* target-finalize *)
(* Mutated form: what HAVE_DEVFILES brought is left when it is off. *)
OnlyAdd(t) == IF "devel" \in config.keep THEN With(t, {Header(p) : p \in staged}, "f") ELSE t

Develop(t) == IF "devel" \in config.keep THEN With(t, {Header(p) : p \in staged}, "f")
              ELSE Without(t, Headers)

Document(t) == IF "manual" \in config.keep THEN t ELSE Without(t, Manuals)

Strip(t) == [q \in DOMAIN t |-> IF t[q].what = "raw" THEN [what |-> "f", minor |-> 0]
                                ELSE t[q]]

Finalize ==
    /\ Making("finalize")
    /\ target' = Strip(Document(Develop(target)))
    /\ dropped' = IF "manual" \in config.keep THEN dropped ELSE dropped \cup installed
    /\ Advance /\ Stay
    /\ UNCHANGED <<staged, root, installed, fragments, tool, spoiled, said, fresh>>

-----------------------------------------------------------------------------
(* The rule of an image: what has to be there first, the script run under  *)
(* fakeroot (the fragments, chown, makedevs, the tool), then compression   *)
(* and the copy.                                                           *)

Linking(i, t) == IF i \in Linked THEN With(t, {InitLink}, "f") ELSE t

(* The fragment of nfs-utils does not only install: it removes all of      *)
(* usr/share/man (and files of its own), whoever put it there.             *)
Swept == IF fragments = {} THEN {} ELSE SharePkg

Fragmented(t) == With(Without(t, {Manual(p) : p \in Swept}),
                      {Program(p) : p \in fragments}, "raw")

(* The script goes on whatever makedevs returns. *)
Populated(t, full) == ReadTable(t, full, config.table)

(* What is on the disk of what the session saw. *)
OnDisk(t) == [q \in DOMAIN t |-> IF t[q].what \in NodeTypes THEN [what |-> "f", minor |-> 0]
                                 ELSE t[q]]

(* What ends up in the images directory, and in COPYTO. *)
Product(i) == IF i \in Packed THEN archive[i] ELSE image[i]

CopySource(i) == IF i \in RawCopy THEN image[i] ELSE Product(i)

(* Mutated form: a compressed file that is there is not made again. *)
PackOnce(i) ==
    \/ step = 0 /\ i \in Packed /\ archive[i].state = "none" /\ step' = 1 /\ UNCHANGED at
    \/ /\ (step = 0 /\ archive[i].state # "none") \/ (step = 0 /\ i \notin Packed) \/ step = 1
       /\ i \in CopyTo /\ step' = 2 /\ UNCHANGED at
    \/ /\ (step = 0 /\ archive[i].state # "none") \/ (step = 0 /\ i \notin Packed) \/ step = 1
       /\ i \notin CopyTo /\ Advance
    \/ step = 2 /\ Advance

(* Mutated form: copied before it is compressed. *)
CopyFirst(i) ==
    \/ step = 0 /\ i \in CopyTo /\ step' = 2 /\ UNCHANGED at
    \/ /\ (step = 0 /\ i \notin CopyTo) \/ step = 2
       /\ i \in Packed /\ step' = 1 /\ UNCHANGED at
    \/ /\ (step = 0 /\ i \notin CopyTo) \/ step = 2
       /\ i \notin Packed /\ Advance
    \/ step = 1 /\ Advance

Proceed(i) ==
    \/ step = 0 /\ i \in Packed /\ step' = 1 /\ UNCHANGED at
    \/ /\ (step = 0 /\ i \notin Packed) \/ step = 1
       /\ i \in CopyTo /\ step' = 2 /\ UNCHANGED at
    \/ /\ (step = 0 /\ i \notin Packed) \/ step = 1
       /\ i \notin CopyTo /\ Advance
    \/ step = 2 /\ Advance

(* What a session does: the tree the tool reads, whether makedevs spoke. *)
Session(i, full) ==
    IF i = Carrier THEN [tree |-> Fragmented(target), said |-> FALSE]
    ELSE Populated(Fragmented(Linking(i, target)), full)

RunScript(i) ==
    /\ Making(i) /\ i \in config.images /\ step = 0
    /\ \E full \in IF "mknod" \in Faults THEN BOOLEAN ELSE {FALSE} :
          LET s == Session(i, full)
          IN  /\ target' = OnDisk(s.tree)
              /\ image' = [image EXCEPT ![i] = IF i = Carrier THEN Product(Carried)
                                               ELSE Whole(s.tree)]
              /\ said' = IF s.said THEN said \cup {i} ELSE said \ {i}
    /\ dropped' = dropped \cup (installed \cap Swept)
    /\ Proceed(i) /\ Stay
    /\ UNCHANGED <<staged, root, installed, fragments, archive, copied, spoiled, fresh>>

Compress(i) ==
    /\ Making(i) /\ i \in config.images /\ step = 1
    /\ archive' = [archive EXCEPT ![i] = image[i]]
    /\ Proceed(i) /\ Stay
    /\ UNCHANGED <<target, staged, root, installed, fragments, image, copied, past>>

CopyOut(i) ==
    /\ Making(i) /\ i \in config.images /\ step = 2
    /\ copied' = [copied EXCEPT ![i] = CopySource(i)]
    /\ Proceed(i) /\ Stay
    /\ UNCHANGED <<target, staged, root, installed, fragments, image, archive, past>>

EraseFakeroots ==
    /\ Making("erase")
    /\ fragments' = {}
    /\ Advance /\ Stay
    /\ UNCHANGED <<target, staged, root, installed, tool, past>>

-----------------------------------------------------------------------------
(* A command fails, or make is killed: the file being written is broken.   *)
BreakCopy ==
    /\ Making("root") /\ step \in 1..Len(Skeleton)
    /\ target' \in {target, With(target, {PathOf(Skeleton[step])}, "d")}
    /\ spoiled' = IF Bin \in DOMAIN target' THEN spoiled \cup {"skeleton"} ELSE spoiled
    /\ UNCHANGED <<tool, fragments, dropped>>

BreakImage(i) ==
    /\ Making(i) /\ i \in config.images
    /\ \/ /\ step = 0
          /\ image' = [image EXCEPT ![i] = Damaged]
          /\ \/ target' = Linking(i, target) /\ UNCHANGED dropped
             \/ /\ target' = OnDisk(Session(i, FALSE).tree)
                /\ dropped' = dropped \cup (installed \cap Swept)
          /\ UNCHANGED <<archive, copied>>
       \/ /\ step = 1
          /\ archive' = [archive EXCEPT ![i] = Damaged]
          /\ UNCHANGED <<target, image, copied, dropped>>
       \/ /\ step = 2
          /\ copied' = [copied EXCEPT ![i] = Damaged]
          /\ UNCHANGED <<target, image, archive, dropped>>
    /\ UNCHANGED <<spoiled, fragments>>

BreakElse ==
    /\ phase = "making" /\ at \in DOMAIN Targets /\ Wanted(Current) /\ Current \notin Image
    /\ Current = "root" => step \notin 1..Len(Skeleton)
    /\ UNCHANGED <<target, tool, spoiled, fragments, dropped>>

Break ==
    /\ "kill" \in Faults
    /\ BreakCopy \/ BreakElse \/ \E i \in Image : BreakImage(i)
    /\ phase' = "failed"
    /\ UNCHANGED <<config, at, step, staged, root, installed, commands, said, fresh>>

(* make clean: one rm -rf, STAGING_DIR, TARGET_DIR and BINARIES_DIR before *)
(* BUILD_DIR.                                                              *)
Clean ==
    /\ phase \in {"idle", "done", "failed"}
    /\ commands < MaxCommands /\ commands' = commands + 1
    /\ phase' = "cleaning" /\ step' = 0
    /\ UNCHANGED <<config, at, target, staged, root, installed, fragments, tool, past>>

RemoveTarget ==
    /\ phase = "cleaning" /\ step = 0
    /\ target' = NoTree /\ staged' = {}
    /\ image' = [i \in Image |-> NoFile] /\ archive' = image'
    /\ step' = 1
    /\ Stay
    /\ UNCHANGED <<at, root, installed, fragments, copied, past>>

(* Mutated forms: the stamps, or the fragments, are kept elsewhere. *)
KeepStamps ==
    /\ phase = "cleaning" /\ step = 1
    /\ root' = FALSE /\ fragments' = {}
    /\ spoiled' = {} /\ dropped' = {} /\ fresh' = TRUE
    /\ phase' = "idle"
    /\ UNCHANGED <<config, at, step, target, staged, installed, tool, commands, said>>

KeepFragments ==
    /\ phase = "cleaning" /\ step = 1
    /\ root' = FALSE /\ installed' = {}
    /\ spoiled' = {} /\ dropped' = {} /\ fresh' = TRUE
    /\ phase' = "idle"
    /\ UNCHANGED <<config, at, step, target, staged, fragments, tool, commands, said>>

RemoveBuild ==
    /\ phase = "cleaning" /\ step = 1
    /\ root' = FALSE /\ installed' = {} /\ fragments' = {}
    /\ spoiled' = {} /\ dropped' = {} /\ fresh' = TRUE
    /\ phase' = "idle"
    /\ UNCHANGED <<config, at, step, target, staged, tool, commands, said>>

(* rm is killed: some directories of the target, or some of what is in     *)
(* BUILD_DIR, are left.                                                    *)
BreakClean ==
    /\ "clean" \in Faults /\ phase = "cleaning"
    /\ \/ /\ step = 0
          /\ \E gone \in SUBSET {q.at[1] : q \in DOMAIN target} :
                target' = Without(target, {q \in DOMAIN target : q.at[1] \in gone})
          /\ staged' = {}
          /\ UNCHANGED <<root, installed, fragments>>
       \/ /\ step = 1
          /\ root' \in {root, FALSE}
          /\ installed' \in SUBSET installed
          /\ fragments' \in SUBSET fragments
          /\ UNCHANGED <<target, staged>>
    /\ spoiled' = spoiled \cup {"clean"}
    /\ phase' = "failed"
    /\ UNCHANGED <<config, at, step, tool, commands, dropped, said, fresh>>

Next ==
    \/ Configure \/ Make \/ Skip \/ Finish
    \/ TestBin \/ CopyEntry \/ TouchRoot
    \/ \E p \in Pkg : Install(p)
    \/ Finalize
    \/ \E i \in Image : RunScript(i) \/ Compress(i) \/ CopyOut(i)
    \/ EraseFakeroots
    \/ Break
    \/ Clean \/ RemoveTarget \/ RemoveBuild \/ BreakClean

Spec == Init /\ [][Next]_vars
-----------------------------------------------------------------------------
(* The types of the state. *)
FileOK(f) ==
    /\ f = [state |-> f.state, tree |-> f.tree, run |-> f.run]
    /\ f.state \in {"none", "broken", "whole"} /\ f.run \in 0..commands

FilesOK(files) == /\ files = [i \in Image |-> files[i]]
                  /\ \A i \in Image : FileOK(files[i])

TypeOK ==
    /\ config \in Configs
    /\ phase \in {"idle", "making", "done", "failed", "cleaning"}
    /\ at \in 1..(Len(Targets) + 1) /\ step \in Nat
    /\ root \in BOOLEAN /\ fresh \in BOOLEAN
    /\ staged \subseteq Pkg /\ installed \subseteq Pkg \ FragPkg /\ fragments \subseteq FragPkg
    /\ FilesOK(image) /\ FilesOK(archive) /\ FilesOK(copied)
    /\ commands \in 0..MaxCommands
    /\ spoiled \subseteq {"skeleton", "clean"} /\ dropped \subseteq Pkg /\ said \subseteq Image

(* The images whose product this make has written: those whose target is   *)
(* behind it, and the one that is being copied.                            *)
DrawnSoFar == {i \in config.images :
                 \E k \in DOMAIN Targets : Targets[k] = i /\ (k < at \/ (k = at /\ step = 2))}

DrawnBy(f) == CASE f.state = "none" -> 0 [] f.state = "broken" -> -1 [] OTHER -> f.run

Store == INSTANCE ImageStore WITH
             phase <- IF phase \in {"making", "done"} THEN phase ELSE "rest",
             wanted <- config.images, run <- commands,
             product <- [i \in Image |-> DrawnBy(Product(i))], made <- DrawnSoFar

(* The promise of ImageStore is kept: over failures, kills, make clean and *)
(* changes of .config, no make ends well with an image that is missing,    *)
(* broken or of an earlier make, compressed ones and the carried one       *)
(* included.                                                               *)
ImplementsStore == Store!Spec

Made == IF phase = "done" THEN config.images ELSE {}

Content(i) == Product(i).tree

(* After a make that ended well the image, its compressed form and what    *)
(* was copied to COPYTO are one and the same, and the carrier holds the    *)
(* image that is beside it.                                                *)
OneImage ==
    \A i \in Made :
        /\ Product(i) = image[i]
        /\ i \in CopyTo => copied[i] = image[i]
        /\ i = Carrier /\ Carried \in Made => image[i] = Product(Carried)

(* Such an image holds the whole skeleton and the programs of the selected *)
(* packages, whatever was broken off before, but for two things nothing    *)
(* repairs: a copy of the skeleton that left out an entry after bin was    *)
(* there, and a make clean that was broken off.                            *)
NothingMissing ==
    spoiled = {} => \A i \in Made : Entry \cup {Program(p) : p \in config.pkgs}
                                       \subseteq DOMAIN Content(i)

(* What target-finalize takes away is in no image: no header and no manual *)
(* page unless they were asked for, and no program that was not stripped   *)
(* except those a fragment installs, which runs after it.                  *)
NothingLeftOver ==
    \A i \in Made :
        /\ "devel" \notin config.keep => Headers \cap DOMAIN Content(i) = {}
        /\ "manual" \notin config.keep => Manuals \cap DOMAIN Content(i) = {}
        /\ \A q \in DOMAIN Content(i) :
              Content(i)[q].what = "raw" => q \in {Program(p) : p \in FragPkg}

(* Each image holds the device nodes of the table of this configuration    *)
(* that makedevs comes to, as nodes and with their numbers, although they  *)
(* are plain files in the target directory and were made once per image -- *)
(* unless makedevs said that it failed, which ends nothing.                *)
HasNodes(t, nodes) ==
    \A n \in nodes : n.path \in DOMAIN t /\ t[n.path] = [what |-> n.what, minor |-> n.minor]

DevicesMade ==
    \A i \in Made \ (said \cup {Carrier}) :
        HasNodes(Content(i), ReachedNodes(config.table))

(* The same of all nodes of the table, as the usage text of makedevs and   *)
(* the head of device_table.txt describe its lines.                        *)
DevicesDocumented ==
    \A i \in Made \ (said \cup {Carrier}) : HasNodes(Content(i), Nodes(config.table))

(* Of a build directory that was made from nothing with one configuration, *)
(* over whatever makes that failed or were killed, the images hold exactly *)
(* what it asks for, but for what no make gives: the end of a numbering,   *)
(* and, where nfs-utils is selected, the manual pages in usr/share/man,    *)
(* which its fragment removes after target-finalize kept them.  Over       *)
(* changes of the configuration, manual pages that are asked for are there *)
(* unless they were once removed, by target-finalize or by a fragment that *)
(* was left: the stamp of the package keeps them from coming back.         *)
Unkept == IF config.pkgs \cap FragPkg = {} THEN {} ELSE SharePkg

AskedFor ==
    Entry \cup {Program(p) : p \in config.pkgs}
    \cup (IF "devel" \in config.keep THEN {Header(p) : p \in config.pkgs \ FragPkg} ELSE {})
    \cup (IF "manual" \in config.keep THEN {Manual(p) : p \in (config.pkgs \ FragPkg) \ Unkept}
         ELSE {})
    \cup Placed(config.table)

ExactlyAskedFor ==
    spoiled = {} => \A i \in Made \ (said \cup {Carrier}) :
        /\ fresh => DOMAIN Content(i) \ {InitLink} = AskedFor
        /\ "manual" \in config.keep =>
              {Manual(p) : p \in (config.pkgs \ FragPkg) \ dropped} \subseteq DOMAIN Content(i)
=============================================================================
