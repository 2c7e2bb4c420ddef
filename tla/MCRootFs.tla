------------------------------ MODULE MCRootFs ------------------------------
(* Instances of RootFs for TLC. *)
EXTENDS RootFs

(* In the order of the includes: packages, target-finalize, the images in  *)
(* the order of target/*/*.mk, erase-fakeroots.                            *)
MCTargets == <<"root", "app", "lib", "nfs", "finalize", "cpio", "ext2", "iso", "tar", "erase">>

MCSkeleton == << <<"bin">>, <<"dev">>, <<"usr">> >>

Line(type, name, minor, start, increment, count) ==
    [type |-> type, at |-> name, minor |-> minor, start |-> start,
     increment |-> increment, count |-> count]

(* Lines of device_table.txt with smaller counts: a directory, a disk and  *)
(* its partitions, a range with an increment, a node below a directory     *)
(* that is made by another line.                                           *)
FullTable == << Line("skip", <<>>, 0, 0, 0, 0),
                Line("d", <<"dev">>, 0, 0, 0, 0),
                Line("d", <<"dev", "input">>, 0, 0, 0, 0),
                Line("b", <<"dev", "hda">>, 0, 0, 0, 0),
                Line("b", <<"dev", "hda">>, 1, 1, 1, 3),
                Line("c", <<"dev", "mtd">>, 0, 0, 2, 2),
                Line("c", <<"dev", "input", "mice">>, 63, 0, 0, 0) >>

MiniTable == << Line("d", <<"dev">>, 0, 0, 0, 0),
                Line("b", <<"dev", "hda">>, 0, 0, 0, 0) >>

Config(pkgs, images, keep, table) ==
    [pkgs |-> pkgs, images |-> images, keep |-> keep, table |-> table]

MCConfigs == { Config({"app", "nfs"}, {"ext2", "iso", "cpio"}, {}, FullTable),
               Config({"app"}, {"ext2", "tar"}, {"devel", "manual"}, MiniTable),
               Config({"app", "lib", "nfs"}, {"ext2"}, {"manual"}, MiniTable) }
=============================================================================
