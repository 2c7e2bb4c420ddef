CONSTANTS
    Pkg = {"app", "lib", "nfs"}
    Image = {"cpio", "ext2", "iso", "tar"}
    Configs <- MCConfigs
    FragPkg = {"nfs"}
    SharePkg = {"app"}
    Targets <- MCTargets
    Skeleton <- MCSkeleton
    Linked = {"cpio"}
    Packed = {"ext2", "tar"}
    CopyTo = {"ext2", "tar"}
    RawCopy = {"tar"}
    Carrier = "iso"
    Carried = "ext2"
    Faults = {}
    MaxCommands = 1
CHECK_DEADLOCK FALSE
SPECIFICATION Spec
INVARIANTS DevicesDocumented
