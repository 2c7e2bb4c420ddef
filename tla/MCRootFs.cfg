CONSTANTS
    Pkg = {"app", "lib", "nfs"}
    Image = {"cpio", "ext2", "iso", "tar"}
    Configs <- MCConfigs
    FragPkg = {"nfs"}
    SharePkg = {"app"}
    Targets <- MCTargets
    Skeleton <- MCSkeleton
    Linked = {"cpio"}
    Packed = {"ext2", "tar"}
    CopyTo = {"ext2", "tar"}
    RawCopy = {"tar"}
    Carrier = "iso"
    Carried = "ext2"
    Faults = {"kill", "copy", "mknod", "clean"}
    MaxCommands = 3
CHECK_DEADLOCK FALSE
SPECIFICATION Spec
INVARIANTS OneImage NothingMissing NothingLeftOver DevicesMade 
PROPERTIES ImplementsStore
