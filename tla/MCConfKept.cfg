CONSTANTS
    a = a
    b = b
    Sym = {a}
    alt = alt
    Alt = {alt}
    Main = Main
    NoFile = NoFile
    Empty = Empty
    Default <- AllOff
    Shipped <- OnlyA
    Presets <- MCPresets
    Used = TRUE
    Choices = {"save_as", "load", "decline"}
    Faults = {"kill", "display", "create", "touch"}
SPECIFICATION Spec
INVARIANTS ConfigKept NoSilentLoss
