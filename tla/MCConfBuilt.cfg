CONSTANTS
    a = a
    b = b
    alt = alt
    Sym = {a, b}
    Alt = {}
    Main = Main
    NoFile = NoFile
    Empty = Empty
    Default <- AllOff
    Shipped <- OnlyA
    Presets <- MCPresets
    Used = FALSE
    Choices = {"load_missing", "decline"}
    Faults = {"kill", "display", "touch", "rename"}
SPECIFICATION Spec
INVARIANTS BuiltIsConfigured
PROPERTIES AutoMarksCompletion
