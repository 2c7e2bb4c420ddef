CONSTANTS
    Null = Null
    Root = Root
    Load = Load
    Save = Save
    net = net
    host = host
    fast = fast
    tool = tool
    arch = arch
    arm = arm
    old = old
    x86 = x86
    note = note
    Entries <- MCEntries
    Kind <- MCKind
    Above <- MCAbove
    Dep <- MCDep
    HotKey <- MCHotKey
    ListRows <- MCListRows
    FieldWidth <- MCFieldWidth
    MaxLen <- MCMaxLen
    MaxScroll <- MCMaxScroll
    Lengths <- MCLengths
    Heights <- MCHeights
    HelpLines <- MCHelpLines
    MaxMoves <- MCMaxMoves
SPECIFICATION Spec
INVARIANTS
    ScreenTrue
    EndsAsAsked
PROPERTIES
    ActsOnLit
    ComesBack
CHECK_DEADLOCK FALSE
