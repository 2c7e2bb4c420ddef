SPECIFICATION Spec
CONSTANTS
    Root = Root
    Null = Null
    a = a
    str = str
    note = note
    menu = menu
    choice = choice
    x = x
    y = y
    deep = deep
    Entry <- MCEntry
    Kind <- MCKind
    Parent <- MCParent
    Cond <- MCCond
    MaxCalls = 5
    Texts <- MCTexts
    Presets <- MCPresets
INVARIANTS TreeShown
CHECK_DEADLOCK FALSE
