SPECIFICATION SpecBoth
CONSTANTS
    BoolSym = {"A", "C"}
    TriSym = {"B"}
    ChoiceSym <- MCChoiceSym
    Files = {"f", "g"}
    Top = "f"
    Conditions <- MCConditions
    Options <- MCOptions
    MaxStatements = 5
    Terms <- MCTerms
    MaxTerms = 3
    Finalized <- FinalizeRoot
    Usable <- WellFormed
    Circular <- SomeCircle
CHECK_DEADLOCK FALSE
INVARIANTS OrderKept DepsSpread Reachable Determined NormalFormKept DependsSound Implied
