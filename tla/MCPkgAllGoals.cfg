SPECIFICATION Spec
CONSTANTS
    app = app
    hosttool = hosttool
    Pkg = {app}
    File = {app}
    Top = Top
    NoFile = NoFile
    NoGoal = NoGoal
    Deps <- NoDeps
    HostPkg = {}
    InstallStaging = {app}
    InstallTarget = {app}
    LocalPatches = {app}
    SourceFile <- OwnFile
    PatchFile <- NoPatchFile
    Sites = 1
    Selected <- JustApp
    HostSource <- NoPkgs
    KeepGoing = FALSE
    Asked <- AllGoals
    ByHand = {}
INVARIANTS
    StampSound
    StampOrder
    CleanUninstalls
PROPERTIES
    StampProtects
