SPECIFICATION FairSpec
CONSTANTS
    app = app
    hosttool = hosttool
    Pkg = {app}
    File = {app}
    Top = Top
    NoFile = NoFile
    NoGoal = NoGoal
    Deps <- NoDeps
    HostPkg = {}
    InstallStaging = {app}
    InstallTarget = {app}
    LocalPatches = {app}
    SourceFile <- OwnFile
    PatchFile <- NoPatchFile
    Sites = 2
    Selected <- JustApp
    HostSource <- NoPkgs
    KeepGoing = TRUE
    Asked <- WorldOnly
    ByHand = {}
PROPERTIES
    MakeEnds
