SPECIFICATION Spec
CONSTANTS
    app = app
    hosttool = hosttool
    Pkg = {app, hosttool}
    File = {app, hosttool}
    Top = Top
    NoFile = NoFile
    NoGoal = NoGoal
    Deps <- AppNeedsTool
    HostPkg = {hosttool}
    InstallStaging = {app}
    InstallTarget = {app}
    LocalPatches = {app}
    SourceFile <- OwnFile
    PatchFile <- NoPatchFile
    Sites = 1
    Selected <- JustApp
    HostSource <- NoPkgs
    KeepGoing = FALSE
    Asked <- DepsGoals
    ByHand = {"configured", "built"}
INVARIANTS
    DependenciesInstalled
    MadeIsInstalled
    SelectedSourced
    RedoneInOrder
