--------------------------- MODULE PkgGoalsProofs ---------------------------
(***************************************************************************)
(* Proofs about what the goals of a make come to: source has every file,   *)
(* clean leaves nothing installed, and whichever stamps were removed by    *)
(* hand, the steps are redone in their order and none is left out.         *)
(***************************************************************************)
EXTENDS PkgInfraProofs

-----------------------------------------------------------------------------
(* make source                                                             *)

\* A human target is up to date only with its prerequisites, with -k too.
HumanClosed == \A t \in done : t[2] \in Human =>
    \A k \in DOMAIN Prereqs(t) : Prereqs(t)[k] \in done

\* Where make has gone past .stamp_downloaded, or finds it, the source file
\* is in DL_DIR; what it holds is another matter.
DownloadSeen == \A p \in Pkg :
    <<p, "downloaded">> \in stamp \cup done => dl[SourceFile[p]] # "none"

LEMMA HumanClosedStep ==
    ASSUME TypeInv, HumanClosed, [Next]_vars
    PROVE  HumanClosed'
<1>1. CASE FinishHuman
  <2>1. /\ done' = done \cup {Cur}
        /\ \A k \in DOMAIN Prereqs(Cur) : Prereqs(Cur)[k] \in done
    BY <1>1 DEF FinishHuman, Return
  <2> QED BY <2>1 DEF HumanClosed
<1>2. CASE UpToDate \/ Touch \/ RmTargetStamp \/ RmBuiltStamp \/ RmDir
  <2>1. done' = done \cup {Cur}
    BY <1>2 DEF UpToDate, Touch, RmTargetStamp, RmBuiltStamp, RmDir, Return
  <2>2. Cur[2] \in Steps \cup Removals
    BY <1>2, LineNames DEF UpToDate, Touch, RmTargetStamp, RmBuiltStamp, RmDir,
                           TypeInv, TypeOK, Removals
  <2> QED BY <2>1, <2>2, Names DEF HumanClosed
<1>3. CASE ~FinishHuman /\ ~(UpToDate \/ Touch \/ RmTargetStamp \/ RmBuiltStamp
                                 \/ RmDir)
  <2>1. UNCHANGED done \/ done' = {}
    BY <1>3 DEF Next, MakeStep, Consider, GiveUp, BeginRecipe, TestE, WgetOk,
                WgetNextSite, RunWork, UninstallStaging, RmStagingStamp,
                UninstallTarget, UninstallFiles, CleanObjects, CommandFails,
                Kill, StartMake, RemoveStamp, vars
  <2> QED BY <2>1 DEF HumanClosed
<1> QED BY <1>1, <1>2, <1>3

\* A file that is in DL_DIR stays there as it is.
LEMMA DlStep ==
    ASSUME TypeInv, [Next]_vars
    PROVE  DlKept
<1>1. CASE WgetOk \/ WgetNextSite
  BY <1>1 DEF WgetOk, WgetNextSite, WgetRemnant, DlKept, TypeInv, TypeOK
<1>2. CASE CommandFails \/ Kill
  <2>1. WgetRemnant \/ UNCHANGED dl
    BY <1>2 DEF CommandFails, Kill, BrokenOff, disk
  <2> QED BY <2>1 DEF WgetRemnant, DlKept, TypeInv, TypeOK
<1>3. CASE ~(WgetOk \/ WgetNextSite \/ CommandFails \/ Kill)
  BY <1>3 DEF Next, MakeStep, Consider, FinishHuman, GiveUp, UpToDate,
              BeginRecipe, TestE, RunWork, Touch, UninstallStaging,
              RmStagingStamp, UninstallTarget, UninstallFiles, RmTargetStamp,
              CleanObjects, RmBuiltStamp, RmDir, StartMake, RemoveStamp, disk,
              vars, DlKept
<1> QED BY <1>1, <1>2, <1>3

LEMMA DownloadStep ==
    ASSUME TypeInv, FetchSeen, DownloadSeen, [Next]_vars
    PROVE  DownloadSeen'
<1>1. \A p \in Pkg : dl[SourceFile[p]] # "none" => dl'[SourceFile[p]] # "none"
  BY DlStep, FileAssumption DEF DlKept
<1>2. CASE Touch
  <2>1. /\ stamp' = stamp \cup {Cur} /\ done' = done \cup {Cur} /\ dl' = dl
        /\ Cur[2] = "downloaded" => dl[SourceFile[Cur[1]]] # "none"
    BY <1>2 DEF Touch, Return, FetchSeen
  <2> QED BY <2>1 DEF DownloadSeen
<1>3. CASE UpToDate
  <2>1. Cur \in stamp /\ done' = done \cup {Cur} /\ UNCHANGED <<stamp, dl>>
    BY <1>3 DEF UpToDate, Return, disk
  <2> QED BY <2>1 DEF DownloadSeen
<1>4. CASE FinishHuman \/ RmTargetStamp \/ RmBuiltStamp \/ RmDir
  <2>1. done' = done \cup {Cur} /\ stamp' \subseteq stamp
    BY <1>4 DEF FinishHuman, RmTargetStamp, RmBuiltStamp, RmDir, Return, disk
  <2>2. Cur[2] # "downloaded"
    BY <1>4, LineNames, Names
    DEF FinishHuman, RmTargetStamp, RmBuiltStamp, RmDir, Steps
  <2> QED BY <1>1, <2>1, <2>2 DEF DownloadSeen
<1>5. CASE CommandFails \/ Kill
  <2>1. done' \subseteq done /\ stamp' \subseteq stamp
    BY <1>5, StampLoss DEF CommandFails, Kill
  <2> QED BY <1>1, <2>1 DEF DownloadSeen
<1>6. CASE ~(Touch \/ UpToDate \/ FinishHuman \/ RmTargetStamp \/ RmBuiltStamp
                \/ RmDir \/ CommandFails \/ Kill)
  <2>1. done' \subseteq done /\ stamp' \subseteq stamp
    BY <1>6 DEF Next, MakeStep, Consider, GiveUp, BeginRecipe, TestE, WgetOk,
                WgetNextSite, RunWork, UninstallStaging, RmStagingStamp,
                UninstallTarget, UninstallFiles, CleanObjects, StartMake,
                RemoveStamp, disk, vars
  <2> QED BY <1>1, <2>1 DEF DownloadSeen
<1> QED BY <1>2, <1>3, <1>4, <1>5, <1>6

\* A make source that ends well has the source file of every selected package,
\* with or without -k, whatever failed or was killed before.
THEOREM SourceIsComplete == Spec => []SelectedSourced
<1> DEFINE I == TypeInv /\ FetchSeen /\ HumanClosed /\ DownloadSeen
<1>1. Init => I
  BY TypeInit DEF Init, FetchSeen, HumanClosed, DownloadSeen
<1>2. I /\ [Next]_vars => I'
  BY TypeStep, FetchStep, HumanClosedStep, DownloadStep
<1>3. I => SelectedSourced
  <2> SUFFICES ASSUME I, goal = <<Top, "source">>, goal \in done,
                      NEW i \in DOMAIN Selected
               PROVE  dl[SourceFile[Selected[i]]] # "none"
    BY DEF SelectedSourced
  <2> DEFINE p == Selected[i]
             A == TargetsOf(Selected, "source")
             B == TargetsOf(HostSource, "source")
             S == Pkg \X {"source"}
  <2>1. p \in Pkg /\ i \in 1 .. Len(Selected)
    BY SelectedAssumption, ElementOfSeq, LenProperties
  <2>2. Prereqs(goal) = A \o B
    BY TopAssumption DEF Prereqs, AllSourcePrereqs
  <2>3. /\ A \in Seq(S) /\ B \in Seq(S) /\ Len(A) = Len(Selected)
        /\ A[i] = <<p, "source">>
    <3>1. \A q \in Pkg : <<q, "source">> \in S
      OBVIOUS
    <3> HIDE DEF S
    <3> QED BY <2>1, <3>1, TargetsOfType, SelectedAssumption
  <2> HIDE DEF A, B, S
  <2>4. i \in DOMAIN (A \o B) /\ (A \o B)[i] = <<p, "source">>
    <3>1. Len(A) \in Nat /\ Len(B) \in Nat
      BY <2>3, LenProperties
    <3>2. i \in 1 .. Len(A) + Len(B) /\ i <= Len(A)
      BY <2>1, <2>3, <3>1
    <3> QED BY <2>3, <3>1, <3>2, ConcatProperties, LenProperties
  <2>5. <<p, "source">> \in done
    BY <2>2, <2>4 DEF HumanClosed, Human, PkgHuman
  <2>6. /\ Prereqs(<<p, "source">>) = << <<p, "downloaded">> >>
        /\ <<p, "source">>[2] \in Human
    BY <2>1, PrereqTable DEF Human, PkgHuman
  <2>7. <<p, "downloaded">> \in done
    <3>1. \A k \in DOMAIN Prereqs(<<p, "source">>) :
              Prereqs(<<p, "source">>)[k] \in done
      BY <2>5, <2>6 DEF HumanClosed
    <3> QED BY <2>6, <3>1
  <2> QED BY <2>1, <2>7 DEF DownloadSeen
<1> QED BY <1>1, <1>2, <1>3, PTL DEF Spec

-----------------------------------------------------------------------------
(* make foo-clean                                                          *)

FilesGone(p) == /\ tree[p]["staging_installed"] = "none"
                /\ tree[p]["target_installed"] = "none"

\* What an uninstall has gone past is gone: its files, as UninstallSeen says
\* of its stamps.
UninstallDone ==
    /\ \A p \in Pkg : <<p, "uninstalled">> \in done => FilesGone(p)
    /\ line \in {"rm_staging", "uninstall_target", "rm_target"} =>
           tree[Cur[1]]["staging_installed"] = "none"
    /\ line = "rm_target" => tree[Cur[1]]["target_installed"] = "none"

\* The installed files of a package stay away while make does not install it.
LEMMA GoneStays ==
    ASSUME TypeInv, Walk, [Next]_vars, NEW p \in Pkg,
           <<p, "uninstalled">> \in done, done' # {}, FilesGone(p)
    PROVE  FilesGone(p)'
<1>1. stack # << >> => Cur[2] \notin Steps
  BY StepUndisturbed DEF Removals
<1>2. line # "work"
  BY <1>1, LineNames DEF Steps
<1>3. CASE UninstallStaging \/ UninstallTarget
  <2>1. /\ Cur[1] \in Pkg
        /\ \E w \in {"staging_installed", "target_installed"} :
               tree' = [tree EXCEPT ![Cur[1]][w] = "none"]
    BY <1>3, LineNames DEF UninstallStaging, UninstallTarget, UninstallFiles
  <2> QED BY <2>1 DEF FilesGone, TypeInv, TypeOK, Work
<1>4. CASE CleanObjects
  BY <1>4, LineNames DEF CleanObjects, FilesGone, TypeInv, TypeOK, Work
<1>5. CASE RmDir
  BY <1>5, LineNames DEF RmDir, FilesGone, InBuildDir, TypeInv, TypeOK, Work
<1>6. CASE CommandFails
  <2>1. BrokenOff
    BY <1>6 DEF CommandFails
  <2>2. CASE UNCHANGED tree
    BY <2>2 DEF FilesGone
  <2>3. ASSUME line # "idle", NEW w \in Work,
               tree' = [tree EXCEPT ![Cur[1]][w] = Remnant(@)]
        PROVE  FilesGone(p)'
    BY <2>3, LineNames DEF FilesGone, Remnant, TypeInv, TypeOK, Work
  <2>4. CASE /\ line = "rm_dir"
             /\ tree' = [tree EXCEPT ![Cur[1]] = [w \in Work |->
                    IF w \in InBuildDir THEN Remnant(tree[Cur[1]][w])
                                        ELSE tree[Cur[1]][w]]]
    BY <2>4, LineNames DEF FilesGone, InBuildDir, TypeInv, TypeOK, Work
  <2> QED BY <1>2, <2>1, <2>2, <2>3, <2>4 DEF BrokenOff, disk, Work
<1>7. CASE \/ Kill
           \/ \E g \in Asked : StartMake(g)
           \/ \E q \in Pkg, s \in ByHand : RemoveStamp(q, s)
  BY <1>7 DEF Kill, StartMake, RemoveStamp
<1>8. CASE ~(UninstallStaging \/ UninstallTarget \/ CleanObjects \/ RmDir
                 \/ CommandFails \/ Kill
                 \/ (\E g \in Asked : StartMake(g))
                 \/ (\E q \in Pkg, s \in ByHand : RemoveStamp(q, s)))
  <2>1. UNCHANGED tree
    BY <1>2, <1>8
    DEF Next, MakeStep, Consider, FinishHuman, GiveUp, UpToDate, BeginRecipe,
        TestE, WgetOk, WgetNextSite, RunWork, Touch, RmStagingStamp,
        RmTargetStamp, RmBuiltStamp, disk, vars
  <2> QED BY <2>1 DEF FilesGone
<1> QED BY <1>3, <1>4, <1>5, <1>6, <1>7, <1>8

LEMMA UninstallDoneStep ==
    ASSUME TypeInv, Walk, UninstallDone, [Next]_vars
    PROVE  UninstallDone'
<1>1. CASE UninstallStaging
  <2>1. /\ Cur' = Cur /\ Cur[1] \in Pkg /\ line' = "rm_staging"
        /\ tree' = [tree EXCEPT ![Cur[1]]["staging_installed"] = "none"]
        /\ UNCHANGED done
    BY <1>1, LineNames DEF UninstallStaging, UninstallFiles, Cur
  <2>2. \A p \in Pkg : FilesGone(p) => FilesGone(p)'
    BY <2>1 DEF FilesGone, TypeInv, TypeOK, Work
  <2>3. tree'[Cur[1]]["staging_installed"] = "none"
    BY <2>1 DEF TypeInv, TypeOK, Work
  <2> QED BY <2>1, <2>2, <2>3 DEF UninstallDone
<1>2. CASE UninstallTarget
  <2>1. /\ Cur' = Cur /\ Cur[1] \in Pkg /\ line = "uninstall_target"
        /\ line' = "rm_target" /\ UNCHANGED done
        /\ tree' = [tree EXCEPT ![Cur[1]]["target_installed"] = "none"]
    BY <1>2, LineNames DEF UninstallTarget, UninstallFiles, Cur
  <2>2. \A p \in Pkg : FilesGone(p) => FilesGone(p)'
    BY <2>1 DEF FilesGone, TypeInv, TypeOK, Work
  <2>3. FilesGone(Cur[1])'
    BY <2>1 DEF UninstallDone, FilesGone, TypeInv, TypeOK, Work
  <2> QED BY <2>1, <2>2, <2>3 DEF UninstallDone, FilesGone
<1>3. CASE RmStagingStamp
  BY <1>3 DEF RmStagingStamp, UninstallDone, FilesGone, Cur
<1>4. CASE RmTargetStamp
  <2>1. /\ Cur = <<Cur[1], "uninstalled">> /\ done' = done \cup {Cur}
        /\ line' = "idle" /\ tree' = tree /\ FilesGone(Cur[1])
    BY <1>4, LineNames DEF RmTargetStamp, Return, UninstallDone, FilesGone
  <2> QED BY <2>1 DEF UninstallDone, FilesGone
<1>5. CASE ~(UninstallStaging \/ UninstallTarget \/ RmStagingStamp
                 \/ RmTargetStamp)
  <2>0. ~GiveUp
    BY DEF GiveUp, Walk, NoFailure
  <2>1. \A p \in Pkg : <<p, "uninstalled">> \in done' =>
            <<p, "uninstalled">> \in done
    <3>1. CASE FinishHuman \/ UpToDate \/ Touch \/ RmBuiltStamp \/ RmDir
      <4>1. done' = done \cup {Cur}
        BY <3>1 DEF FinishHuman, UpToDate, Touch, RmBuiltStamp, RmDir, Return
      <4>2. Cur[2] # "uninstalled"
        BY <3>1, LineNames, Names
        DEF FinishHuman, UpToDate, Touch, RmBuiltStamp, RmDir, Removals,
            TypeInv, TypeOK
      <4> QED BY <4>1, <4>2
    <3>2. CASE ~(FinishHuman \/ UpToDate \/ Touch \/ RmBuiltStamp \/ RmDir)
      <4>1. UNCHANGED done \/ done' = {}
        BY <1>5, <3>2
        DEF Next, MakeStep, Consider, GiveUp, BeginRecipe, TestE, WgetOk,
            WgetNextSite, RunWork, CleanObjects, CommandFails, Kill, StartMake,
            RemoveStamp, vars
      <4> QED BY <4>1
    <3> QED BY <3>1, <3>2
  <2>2. \A p \in Pkg : <<p, "uninstalled">> \in done' => FilesGone(p)'
    BY <2>1, GoneStays DEF UninstallDone
  <2>3. \/ line' \notin {"rm_staging", "uninstall_target", "rm_target"}
        \/ UNCHANGED <<line, stack, tree>>
    BY <1>5, <2>0
    DEF Next, MakeStep, Consider, FinishHuman, UpToDate, BeginRecipe,
        FirstLine, TestE, AfterFetch, WgetOk, WgetNextSite, Fetching, RunWork,
        Touch, CleanObjects, RmBuiltStamp, RmDir, CommandFails, Kill,
        StartMake, RemoveStamp, Return, disk, vars, TypeInv, LineFits
  <2> QED BY <2>2, <2>3 DEF UninstallDone, Cur
<1> QED BY <1>1, <1>2, <1>3, <1>4, <1>5

\* Without -k, a package whose clean target was made has nothing installed in
\* the staging and target directories, and no stamp that says it has.
THEOREM CleanIsUninstalled ==
    ASSUME ~KeepGoing
    PROVE  Spec => []CleanUninstalls
<1> DEFINE I == TypeInv /\ ControlInv /\ UninstallDone
<1>1. Init => I
  BY TypeInit, ControlInit DEF Init, UninstallDone
<1>2. I /\ [Next]_vars => I'
  BY TypeStep, ControlStep, UninstallDoneStep DEF ControlInv, Walk
<1>3. I => CleanUninstalls
  <2> SUFFICES ASSUME I, NEW p \in Pkg, <<p, "clean">> \in done
               PROVE  /\ FilesGone(p)
                      /\ <<p, "staging_installed">> \notin stamp
                      /\ <<p, "target_installed">> \notin stamp
    BY DEF CleanUninstalls, FilesGone
  <2>1. Prereqs(<<p, "clean">>) = << <<p, "uninstall">>, <<p, "cleaned">> >>
    BY PrereqTable
  <2>2. <<p, "uninstall">> \in done
    <3>1. 1 \in DOMAIN Prereqs(<<p, "clean">>)
      BY <2>1
    <3>2. Prereqs(<<p, "clean">>)[1] \in done
      BY <3>1 DEF ControlInv, DoneClosed, Human, PkgHuman
    <3> QED BY <2>1, <3>2
  <2>3. <<p, "uninstalled">> \in done
    BY <2>2, DoneBelow DEF ControlInv
  <2> QED BY <2>3 DEF UninstallDone, ControlInv, UninstallSeen
<1> QED BY <1>1, <1>2, <1>3, PTL DEF Spec

-----------------------------------------------------------------------------
(* A stamp removed by hand                                                 *)

\* Under a stamp is the whole of the step's result, of whatever inputs.
EntireUnderStamp == \A p \in Pkg, s \in Steps :
    <<p, s>> \in stamp /\ Settled(p, s) => Entire(p, s)

EntireTouch == line = "touch" /\ Settled(Cur[1], Cur[2]) =>
    Entire(Cur[1], Cur[2])

\* Which broken-off removals leave the stamp of a step without its result.
LEMMA LeavesFacts ==
    /\ \A s \in Steps : s # "host_installed" => "dircleaned" \in Leaves(s)
    /\ \A s \in Steps : "uninstalled" \in Leaves(s) <=>
           s \in {"staging_installed", "target_installed"}
    /\ \A s \in Steps : "cleaned" \in Leaves(s) <=> s = "built"
    /\ \A s \in Steps : Leaves(s) \subseteq Removals
BY DEF Steps, Work, Leaves, Removals

\* A stamp that is new is that of the target whose recipe was touched, and no
\* broken-off removal is forgotten while a stamp it speaks of stays.
LEMMA SettledBefore ==
    ASSUME TypeInv, ControlInv, [Next]_vars,
           NEW p \in Pkg, NEW s \in Steps, <<p, s>> \in stamp', Settled(p, s)'
    PROVE  /\ Settled(p, s)
           /\ \/ <<p, s>> \in stamp
              \/ line = "touch" /\ Cur = <<p, s>> /\ UNCHANGED <<dl, tree>>
<1>1. Whole(p)
  BY DlStep, FilesKept DEF Settled, TypeInv
<1>2. \A k \in Leaves(s) : <<p, k>> \notin unsettled
  <2>1. CASE RmDir
    BY <2>1 DEF RmDir, StampsOf, Settled
  <2>2. CASE RmTargetStamp
    <3>1. /\ Cur = <<Cur[1], "uninstalled">> /\ unsettled' = unsettled \ {Cur}
          /\ <<Cur[1], "target_installed">> \notin stamp'
          /\ <<Cur[1], "staging_installed">> \notin stamp'
      BY <2>2, LineNames DEF RmTargetStamp, ControlInv, UninstallSeen
    <3>2. Cur[1] = p => "uninstalled" \notin Leaves(s)
      BY <3>1, LeavesFacts
    <3> QED BY <3>1, <3>2 DEF Settled
  <2>3. CASE RmBuiltStamp
    <3>1. /\ Cur = <<Cur[1], "cleaned">> /\ unsettled' = unsettled \ {Cur}
          /\ <<Cur[1], "built">> \notin stamp'
      BY <2>3, LineNames DEF RmBuiltStamp
    <3>2. Cur[1] = p => "cleaned" \notin Leaves(s)
      BY <3>1, LeavesFacts
    <3> QED BY <3>1, <3>2 DEF Settled
  <2>4. CASE ~(RmDir \/ RmTargetStamp \/ RmBuiltStamp)
    <3>1. unsettled \subseteq unsettled'
      BY <2>4
      DEF Next, MakeStep, Consider, FinishHuman, GiveUp, UpToDate,
          BeginRecipe, TestE, WgetOk, WgetNextSite, RunWork, Touch,
          UninstallStaging, RmStagingStamp, UninstallTarget, UninstallFiles,
          CleanObjects, CommandFails, Kill, StartMake, RemoveStamp, vars
    <3> QED BY <3>1 DEF Settled
  <2> QED BY <2>1, <2>2, <2>3, <2>4
<1>3. \/ <<p, s>> \in stamp
      \/ line = "touch" /\ Cur = <<p, s>> /\ UNCHANGED <<dl, tree>>
  <2>1. CASE Touch
    BY <2>1 DEF Touch
  <2>2. CASE CommandFails \/ Kill
    BY <2>2, StampLoss DEF CommandFails, Kill
  <2>3. CASE ~(Touch \/ CommandFails \/ Kill)
    BY <2>3
    DEF Next, MakeStep, Consider, FinishHuman, GiveUp, UpToDate, BeginRecipe,
        TestE, WgetOk, WgetNextSite, RunWork, UninstallStaging,
        RmStagingStamp, UninstallTarget, UninstallFiles, RmTargetStamp,
        CleanObjects, RmBuiltStamp, RmDir, StartMake, RemoveStamp, disk, vars
  <2> QED BY <2>1, <2>2, <2>3
<1> QED BY <1>1, <1>2, <1>3 DEF Settled

\* Redoing one step, or breaking it off, takes nothing away from another.
LEMMA RewriteLeaves ==
    ASSUME TypeOK, NEW p \in Pkg, NEW v \in Work, NEW q,
           tree' = Rewrite(p, v, q),
           NEW r \in Pkg, NEW s \in Work, <<r, s>> # <<p, v>>
    PROVE  \/ tree'[r][s] = tree[r][s]
           \/ tree[r][s] = "good" /\ tree'[r][s] = "stale"
<1>1. CASE r # p
  BY <1>1 DEF Rewrite, TypeOK
<1>2. CASE r = p
  <2>1. s # v
    BY <1>2
  <2>2. tree'[p][s] = IF s \in Later(v) /\ tree[p][s] = "good" THEN "stale"
                      ELSE tree[p][s]
    BY <2>1 DEF Rewrite, TypeOK
  <2> QED BY <1>2, <2>2
<1> QED BY <1>1, <1>2

\* The result under a stamp that stays goes stale at most.
LEMMA EntireStays ==
    ASSUME TypeInv, ControlInv, [Next]_vars,
           NEW p \in Pkg, NEW s \in Work,
           <<p, s>> \in stamp, <<p, s>> \in stamp', Settled(p, s)'
    PROVE  \/ tree'[p][s] = tree[p][s]
           \/ tree[p][s] = "good" /\ tree'[p][s] = "stale"
<1>0. TypeOK /\ s \in Steps
  BY DEF TypeInv, Steps
<1>1. CASE RunWork
  <2>1. /\ Cur[1] \in Pkg /\ Cur[2] \in Work /\ <<Cur[1], Cur[2]>> \notin stamp
        /\ \E q \in Quality : tree' = Rewrite(Cur[1], Cur[2], q)
    BY <1>1, LineNames DEF RunWork, Quality
  <2> QED BY <1>0, <2>1, RewriteLeaves
<1>2. ASSUME NEW k \in Removals, line # "idle", Cur[2] = k, k \in Leaves(s),
             unsettled' = unsettled
      PROVE  Cur[1] # p
  <2>1. Cur = <<Cur[1], k>> /\ Cur \in unsettled
    BY <1>2, LineNames DEF ControlInv, RemovalUnsettled
  <2> QED BY <1>2, <2>1 DEF Settled
<1>3. ASSUME NEW k \in Removals, line # "idle", Cur[2] = k,
             NEW v \in Work, k \in Leaves(v), NEW q, unsettled' = unsettled,
             tree' = [tree EXCEPT ![Cur[1]][v] = q]
      PROVE  tree'[p][s] = tree[p][s]
  <2>1. Cur[1] \in Pkg
    BY <1>3, LineNames
  <2>2. Cur[1] # p \/ v # s
    BY <1>2, <1>3
  <2> QED BY <1>0, <1>3, <2>1, <2>2 DEF TypeOK
<1>4. /\ \A v \in {"staging_installed", "target_installed"} :
             v \in Work /\ "uninstalled" \in Leaves(v)
      /\ "built" \in Work /\ "cleaned" \in Leaves("built")
      /\ "uninstalled" \in Removals /\ "cleaned" \in Removals
      /\ "dircleaned" \in Removals
  BY LeavesFacts DEF Work, Steps, Removals
<1>5. CASE UninstallStaging \/ UninstallTarget
  <2>1. /\ Cur[2] = "uninstalled" /\ line # "idle" /\ unsettled' = unsettled
        /\ \E v \in {"staging_installed", "target_installed"} :
               tree' = [tree EXCEPT ![Cur[1]][v] = "none"]
    BY <1>5, LineNames DEF UninstallStaging, UninstallTarget, UninstallFiles
  <2> QED BY <1>3, <1>4, <2>1
<1>6. CASE CleanObjects
  <2>1. /\ Cur[2] = "cleaned" /\ line # "idle" /\ unsettled' = unsettled
        /\ \E q \in {"none", Remnant(tree[Cur[1]]["built"])} :
               tree' = [tree EXCEPT ![Cur[1]]["built"] = q]
    BY <1>6, LineNames DEF CleanObjects
  <2> QED BY <1>3, <1>4, <2>1
<1>7. CASE RmDir
  BY <1>0, <1>7 DEF RmDir, StampsOf, TypeOK
<1>8. CASE CommandFails \/ Kill
  <2>1. BrokenOff /\ stack # << >> /\ unsettled' = unsettled
    BY <1>8 DEF CommandFails, Kill
  <2>2. CASE line = "work" /\ tree' = Rewrite(Cur[1], Cur[2], "part")
    <3>1. /\ Cur[1] \in Pkg /\ Cur[2] \in Work
          /\ <<Cur[1], Cur[2]>> \notin stamp
      BY <2>2, LineNames
    <3> QED BY <1>0, <2>2, <3>1, RewriteLeaves
  <2>3. CASE \/ /\ line = "uninstall_staging"
                /\ tree' = [tree EXCEPT ![Cur[1]]["staging_installed"] =
                                            Remnant(@)]
             \/ /\ line = "uninstall_target"
                /\ tree' = [tree EXCEPT ![Cur[1]]["target_installed"] =
                                            Remnant(@)]
    <3>1. Cur[2] = "uninstalled" /\ line # "idle"
      BY <2>3, LineNames
    <3>2. \E v \in {"staging_installed", "target_installed"} :
              \E q : tree' = [tree EXCEPT ![Cur[1]][v] = q]
      BY <2>3
    <3> QED BY <1>3, <1>4, <2>1, <3>1, <3>2
  <2>4. CASE /\ line = "clean"
             /\ tree' = [tree EXCEPT ![Cur[1]]["built"] = Remnant(@)]
    <3>1. Cur[2] = "cleaned" /\ line # "idle"
      BY <2>4, LineNames
    <3>2. \E q : tree' = [tree EXCEPT ![Cur[1]]["built"] = q]
      BY <2>4
    <3> QED BY <1>3, <1>4, <2>1, <3>1, <3>2
  <2>5. CASE /\ line = "rm_dir"
             /\ tree' = [tree EXCEPT ![Cur[1]] = [v \in Work |->
                    IF v \in InBuildDir THEN Remnant(tree[Cur[1]][v])
                                        ELSE tree[Cur[1]][v]]]
    <3>1. Cur[2] = "dircleaned" /\ line # "idle" /\ Cur[1] \in Pkg
      BY <2>5, LineNames
    <3>2. Cur[1] # p \/ s = "host_installed"
      BY <1>0, <1>2, <1>4, <2>1, <3>1, LeavesFacts
    <3> QED BY <1>0, <2>5, <3>1, <3>2 DEF TypeOK, InBuildDir
  <2>6. CASE UNCHANGED tree
    BY <2>6
  <2> QED BY <2>1, <2>2, <2>3, <2>4, <2>5, <2>6 DEF BrokenOff, disk
<1>9. ASSUME NEW r \in Pkg, NEW v \in ByHand, RemoveStamp(r, v)
      PROVE  \/ tree'[p][s] = tree[p][s]
             \/ tree[p][s] = "good" /\ tree'[p][s] = "stale"
  <2>1. /\ v \in Work /\ <<r, v>> \notin stamp'
        /\ tree' = Rewrite(r, v, "stale")
    BY <1>9, AskedAssumption DEF RemoveStamp
  <2> QED BY <1>0, <2>1, RewriteLeaves
<1>10. CASE ~(RunWork \/ UninstallStaging \/ UninstallTarget \/ CleanObjects
                 \/ RmDir \/ CommandFails \/ Kill
                 \/ (\E r \in Pkg, v \in ByHand : RemoveStamp(r, v)))
  BY <1>10
  DEF Next, MakeStep, Consider, FinishHuman, GiveUp, UpToDate, BeginRecipe,
      TestE, WgetOk, WgetNextSite, Touch, RmStagingStamp, RmTargetStamp,
      RmBuiltStamp, StartMake, disk, vars
<1> QED BY <1>1, <1>5, <1>6, <1>7, <1>8, <1>9, <1>10

LEMMA EntireStep ==
    ASSUME TypeInv, ControlInv, EntireUnderStamp, EntireTouch, [Next]_vars
    PROVE  EntireUnderStamp'
<1> SUFFICES ASSUME NEW p \in Pkg, NEW s \in Steps,
                    <<p, s>> \in stamp', Settled(p, s)'
             PROVE  Entire(p, s)'
  BY DEF EntireUnderStamp
<1>1. /\ Settled(p, s)
      /\ \/ <<p, s>> \in stamp
         \/ line = "touch" /\ Cur = <<p, s>> /\ UNCHANGED <<dl, tree>>
  BY SettledBefore
<1>2. Entire(p, s)
  BY <1>1 DEF EntireUnderStamp, EntireTouch
<1>3. CASE s = "downloaded"
  <2>1. Accomplished(p, "downloaded")
    BY <1>2, <1>3 DEF Entire, Accomplished
  <2>2. Accomplished(p, "downloaded")'
    BY <2>1, DlStep, FilesKept DEF Settled, TypeInv
  <2> QED BY <1>3, <2>2 DEF Entire, Accomplished
<1>4. CASE s # "downloaded"
  <2>1. s \in Work
    BY <1>4 DEF Steps
  <2>2. CASE <<p, s>> \in stamp
    BY <1>2, <1>4, <2>1, <2>2, EntireStays DEF Entire
  <2>3. CASE UNCHANGED <<dl, tree>>
    BY <1>2, <1>4, <2>3 DEF Entire
  <2> QED BY <1>1, <2>2, <2>3
<1> QED BY <1>3, <1>4

LEMMA EntireTouchStep ==
    ASSUME TypeInv, TypeInv', ControlInv, FetchSeen', EntireTouch, [Next]_vars
    PROVE  EntireTouch'
<1> SUFFICES ASSUME line' = "touch", Settled(Cur[1], Cur[2])'
             PROVE  Entire(Cur[1], Cur[2])'
  BY DEF EntireTouch
<1>1. /\ Cur'[1] \in Pkg /\ Cur'[2] \in Steps
  BY DEF TypeInv, LineFits, RecipeLines, Steps, Work
<1>2. CASE Cur'[2] = "downloaded"
  <2> DEFINE p == Cur'[1]
  <2>1. /\ dl'[SourceFile[p]] \notin {"none", "part"}
        /\ PatchFile[p] # NoFile => dl'[PatchFile[p]] \notin {"none", "part"}
    BY <1>2 DEF FetchSeen, Settled, Whole
  <2>2. /\ SourceFile[p] \in File
        /\ PatchFile[p] # NoFile => PatchFile[p] \in File
    BY <1>1, FileAssumption
  <2>3. \A g \in File : dl'[g] \in {"none", "part", "good"}
    BY DEF TypeInv, TypeOK
  <2> QED BY <1>2, <2>1, <2>2, <2>3 DEF Entire, PatchFileGood
<1>3. CASE Cur'[2] # "downloaded"
  <2>1. CASE RunWork
    <3>1. /\ Cur' = Cur /\ Cur[1] \in Pkg /\ Cur[2] \in Work
          /\ tree' = Rewrite(Cur[1], Cur[2],
                         IF InputsGood(Cur[1], Cur[2]) THEN "good" ELSE "stale")
      BY <2>1, LineNames DEF RunWork, Cur
    <3>2. tree'[Cur[1]][Cur[2]] \in {"good", "stale"}
      BY <3>1 DEF Rewrite, TypeInv, TypeOK
    <3> QED BY <1>3, <3>1, <3>2 DEF Entire
  <2>2. CASE TestE \/ WgetOk \/ WgetNextSite
    <3>1. Cur[2] = "downloaded" /\ Cur' = Cur
      BY <2>2, LineNames DEF TestE, WgetOk, WgetNextSite, Fetching, Cur
    <3> QED BY <1>3, <3>1
  <2>3. ~GiveUp
    BY DEF GiveUp, ControlInv, NoFailure
  <2>4. CASE UNCHANGED vars
    BY <2>4 DEF vars, EntireTouch, Settled, Whole, Entire, PatchFileGood, Cur
  <2>5. CASE ~(RunWork \/ TestE \/ WgetOk \/ WgetNextSite \/ UNCHANGED vars)
    <3>1. line' # "touch"
      BY <2>3, <2>5
      DEF Next, MakeStep, Consider, FinishHuman, UpToDate, BeginRecipe,
          FirstLine, Touch, UninstallStaging, RmStagingStamp, UninstallTarget,
          UninstallFiles, RmTargetStamp, CleanObjects, RmBuiltStamp, RmDir,
          CommandFails, Kill, StartMake, RemoveStamp, Return, TypeInv, LineFits
    <3> QED BY <3>1
  <2> QED BY <2>1, <2>2, <2>4, <2>5
<1> QED BY <1>2, <1>3

\* The steps below a human target that is up to date are up to date.
LEMMA StepsBelow ==
    ASSUME DoneClosed, NEW p \in Pkg, NEW s \in Work,
           <<p, Before(s)>> \in done
    PROVE  \A e \in Earlier(s) : <<p, e>> \in done
<1>1. /\ <<p, "build">> \in done =>
            <<p, "configure">> \in done /\ <<p, "built">> \in done
      /\ <<p, "configure">> \in done =>
            <<p, "patch">> \in done /\ <<p, "configured">> \in done
      /\ <<p, "patch">> \in done =>
            <<p, "extract">> \in done /\ <<p, "patched">> \in done
      /\ <<p, "extract">> \in done =>
            <<p, "depends">> \in done /\ <<p, "extracted">> \in done
      /\ <<p, "depends">> \in done => <<p, "source">> \in done
      /\ <<p, "source">> \in done => <<p, "downloaded">> \in done
  BY DoneBelow
<1>2. CASE s = "extracted"
  BY <1>1, <1>2 DEF Before, Earlier
<1>3. CASE s = "patched"
  BY <1>1, <1>3 DEF Before, Earlier
<1>4. CASE s = "configured"
  BY <1>1, <1>4 DEF Before, Earlier
<1>5. CASE s = "built"
  BY <1>1, <1>5 DEF Before, Earlier
<1>6. CASE s \in {"host_installed", "staging_installed", "target_installed"}
  <2>1. Earlier(s) =
            {"downloaded", "extracted", "patched", "configured", "built"}
    BY <1>6 DEF Earlier, Steps, Work
  <2>2. Before(s) = "build"
    BY <1>6 DEF Before
  <2> QED BY <1>1, <2>1, <2>2
<1> QED BY <1>2, <1>3, <1>4, <1>5, <1>6 DEF Work

\* Without -k, whichever stamps were removed by hand and whatever failed or
\* was killed since: the commands of a step run only when every step before
\* it is marked as done, and a make of packages leaves every step of what it
\* came to marked and its result complete.
THEOREM RedoneByHand ==
    ASSUME ~KeepGoing
    PROVE  Spec => []RedoneInOrder
<1> DEFINE I == /\ TypeInv /\ ControlInv /\ FetchSeen
                /\ EntireUnderStamp /\ EntireTouch
<1>1. Init => I
  BY TypeInit, ControlInit DEF Init, FetchSeen, EntireUnderStamp, EntireTouch
<1>2. I /\ [Next]_vars => I'
  BY TypeStep, ControlStep, FetchStep, EntireStep, EntireTouchStep
<1>3. I => RedoneInOrder
  <2> SUFFICES ASSUME I PROVE RedoneInOrder
    OBVIOUS
  <2>0. Walk /\ DoneClosed /\ \A s \in Work : s \in Steps /\ s \in Ordered
    <3>1. \A s \in Work : s \in Steps /\ s \in Ordered
      BY DEF Work, Removals, Steps, Ordered
    <3> QED BY <3>1 DEF ControlInv, Walk
  <2>1. ASSUME stack # << >>, line = "work", NEW s \in Earlier(Cur[2])
        PROVE  <<Cur[1], s>> \in stamp
    <3>1. /\ Cur[1] \in Pkg /\ Cur[2] \in Work
          /\ Len(stack) \in DOMAIN stack /\ Cur = stack[Len(stack)]
      BY <2>1, LineNames, Stacked
    <3>2. <<Cur[1], Before(Cur[2])>> \in done
      BY <2>0, <3>1 DEF ControlInv, ListedOrder
    <3>3. <<Cur[1], s>> \in done
      BY <2>0, <2>1, <3>1, <3>2, StepsBelow
    <3>4. s \in Steps
      BY <2>1 DEF Earlier, Steps, Work
    <3>5. Undisturbed
      BY <2>0, <2>1, <3>1, StepUndisturbed
    <3> QED BY <3>3, <3>4, <3>5 DEF ControlInv, DoneStamped
  <2>2. ASSUME goal[2] \in {"pkg", "world"}, NEW p \in Pkg,
               NEW i \in {"host_installed", "staging_installed",
                          "target_installed"},
               <<p, "pkg">> \in done, i \in InstallSteps(p),
               NEW s \in Earlier(i) \cup {i}
        PROVE  <<p, s>> \in stamp /\ (Settled(p, s) => Entire(p, s))
    <3>1. <<p, i>> \in done
      BY <2>0, <2>2, DoneBelow DEF InstallSteps
    <3>2. i \in Work
      BY DEF Work
    <3>3. <<p, Before(i)>> \in done
      BY <2>0, <3>1, <3>2 DEF DoneClosed
    <3>4. <<p, s>> \in done
      BY <2>0, <2>2, <3>1, <3>2, <3>3, StepsBelow
    <3>5. s \in Steps
      BY <2>2 DEF Earlier, Steps, Work
    <3>6. Undisturbed
      BY <2>2 DEF Undisturbed
    <3>7. <<p, s>> \in stamp
      BY <3>4, <3>5, <3>6 DEF ControlInv, DoneStamped
    <3> QED BY <3>5, <3>7 DEF EntireUnderStamp
  <2> QED BY <2>1, <2>2 DEF RedoneInOrder
<1> QED BY <1>1, <1>2, <1>3, PTL DEF Spec

=============================================================================
