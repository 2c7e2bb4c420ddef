--------------------------- MODULE PkgInfraProofs ---------------------------
(***************************************************************************)
(* Proofs about the package infrastructure, for every set of packages and  *)
(* every dependency relation among them.                                   *)
(***************************************************************************)
EXTENDS PkgInfra, SequenceTheorems, TLAPS

\* The last element and the rest of a stack that is not empty.
LEMMA StackFacts ==
    ASSUME NEW S, NEW s \in Seq(S), s # << >>
    PROVE  /\ Len(s) \in Nat /\ Len(s) > 0
           /\ s[Len(s)] \in S
           /\ SubSeq(s, 1, Len(s) - 1) \in Seq(S)
           /\ Len(SubSeq(s, 1, Len(s) - 1)) = Len(s) - 1
           /\ \A i \in 1 .. Len(s) - 1 : SubSeq(s, 1, Len(s) - 1)[i] = s[i]
<1> DEFINE P == SubSeq(s, 1, Len(s) - 1)
<1>1. Len(s) \in Nat /\ Len(s) > 0
  BY EmptySeq, LenProperties
<1>2. \A i \in 1 .. Len(s) : s[i] \in S
  BY ElementOfSeq
<1>3. \A i \in 1 .. Len(s) - 1 : s[i] \in S
  BY <1>1, <1>2
<1>4. /\ P \in Seq(S)
      /\ Len(P) = IF 1 <= Len(s) - 1 THEN Len(s) - 1 - 1 + 1 ELSE 0
      /\ \A i \in 1 .. (Len(s) - 1) - 1 + 1 : P[i] = s[1 + i - 1]
  BY <1>1, <1>3, SubSeqProperties
<1>5. s[Len(s)] \in S
  BY <1>1, <1>2
<1> HIDE DEF P
<1>6. Len(P) = Len(s) - 1
  <2>1. \A n \in Nat : n > 0 =>
            (IF 1 <= n - 1 THEN n - 1 - 1 + 1 ELSE 0) = n - 1
    OBVIOUS
  <2> QED BY <1>1, <1>4, <2>1
<1>7. \A i \in 1 .. Len(s) - 1 : P[i] = s[i]
  <2> TAKE i \in 1 .. Len(s) - 1
  <2>1. i \in 1 .. (Len(s) - 1) - 1 + 1 /\ 1 + i - 1 = i
    BY <1>1
  <2>2. P[i] = s[1 + i - 1]
    BY <2>1, <1>4
  <2> QED BY <2>1, <2>2
<1> QED BY <1>1, <1>4, <1>5, <1>6, <1>7 DEF P

\* An element followed by a sequence.
LEMMA ConsProperties ==
    ASSUME NEW S, NEW a \in S, NEW s \in Seq(S), Len(s) \in Nat
    PROVE  /\ Len(<<a>> \o s) = 1 + Len(s)
           /\ DOMAIN (<<a>> \o s) = 1 .. 1 + Len(s)
           /\ (<<a>> \o s)[1] = a
           /\ \A i \in 1 .. Len(s) : (<<a>> \o s)[i + 1] = s[i]
<1>1. <<a>> \in Seq(S) /\ Len(<<a>>) = 1 /\ <<a>>[1] = a
  OBVIOUS
<1>2. /\ <<a>> \o s \in Seq(S)
      /\ Len(<<a>> \o s) = Len(<<a>>) + Len(s)
      /\ \A i \in 1 .. Len(<<a>>) + Len(s) :
            (<<a>> \o s)[i] = IF i <= Len(<<a>>) THEN <<a>>[i]
                                        ELSE s[i - Len(<<a>>)]
  BY <1>1, ConcatProperties, Zenon
<1>3. DOMAIN (<<a>> \o s) = 1 .. 1 + Len(s)
  BY <1>1, <1>2, LenProperties
<1>4. (<<a>> \o s)[1] = a
  <2>1. 1 \in 1 .. Len(<<a>>) + Len(s)
    BY <1>1
  <2> QED BY <1>1, <1>2, <2>1
<1>5. ASSUME NEW i \in 1 .. Len(s) PROVE (<<a>> \o s)[i + 1] = s[i]
  <2>1. /\ i + 1 \in 1 .. Len(<<a>>) + Len(s)
        /\ ~(i + 1 <= Len(<<a>>)) /\ i + 1 - Len(<<a>>) = i
    BY <1>1
  <2> QED BY <1>1, <1>2, <2>1
<1> QED BY <1>1, <1>2, <1>3, <1>4, <1>5

LEMMA TargetsOfType ==
    ASSUME NEW T, NEW n, NEW pkgs \in Seq(Pkg),
           \A p \in Pkg : <<p, n>> \in T
    PROVE  /\ TargetsOf(pkgs, n) \in Seq(T)
           /\ Len(TargetsOf(pkgs, n)) = Len(pkgs)
           /\ \A i \in 1 .. Len(pkgs) : TargetsOf(pkgs, n)[i] = <<pkgs[i], n>>
<1>1. Len(pkgs) \in Nat /\ \A i \in 1 .. Len(pkgs) : pkgs[i] \in Pkg
  BY LenProperties, ElementOfSeq
<1> QED BY <1>1 DEF TargetsOf

LEMMA PrereqsType ==
    ASSUME NEW t \in Target
    PROVE  Prereqs(t) \in Seq(Target)
<1> DEFINE p == t[1]  n == t[2]
<1>1. CASE t \in {Top} \X {"world", "source"}
  <2>1. p = Top /\ n \in {"world", "source"}
    BY <1>1
  <2>2. \A q \in Pkg : <<q, "pkg">> \in Target /\ <<q, "source">> \in Target
    BY DEF Target, PkgHuman
  <2>3. WorldPrereqs \in Seq(Target)
    BY <2>2, TargetsOfType, SelectedAssumption DEF WorldPrereqs
  <2>4. AllSourcePrereqs \in Seq(Target)
    <3>1. TargetsOf(Selected, "source") \in Seq(Target)
      BY <2>2, TargetsOfType, SelectedAssumption
    <3>2. TargetsOf(HostSource, "source") \in Seq(Target)
      BY <2>2, TargetsOfType, SelectedAssumption
    <3> QED BY <3>1, <3>2, ConcatProperties DEF AllSourcePrereqs
  <2> QED BY <2>1, <2>3, <2>4 DEF Prereqs
<1>2. CASE t \in Pkg \X (PkgHuman \cup Steps \cup Removals)
  <2>1. p \in Pkg /\ n \in PkgHuman \cup Steps \cup Removals /\ p # Top
    BY <1>2, TopAssumption
  <2>2. \A m \in PkgHuman \cup Steps \cup Removals : <<p, m>> \in Target
    BY <2>1 DEF Target
  <2>3. DependsPrereqs(p) \in Seq(Target)
    <3>1. Deps[p] \in Seq(Pkg)
      BY <2>1, DepsAssumption
    <3>2. TargetsOf(Deps[p], "pkg") \in Seq(Target)
      <4>1. \A q \in Pkg : <<q, "pkg">> \in Target
        BY DEF Target, PkgHuman
      <4> QED BY <3>1, <4>1, TargetsOfType
    <3>3. << <<p, "source">> >> \in Seq(Target)
      BY <2>2 DEF PkgHuman
    <3> QED BY <3>2, <3>3, ConcatProperties DEF DependsPrereqs
  <2> QED
    BY <2>1, <2>2, <2>3
    DEF Prereqs, PkgHuman, Steps, Work, Removals, PkgPrereqs, InstallPrereqs,
        InstallTargetPrereqs, InstallStagingPrereqs, InstallHostPrereqs,
        BuildPrereqs, ConfigurePrereqs, PatchPrereqs, ExtractPrereqs,
        SourcePrereqs, UninstallPrereqs, CleanPrereqs, DircleanPrereqs
<1> QED BY <1>1, <1>2 DEF Target

-----------------------------------------------------------------------------
(* Types                                                                   *)

LEMMA RewriteType ==
    ASSUME TypeOK, NEW p \in Pkg, NEW s, NEW q \in Quality
    PROVE  Rewrite(p, s, q) \in [Pkg -> [Work -> Quality]]
<1>1. [w \in Work |-> IF w = s THEN q
                      ELSE IF w \in Later(s) /\ tree[p][w] = "good"
                      THEN "stale" ELSE tree[p][w]] \in [Work -> Quality]
  BY DEF TypeOK, Quality
<1> QED BY <1>1 DEF TypeOK, Rewrite

TypeInv == TypeOK /\ LineFits

LEMMA TypeInit == Init => TypeInv
<1> SUFFICES ASSUME Init PROVE TypeInv
  OBVIOUS
<1>1. stack \in Seq(Target)
  BY EmptySeq DEF Init
<1> QED BY <1>1, SitesAssumption
    DEF Init, TypeInv, TypeOK, LineFits, Lines, Quality

\* What the stack is before and after a step that uses it.
LEMMA CurType ==
    ASSUME TypeInv, stack # << >>
    PROVE  /\ Cur \in Target
           /\ Pop \in Seq(Target)
           /\ Cur[2] \in Steps \cup Removals =>
                 Cur[1] \in Pkg /\ Cur = <<Cur[1], Cur[2]>>
           /\ line # "idle" => Cur[1] \in Pkg /\ line \in RecipeLines(Cur[2])
<1>1. Cur \in Target /\ Pop \in Seq(Target)
  BY StackFacts DEF TypeInv, TypeOK, Cur, Pop
<1>2. line # "idle" => Cur[1] \in Pkg /\ line \in RecipeLines(Cur[2])
  BY DEF TypeInv, LineFits
<1>3. Cur[2] \in Steps \cup Removals =>
          Cur[1] \in Pkg /\ Cur = <<Cur[1], Cur[2]>>
  BY <1>1 DEF Target, Steps, Work, Removals
<1> QED BY <1>1, <1>2, <1>3

\* When a target is brought up to date the stack shrinks and no line runs.
LEMMA ReturnType ==
    ASSUME TypeInv, stack # << >>, Return
    PROVE  /\ goal' \in Goals \cup {NoGoal}
           /\ stack' \in Seq(Target)
           /\ done' \subseteq Target
           /\ failed' \subseteq Target
           /\ line' = "idle"
BY CurType DEF TypeInv, TypeOK, Return

LEMMA GoalsAreTargets == Goals \subseteq Target
BY DEF Goals, Target, PkgHuman

LEMMA RemnantType == \A q \in Quality : Remnant(q) \in Quality
BY DEF Quality, Remnant

\* What a broken-off line leaves on disk.
LEMMA BrokenOffType ==
    ASSUME TypeInv, stack # << >>, BrokenOff
    PROVE  /\ stamp' \subseteq stamp
           /\ dl' \in [File -> {"none", "part", "good"}]
           /\ tree' \in [Pkg -> [Work -> Quality]]
<1>1. TypeOK
  BY DEF TypeInv
<1>2. CASE Fetching /\ site > 0 /\ WgetRemnant /\ UNCHANGED <<stamp, tree>>
  BY <1>1, <1>2 DEF TypeOK, WgetRemnant
<1>3. ASSUME line \in {"work", "uninstall_staging", "uninstall_target", "clean",
                       "rm_dir"}
      PROVE  /\ Cur[1] \in Pkg
             /\ "part" \in Quality /\ \A q \in Quality : Remnant(q) \in Quality
  BY <1>3, CurType, RemnantType DEF Quality
<1>4. CASE /\ line = "work"
           /\ tree' = Rewrite(Cur[1], Cur[2], "part") /\ UNCHANGED <<stamp, dl>>
  BY <1>1, <1>3, <1>4, RewriteType DEF TypeOK
<1>5. CASE /\ line = "uninstall_staging"
           /\ tree' = [tree EXCEPT ![Cur[1]]["staging_installed"] = Remnant(@)]
           /\ UNCHANGED <<stamp, dl>>
  BY <1>1, <1>3, <1>5 DEF TypeOK, Work
<1>6. CASE /\ line = "uninstall_target"
           /\ tree' = [tree EXCEPT ![Cur[1]]["target_installed"] = Remnant(@)]
           /\ UNCHANGED <<stamp, dl>>
  BY <1>1, <1>3, <1>6 DEF TypeOK, Work
<1>7. CASE /\ line = "clean"
           /\ tree' = [tree EXCEPT ![Cur[1]]["built"] = Remnant(@)]
           /\ UNCHANGED <<stamp, dl>>
  BY <1>1, <1>3, <1>7 DEF TypeOK, Work
<1>8. CASE /\ line = "rm_dir"
           /\ \E gone \in SUBSET StampsOf(Cur[1]) : stamp' = stamp \ gone
           /\ tree' = [tree EXCEPT ![Cur[1]] = [w \in Work |->
                  IF w \in InBuildDir THEN Remnant(tree[Cur[1]][w])
                                      ELSE tree[Cur[1]][w]]]
           /\ UNCHANGED dl
  <2>1. [w \in Work |-> IF w \in InBuildDir THEN Remnant(tree[Cur[1]][w])
                        ELSE tree[Cur[1]][w]] \in [Work -> Quality]
    BY <1>1, <1>3, <1>8 DEF TypeOK
  <2> QED BY <1>1, <1>3, <1>8, <2>1 DEF TypeOK
<1>9. CASE UNCHANGED disk
  BY <1>1, <1>9 DEF TypeOK, disk
<1> QED BY <1>2, <1>4, <1>5, <1>6, <1>7, <1>8, <1>9 DEF BrokenOff

LEMMA TypeStep == TypeInv /\ [Next]_vars => TypeInv'
<1> SUFFICES ASSUME TypeInv, [Next]_vars PROVE TypeInv'
  OBVIOUS
<1> USE DEF TypeInv
<1>0. TypeOK /\ LineFits
  OBVIOUS
<1>1. ASSUME NEW i \in 1 .. (IF stack = << >> THEN 0 ELSE Len(Prereqs(Cur))),
             Consider(i)
      PROVE TypeInv'
  <2>1. Prereqs(Cur)[i] \in Target
    BY <1>1, CurType, PrereqsType, ElementOfSeq DEF Consider
  <2> QED BY <1>0, <1>1, <2>1 DEF Consider, TypeOK, LineFits, disk
<1>2. CASE FinishHuman \/ UpToDate
  <2>1. stack # << >> /\ Return /\ UNCHANGED <<site, stamp, dl, tree, unsettled>>
    BY <1>2 DEF FinishHuman, UpToDate, disk
  <2> QED BY <1>0, <2>1, ReturnType DEF TypeOK, LineFits, Lines
<1>3. CASE GiveUp
  <2>1. line = "idle"
    BY <1>3, <1>0, CurType DEF GiveUp, Human, PkgHuman, RecipeLines, Work
  <2> QED BY <1>0, <1>3, <2>1, CurType DEF GiveUp, TypeOK, LineFits, disk
<1>4. CASE BeginRecipe
  <2>1. /\ Cur[1] \in Pkg /\ Cur = <<Cur[1], Cur[2]>> /\ Cur \in Target
    BY <1>4, CurType DEF BeginRecipe
  <2>2. FirstLine(Cur[2]) \in RecipeLines(Cur[2]) \cap Lines
    BY <1>4 DEF BeginRecipe, FirstLine, RecipeLines, Lines, Steps, Removals, Work
  <2>3. FirstLine(Cur[2]) # "fetch_patch"
    BY DEF FirstLine
  <2>4. unsettled' \subseteq Pkg \X (Removals \cup {"byhand"})
    BY <1>0, <1>4, <2>1 DEF BeginRecipe, TypeOK
  <2> QED BY <1>0, <1>4, <2>1, <2>2, <2>3, <2>4
          DEF BeginRecipe, TypeOK, LineFits, disk, Cur
<1>5. CASE TestE \/ WgetOk \/ WgetNextSite
  <2>1. Cur[2] = "downloaded" /\ Cur[1] \in Pkg /\ Cur \notin stamp
    BY <1>0, <1>5 DEF TestE, WgetOk, WgetNextSite, Fetching, LineFits,
                      RecipeLines, Work
  <2>2. AfterFetch \in {"fetch_patch", "touch"} /\
        (AfterFetch = "fetch_patch" => PatchFile[Cur[1]] # NoFile)
    BY DEF AfterFetch
  <2>3. dl' \in [File -> {"none", "part", "good"}]
    BY <1>0, <1>5 DEF TestE, WgetOk, WgetNextSite, WgetRemnant, TypeOK, disk
  <2>4. site' \in 0 .. Sites
    BY <1>0, <1>5, SitesAssumption DEF TestE, WgetOk, WgetNextSite, TypeOK
  <2>5. line' \in {"fetch_source", "fetch_patch", "touch"}
    BY <1>5, <2>2 DEF TestE, WgetOk, WgetNextSite, Fetching
  <2>6. line' = "fetch_patch" => PatchFile[Cur[1]] # NoFile
    BY <1>0, <1>5, <2>2 DEF TestE, WgetOk, WgetNextSite, LineFits
  <2>7. UNCHANGED <<goal, stack, done, failed, stamp, tree, unsettled>>
    BY <1>5 DEF TestE, WgetOk, WgetNextSite, disk
  <2>8. stack # << >>
    BY <1>5 DEF TestE, WgetOk, WgetNextSite
  <2>9. Cur' = Cur
    BY <2>7 DEF Cur
  <2>10. LineFits'
    BY <2>1, <2>5, <2>6, <2>7, <2>8, <2>9 DEF LineFits, RecipeLines, Work
  <2> QED BY <1>0, <2>3, <2>4, <2>5, <2>7, <2>10 DEF TypeOK, Lines
<1>6. CASE RunWork
  <2>1. Cur[2] \in Work /\ Cur[1] \in Pkg
    BY <1>0, <1>6 DEF RunWork, LineFits, RecipeLines, Work
  <2>2. tree' \in [Pkg -> [Work -> Quality]]
    <3>1. (IF InputsGood(Cur[1], Cur[2]) THEN "good" ELSE "stale") \in Quality
      BY DEF Quality
    <3> QED BY <1>0, <1>6, <2>1, <3>1, RewriteType DEF RunWork
  <2> QED BY <1>0, <1>6, <2>1, <2>2
          DEF RunWork, TypeOK, LineFits, Lines, Cur, RecipeLines, Work
<1>7. CASE Touch
  <2>1. Cur[2] \in Steps /\ Cur[1] \in Pkg
    BY <1>0, <1>7 DEF Touch, LineFits, RecipeLines, Work, Steps
  <2>2. stamp' \subseteq Pkg \X Steps
    BY <1>0, <1>7, <2>1, CurType DEF Touch, TypeOK
  <2> QED BY <1>0, <1>7, <2>2, ReturnType DEF Touch, TypeOK, LineFits, Lines
<1>8. CASE UninstallStaging \/ UninstallTarget
  <2>1. Cur[1] \in Pkg /\ "none" \in Quality
    BY <1>0, <1>8 DEF UninstallStaging, UninstallTarget, UninstallFiles, LineFits,
                      Quality
  <2>2. tree' \in [Pkg -> [Work -> Quality]]
    BY <1>0, <1>8, <2>1 DEF UninstallStaging, UninstallTarget, UninstallFiles,
                            TypeOK, Work
  <2>3. /\ UNCHANGED <<goal, stack, done, failed, site, stamp, dl, unsettled>>
        /\ Cur[2] = "uninstalled" /\ Cur' = Cur /\ stack # << >>
        /\ line' \in {"rm_staging", "rm_target"}
    BY <1>0, <1>8 DEF UninstallStaging, UninstallTarget, UninstallFiles,
                      LineFits, Cur, RecipeLines, Work
  <2>4. line' \in RecipeLines(Cur[2]) /\ line' # "fetch_patch" /\ Cur \notin stamp
    BY <1>0, <1>8, <2>3 DEF RecipeLines, Work, LineFits, UninstallStaging,
                            UninstallTarget, UninstallFiles
  <2> QED BY <1>0, <2>1, <2>2, <2>3, <2>4 DEF TypeOK, LineFits, Lines
<1>9. CASE RmStagingStamp
  BY <1>0, <1>9 DEF RmStagingStamp, TypeOK, LineFits, Lines, Cur, RecipeLines,
                    Work
<1>10. CASE RmTargetStamp \/ RmBuiltStamp
  BY <1>0, <1>10, ReturnType DEF RmTargetStamp, RmBuiltStamp, TypeOK, LineFits,
                                 Lines
<1>11. CASE CleanObjects
  <2>1. Cur[1] \in Pkg
    BY <1>0, <1>11 DEF CleanObjects, LineFits
  <2>2. tree' \in [Pkg -> [Work -> Quality]]
    BY <1>0, <1>11, <2>1, RemnantType DEF CleanObjects, TypeOK, Quality, Work
  <2> QED BY <1>0, <1>11, <2>2
          DEF CleanObjects, TypeOK, LineFits, Lines, Cur, RecipeLines, Work
<1>12. CASE RmDir
  <2>1. Cur[1] \in Pkg
    BY <1>0, <1>12 DEF RmDir, LineFits
  <2>2. [w \in Work |-> IF w \in InBuildDir THEN "none" ELSE tree[Cur[1]][w]]
            \in [Work -> Quality]
    BY <1>0, <2>1 DEF TypeOK, Quality
  <2>3. tree' \in [Pkg -> [Work -> Quality]]
    BY <1>0, <1>12, <2>1, <2>2 DEF RmDir, TypeOK
  <2> QED BY <1>0, <1>12, <2>3, ReturnType DEF RmDir, TypeOK, LineFits, Lines
<1>13. CASE CommandFails
  <2>1. /\ stamp' \subseteq stamp
        /\ dl' \in [File -> {"none", "part", "good"}]
        /\ tree' \in [Pkg -> [Work -> Quality]]
    BY <1>13, BrokenOffType DEF CommandFails
  <2>2. stack' \in Seq(Target)
    BY <1>13, CurType, EmptySeq DEF CommandFails
  <2> QED BY <1>0, <1>13, <2>1, <2>2, CurType, SitesAssumption
          DEF CommandFails, TypeOK, LineFits, Lines
<1>14. CASE Kill
  <2>1. /\ stamp' \subseteq stamp
        /\ dl' \in [File -> {"none", "part", "good"}]
        /\ tree' \in [Pkg -> [Work -> Quality]]
    BY <1>14, BrokenOffType DEF Kill
  <2>2. stack' \in Seq(Target)
    BY <1>14, EmptySeq DEF Kill
  <2> QED BY <1>0, <1>14, <2>1, <2>2, SitesAssumption
          DEF Kill, TypeOK, LineFits, Lines
<1>15. ASSUME NEW g \in Asked, StartMake(g) PROVE TypeInv'
  <2>1. g \in Goals /\ g \in Target
    BY AskedAssumption, GoalsAreTargets
  <2>2. line = "idle"
    BY <1>0, <1>15 DEF StartMake, LineFits
  <2> QED BY <1>0, <1>15, <2>1, <2>2 DEF StartMake, TypeOK, LineFits, disk
<1>16. ASSUME NEW p \in Pkg, NEW s \in ByHand, RemoveStamp(p, s) PROVE TypeInv'
  <2>1. tree' \in [Pkg -> [Work -> Quality]]
    BY <1>0, <1>16, RewriteType DEF RemoveStamp, Quality
  <2>2. line = "idle"
    BY <1>0, <1>16 DEF RemoveStamp, LineFits
  <2> QED BY <1>0, <1>16, <2>1, <2>2 DEF RemoveStamp, TypeOK, LineFits
<1>17. CASE UNCHANGED vars
  BY <1>0, <1>17 DEF vars, TypeOK, LineFits, Cur
<1> QED
  BY <1>1, <1>2, <1>3, <1>4, <1>5, <1>6, <1>7, <1>8, <1>9, <1>10, <1>11, <1>12,
     <1>13, <1>14, <1>15, <1>16, <1>17 DEF Next, MakeStep

\* The type invariant holds in every reachable state.
THEOREM TypeCorrect == Spec => []TypeOK
<1>1. Init => TypeInv
  BY TypeInit
<1>2. TypeInv /\ [Next]_vars => TypeInv'
  BY TypeStep
<1>3. TypeInv => TypeOK
  BY DEF TypeInv
<1> QED BY <1>1, <1>2, <1>3, PTL DEF Spec

-----------------------------------------------------------------------------
(* The target graph                                                        *)

\* The prerequisites of the human targets of a package, written out.
LEMMA PrereqTable ==
    ASSUME NEW p \in Pkg
    PROVE  /\ Prereqs(<<p, "pkg">>) = << <<p, "install">> >>
           /\ Prereqs(<<p, "install">>) =
                 IF p \in HostPkg THEN << <<p, "install-host">> >>
                 ELSE << <<p, "install-staging">>, <<p, "install-target">> >>
           /\ Prereqs(<<p, "install-host">>) =
                 << <<p, "build">>, <<p, "host_installed">> >>
           /\ Prereqs(<<p, "install-staging">>) =
                 IF p \in InstallStaging
                 THEN << <<p, "build">>, <<p, "staging_installed">> >>
                 ELSE << >>
           /\ Prereqs(<<p, "install-target">>) =
                 IF p \in InstallTarget
                 THEN << <<p, "build">>, <<p, "target_installed">> >>
                 ELSE << >>
           /\ Prereqs(<<p, "build">>) = << <<p, "configure">>, <<p, "built">> >>
           /\ Prereqs(<<p, "configure">>) =
                 << <<p, "patch">>, <<p, "configured">> >>
           /\ Prereqs(<<p, "patch">>) = << <<p, "extract">>, <<p, "patched">> >>
           /\ Prereqs(<<p, "extract">>) =
                 << <<p, "depends">>, <<p, "extracted">> >>
           /\ Prereqs(<<p, "depends">>) =
                 << <<p, "source">> >> \o TargetsOf(Deps[p], "pkg")
           /\ Prereqs(<<p, "source">>) = << <<p, "downloaded">> >>
           /\ Prereqs(<<p, "uninstall">>) =
                 << <<p, "configure">>, <<p, "uninstalled">> >>
           /\ Prereqs(<<p, "clean">>) =
                 << <<p, "uninstall">>, <<p, "cleaned">> >>
           /\ Prereqs(<<p, "dirclean">>) = << <<p, "dircleaned">> >>
<1>1. p # Top
  BY TopAssumption
<1> QED
  BY <1>1
  DEF Prereqs, PkgPrereqs, InstallPrereqs, InstallHostPrereqs,
      InstallStagingPrereqs, InstallTargetPrereqs, BuildPrereqs,
      ConfigurePrereqs, PatchPrereqs, ExtractPrereqs, DependsPrereqs,
      SourcePrereqs, UninstallPrereqs, CleanPrereqs, DircleanPrereqs

\* What a target is listed by, and what is listed before it.
LEMMA PrereqFacts ==
    ASSUME NEW t \in Target, NEW i \in DOMAIN Prereqs(t)
    PROVE  LET k == Prereqs(t)[i] IN
           /\ t[2] \in Human
           /\ k[2] \in Ordered =>
                 /\ i = 2
                 /\ Prereqs(t)[1] = <<k[1], Before(k[2])>>
           /\ k[2] \in RemovalNames =>
                 /\ t[2] \in RemovalNames
                 /\ t[1] = k[1]
                 /\ RemovalGoals(t[2]) = RemovalGoals(k[2])
           /\ t[2] \in RemovalNames /\ k[2] \notin RemovalNames =>
                 t[2] = "uninstall" /\ k = <<t[1], "configure">>
<1> DEFINE p == t[1]  n == t[2]  k == Prereqs(t)[i]
<1>1. CASE t \in {Top} \X {"world", "source"}
  <2>1. p = Top /\ n \in {"world", "source"}
    BY <1>1
  <2>2. Prereqs(t) \in {WorldPrereqs, AllSourcePrereqs}
    BY <2>1 DEF Prereqs
  <2>3. k[2] \in {"pkg", "source"}
    <3>1. CASE Prereqs(t) = WorldPrereqs
      BY <3>1 DEF WorldPrereqs, TargetsOf
    <3>2. CASE Prereqs(t) = AllSourcePrereqs
      <4> DEFINE S == Pkg \X {"source"}
      <4>1. \A q \in Pkg : <<q, "source">> \in S
        OBVIOUS
      <4> HIDE DEF S
      <4>2. TargetsOf(Selected, "source") \in Seq(S)
        BY <4>1, TargetsOfType, SelectedAssumption
      <4>3. TargetsOf(HostSource, "source") \in Seq(S)
        BY <4>1, TargetsOfType, SelectedAssumption
      <4>4. AllSourcePrereqs \in Seq(S)
        BY <4>2, <4>3, ConcatProperties DEF AllSourcePrereqs
      <4>5. k \in S
        BY <3>2, <4>4, ElementOfSeq, LenProperties
      <4> QED BY <4>5 DEF S
    <3> QED BY <2>2, <3>1, <3>2
  <2> QED BY <2>1, <2>3 DEF Human, PkgHuman, Ordered, Work, Removals,
                            RemovalNames
<1>2. CASE t \in Pkg \X (PkgHuman \cup Steps \cup Removals)
  <2>1. p \in Pkg /\ n \in PkgHuman \cup Steps \cup Removals /\ p # Top
    BY <1>2, TopAssumption
  <2>2. n \notin Steps \cup Removals
    BY DEF Prereqs, Steps, Work, Removals
  <2>3. n \in PkgHuman
    BY <2>1, <2>2
  <2>4. CASE n = "depends"
    <3>1. Deps[p] \in Seq(Pkg)
      BY <2>1, DepsAssumption
    <3> DEFINE S == Pkg \X {"source", "pkg"}
    <3>2. \A q \in Pkg : <<q, "source">> \in S /\ <<q, "pkg">> \in S
      OBVIOUS
    <3> HIDE DEF S
    <3>3. TargetsOf(Deps[p], "pkg") \in Seq(S)
      BY <3>1, <3>2, TargetsOfType
    <3>4. << <<p, "source">> >> \in Seq(S)
      <4>1. <<p, "source">> \in S
        BY <2>1, <3>2
      <4> QED BY <4>1
    <3>5. Prereqs(t) \in Seq(S)
      BY <2>4, <3>3, <3>4, ConcatProperties DEF Prereqs, DependsPrereqs
    <3>6. k \in S
      BY <3>5, ElementOfSeq, LenProperties
    <3>7. k[2] \in {"source", "pkg"}
      BY <3>6 DEF S
    <3> QED BY <2>4, <3>7 DEF Human, PkgHuman, Ordered, Work, Removals,
                              RemovalNames
  <2>5. t = <<p, n>>
    BY <1>2
  <2>6. CASE n \in {"pkg", "source"}
    <3>1. /\ Prereqs(<<p, "pkg">>) = << <<p, "install">> >>
          /\ Prereqs(<<p, "source">>) = << <<p, "downloaded">> >>
      BY <2>1, PrereqTable
    <3>2. k[2] \in {"install", "downloaded"}
      BY <2>5, <2>6, <3>1
    <3> QED BY <2>6, <3>2
            DEF Human, PkgHuman, Ordered, Work, Removals, RemovalNames
  <2>7. CASE n = "install"
    <3>1. Prereqs(<<p, "install">>) =
              IF p \in HostPkg THEN << <<p, "install-host">> >>
              ELSE << <<p, "install-staging">>, <<p, "install-target">> >>
      BY <2>1, PrereqTable
    <3>2. k[2] \in {"install-host", "install-staging", "install-target"}
      BY <2>5, <2>7, <3>1
    <3> QED BY <2>7, <3>2
            DEF Human, PkgHuman, Ordered, Work, Removals, RemovalNames
  <2>8. CASE n \in {"install-host", "install-staging", "install-target"}
    <3>1. \E s \in {"host_installed", "staging_installed",
                    "target_installed"} :
              Prereqs(t) \in {<< <<p, "build">>, <<p, s>> >>, << >>}
      <4>1. /\ Prereqs(<<p, "install-host">>) =
                  << <<p, "build">>, <<p, "host_installed">> >>
            /\ Prereqs(<<p, "install-staging">>) =
                  IF p \in InstallStaging
                  THEN << <<p, "build">>, <<p, "staging_installed">> >>
                  ELSE << >>
            /\ Prereqs(<<p, "install-target">>) =
                  IF p \in InstallTarget
                  THEN << <<p, "build">>, <<p, "target_installed">> >>
                  ELSE << >>
        BY <2>1, PrereqTable
      <4> QED BY <2>5, <2>8, <4>1
    <3>2. PICK s \in {"host_installed", "staging_installed",
                      "target_installed"} :
              Prereqs(t) = << <<p, "build">>, <<p, s>> >>
      BY <3>1
    <3> QED BY <2>8, <3>2
            DEF Human, PkgHuman, Ordered, Work, Removals, RemovalNames, Before
  <2>9. CASE n \in {"build", "configure", "patch", "extract"}
    <3>1. /\ Prereqs(<<p, "build">>) = << <<p, "configure">>, <<p, "built">> >>
          /\ Prereqs(<<p, "configure">>) =
                << <<p, "patch">>, <<p, "configured">> >>
          /\ Prereqs(<<p, "patch">>) =
                << <<p, "extract">>, <<p, "patched">> >>
          /\ Prereqs(<<p, "extract">>) =
                << <<p, "depends">>, <<p, "extracted">> >>
      BY <2>1, PrereqTable
    <3> QED BY <2>5, <2>9, <3>1
            DEF Human, PkgHuman, Ordered, Work, Removals, RemovalNames, Before
  <2>10. CASE n \in {"uninstall", "clean", "dirclean"}
    <3>1. /\ Prereqs(<<p, "uninstall">>) =
                << <<p, "configure">>, <<p, "uninstalled">> >>
          /\ Prereqs(<<p, "clean">>) =
                << <<p, "uninstall">>, <<p, "cleaned">> >>
          /\ Prereqs(<<p, "dirclean">>) = << <<p, "dircleaned">> >>
      BY <2>1, PrereqTable
    <3> QED BY <2>5, <2>10, <3>1
            DEF Human, PkgHuman, Ordered, Work, Removals, RemovalNames, Before,
                RemovalGoals
  <2> QED BY <2>3, <2>4, <2>6, <2>7, <2>8, <2>9, <2>10 DEF PkgHuman
<1> QED BY <1>1, <1>2 DEF Target

\* What is up to date when a human target is.
LEMMA DoneBelow ==
    ASSUME DoneClosed, NEW p \in Pkg
    PROVE  /\ <<p, "pkg">> \in done => <<p, "install">> \in done
           /\ <<p, "install">> \in done =>
                 IF p \in HostPkg THEN <<p, "install-host">> \in done
                 ELSE /\ <<p, "install-staging">> \in done
                      /\ <<p, "install-target">> \in done
           /\ <<p, "install-host">> \in done => <<p, "host_installed">> \in done
           /\ <<p, "install-staging">> \in done /\ p \in InstallStaging =>
                 <<p, "staging_installed">> \in done
           /\ <<p, "install-target">> \in done /\ p \in InstallTarget =>
                 <<p, "target_installed">> \in done
           /\ <<p, "build">> \in done =>
                 <<p, "configure">> \in done /\ <<p, "built">> \in done
           /\ <<p, "configure">> \in done =>
                 <<p, "patch">> \in done /\ <<p, "configured">> \in done
           /\ <<p, "patch">> \in done =>
                 <<p, "extract">> \in done /\ <<p, "patched">> \in done
           /\ <<p, "extract">> \in done =>
                 <<p, "depends">> \in done /\ <<p, "extracted">> \in done
           /\ <<p, "depends">> \in done =>
                 /\ <<p, "source">> \in done
                 /\ \A i \in DOMAIN Deps[p] : <<Deps[p][i], "pkg">> \in done
           /\ <<p, "source">> \in done => <<p, "downloaded">> \in done
           /\ <<p, "uninstall">> \in done =>
                 <<p, "configure">> \in done /\ <<p, "uninstalled">> \in done
<1>1. ASSUME NEW n \in PkgHuman, <<p, n>> \in done
      PROVE  \A i \in DOMAIN Prereqs(<<p, n>>) : Prereqs(<<p, n>>)[i] \in done
  BY <1>1 DEF DoneClosed, Human
<1>2. ASSUME <<p, "depends">> \in done
      PROVE  /\ <<p, "source">> \in done
             /\ \A i \in DOMAIN Deps[p] : <<Deps[p][i], "pkg">> \in done
  <2> DEFINE S == Pkg \X {"source", "pkg"}
             D == TargetsOf(Deps[p], "pkg")
             A == << <<p, "source">> >> \o D
  <2>1. Deps[p] \in Seq(Pkg)
    BY DepsAssumption
  <2>2. \A q \in Pkg : <<q, "source">> \in S /\ <<q, "pkg">> \in S
    OBVIOUS
  <2> HIDE DEF S
  <2>3. /\ D \in Seq(S) /\ Len(D) = Len(Deps[p])
        /\ \A i \in 1 .. Len(Deps[p]) : D[i] = <<Deps[p][i], "pkg">>
    BY <2>1, <2>2, TargetsOfType
  <2>4. Len(D) \in Nat
    BY <2>3, LenProperties
  <2>5. \A i \in DOMAIN A : A[i] \in done
    BY <1>1, <1>2, PrereqTable DEF PkgHuman
  <2> HIDE DEF D
  <2>6. /\ DOMAIN A = 1 .. 1 + Len(D)
        /\ A[1] = <<p, "source">>
        /\ \A i \in 1 .. Len(D) : A[i + 1] = D[i]
    BY <2>2, <2>3, <2>4, ConsProperties
  <2> HIDE DEF A
  <2>7. <<p, "source">> \in done
    <3>1. 1 \in 1 .. 1 + Len(D)
      BY <2>4
    <3> QED BY <2>5, <2>6, <3>1
  <2>8. ASSUME NEW i \in 1 .. Len(D) PROVE D[i] \in done
    <3>1. i + 1 \in 1 .. 1 + Len(D)
      BY <2>4
    <3> QED BY <2>5, <2>6, <3>1
  <2> QED BY <2>1, <2>3, <2>7, <2>8, LenProperties
<1>3. /\ <<p, "build">> \in done =>
            <<p, "configure">> \in done /\ <<p, "built">> \in done
      /\ <<p, "configure">> \in done =>
            <<p, "patch">> \in done /\ <<p, "configured">> \in done
      /\ <<p, "patch">> \in done =>
            <<p, "extract">> \in done /\ <<p, "patched">> \in done
      /\ <<p, "extract">> \in done =>
            <<p, "depends">> \in done /\ <<p, "extracted">> \in done
  <2>1. /\ Prereqs(<<p, "build">>) = << <<p, "configure">>, <<p, "built">> >>
        /\ Prereqs(<<p, "configure">>) =
              << <<p, "patch">>, <<p, "configured">> >>
        /\ Prereqs(<<p, "patch">>) = << <<p, "extract">>, <<p, "patched">> >>
        /\ Prereqs(<<p, "extract">>) =
              << <<p, "depends">>, <<p, "extracted">> >>
    BY PrereqTable
  <2>2. ASSUME NEW n \in {"build", "configure", "patch", "extract"},
               <<p, n>> \in done
        PROVE  Prereqs(<<p, n>>)[1] \in done /\ Prereqs(<<p, n>>)[2] \in done
    <3>1. 1 \in DOMAIN Prereqs(<<p, n>>) /\ 2 \in DOMAIN Prereqs(<<p, n>>)
      BY <2>1
    <3> QED BY <1>1, <2>2, <3>1 DEF PkgHuman
  <2> QED BY <2>1, <2>2
<1>4. /\ <<p, "pkg">> \in done => <<p, "install">> \in done
      /\ <<p, "source">> \in done => <<p, "downloaded">> \in done
  <2>1. /\ Prereqs(<<p, "pkg">>) = << <<p, "install">> >>
        /\ Prereqs(<<p, "source">>) = << <<p, "downloaded">> >>
    BY PrereqTable
  <2>2. ASSUME NEW n \in {"pkg", "source"}, <<p, n>> \in done
        PROVE  Prereqs(<<p, n>>)[1] \in done
    <3>1. 1 \in DOMAIN Prereqs(<<p, n>>)
      BY <2>1
    <3> QED BY <1>1, <2>2, <3>1 DEF PkgHuman
  <2> QED BY <2>1, <2>2
<1>5. /\ <<p, "install-host">> \in done => <<p, "host_installed">> \in done
      /\ <<p, "uninstall">> \in done =>
            <<p, "configure">> \in done /\ <<p, "uninstalled">> \in done
  <2>1. /\ Prereqs(<<p, "install-host">>) =
              << <<p, "build">>, <<p, "host_installed">> >>
        /\ Prereqs(<<p, "uninstall">>) =
              << <<p, "configure">>, <<p, "uninstalled">> >>
    BY PrereqTable
  <2>2. ASSUME NEW n \in {"install-host", "uninstall"}, <<p, n>> \in done
        PROVE  Prereqs(<<p, n>>)[1] \in done /\ Prereqs(<<p, n>>)[2] \in done
    <3>1. 1 \in DOMAIN Prereqs(<<p, n>>) /\ 2 \in DOMAIN Prereqs(<<p, n>>)
      BY <2>1
    <3> QED BY <1>1, <2>2, <3>1 DEF PkgHuman
  <2> QED BY <2>1, <2>2
<1>6. <<p, "install-staging">> \in done /\ p \in InstallStaging =>
          <<p, "staging_installed">> \in done
  <2> SUFFICES ASSUME <<p, "install-staging">> \in done, p \in InstallStaging
               PROVE  <<p, "staging_installed">> \in done
    OBVIOUS
  <2>1. Prereqs(<<p, "install-staging">>) =
            << <<p, "build">>, <<p, "staging_installed">> >>
    BY PrereqTable
  <2> QED BY <1>1, <2>1 DEF PkgHuman
<1>7. <<p, "install-target">> \in done /\ p \in InstallTarget =>
          <<p, "target_installed">> \in done
  <2> SUFFICES ASSUME <<p, "install-target">> \in done, p \in InstallTarget
               PROVE  <<p, "target_installed">> \in done
    OBVIOUS
  <2>1. Prereqs(<<p, "install-target">>) =
            << <<p, "build">>, <<p, "target_installed">> >>
    BY PrereqTable
  <2> QED BY <1>1, <2>1 DEF PkgHuman
<1>8. <<p, "install">> \in done =>
          IF p \in HostPkg THEN <<p, "install-host">> \in done
          ELSE /\ <<p, "install-staging">> \in done
               /\ <<p, "install-target">> \in done
  <2>1. Prereqs(<<p, "install">>) =
            IF p \in HostPkg THEN << <<p, "install-host">> >>
            ELSE << <<p, "install-staging">>, <<p, "install-target">> >>
    BY PrereqTable
  <2>2. CASE p \in HostPkg
    BY <1>1, <2>1, <2>2 DEF PkgHuman
  <2>3. CASE p \notin HostPkg
    BY <1>1, <2>1, <2>3 DEF PkgHuman
  <2> QED BY <2>2, <2>3
<1> QED BY <1>2, <1>3, <1>4, <1>5, <1>6, <1>7, <1>8

-----------------------------------------------------------------------------
(* What the stack and the targets already made say                         *)

\* The kinds of names do not overlap.
LEMMA Names ==
    /\ Human \cap Steps = {} /\ Human \cap Removals = {}
    /\ Steps \cap RemovalNames = {} /\ Removals \subseteq RemovalNames
    /\ Ordered \subseteq Steps \cup Removals
BY DEF Human, PkgHuman, Steps, Work, Removals, RemovalNames, Ordered

\* The stack, what is below its top, and its top.
LEMMA Stacked ==
    ASSUME TypeInv, stack # << >>
    PROVE  /\ DOMAIN stack = 1 .. Len(stack) /\ Len(stack) \in DOMAIN stack
           /\ Cur = stack[Len(stack)] /\ Cur \in Target
           /\ DOMAIN Pop \subseteq DOMAIN stack
           /\ DOMAIN Pop = 1 .. Len(stack) - 1
           /\ \A i \in DOMAIN Pop : Pop[i] = stack[i]
<1>1. stack \in Seq(Target)
  BY DEF TypeInv, TypeOK
<1>2. /\ Len(stack) \in Nat /\ Len(stack) > 0
      /\ Pop \in Seq(Target) /\ Len(Pop) = Len(stack) - 1
      /\ \A i \in 1 .. Len(stack) - 1 : Pop[i] = stack[i]
      /\ stack[Len(stack)] \in Target
  BY <1>1, StackFacts DEF Pop
<1>3. DOMAIN stack = 1 .. Len(stack) /\ DOMAIN Pop = 1 .. Len(stack) - 1
  BY <1>1, <1>2, LenProperties
<1> QED BY <1>2, <1>3 DEF Cur

\* The part of ControlInv about the walk through the target graph.
Walk == NoFailure /\ ListedOrder /\ DoneClosed /\ RemovalPath /\ AfterRemoval

\* Taking up the next prerequisite.
LEMMA WalkConsider ==
    ASSUME TypeInv, Walk, NEW i \in DOMAIN Prereqs(Cur), Consider(i)
    PROVE  Walk'
<1> DEFINE k == Prereqs(Cur)[i]
<1>1. stack # << >> /\ stack' = Append(stack, k) /\ UNCHANGED <<goal, done, failed>>
  BY DEF Consider
<1>2. failed = {}
  BY <1>1 DEF Walk, NoFailure
<1>3. /\ DOMAIN stack = 1 .. Len(stack) /\ Len(stack) \in DOMAIN stack
      /\ Cur = stack[Len(stack)] /\ Cur \in Target
  BY <1>1, Stacked
<1>4. k \in Target
  BY <1>3, PrereqsType, ElementOfSeq, LenProperties
<1>5. /\ DOMAIN stack' = 1 .. Len(stack) + 1
      /\ stack'[Len(stack) + 1] = k
      /\ \A j \in DOMAIN stack : stack'[j] = stack[j]
  <2>1. stack \in Seq(Target)
    BY DEF TypeInv, TypeOK
  <2> HIDE DEF k
  <2>2. /\ stack' \in Seq(Target) /\ Len(stack') = Len(stack) + 1
        /\ \A j \in 1 .. Len(stack) : stack'[j] = stack[j]
        /\ stack'[Len(stack) + 1] = k
    BY <1>1, <1>4, <2>1, AppendProperties
  <2> QED BY <1>3, <2>2, LenProperties
<1>6. /\ Cur[2] \in Human
      /\ k[2] \in Ordered =>
            i = 2 /\ Prereqs(Cur)[1] = <<k[1], Before(k[2])>>
      /\ k[2] \in RemovalNames =>
            /\ Cur[2] \in RemovalNames
            /\ Cur[1] = k[1]
            /\ RemovalGoals(Cur[2]) = RemovalGoals(k[2])
      /\ Cur[2] \in RemovalNames /\ k[2] \notin RemovalNames =>
            Cur[2] = "uninstall" /\ k = <<Cur[1], "configure">>
  BY <1>3, PrereqFacts
<1>7. /\ \A j \in 1 .. i - 1 : Prereqs(Cur)[j] \in done
      /\ k \notin done
  BY <1>2 DEF Consider
<1> HIDE DEF k
<1>8. \A j \in DOMAIN stack' : j \in DOMAIN stack \/ j = Len(stack) + 1
  BY <1>3, <1>5
<1>9. NoFailure'
  BY <1>1, <1>2 DEF NoFailure
<1>10. ListedOrder'
  <2>1. k[2] \in Ordered => <<k[1], Before(k[2])>> \in done
    BY <1>6, <1>7
  <2> QED BY <1>1, <1>5, <1>8, <2>1 DEF Walk, ListedOrder
<1>11. DoneClosed'
  BY <1>1 DEF Walk, DoneClosed
<1>12. RemovalPath'
  <2>1. k[2] \in RemovalNames =>
            /\ \E m \in RemovalGoals(k[2]) : goal = <<k[1], m>>
            /\ \A j \in DOMAIN stack : stack[j][2] \in RemovalNames
    BY <1>3, <1>6 DEF Walk, RemovalPath
  <2>2. \A j \in DOMAIN stack : 1 .. j \subseteq DOMAIN stack
    BY <1>3
  <2> QED BY <1>1, <1>3, <1>5, <1>8, <2>1, <2>2 DEF Walk, RemovalPath
<1>13. AfterRemoval'
  <2> SUFFICES ASSUME NEW u \in done, u[2] \in Removals
               PROVE  k[2] \in RemovalNames
    BY <1>1, <1>5, <1>8 DEF Walk, AfterRemoval
  <2>1. Cur[2] \in RemovalNames
    BY <1>3 DEF Walk, AfterRemoval
  <2> SUFFICES ASSUME k[2] \notin RemovalNames PROVE FALSE
    OBVIOUS
  <2>2. Cur[2] = "uninstall" /\ k = <<Cur[1], "configure">> /\ Cur[1] \in Pkg
    BY <1>3, <1>6, <2>1 DEF Target
  <2>3. \E m \in {"uninstall", "clean"} : goal = <<Cur[1], m>>
    BY <1>3, <2>2 DEF Walk, RemovalPath, RemovalNames, RemovalGoals
  <2>4. \E m \in RemovalGoals(u[2]) : goal = <<u[1], m>>
    BY DEF Walk, RemovalPath, Removals, RemovalNames
  <2>5. u[1] = Cur[1] /\ u[2] \in {"uninstalled", "cleaned"}
    BY <2>3, <2>4 DEF RemovalGoals, Removals
  <2>6. <<Cur[1], Before(u[2])>> \in done
    BY <2>5 DEF Walk, DoneClosed, Ordered, Removals
  <2>7. <<Cur[1], "configure">> \in done
    BY <2>2, <2>5, <2>6, DoneBelow DEF Walk, Before
  <2> QED BY <1>7, <2>2, <2>7
<1> QED BY <1>9, <1>10, <1>11, <1>12, <1>13 DEF Walk

\* Going back to what asked for a target that is up to date.
LEMMA WalkReturn ==
    ASSUME TypeInv, Walk, stack # << >>, Return,
           Cur[2] \in Human =>
               \A i \in DOMAIN Prereqs(Cur) : Prereqs(Cur)[i] \in done
    PROVE  Walk'
<1>1. stack' = Pop /\ done' = done \cup {Cur} /\ UNCHANGED <<goal, failed>>
  BY DEF Return
<1>2. /\ DOMAIN stack = 1 .. Len(stack) /\ Len(stack) \in DOMAIN stack
      /\ Cur = stack[Len(stack)] /\ Cur \in Target
      /\ DOMAIN stack' \subseteq DOMAIN stack
      /\ \A i \in DOMAIN stack' : stack'[i] = stack[i]
      /\ \A i \in DOMAIN stack' : 1 .. i \subseteq DOMAIN stack'
  BY <1>1, Stacked
<1>3. NoFailure'
  BY <1>1 DEF Walk, NoFailure
<1>4. ListedOrder'
  BY <1>1, <1>2 DEF Walk, ListedOrder
<1>5. DoneClosed'
  <2>1. Cur[2] \in Ordered => <<Cur[1], Before(Cur[2])>> \in done
    BY <1>2 DEF Walk, ListedOrder
  <2> QED BY <1>1, <2>1 DEF Walk, DoneClosed
<1>6. RemovalPath'
  BY <1>1, <1>2 DEF Walk, RemovalPath
<1>7. AfterRemoval'
  <2>1. Cur[2] \in Removals =>
            \A i \in DOMAIN stack : stack[i][2] \in RemovalNames
    BY <1>2, Names DEF Walk, RemovalPath
  <2> QED BY <1>1, <1>2, <2>1 DEF Walk, AfterRemoval
<1> QED BY <1>3, <1>4, <1>5, <1>6, <1>7 DEF Walk

\* make starts, or has come to an end.
LEMMA WalkEnds ==
    ASSUME TypeInv, Walk,
           \/ stack' = << >> /\ UNCHANGED <<goal, done>>
           \/ stack' = << >> /\ done' = {}
           \/ \E g \in Asked : StartMake(g)
    PROVE  Walk'
<1>1. CASE stack' = << >> /\ UNCHANGED <<goal, done>>
  BY <1>1 DEF Walk, NoFailure, ListedOrder, DoneClosed, RemovalPath, AfterRemoval
<1>2. CASE stack' = << >> /\ done' = {}
  BY <1>2 DEF Walk, NoFailure, ListedOrder, DoneClosed, RemovalPath, AfterRemoval
<1>3. ASSUME NEW g \in Asked, StartMake(g) PROVE Walk'
  <2>1. g \in Goals
    BY AskedAssumption
  <2>2. stack' = <<g>> /\ goal' = g /\ done' = {} /\ failed' = {}
    BY <1>3 DEF StartMake
  <2>3. g[2] \notin Ordered
    BY <2>1 DEF Goals, Ordered, Work, Removals
  <2>4. g[2] \in RemovalNames => g = <<g[1], g[2]>> /\ g[2] \in RemovalGoals(g[2])
    BY <2>1 DEF Goals, RemovalNames, RemovalGoals
  <2>5. NoFailure' /\ DoneClosed' /\ AfterRemoval'
    BY <2>2 DEF NoFailure, DoneClosed, AfterRemoval
  <2>6. ListedOrder'
    BY <2>2, <2>3 DEF ListedOrder
  <2>7. RemovalPath'
    BY <2>2, <2>4 DEF RemovalPath
  <2> QED BY <2>5, <2>6, <2>7 DEF Walk
<1> QED BY <1>1, <1>2, <1>3

LEMMA WalkStep ==
    ASSUME ~KeepGoing, TypeInv, Walk, [Next]_vars
    PROVE  Walk'
<1>1. ASSUME NEW i \in 1 .. (IF stack = << >> THEN 0 ELSE Len(Prereqs(Cur))),
             Consider(i)
      PROVE  Walk'
  <2>1. i \in DOMAIN Prereqs(Cur)
    BY <1>1 DEF Consider
  <2> QED BY <1>1, <2>1, WalkConsider
<1>2. CASE FinishHuman
  BY <1>2, WalkReturn DEF FinishHuman
<1>3. CASE GiveUp
  BY <1>3 DEF GiveUp, Walk, NoFailure
<1>4. CASE UpToDate
  <2>1. Cur[2] \in Steps
    BY <1>4 DEF UpToDate, TypeInv, TypeOK
  <2> QED BY <1>4, <2>1, Names, WalkReturn DEF UpToDate
<1>5. CASE Touch \/ RmTargetStamp \/ RmBuiltStamp \/ RmDir
  <2>1. Cur[2] \in Steps \cup Removals
    BY <1>5 DEF Touch, RmTargetStamp, RmBuiltStamp, RmDir, TypeInv, LineFits,
                RecipeLines, Steps, Work, Removals
  <2> QED BY <1>5, <2>1, Names, WalkReturn
          DEF Touch, RmTargetStamp, RmBuiltStamp, RmDir
<1>6. CASE BeginRecipe \/ TestE \/ WgetOk \/ WgetNextSite \/ RunWork
           \/ UninstallStaging \/ RmStagingStamp \/ UninstallTarget
           \/ CleanObjects \/ UNCHANGED vars
  <2>1. UNCHANGED <<goal, stack, done, failed>>
    BY <1>6 DEF BeginRecipe, TestE, WgetOk, WgetNextSite, RunWork,
                UninstallStaging, RmStagingStamp, UninstallTarget,
                UninstallFiles, CleanObjects, vars
  <2> QED BY <2>1 DEF Walk, NoFailure, ListedOrder, DoneClosed, RemovalPath,
                      AfterRemoval
<1>7. CASE CommandFails \/ Kill
  BY <1>7, WalkEnds DEF CommandFails, Kill
<1>8. CASE \E g \in Asked : StartMake(g)
  BY <1>8, WalkEnds
<1>9. ASSUME NEW p \in Pkg, NEW s \in ByHand, RemoveStamp(p, s) PROVE Walk'
  BY <1>9, WalkEnds DEF RemoveStamp
<1> QED BY <1>1, <1>2, <1>3, <1>4, <1>5, <1>6, <1>7, <1>8, <1>9
        DEF Next, MakeStep

\* While a step is taken up, no removal has been done.
LEMMA StepUndisturbed ==
    ASSUME TypeInv, Walk, stack # << >>, Cur[2] \in Steps
    PROVE  Undisturbed /\ \A t \in done : t[2] \notin Removals
<1>1. Len(stack) \in DOMAIN stack /\ Cur = stack[Len(stack)]
  BY Stacked
<1>2. Cur[2] \notin RemovalNames /\ Cur[2] \notin Removals
  BY Names
<1>3. \A t \in done : t[2] \notin Removals
  BY <1>1, <1>2 DEF Walk, AfterRemoval
<1> QED BY <1>2, <1>3 DEF Undisturbed

\* A removal is taken up for a goal that removes.
LEMMA RemovalDisturbs ==
    ASSUME TypeInv, Walk, stack # << >>, Cur[2] \in Removals
    PROVE  goal \in Pkg \X {"uninstall", "clean", "dirclean"}
<1>1. /\ Len(stack) \in DOMAIN stack /\ Cur = stack[Len(stack)]
      /\ Cur[1] \in Pkg
  BY Stacked, CurType
<1>2. \E m \in RemovalGoals(Cur[2]) : goal = <<Cur[1], m>>
  BY <1>1, Names DEF Walk, RemovalPath
<1> QED BY <1>1, <1>2 DEF RemovalGoals

\* The line that runs says what kind of target is on top of the stack.
LEMMA LineNames ==
    ASSUME TypeInv, line # "idle"
    PROVE  /\ line \in {"fetch_source", "fetch_patch"} => Cur[2] = "downloaded"
           /\ line = "work" => Cur[2] \in Work
           /\ line = "touch" => Cur[2] \in Steps
           /\ line \in {"uninstall_staging", "rm_staging", "uninstall_target",
                        "rm_target"} => Cur[2] = "uninstalled"
           /\ line \in {"clean", "rm_built"} => Cur[2] = "cleaned"
           /\ line = "rm_dir" => Cur[2] = "dircleaned"
           /\ Cur[1] \in Pkg /\ Cur = <<Cur[1], Cur[2]>> /\ Cur \notin stamp
           /\ stack # << >>
<1>1. Cur[2] \in Steps \cup Removals
  BY DEF TypeInv, LineFits, RecipeLines, Steps, Work, Removals
<1>2. Cur = <<Cur[1], Cur[2]>>
  BY <1>1, CurType DEF TypeInv, LineFits
<1> QED BY <1>2 DEF TypeInv, LineFits, RecipeLines, Steps, Work

\* Only the lines of a removal take stamps away while make runs.
LEMMA StampLoss ==
    ASSUME TypeInv, stack # << >>, BrokenOff
    PROVE  /\ stamp' \subseteq stamp
           /\ stamp' = stamp \/ line = "rm_dir"
           /\ stamp \ stamp' \subseteq {Cur[1]} \X Steps
<1>1. CASE line = "rm_dir"
  BY <1>1 DEF BrokenOff, StampsOf, disk, Fetching
<1>2. CASE line # "rm_dir"
  BY <1>2 DEF BrokenOff, disk, Fetching
<1> QED BY <1>1, <1>2

LEMMA DoneStampedStep ==
    ASSUME ~KeepGoing, TypeInv, ControlInv, [Next]_vars
    PROVE  DoneStamped'
<1> SUFFICES ASSUME Undisturbed'
             PROVE  \A t \in done' : t[2] \in Steps => t \in stamp'
  BY DEF DoneStamped
<1> USE DEF ControlInv
<1>0. Walk
  BY DEF Walk
<1>1. ASSUME NEW i \in 1 .. (IF stack = << >> THEN 0 ELSE Len(Prereqs(Cur))),
             Consider(i)
      PROVE  \A t \in done' : t[2] \in Steps => t \in stamp'
  <2>1. stack # << >> /\ UNCHANGED <<goal, done, stamp>>
    BY <1>1 DEF Consider, disk
  <2>2. Cur[2] \notin Removals
    BY <1>1, Stacked, PrereqFacts, Names DEF Consider
  <2>3. Undisturbed
    BY <2>1, <2>2 DEF Undisturbed
  <2> QED BY <2>1, <2>3 DEF DoneStamped
<1>2. CASE FinishHuman \/ UpToDate \/ Touch
  <2>1. /\ stack # << >> /\ done' = done \cup {Cur} /\ UNCHANGED goal
        /\ stamp \subseteq stamp'
    BY <1>2 DEF FinishHuman, UpToDate, Touch, Return, disk
  <2>2. Cur[2] \in Steps => Cur \in stamp'
    BY <1>2, Names DEF FinishHuman, UpToDate, Touch, disk
  <2>3. Cur[2] \notin Removals
    BY <1>2, Names, LineNames DEF FinishHuman, UpToDate, Touch, TypeInv, TypeOK
  <2>4. Undisturbed
    BY <2>1, <2>3 DEF Undisturbed
  <2> QED BY <2>1, <2>2, <2>4 DEF DoneStamped
<1>3. CASE GiveUp
  BY <1>3 DEF GiveUp, NoFailure
<1>4. CASE RmStagingStamp \/ RmTargetStamp \/ RmBuiltStamp \/ RmDir
  <2>1. stack # << >> /\ Cur[2] \in Removals
    BY <1>4, LineNames DEF RmStagingStamp, RmTargetStamp, RmBuiltStamp, RmDir,
                           Removals
  <2>2. goal' \in Pkg \X {"uninstall", "clean", "dirclean"}
    BY <1>0, <1>4, <2>1, RemovalDisturbs
    DEF RmStagingStamp, RmTargetStamp, RmBuiltStamp, RmDir, Return
  <2>3. Cur' = Cur \/ Cur \in done'
    BY <1>4 DEF RmStagingStamp, RmTargetStamp, RmBuiltStamp, RmDir, Return, Cur
  <2> QED BY <2>1, <2>2, <2>3 DEF Undisturbed
<1>5. CASE BeginRecipe \/ TestE \/ WgetOk \/ WgetNextSite \/ RunWork
           \/ UninstallStaging \/ UninstallTarget \/ CleanObjects
           \/ UNCHANGED vars
  <2>1. UNCHANGED <<goal, stack, done, stamp>>
    BY <1>5 DEF BeginRecipe, TestE, WgetOk, WgetNextSite, RunWork, disk,
                UninstallStaging, UninstallTarget, UninstallFiles,
                CleanObjects, vars
  <2>2. Undisturbed
    BY <2>1 DEF Undisturbed, Cur
  <2> QED BY <2>1, <2>2 DEF DoneStamped
<1>6. CASE CommandFails
  <2>1. stack # << >> /\ stack' = << >> /\ BrokenOff /\ UNCHANGED <<goal, done>>
    BY <1>6 DEF CommandFails
  <2>2. goal \notin Pkg \X {"uninstall", "clean", "dirclean"}
    BY <2>1 DEF Undisturbed
  <2>3. line # "rm_dir"
    BY <1>0, <2>1, <2>2, LineNames, RemovalDisturbs DEF Removals
  <2>4. stamp' = stamp
    BY <2>1, <2>3, StampLoss
  <2> QED BY <2>1, <2>2, <2>4 DEF DoneStamped, Undisturbed
<1>7. CASE Kill \/ \E g \in Asked : StartMake(g)
  BY <1>7 DEF Kill, StartMake
<1>8. ASSUME NEW p \in Pkg, NEW s \in ByHand, RemoveStamp(p, s)
      PROVE  \A t \in done' : t[2] \in Steps => t \in stamp'
  BY <1>8 DEF RemoveStamp
<1> QED BY <1>1, <1>2, <1>3, <1>4, <1>5, <1>6, <1>7, <1>8 DEF Next, MakeStep

LEMMA UninstallStep ==
    ASSUME ~KeepGoing, TypeInv, ControlInv, [Next]_vars
    PROVE  UninstallSeen' /\ RemovalUnsettled'
<1> USE DEF ControlInv
<1>0. Walk
  BY DEF Walk
<1>1. CASE \/ \E i \in 1 .. (IF stack = << >> THEN 0 ELSE Len(Prereqs(Cur))) :
                  Consider(i)
           \/ FinishHuman \/ UpToDate
  <2>1. /\ line' = "idle" /\ UNCHANGED stamp
        /\ done' \subseteq done \cup {Cur}
        /\ \A p \in Pkg : Cur = <<p, "uninstalled">> => done' = done
    BY <1>1, Names DEF Consider, FinishHuman, UpToDate, Return, disk, Removals,
                       TypeInv, TypeOK
  <2>2. \A p \in Pkg : <<p, "uninstalled">> \in done' =>
            <<p, "uninstalled">> \in done
    BY <2>1
  <2> QED BY <2>1, <2>2 DEF UninstallSeen, RemovalUnsettled
<1>2. CASE GiveUp
  BY <1>2 DEF GiveUp, NoFailure
<1>3. CASE BeginRecipe
  <2>1. stack # << >> /\ UNCHANGED <<stack, done, stamp>> /\ Cur' = Cur
    BY <1>3 DEF BeginRecipe, disk, Cur
  <2>2. line' \notin {"uninstall_target", "rm_target"}
    BY <1>3 DEF BeginRecipe, FirstLine
  <2>3. Cur[2] \in Removals => Cur \in unsettled'
    BY <1>3 DEF BeginRecipe
  <2> QED BY <2>1, <2>2, <2>3 DEF UninstallSeen, RemovalUnsettled
<1>4. CASE TestE \/ WgetOk \/ WgetNextSite \/ RunWork
  <2>1. /\ UNCHANGED <<stack, done, stamp>> /\ Cur' = Cur
        /\ line' \notin {"uninstall_target", "rm_target"}
    BY <1>4 DEF TestE, WgetOk, WgetNextSite, RunWork, AfterFetch, disk, Cur,
                Fetching
  <2>2. Cur[2] \notin Removals
    BY <1>4, LineNames DEF TestE, WgetOk, WgetNextSite, RunWork, Fetching, Work,
                           Removals
  <2> QED BY <2>1, <2>2 DEF UninstallSeen, RemovalUnsettled
<1>5. CASE Touch
  <2>1. /\ stack # << >> /\ Cur[2] \in Steps /\ line' = "idle"
        /\ done' = done \cup {Cur}
    BY <1>5, LineNames DEF Touch, Return
  <2>2. \A t \in done' : t[2] \notin Removals
    BY <1>0, <2>1, StepUndisturbed, Names
  <2> QED BY <2>1, <2>2 DEF UninstallSeen, RemovalUnsettled, Removals
<1>6. CASE UninstallStaging \/ UninstallTarget
  <2>1. /\ UNCHANGED <<stack, done, stamp, unsettled>> /\ Cur' = Cur
        /\ line # "idle"
        /\ line' \in {"uninstall_target", "rm_target"} =>
               line = "uninstall_target"
    BY <1>6 DEF UninstallStaging, UninstallTarget, UninstallFiles, Cur
  <2> QED BY <2>1 DEF UninstallSeen, RemovalUnsettled
<1>7. CASE RmStagingStamp
  <2>1. /\ UNCHANGED <<stack, done, unsettled>> /\ Cur' = Cur
        /\ stamp' = stamp \ {<<Cur[1], "staging_installed">>} /\ line # "idle"
    BY <1>7 DEF RmStagingStamp, Cur
  <2> QED BY <2>1 DEF UninstallSeen, RemovalUnsettled
<1>8. CASE RmTargetStamp
  <2>1. /\ line' = "idle" /\ done' = done \cup {Cur}
        /\ stamp' = stamp \ {<<Cur[1], "target_installed">>}
        /\ <<Cur[1], "staging_installed">> \notin stamp
    BY <1>8 DEF RmTargetStamp, Return, UninstallSeen
  <2> QED BY <2>1 DEF UninstallSeen, RemovalUnsettled
<1>9. CASE RmBuiltStamp \/ RmDir
  <2>1. /\ line' = "idle" /\ done' = done \cup {Cur} /\ stamp' \subseteq stamp
        /\ Cur[2] # "uninstalled"
    BY <1>9, LineNames DEF RmBuiltStamp, RmDir, Return
  <2> QED BY <2>1 DEF UninstallSeen, RemovalUnsettled
<1>10. CASE CleanObjects
  <2>1. /\ UNCHANGED <<stack, done, stamp, unsettled>> /\ Cur' = Cur
        /\ line # "idle" /\ line' = "rm_built"
    BY <1>10 DEF CleanObjects, Cur
  <2> QED BY <2>1 DEF UninstallSeen, RemovalUnsettled
<1>11. CASE CommandFails \/ Kill
  <2>1. line' = "idle" /\ done' \subseteq done /\ stamp' \subseteq stamp
    BY <1>11, StampLoss DEF CommandFails, Kill
  <2> QED BY <2>1 DEF UninstallSeen, RemovalUnsettled
<1>12. CASE \E g \in Asked : StartMake(g)
  <2>1. line' = line /\ done' = {} /\ line = "idle"
    BY <1>12 DEF StartMake, TypeInv, LineFits
  <2> QED BY <2>1 DEF UninstallSeen, RemovalUnsettled
<1>13. ASSUME NEW p \in Pkg, NEW s \in ByHand, RemoveStamp(p, s)
       PROVE  UninstallSeen' /\ RemovalUnsettled'
  <2>1. line' = line /\ done' = {} /\ line = "idle"
    BY <1>13 DEF RemoveStamp, TypeInv, LineFits
  <2> QED BY <2>1 DEF UninstallSeen, RemovalUnsettled
<1>14. CASE UNCHANGED vars
  BY <1>14 DEF vars, UninstallSeen, RemovalUnsettled, Cur
<1> QED
  BY <1>1, <1>2, <1>3, <1>4, <1>5, <1>6, <1>7, <1>8, <1>9, <1>10, <1>11, <1>12,
     <1>13, <1>14 DEF Next, MakeStep

\* Without -k the control part of the invariant is preserved.
LEMMA ControlStep ==
    ASSUME ~KeepGoing, TypeInv, ControlInv, [Next]_vars
    PROVE  ControlInv'
<1>1. Walk'
  BY WalkStep DEF Walk, ControlInv
<1> QED BY <1>1, DoneStampedStep, UninstallStep DEF Walk, ControlInv

LEMMA ControlInit == Init => ControlInv
BY DEF Init, ControlInv, NoFailure, ListedOrder, DoneClosed, RemovalPath,
       AfterRemoval, DoneStamped, UninstallSeen, RemovalUnsettled

-----------------------------------------------------------------------------
(* The stamps are made in order                                            *)

\* The step whose result the commands of a step work on.
Needs(s) ==
    CASE s = "extracted"  -> "downloaded"
      [] s = "patched"    -> "extracted"
      [] s = "configured" -> "patched"
      [] s = "built"      -> "configured"
      [] OTHER            -> "built"

\* When a step is taken up, the steps before it have their stamps.
LEMMA EarlierStamped ==
    ASSUME TypeInv, ControlInv, stack # << >>, Cur[2] \in Work
    PROVE  /\ Cur[1] \in Pkg
           /\ <<Cur[1], Needs(Cur[2])>> \in stamp
           /\ <<Cur[1], Presupposes(Cur[2])>> \in stamp
           /\ Cur[2] = "patched" => <<Cur[1], "downloaded">> \in stamp
           /\ Cur[2] = "configured" =>
                 \A i \in DOMAIN Deps[Cur[1]] : <<Deps[Cur[1]][i], "pkg">> \in done
<1> DEFINE p == Cur[1]  s == Cur[2]
<1>1. Walk /\ DoneStamped
  BY DEF ControlInv, Walk
<1>2. p \in Pkg /\ Len(stack) \in DOMAIN stack /\ Cur = stack[Len(stack)]
  BY CurType, Stacked DEF Steps
<1>3. \A t \in done : t[2] \in Steps => t \in stamp
  BY <1>1, StepUndisturbed DEF Steps, DoneStamped
<1>4. <<p, Before(s)>> \in done
  BY <1>1, <1>2 DEF Walk, ListedOrder, Ordered, Work
<1>5. DoneClosed
  BY <1>1 DEF Walk
<1>6. /\ <<p, "build">> \in done =>
            <<p, "configure">> \in done /\ <<p, "built">> \in done
      /\ <<p, "configure">> \in done =>
            <<p, "patch">> \in done /\ <<p, "configured">> \in done
      /\ <<p, "patch">> \in done =>
            <<p, "extract">> \in done /\ <<p, "patched">> \in done
      /\ <<p, "extract">> \in done =>
            <<p, "depends">> \in done /\ <<p, "extracted">> \in done
      /\ <<p, "depends">> \in done =>
            /\ <<p, "source">> \in done
            /\ \A i \in DOMAIN Deps[p] : <<Deps[p][i], "pkg">> \in done
      /\ <<p, "source">> \in done => <<p, "downloaded">> \in done
  BY <1>2, <1>5, DoneBelow
<1>7. CASE s = "extracted"
  BY <1>2, <1>3, <1>4, <1>6, <1>7 DEF Before, Needs, Presupposes, Steps, Work
<1>8. CASE s = "patched"
  BY <1>2, <1>3, <1>4, <1>6, <1>8 DEF Before, Needs, Presupposes, Steps, Work
<1>9. CASE s = "configured"
  BY <1>2, <1>3, <1>4, <1>6, <1>9 DEF Before, Needs, Presupposes, Steps, Work
<1>10. CASE s = "built"
  BY <1>2, <1>3, <1>4, <1>6, <1>10 DEF Before, Needs, Presupposes, Steps, Work
<1>11. CASE s \in {"host_installed", "staging_installed", "target_installed"}
  BY <1>2, <1>3, <1>4, <1>6, <1>11 DEF Before, Needs, Presupposes, Steps, Work
<1> QED BY <1>7, <1>8, <1>9, <1>10, <1>11 DEF Work

\* A stamp is only made when the one it presupposes exists, and only taken
\* away with those that presuppose it, or by a removal that is broken off.
LEMMA OrderStep ==
    ASSUME ~KeepGoing, TypeInv, ControlInv, StampOrder, [Next]_vars
    PROVE  StampOrder'
<1> USE DEF ControlInv
<1>1. CASE stamp' = stamp /\ unsettled \subseteq unsettled'
  BY <1>1 DEF StampOrder
<1>2. CASE Touch
  <2>1. /\ stack # << >> /\ stamp' = stamp \cup {Cur} /\ UNCHANGED unsettled
        /\ Cur[1] \in Pkg /\ Cur[2] \in Steps /\ Cur = <<Cur[1], Cur[2]>>
    BY <1>2, LineNames DEF Touch
  <2>2. Cur[2] \in Work => <<Cur[1], Presupposes(Cur[2])>> \in stamp
    BY <2>1, EarlierStamped
  <2>3. Cur[2] \notin Work => Presupposes(Cur[2]) = Cur[2]
    BY <2>1 DEF Steps, Presupposes
  <2> QED BY <2>1, <2>2, <2>3 DEF StampOrder
<1>3. CASE RmStagingStamp
  BY <1>3 DEF RmStagingStamp, StampOrder, Presupposes
<1>4. CASE RmTargetStamp
  <2>1. /\ stamp' = stamp \ {<<Cur[1], "target_installed">>}
        /\ unsettled' = unsettled \ {Cur} /\ Cur[2] = "uninstalled"
    BY <1>4, LineNames DEF RmTargetStamp
  <2> QED BY <2>1 DEF StampOrder, Presupposes
<1>5. CASE RmBuiltStamp
  <2>1. /\ stamp' = stamp \ {<<Cur[1], "built">>} /\ stack # << >>
        /\ unsettled' = unsettled \ {Cur} /\ Cur[2] = "cleaned"
        /\ Cur[1] \in Pkg
    BY <1>5, LineNames DEF RmBuiltStamp
  <2>2. <<Cur[1], "uninstall">> \in done
    BY <2>1, Stacked DEF ListedOrder, Ordered, Removals, Before
  <2>3. <<Cur[1], "uninstalled">> \in done
    BY <2>1, <2>2, DoneBelow
  <2>4. /\ <<Cur[1], "staging_installed">> \notin stamp
        /\ <<Cur[1], "target_installed">> \notin stamp
    BY <2>1, <2>3 DEF UninstallSeen
  <2>5. \A s \in Steps : Presupposes(s) = "built" =>
            s \in {"staging_installed", "target_installed"}
    BY DEF Presupposes
  <2> QED BY <2>1, <2>4, <2>5 DEF StampOrder
<1>6. CASE RmDir
  <2>1. /\ stamp' = stamp \ ({Cur[1]} \X Steps)
        /\ unsettled' = {u \in unsettled : u[1] # Cur[1]}
    BY <1>6 DEF RmDir, StampsOf
  <2> QED BY <2>1 DEF StampOrder
<1>7. CASE CommandFails \/ Kill
  <2>1. stack # << >> /\ BrokenOff /\ UNCHANGED unsettled
    BY <1>7 DEF CommandFails, Kill
  <2>2. CASE line # "rm_dir"
    BY <1>1, <2>1, <2>2, StampLoss
  <2>3. CASE line = "rm_dir"
    <3>1. Cur = <<Cur[1], "dircleaned">> /\ Cur \in unsettled
      BY <2>3, LineNames DEF RemovalUnsettled, Removals
    <3>2. stamp' \subseteq stamp /\ stamp \ stamp' \subseteq {Cur[1]} \X Steps
      BY <2>1, StampLoss
    <3> QED BY <2>1, <3>1, <3>2 DEF StampOrder
  <2> QED BY <2>2, <2>3
<1>8. ASSUME NEW p \in Pkg, NEW s \in ByHand, RemoveStamp(p, s)
      PROVE  StampOrder'
  <2>1. /\ stamp' = stamp \ {<<p, s>>}
        /\ unsettled' = unsettled \cup {<<p, "byhand">>}
    BY <1>8 DEF RemoveStamp
  <2> QED BY <2>1 DEF StampOrder
<1>9. CASE GiveUp
  BY <1>9 DEF GiveUp, NoFailure
<1>10. CASE \/ \E i \in 1 .. (IF stack = << >> THEN 0 ELSE Len(Prereqs(Cur))) :
                   Consider(i)
            \/ FinishHuman \/ UpToDate \/ BeginRecipe
            \/ TestE \/ WgetOk \/ WgetNextSite \/ RunWork
            \/ UninstallStaging \/ UninstallTarget \/ CleanObjects
            \/ \E g \in Asked : StartMake(g)
            \/ UNCHANGED vars
  BY <1>1, <1>10
  DEF Consider, FinishHuman, UpToDate, BeginRecipe, TestE, WgetOk,
      WgetNextSite, RunWork, UninstallStaging, UninstallTarget,
      UninstallFiles, CleanObjects, StartMake, vars, disk
<1> QED BY <1>2, <1>3, <1>4, <1>5, <1>6, <1>7, <1>8, <1>9, <1>10
        DEF Next, MakeStep

\* Without -k, no step of a package is marked as done before the step it
\* presupposes, although no stamp is a prerequisite of another.
THEOREM StampsInOrder ==
    ASSUME ~KeepGoing
    PROVE  Spec => []StampOrder
<1> DEFINE I == TypeInv /\ ControlInv /\ StampOrder
<1>1. Init => I
  BY TypeInit, ControlInit DEF Init, StampOrder
<1>2. I /\ [Next]_vars => I'
  BY TypeStep, ControlStep, OrderStep
<1> QED BY <1>1, <1>2, PTL DEF Spec

-----------------------------------------------------------------------------
(* The stamps tell the truth                                               *)

\* A step whose result is made from that of a stamped step has no stamp
\* unless the latter has one.
LEMMA LaterStamped ==
    ASSUME StampOrder, NEW p \in Pkg, NEW s \in Work, NEW w \in Later(s),
           w # "host_installed", <<p, w>> \in stamp,
           <<p, "dircleaned">> \notin unsettled, <<p, "byhand">> \notin unsettled
    PROVE  <<p, s>> \in stamp
<1>1. \A v \in Steps : <<p, v>> \in stamp => <<p, Presupposes(v)>> \in stamp
  BY DEF StampOrder
<1>2. /\ <<p, "staging_installed">> \in stamp => <<p, "built">> \in stamp
      /\ <<p, "target_installed">> \in stamp => <<p, "built">> \in stamp
      /\ <<p, "built">> \in stamp => <<p, "configured">> \in stamp
      /\ <<p, "configured">> \in stamp => <<p, "patched">> \in stamp
      /\ <<p, "patched">> \in stamp => <<p, "extracted">> \in stamp
  BY <1>1 DEF Presupposes, Steps, Work
<1>3. w \in Work
  BY DEF Later, Work
<1>4. CASE s = "extracted"
  BY <1>2, <1>3, <1>4 DEF Later, Work
<1>5. CASE s = "patched"
  BY <1>2, <1>3, <1>5 DEF Later, Work
<1>6. CASE s = "configured"
  BY <1>2, <1>3, <1>6 DEF Later, Work
<1>7. CASE s = "built"
  BY <1>2, <1>3, <1>7 DEF Later, Work
<1>8. CASE s \in {"host_installed", "staging_installed", "target_installed"}
  BY <1>8 DEF Later
<1> QED BY <1>4, <1>5, <1>6, <1>7, <1>8 DEF Work

\* A removal, or a removal by hand, that is not settled excuses these stamps.
LEMMA ExcusesFacts ==
    /\ \A s \in Steps : s # "host_installed" =>
           "dircleaned" \in Excuses(s) /\ "byhand" \in Excuses(s)
    /\ \A s \in {"staging_installed", "target_installed"} :
           "uninstalled" \in Excuses(s) /\ "cleaned" \in Excuses(s)
    /\ "cleaned" \in Excuses("built")
    /\ \A s \in Work : s # "host_installed" => Excuses(Needs(s)) \subseteq Excuses(s)
    /\ Excuses("downloaded") \subseteq Excuses("patched")
    /\ \A s \in Steps : "uninstalled" \in Excuses(s) =>
           s \in {"staging_installed", "target_installed"}
    /\ \A s \in Steps : "cleaned" \in Excuses(s) =>
           s \in {"built", "staging_installed", "target_installed"}
BY DEF Steps, Work, Excuses, Needs

\* Files only appear in DL_DIR.
DlKept == \A f \in File : dl'[f] = dl[f] \/ dl[f] = "none"

\* What was said of a package's files stays true while files only appear.
LEMMA FilesKept ==
    ASSUME TypeOK, DlKept, NEW p \in Pkg, Whole(p)'
    PROVE  /\ Whole(p)
           /\ Accomplished(p, "downloaded") => Accomplished(p, "downloaded")'
<1>1. /\ SourceFile[p] \in File
      /\ PatchFile[p] # NoFile => PatchFile[p] \in File
  BY FileAssumption
<1> QED BY <1>1 DEF DlKept, Whole, Accomplished, PatchFileGood

\* Nothing but files in DL_DIR and excuses is added.
LEMMA SoundKept ==
    ASSUME TypeOK, StampSound, DlKept, tree' = tree,
           stamp' \subseteq stamp, unsettled \subseteq unsettled'
    PROVE  StampSound'
<1> SUFFICES ASSUME NEW p \in Pkg, NEW s \in Steps, <<p, s>> \in stamp',
                    Intact(p, s)'
             PROVE  Accomplished(p, s)'
  BY DEF StampSound
<1>1. Whole(p)'
  BY DEF Intact
<1>2. Intact(p, s)
  BY <1>1, FilesKept DEF Intact
<1>3. Accomplished(p, s)
  BY <1>2 DEF StampSound
<1>4. CASE s = "downloaded"
  BY <1>1, <1>3, <1>4, FilesKept
<1>5. CASE s # "downloaded"
  BY <1>3, <1>5 DEF Accomplished
<1> QED BY <1>4, <1>5

\* A step that has no stamp may be redone, or broken off.
LEMMA SoundRewritten ==
    ASSUME TypeOK, StampOrder, StampSound,
           NEW p \in Pkg, NEW s \in Work, NEW q \in Quality,
           <<p, s>> \notin stamp',
           tree' = Rewrite(p, s, q), dl' = dl,
           \/ stamp' = stamp /\ unsettled' = unsettled
           \/ /\ stamp' = stamp \ {<<p, s>>}
              /\ unsettled' = unsettled \cup {<<p, "byhand">>}
    PROVE  StampSound'
<1> SUFFICES ASSUME NEW r \in Pkg, NEW w \in Steps, <<r, w>> \in stamp',
                    Intact(r, w)'
             PROVE  Accomplished(r, w)'
  BY DEF StampSound
<1>1. Intact(r, w) /\ <<r, w>> \in stamp
  BY DEF Intact, Whole
<1>2. Accomplished(r, w)
  BY <1>1 DEF StampSound
<1>3. CASE w = "downloaded"
  BY <1>2, <1>3 DEF Accomplished, PatchFileGood
<1>4. CASE w # "downloaded" /\ r # p
  BY <1>2, <1>4 DEF Accomplished, Rewrite, TypeOK
<1>5. CASE w # "downloaded" /\ r = p
  <2>1. w \in Work /\ w # s
    BY <1>5 DEF Steps
  <2>2. tree'[p][w] = IF w \in Later(s) /\ tree[p][w] = "good" THEN "stale"
                      ELSE tree[p][w]
    BY <2>1 DEF Rewrite, TypeOK
  <2>3. CASE w = "host_installed"
    BY <1>2, <1>5, <2>2, <2>3 DEF Accomplished
  <2>4. CASE w # "host_installed" /\ w \notin Later(s)
    BY <1>2, <1>5, <2>2, <2>4 DEF Accomplished
  <2>5. CASE w # "host_installed" /\ w \in Later(s)
    <3>1. "dircleaned" \in Excuses(w) /\ "byhand" \in Excuses(w)
      BY <2>5, ExcusesFacts
    <3>2. <<p, "dircleaned">> \notin unsettled' /\ <<p, "byhand">> \notin unsettled'
      BY <1>5, <3>1 DEF Intact
    <3>3. stamp' = stamp /\ unsettled' = unsettled
      BY <3>2
    <3>4. <<p, s>> \in stamp
      BY <1>1, <1>5, <2>5, <3>2, <3>3, LaterStamped
    <3> QED BY <3>3, <3>4
  <2> QED BY <2>3, <2>4, <2>5
<1> QED BY <1>3, <1>4, <1>5

\* What a step is made from is there when its commands run.
LEMMA InputsThere ==
    ASSUME TypeInv, ControlInv, StampSound, stack # << >>, Cur[2] \in Work,
           Cur[2] # "host_installed", Intact(Cur[1], Cur[2])
    PROVE  InputsGood(Cur[1], Cur[2])
<1> DEFINE p == Cur[1]  s == Cur[2]
<1>1. /\ p \in Pkg /\ <<p, Needs(s)>> \in stamp
      /\ s = "patched" => <<p, "downloaded">> \in stamp
  BY EarlierStamped
<1>2. Needs(s) \in Steps
  BY DEF Needs, Steps, Work
<1>3. Intact(p, Needs(s)) /\ (s = "patched" => Intact(p, "downloaded"))
  BY ExcusesFacts DEF Intact
<1>4. /\ Accomplished(p, Needs(s))
      /\ s = "patched" => Accomplished(p, "downloaded")
  BY <1>1, <1>2, <1>3 DEF StampSound, Steps
<1> QED BY <1>4 DEF Needs, InputsGood, Accomplished, Work

\* The lines of .stamp_downloaded leave nothing missing behind them.
LEMMA FetchStep ==
    ASSUME TypeInv, FetchSeen, [Next]_vars
    PROVE  FetchSeen'
<1> USE DEF TypeInv
<1>1. CASE TestE \/ WgetOk \/ WgetNextSite
  <2>1. /\ Cur[1] \in Pkg /\ Cur' = Cur /\ Fetching
        /\ line = "fetch_patch" => PatchFile[Cur[1]] # NoFile
    BY <1>1 DEF TestE, WgetOk, WgetNextSite, Fetching, LineFits, Cur
  <2>2. /\ SourceFile[Cur[1]] \in File /\ FetchedFile \in File
        /\ PatchFile[Cur[1]] # NoFile => PatchFile[Cur[1]] \in File
    BY <2>1, FileAssumption DEF FetchedFile, Fetching
  <2>3. \A f \in File : dl[f] # "none" => dl'[f] # "none"
    BY <1>1 DEF TestE, WgetOk, WgetNextSite, WgetRemnant, disk, TypeOK
  <2>4. \/ line' = line
        \/ line' = AfterFetch /\ dl'[FetchedFile] # "none"
    <3>1. CASE TestE
      BY <3>1 DEF TestE, disk
    <3>2. CASE WgetOk
      <4>1. line' = AfterFetch
        BY <3>2 DEF WgetOk
      <4>2. dl'[FetchedFile] \in {"good", dl[FetchedFile]} \ {"none"}
        BY <2>2, <3>2 DEF WgetOk, TypeOK
      <4> QED BY <4>1, <4>2
    <3>3. CASE WgetNextSite
      BY <3>3 DEF WgetNextSite
    <3> QED BY <1>1, <3>1, <3>2, <3>3
  <2>5. CASE line' = line
    BY <2>1, <2>2, <2>3, <2>5 DEF FetchSeen, Fetching
  <2>6. CASE line' = AfterFetch /\ dl'[FetchedFile] # "none"
    BY <2>1, <2>2, <2>3, <2>6 DEF FetchSeen, Fetching, FetchedFile, AfterFetch
  <2> QED BY <2>4, <2>5, <2>6
<1>2. CASE \/ \E i \in 1 .. (IF stack = << >> THEN 0 ELSE Len(Prereqs(Cur))) :
                  Consider(i)
           \/ FinishHuman \/ GiveUp \/ UpToDate \/ Touch
           \/ RmTargetStamp \/ RmBuiltStamp \/ RmDir \/ CommandFails \/ Kill
           \/ \E g \in Asked : StartMake(g)
           \/ \E p \in Pkg, s \in ByHand : RemoveStamp(p, s)
  <2>1. line' = "idle"
    <3>1. CASE GiveUp
      BY <3>1, CurType DEF GiveUp, Human, PkgHuman, RecipeLines, Work
    <3> QED BY <1>2, <3>1
            DEF Consider, FinishHuman, UpToDate, Touch, RmTargetStamp, Return,
                RmBuiltStamp, RmDir, CommandFails, Kill, StartMake,
                RemoveStamp, LineFits
  <2> QED BY <2>1 DEF FetchSeen
<1>3. CASE BeginRecipe \/ UninstallStaging \/ RmStagingStamp
           \/ UninstallTarget \/ CleanObjects
  BY <1>3 DEF BeginRecipe, FirstLine, UninstallStaging, RmStagingStamp,
              UninstallTarget, UninstallFiles, CleanObjects, FetchSeen
<1>4. CASE RunWork
  <2>1. line' = "touch" /\ Cur' = Cur /\ Cur[2] \in Work
    BY <1>4, LineNames DEF RunWork, Cur
  <2> QED BY <2>1 DEF FetchSeen, Work
<1>5. CASE UNCHANGED vars
  BY <1>5 DEF vars, FetchSeen, Cur
<1> QED BY <1>1, <1>2, <1>3, <1>4, <1>5 DEF Next, MakeStep

\* Nothing is touched before the work it stands for is done.
LEMMA TouchStep ==
    ASSUME TypeInv, TypeInv', ControlInv, FetchSeen', TouchSound, StampSound,
           [Next]_vars
    PROVE  TouchSound'
<1> SUFFICES ASSUME line' = "touch", Intact(Cur[1], Cur[2])'
             PROVE  Accomplished(Cur[1], Cur[2])'
  BY DEF TouchSound
<1>1. /\ Cur'[1] \in Pkg /\ Cur'[2] \in Steps
  BY DEF TypeInv, LineFits, RecipeLines, Steps, Work
<1>2. CASE Cur'[2] = "downloaded"
  <2> DEFINE p == Cur'[1]
  <2>1. /\ dl'[SourceFile[p]] # "none"
        /\ PatchFile[p] # NoFile => dl'[PatchFile[p]] # "none"
    BY <1>2 DEF FetchSeen
  <2>2. /\ dl'[SourceFile[p]] # "part"
        /\ PatchFile[p] # NoFile => dl'[PatchFile[p]] # "part"
    BY DEF Intact, Whole
  <2>3. /\ SourceFile[p] \in File
        /\ PatchFile[p] # NoFile => PatchFile[p] \in File
    BY <1>1, FileAssumption
  <2>4. \A g \in File : dl'[g] \in {"none", "part", "good"}
    BY DEF TypeInv, TypeOK
  <2> QED BY <1>2, <2>1, <2>2, <2>3, <2>4 DEF Accomplished, PatchFileGood
<1>3. CASE Cur'[2] # "downloaded"
  <2>1. Cur'[2] \in Work
    BY <1>1, <1>3 DEF Steps
  <2>2. CASE RunWork
    <3>1. /\ stack # << >> /\ Cur' = Cur /\ Cur[1] \in Pkg /\ Cur[2] \in Work
          /\ tree' = Rewrite(Cur[1], Cur[2],
                         IF InputsGood(Cur[1], Cur[2]) THEN "good" ELSE "stale")
          /\ UNCHANGED <<dl, unsettled>>
      BY <2>2, LineNames DEF RunWork, Cur
    <3>2. tree'[Cur[1]][Cur[2]] = IF InputsGood(Cur[1], Cur[2]) THEN "good"
                                  ELSE "stale"
      BY <3>1 DEF Rewrite, TypeInv, TypeOK
    <3>3. CASE Cur[2] = "host_installed"
      BY <3>1, <3>2, <3>3 DEF Accomplished
    <3>4. CASE Cur[2] # "host_installed"
      <4>1. Intact(Cur[1], Cur[2])
        BY <3>1 DEF Intact, Whole
      <4>2. InputsGood(Cur[1], Cur[2])
        BY <3>1, <3>4, <4>1, InputsThere
      <4> QED BY <2>1, <3>1, <3>2, <4>2 DEF Accomplished, Work
    <3> QED BY <3>3, <3>4
  <2>3. CASE TestE \/ WgetOk \/ WgetNextSite
    <3>1. Cur[2] = "downloaded" /\ Cur' = Cur
      BY <2>3, LineNames DEF TestE, WgetOk, WgetNextSite, Fetching, Cur
    <3> QED BY <1>3, <3>1
  <2>4. CASE GiveUp
    <3>1. line = "idle" /\ line' = line
      BY <2>4, CurType DEF GiveUp, Human, PkgHuman, RecipeLines, Work, TypeInv
    <3> QED BY <3>1
  <2>5. CASE BeginRecipe
    BY <2>5 DEF BeginRecipe, FirstLine
  <2>6. CASE UNCHANGED vars
    BY <2>6 DEF vars, TouchSound, Intact, Whole, Accomplished, PatchFileGood, Cur
  <2>7. CASE UninstallStaging \/ RmStagingStamp \/ UninstallTarget
             \/ CleanObjects
    BY <2>7 DEF UninstallStaging, RmStagingStamp, UninstallTarget,
                UninstallFiles, CleanObjects
  <2>8. CASE \/ \E i \in 1 .. (IF stack = << >> THEN 0 ELSE Len(Prereqs(Cur))) :
                    Consider(i)
             \/ FinishHuman \/ UpToDate \/ Touch
             \/ RmTargetStamp \/ RmBuiltStamp \/ RmDir
             \/ CommandFails \/ Kill
             \/ \E g \in Asked : StartMake(g)
             \/ \E p \in Pkg, s \in ByHand : RemoveStamp(p, s)
    <3>1. line' = "idle"
      BY <2>8 DEF Consider, FinishHuman, UpToDate, Touch, RmTargetStamp, Return,
                  RmBuiltStamp, RmDir, CommandFails, Kill, StartMake,
                  RemoveStamp, TypeInv, LineFits
    <3> QED BY <3>1
  <2> QED BY <2>2, <2>3, <2>4, <2>5, <2>6, <2>7, <2>8 DEF Next, MakeStep
<1> QED BY <1>2, <1>3

\* The recipe of a removal: what it takes away is excused until it is done,
\* and by then no stamp speaks of it.
LEMMA SoundRemoval ==
    ASSUME TypeInv, ControlInv, StampSound,
           UninstallStaging \/ RmStagingStamp \/ UninstallTarget \/ RmTargetStamp
           \/ CleanObjects \/ RmBuiltStamp \/ RmDir
    PROVE  StampSound'
<1> DEFINE p == Cur[1]
<1>1. stack # << >> /\ p \in Pkg /\ Cur = <<p, Cur[2]>> /\ line # "idle"
  BY LineNames DEF UninstallStaging, RmStagingStamp, UninstallTarget,
     RmTargetStamp, CleanObjects, RmBuiltStamp, RmDir, UninstallFiles
<1>2. Cur[2] \in Removals => Cur \in unsettled
  BY <1>1 DEF ControlInv, RemovalUnsettled
<1> SUFFICES ASSUME NEW r \in Pkg, NEW s \in Steps, <<r, s>> \in stamp',
                    Intact(r, s)'
             PROVE  Accomplished(r, s)'
  BY DEF StampSound
<1>3. dl' = dl /\ <<r, s>> \in stamp
  BY DEF UninstallStaging, RmStagingStamp, UninstallTarget, RmTargetStamp,
         CleanObjects, RmBuiltStamp, RmDir, UninstallFiles
<1>4. ASSUME Intact(r, s), s # "downloaded" => tree'[r][s] = tree[r][s]
      PROVE  Accomplished(r, s)'
  BY <1>3, <1>4 DEF StampSound, Accomplished, PatchFileGood
<1>5. ASSUME \A k \in Excuses(s) : <<r, k>> \notin unsettled
      PROVE  Intact(r, s)
  BY <1>3, <1>5 DEF Intact, Whole
<1>6. CASE UninstallStaging \/ UninstallTarget
  <2>1. /\ <<p, "uninstalled">> \in unsettled /\ unsettled' = unsettled
        /\ \E w \in {"staging_installed", "target_installed"} :
               tree' = [tree EXCEPT ![p][w] = "none"]
    BY <1>1, <1>2, <1>6, LineNames
    DEF UninstallStaging, UninstallTarget, UninstallFiles, Removals
  <2>2. \A k \in Excuses(s) : <<r, k>> \notin unsettled
    BY <2>1 DEF Intact
  <2>3. r # p \/ s \notin {"staging_installed", "target_installed"}
    BY <2>1, <2>2, ExcusesFacts
  <2>4. s # "downloaded" => tree'[r][s] = tree[r][s]
    BY <1>1, <2>1, <2>3 DEF TypeInv, TypeOK, Steps
  <2> QED BY <1>4, <1>5, <2>2, <2>4
<1>7. CASE RmStagingStamp
  <2>1. UNCHANGED <<tree, unsettled>>
    BY <1>7 DEF RmStagingStamp
  <2> QED BY <1>4, <1>5, <2>1 DEF Intact
<1>8. CASE RmTargetStamp
  <2>1. /\ unsettled' = unsettled \ {<<p, "uninstalled">>} /\ tree' = tree
        /\ <<p, "target_installed">> \notin stamp'
        /\ <<p, "staging_installed">> \notin stamp
    BY <1>1, <1>8, LineNames DEF RmTargetStamp, ControlInv, UninstallSeen
  <2>2. \A k \in Excuses(s) : <<r, k>> \notin unsettled
    <3>1. r = p => "uninstalled" \notin Excuses(s)
      BY <1>3, <2>1, ExcusesFacts
    <3> QED BY <2>1, <3>1 DEF Intact
  <2> QED BY <1>4, <1>5, <2>1, <2>2
<1>9. CASE CleanObjects
  <2>1. /\ <<p, "cleaned">> \in unsettled /\ unsettled' = unsettled
        /\ \E q \in Quality \cup {Remnant(tree[p]["built"])} :
               tree' = [tree EXCEPT ![p]["built"] = q]
    BY <1>1, <1>2, <1>9, LineNames DEF CleanObjects, Removals, Quality
  <2>2. \A k \in Excuses(s) : <<r, k>> \notin unsettled
    BY <2>1 DEF Intact
  <2>3. r # p \/ s # "built"
    BY <2>1, <2>2, ExcusesFacts
  <2>4. s # "downloaded" => tree'[r][s] = tree[r][s]
    BY <1>1, <2>1, <2>3 DEF TypeInv, TypeOK, Steps
  <2> QED BY <1>4, <1>5, <2>2, <2>4
<1>10. CASE RmBuiltStamp
  <2>1. /\ unsettled' = unsettled \ {<<p, "cleaned">>} /\ tree' = tree
        /\ <<p, "built">> \notin stamp' /\ Cur[2] = "cleaned"
    BY <1>1, <1>10, LineNames DEF RmBuiltStamp
  <2>2. /\ <<p, "staging_installed">> \notin stamp
        /\ <<p, "target_installed">> \notin stamp
    <3>1. <<p, "uninstall">> \in done
      BY <1>1, <2>1, Stacked DEF ControlInv, ListedOrder, Ordered, Removals, Before
    <3>2. <<p, "uninstalled">> \in done
      BY <1>1, <3>1, DoneBelow DEF ControlInv
    <3> QED BY <1>1, <3>2 DEF ControlInv, UninstallSeen
  <2>3. \A k \in Excuses(s) : <<r, k>> \notin unsettled
    <3>1. r = p => "cleaned" \notin Excuses(s)
      BY <1>3, <2>1, <2>2, ExcusesFacts
    <3> QED BY <2>1, <3>1 DEF Intact
  <2> QED BY <1>4, <1>5, <2>1, <2>3
<1>11. CASE RmDir
  <2>1. /\ stamp' = stamp \ ({p} \X Steps)
        /\ unsettled' = {u \in unsettled : u[1] # p}
        /\ tree' = [tree EXCEPT ![p] = [w \in Work |->
                       IF w \in InBuildDir THEN "none" ELSE tree[p][w]]]
    BY <1>11 DEF RmDir, StampsOf
  <2>2. r # p
    BY <2>1
  <2>3. tree'[r] = tree[r] /\ \A k \in Excuses(s) : <<r, k>> \notin unsettled
    BY <2>1, <2>2 DEF Intact, TypeInv, TypeOK
  <2> QED BY <1>4, <1>5, <2>3
<1> QED BY <1>6, <1>7, <1>8, <1>9, <1>10, <1>11

\* A line that is broken off.
LEMMA SoundBrokenOff ==
    ASSUME TypeInv, ControlInv, StampOrder, StampSound,
           stack # << >>, BrokenOff, UNCHANGED unsettled
    PROVE  StampSound'
<1> DEFINE p == Cur[1]
<1>1. TypeOK
  BY DEF TypeInv
<1>2. CASE Fetching /\ site > 0 /\ WgetRemnant /\ UNCHANGED <<stamp, tree>>
  <2>1. DlKept
    BY <1>1, <1>2 DEF DlKept, WgetRemnant, TypeOK
  <2> QED BY <1>1, <1>2, <2>1, SoundKept
<1>3. CASE line = "work" /\ tree' = Rewrite(p, Cur[2], "part")
                         /\ UNCHANGED <<stamp, dl>>
  <2>1. p \in Pkg /\ Cur[2] \in Work /\ <<p, Cur[2]>> \notin stamp'
        /\ "part" \in Quality
    BY <1>3, LineNames DEF Quality
  <2> QED BY <1>1, <1>3, <2>1, SoundRewritten
<1>4. ASSUME NEW w \in Work, NEW k, <<p, k>> \in unsettled, k \in Excuses(w),
             p \in Pkg, tree' = [tree EXCEPT ![p][w] = Remnant(@)],
             UNCHANGED <<stamp, dl>>
      PROVE  StampSound'
  <2> SUFFICES ASSUME NEW r \in Pkg, NEW s \in Steps, <<r, s>> \in stamp',
                      Intact(r, s)'
               PROVE  Accomplished(r, s)'
    BY DEF StampSound
  <2>1. Intact(r, s) /\ (r # p \/ s # w)
    BY <1>4 DEF Intact, Whole
  <2>2. Accomplished(r, s)
    BY <1>4, <2>1 DEF StampSound
  <2>3. s # "downloaded" => tree'[r][s] = tree[r][s]
    BY <1>1, <1>4, <2>1 DEF TypeOK, Steps
  <2> QED BY <1>4, <2>2, <2>3 DEF Accomplished, PatchFileGood
<1>5. line # "idle" /\ Cur[2] \in Removals =>
          p \in Pkg /\ <<p, Cur[2]>> \in unsettled
  BY LineNames DEF ControlInv, RemovalUnsettled
<1>6. CASE /\ line = "uninstall_staging"
           /\ tree' = [tree EXCEPT ![p]["staging_installed"] = Remnant(@)]
           /\ UNCHANGED <<stamp, dl>>
  <2>1. /\ p \in Pkg /\ <<p, "uninstalled">> \in unsettled
        /\ "uninstalled" \in Excuses("staging_installed")
        /\ "staging_installed" \in Work
    BY <1>5, <1>6, LineNames, ExcusesFacts DEF Removals, Work
  <2> QED BY <1>4, <1>6, <2>1
<1>7. CASE /\ line = "uninstall_target"
           /\ tree' = [tree EXCEPT ![p]["target_installed"] = Remnant(@)]
           /\ UNCHANGED <<stamp, dl>>
  <2>1. /\ p \in Pkg /\ <<p, "uninstalled">> \in unsettled
        /\ "uninstalled" \in Excuses("target_installed")
        /\ "target_installed" \in Work
    BY <1>5, <1>7, LineNames, ExcusesFacts DEF Removals, Work
  <2> QED BY <1>4, <1>7, <2>1
<1>8. CASE /\ line = "clean"
           /\ tree' = [tree EXCEPT ![p]["built"] = Remnant(@)]
           /\ UNCHANGED <<stamp, dl>>
  <2>1. /\ p \in Pkg /\ <<p, "cleaned">> \in unsettled
        /\ "cleaned" \in Excuses("built") /\ "built" \in Work
    BY <1>5, <1>8, LineNames, ExcusesFacts DEF Removals, Work
  <2> QED BY <1>4, <1>8, <2>1
<1>9. CASE /\ line = "rm_dir"
           /\ \E gone \in SUBSET StampsOf(p) : stamp' = stamp \ gone
           /\ tree' = [tree EXCEPT ![p] = [w \in Work |->
                  IF w \in InBuildDir THEN Remnant(tree[p][w])
                                      ELSE tree[p][w]]]
           /\ UNCHANGED dl
  <2> SUFFICES ASSUME NEW r \in Pkg, NEW s \in Steps, <<r, s>> \in stamp',
                      Intact(r, s)'
               PROVE  Accomplished(r, s)'
    BY DEF StampSound
  <2>1. <<p, "dircleaned">> \in unsettled /\ p \in Pkg
    BY <1>5, <1>9, LineNames DEF Removals
  <2>2. Intact(r, s) /\ (r # p \/ s = "host_installed") /\ <<r, s>> \in stamp
    BY <1>9, <2>1, ExcusesFacts DEF Intact, Whole
  <2>3. Accomplished(r, s)
    BY <2>2 DEF StampSound
  <2>4. s # "downloaded" => tree'[r][s] = tree[r][s]
    BY <1>1, <1>9, <2>1, <2>2 DEF TypeOK, Steps, InBuildDir
  <2> QED BY <1>9, <2>3, <2>4 DEF Accomplished, PatchFileGood
<1>10. CASE UNCHANGED disk
  <2>1. UNCHANGED <<stamp, dl, tree>> /\ DlKept
    BY <1>10 DEF disk, DlKept
  <2> QED BY <1>1, <2>1, SoundKept
<1> QED BY <1>2, <1>3, <1>6, <1>7, <1>8, <1>9, <1>10 DEF BrokenOff

LEMMA SoundStep ==
    ASSUME ~KeepGoing, TypeInv, ControlInv, DataInv, [Next]_vars
    PROVE  StampSound'
<1> USE DEF DataInv
<1>1. TypeOK
  BY DEF TypeInv
<1>2. CASE \/ \E i \in 1 .. (IF stack = << >> THEN 0 ELSE Len(Prereqs(Cur))) :
                  Consider(i)
           \/ FinishHuman \/ UpToDate \/ BeginRecipe \/ TestE
           \/ \E g \in Asked : StartMake(g)
           \/ UNCHANGED vars
  <2>1. /\ UNCHANGED <<stamp, dl, tree>> /\ DlKept
        /\ unsettled \subseteq unsettled'
    BY <1>2 DEF Consider, FinishHuman, UpToDate, BeginRecipe, TestE, StartMake,
                vars, disk, DlKept
  <2> QED BY <1>1, <2>1, SoundKept
<1>3. CASE WgetOk \/ WgetNextSite
  <2>1. UNCHANGED <<stamp, tree, unsettled>> /\ DlKept
    BY <1>1, <1>3 DEF WgetOk, WgetNextSite, WgetRemnant, DlKept, TypeOK
  <2> QED BY <1>1, <2>1, SoundKept
<1>4. CASE RunWork
  <2>1. /\ Cur[1] \in Pkg /\ Cur[2] \in Work /\ <<Cur[1], Cur[2]>> \notin stamp
    BY <1>4, LineNames DEF RunWork
  <2>2. \E q \in Quality : tree' = Rewrite(Cur[1], Cur[2], q)
    BY <1>4 DEF RunWork, Quality
  <2>3. UNCHANGED <<stamp, dl, unsettled>>
    BY <1>4 DEF RunWork
  <2> QED BY <1>1, <2>1, <2>2, <2>3, SoundRewritten
<1>5. CASE Touch
  <2>1. /\ stamp' = stamp \cup {Cur} /\ Cur = <<Cur[1], Cur[2]>>
        /\ line = "touch" /\ UNCHANGED <<dl, tree, unsettled>>
    BY <1>5, LineNames DEF Touch
  <2> SUFFICES ASSUME NEW r \in Pkg, NEW s \in Steps, <<r, s>> \in stamp',
                      Intact(r, s)'
               PROVE  Accomplished(r, s)'
    BY DEF StampSound
  <2>2. Intact(r, s)
    BY <2>1 DEF Intact, Whole
  <2>3. Accomplished(r, s)
    BY <2>1, <2>2 DEF StampSound, TouchSound
  <2> QED BY <2>1, <2>3 DEF Accomplished, PatchFileGood
<1>6. CASE UninstallStaging \/ RmStagingStamp \/ UninstallTarget
           \/ RmTargetStamp \/ CleanObjects \/ RmBuiltStamp \/ RmDir
  BY <1>6, SoundRemoval
<1>7. CASE CommandFails \/ Kill
  BY <1>7, SoundBrokenOff DEF CommandFails, Kill
<1>8. CASE GiveUp
  BY <1>8 DEF GiveUp, ControlInv, NoFailure
<1>9. ASSUME NEW p \in Pkg, NEW s \in ByHand, RemoveStamp(p, s)
      PROVE  StampSound'
  <2>1. /\ tree' = Rewrite(p, s, "stale") /\ dl' = dl
        /\ stamp' = stamp \ {<<p, s>>}
        /\ unsettled' = unsettled \cup {<<p, "byhand">>}
    BY <1>9 DEF RemoveStamp
  <2>2. s \in Work /\ "stale" \in Quality /\ <<p, s>> \notin stamp'
    BY <2>1, AskedAssumption DEF Quality
  <2> QED BY <1>1, <2>1, <2>2, SoundRewritten
<1> QED BY <1>2, <1>3, <1>4, <1>5, <1>6, <1>7, <1>8, <1>9 DEF Next, MakeStep

\* The inductive invariant of a make without -k.
IInv == TypeInv /\ ControlInv /\ DataInv

LEMMA IInvInit == Init => IInv
<1> SUFFICES ASSUME Init PROVE IInv
  OBVIOUS
<1>1. TypeInv /\ ControlInv
  BY TypeInit, ControlInit
<1>2. FetchSeen /\ TouchSound /\ StampOrder /\ StampSound
  BY DEF Init, FetchSeen, TouchSound, StampOrder, StampSound
<1> QED BY <1>1, <1>2 DEF IInv, DataInv

LEMMA IInvStep ==
    ASSUME ~KeepGoing, IInv, [Next]_vars
    PROVE  IInv'
<1>1. TypeInv'
  BY TypeStep DEF IInv
<1>2. ControlInv'
  BY ControlStep DEF IInv
<1>3. FetchSeen'
  BY FetchStep DEF IInv, DataInv
<1>4. TouchSound'
  BY <1>1, <1>3, TouchStep DEF IInv, DataInv
<1>5. StampOrder'
  BY OrderStep DEF IInv, DataInv
<1>6. StampSound'
  BY SoundStep DEF IInv
<1> QED BY <1>1, <1>2, <1>3, <1>4, <1>5, <1>6 DEF IInv, DataInv

\* The stamp files tell the truth: without -k, and unless a removal of the
\* package was broken off or one of its files is partial, what a stamp says
\* was done is on disk, complete and made from complete, current inputs.
THEOREM StampsTellTheTruth ==
    ASSUME ~KeepGoing
    PROVE  Spec => []StampSound
<1>1. Init => IInv
  BY IInvInit
<1>2. IInv /\ [Next]_vars => IInv'
  BY IInvStep
<1>3. IInv => StampSound
  BY DEF IInv, DataInv
<1> QED BY <1>1, <1>2, <1>3, PTL DEF Spec

\* What has been made without -k, before any removal, is installed.
LEMMA DoneInstalled ==
    ASSUME IInv, Undisturbed, NEW p \in Pkg, <<p, "pkg">> \in done
    PROVE  Installed(p)
<1>1. DoneClosed /\ \A t \in done : t[2] \in Steps => t \in stamp
  BY DEF IInv, ControlInv, DoneStamped
<1>2. \A s \in InstallSteps(p) : <<p, s>> \in done /\ s \in Steps
  BY <1>1, DoneBelow DEF InstallSteps, Steps, Work
<1>3. \A s \in InstallSteps(p) : <<p, s>> \in stamp
  BY <1>1, <1>2
<1>4. \A s \in InstallSteps(p) : Intact(p, s) => Accomplished(p, s)
  BY <1>2, <1>3 DEF IInv, DataInv, StampSound
<1> QED BY <1>3, <1>4 DEF Installed

\* Without -k, the dependencies of a package are installed when the commands
\* that configure it run.
THEOREM DependenciesFirst ==
    ASSUME ~KeepGoing
    PROVE  Spec => []DependenciesInstalled
<1>1. Init => IInv
  BY IInvInit
<1>2. IInv /\ [Next]_vars => IInv'
  BY IInvStep
<1>3. IInv => DependenciesInstalled
  <2> SUFFICES ASSUME IInv, stack # << >>, line = "work",
                      Cur[2] = "configured",
                      NEW i \in DOMAIN Deps[Cur[1]]
               PROVE  Installed(Deps[Cur[1]][i])
    BY DEF DependenciesInstalled
  <2>1. TypeInv /\ ControlInv /\ Walk
    BY DEF IInv, ControlInv, Walk
  <2>2. Cur[1] \in Pkg /\ <<Deps[Cur[1]][i], "pkg">> \in done
    BY <2>1, EarlierStamped DEF Work
  <2>3. Deps[Cur[1]][i] \in Pkg
    <3>1. Deps[Cur[1]] \in Seq(Pkg)
      BY <2>2, DepsAssumption
    <3> QED BY <3>1, ElementOfSeq, LenProperties
  <2>4. Undisturbed
    BY <2>1, StepUndisturbed DEF Steps, Work
  <2> QED BY <2>2, <2>3, <2>4, DoneInstalled
<1> QED BY <1>1, <1>2, <1>3, PTL DEF Spec

\* Without -k, a package whose make ended well is installed, with everything
\* that was made on the way.
THEOREM MadeInstalled ==
    ASSUME ~KeepGoing
    PROVE  Spec => []MadeIsInstalled
<1>1. Init => IInv
  BY IInvInit
<1>2. IInv /\ [Next]_vars => IInv'
  BY IInvStep
<1>3. IInv => MadeIsInstalled
  <2> SUFFICES ASSUME IInv, goal[2] \in {"pkg", "world"},
                      NEW p \in Pkg, <<p, "pkg">> \in done
               PROVE  Installed(p)
    BY DEF MadeIsInstalled
  <2>1. Undisturbed
    BY DEF Undisturbed
  <2> QED BY <2>1, DoneInstalled
<1> QED BY <1>1, <1>2, <1>3, PTL DEF Spec

\* Redoing a step that has no stamp touches nothing that has one.
LEMMA RewriteProtects ==
    ASSUME TypeOK, StampOrder,
           NEW p \in Pkg, NEW s \in Work, NEW q, <<p, s>> \notin stamp,
           tree' = Rewrite(p, s, q),
           NEW r \in Pkg, NEW w \in Work \ {"host_installed"},
           <<r, w>> \in stamp, Intact(r, w)
    PROVE  tree'[r][w] = tree[r][w]
<1>1. CASE r # p
  BY <1>1 DEF Rewrite, TypeOK
<1>2. CASE r = p
  <2>1. w \in Steps /\ "dircleaned" \in Excuses(w) /\ "byhand" \in Excuses(w)
    BY ExcusesFacts DEF Steps
  <2>2. w # s /\ w \notin Later(s)
    BY <1>2, <2>1, LaterStamped DEF Intact
  <2> QED BY <1>2, <2>2 DEF Rewrite, TypeOK
<1> QED BY <1>1, <1>2

\* A stamp that stays on disk protects the result it stands for: without -k
\* no step of make redoes it or makes it stale.
THEOREM StampsProtect ==
    ASSUME ~KeepGoing
    PROVE  Spec => StampProtects
<1> DEFINE A == \A p \in Pkg, s \in Work \ {"host_installed"} :
                    /\ <<p, s>> \in stamp /\ <<p, s>> \in stamp'
                    /\ Intact(p, s) /\ Intact(p, s)'
                    => tree'[p][s] = tree[p][s]
<1>1. Init => IInv
  BY IInvInit
<1>2. IInv /\ [Next]_vars => IInv'
  BY IInvStep
<1>3. IInv /\ [Next]_vars => [A]_vars
  <2> SUFFICES ASSUME IInv, Next,
                      NEW r \in Pkg, NEW w \in Work \ {"host_installed"},
                      <<r, w>> \in stamp, <<r, w>> \in stamp',
                      Intact(r, w), Intact(r, w)'
               PROVE  tree'[r][w] = tree[r][w]
    OBVIOUS
  <2>1. TypeInv /\ TypeOK /\ StampOrder /\ RemovalUnsettled
    BY DEF IInv, TypeInv, DataInv, ControlInv
  <2>2. CASE UNCHANGED tree
    BY <2>2
  <2>3. CASE RunWork
    <3>1. /\ Cur[1] \in Pkg /\ Cur[2] \in Work /\ <<Cur[1], Cur[2]>> \notin stamp
          /\ \E q \in Quality : tree' = Rewrite(Cur[1], Cur[2], q)
      BY <2>1, <2>3, LineNames DEF RunWork, Quality
    <3> QED BY <2>1, <3>1, RewriteProtects
  <2>4. \A k \in {"uninstalled", "cleaned", "dircleaned"} :
            line # "idle" /\ Cur[2] = k /\ k \in Excuses(w) => Cur[1] # r
    <3>1. line # "idle" => Cur = <<Cur[1], Cur[2]>>
      BY <2>1, LineNames
    <3> QED BY <2>1, <3>1 DEF RemovalUnsettled, Removals, Intact
  <2>5. ASSUME NEW k \in {"uninstalled", "cleaned"}, line # "idle", Cur[2] = k,
               NEW v \in Work, k \in Excuses(v), NEW q,
               tree' = [tree EXCEPT ![Cur[1]][v] = q]
        PROVE  tree'[r][w] = tree[r][w]
    <3>1. Cur[1] \in Pkg
      BY <2>1, <2>5, LineNames
    <3>2. Cur[1] # r \/ v # w
      BY <2>4, <2>5
    <3> QED BY <2>1, <2>5, <3>1, <3>2 DEF TypeOK
  <2>6. \A v \in {"staging_installed", "target_installed"} :
            v \in Work /\ "uninstalled" \in Excuses(v)
    BY ExcusesFacts DEF Work
  <2>7. "built" \in Work /\ "cleaned" \in Excuses("built")
    BY ExcusesFacts DEF Work
  <2>8. CASE UninstallStaging \/ UninstallTarget
    <3>1. /\ Cur[2] = "uninstalled" /\ line # "idle"
          /\ \E v \in {"staging_installed", "target_installed"} :
                 tree' = [tree EXCEPT ![Cur[1]][v] = "none"]
      BY <2>1, <2>8, LineNames
      DEF UninstallStaging, UninstallTarget, UninstallFiles
    <3> QED BY <2>5, <2>6, <3>1
  <2>9. CASE CleanObjects
    <3>1. /\ Cur[2] = "cleaned" /\ line # "idle"
          /\ \E q \in {"none", Remnant(tree[Cur[1]]["built"])} :
                 tree' = [tree EXCEPT ![Cur[1]]["built"] = q]
      BY <2>1, <2>9, LineNames DEF CleanObjects
    <3> QED BY <2>5, <2>7, <3>1
  <2>10. CASE RmDir
    BY <2>1, <2>10 DEF RmDir, StampsOf, TypeOK, Steps
  <2>11. CASE CommandFails \/ Kill
    <3>1. BrokenOff /\ stack # << >>
      BY <2>11 DEF CommandFails, Kill
    <3>2. CASE line = "work" /\ tree' = Rewrite(Cur[1], Cur[2], "part")
      <4>1. /\ Cur[1] \in Pkg /\ Cur[2] \in Work
            /\ <<Cur[1], Cur[2]>> \notin stamp
        BY <2>1, <3>2, LineNames
      <4> QED BY <2>1, <3>2, <4>1, RewriteProtects
    <3>3. CASE \/ /\ line = "uninstall_staging"
                  /\ tree' = [tree EXCEPT ![Cur[1]]["staging_installed"] =
                                              Remnant(@)]
               \/ /\ line = "uninstall_target"
                  /\ tree' = [tree EXCEPT ![Cur[1]]["target_installed"] =
                                              Remnant(@)]
      <4>1. Cur[2] = "uninstalled" /\ line # "idle"
        BY <2>1, <3>3, LineNames
      <4>2. \E v \in {"staging_installed", "target_installed"} :
                \E q : tree' = [tree EXCEPT ![Cur[1]][v] = q]
        BY <3>3
      <4> QED BY <2>5, <2>6, <4>1, <4>2
    <3>4. CASE /\ line = "clean"
               /\ tree' = [tree EXCEPT ![Cur[1]]["built"] = Remnant(@)]
      <4>1. Cur[2] = "cleaned" /\ line # "idle"
        BY <2>1, <3>4, LineNames
      <4>2. \E q : tree' = [tree EXCEPT ![Cur[1]]["built"] = q]
        BY <3>4
      <4> QED BY <2>5, <2>7, <4>1, <4>2
    <3>5. CASE /\ line = "rm_dir"
               /\ tree' = [tree EXCEPT ![Cur[1]] = [v \in Work |->
                      IF v \in InBuildDir THEN Remnant(tree[Cur[1]][v])
                                          ELSE tree[Cur[1]][v]]]
      <4>1. "dircleaned" \in Excuses(w)
        BY ExcusesFacts DEF Steps
      <4>2. Cur[1] # r
        BY <2>1, <2>4, <3>5, <4>1, LineNames
      <4> QED BY <2>1, <3>5, <4>2 DEF TypeOK
    <3> QED BY <2>2, <3>1, <3>2, <3>3, <3>4, <3>5 DEF BrokenOff, disk
  <2>12. ASSUME NEW p \in Pkg, NEW s \in ByHand, RemoveStamp(p, s)
         PROVE  tree'[r][w] = tree[r][w]
    <3>1. "byhand" \in Excuses(w)
      BY ExcusesFacts DEF Steps
    <3>2. /\ tree' = Rewrite(p, s, "stale")
          /\ unsettled' = unsettled \cup {<<p, "byhand">>}
      BY <2>12 DEF RemoveStamp
    <3>3. r # p
      BY <3>1, <3>2 DEF Intact
    <3> QED BY <2>1, <3>2, <3>3 DEF Rewrite, TypeOK
  <2>13. CASE \/ \E i \in 1 .. (IF stack = << >> THEN 0
                                ELSE Len(Prereqs(Cur))) : Consider(i)
              \/ FinishHuman \/ GiveUp \/ UpToDate \/ BeginRecipe
              \/ TestE \/ WgetOk \/ WgetNextSite \/ Touch
              \/ RmStagingStamp \/ RmTargetStamp \/ RmBuiltStamp
              \/ \E g \in Asked : StartMake(g)
    BY <2>13
    DEF Consider, FinishHuman, GiveUp, UpToDate, BeginRecipe, TestE, WgetOk,
        WgetNextSite, Touch, RmStagingStamp, RmTargetStamp, RmBuiltStamp,
        StartMake, disk
  <2> QED BY <2>3, <2>8, <2>9, <2>10, <2>11, <2>12, <2>13 DEF Next, MakeStep
<1> QED BY <1>1, <1>2, <1>3, PTL DEF Spec, StampProtects

=============================================================================
