-------------------------- MODULE ConfFilesProofs --------------------------
(***************************************************************************)
(* Proofs about ConfFiles, for every set of symbols and of files.          *)
(*                                                                         *)
(* What a build may rely on (BuiltIsConfigured, AutoMarksCompletion) holds *)
(* whatever the developer does and whatever fails: its invariant BuiltInv  *)
(* says that the headers record every difference between auto.conf and the *)
(* values of the last build.  What the developer may rely on (ConfigKept,  *)
(* NoSilentLoss) needs a tree configured before and renames that succeed:  *)
(* its invariant KeptInv says where each configuration is at each step.    *)
(***************************************************************************)
EXTENDS ConfFiles, TLAPS

-----------------------------------------------------------------------------
(* Types                                                                   *)

\* No step of a program, of make or of a kill takes a variable out of its
\* type: one step of the proof for each action.
LEMMA TypeStep == TypeOK /\ [Next]_vars => TypeOK'
<1> SUFFICES ASSUME TypeOK, [Next]_vars PROVE TypeOK'
  OBVIOUS
<1> USE ConfAssumption, ModeAssumption
<1> USE DEF TypeOK, disk, session, build, history, Content, Name
<1>1. ASSUME NEW p \in {"conf", "mconf"}, Start(p) PROVE TypeOK'
  <2>1. file' \in [Name -> Content]
    BY <1>1 DEF Start
  <2>2. made' \in BOOLEAN
    BY <1>1 DEF Start
  <2> QED
    BY <1>1, <2>1, <2>2 DEF Start
<1>2. ASSUME NEW c \in Presets, StartPreset(c) PROVE TypeOK'
  <2>1. file' \in [Name -> Content] /\ saved' \in [Name -> Conf \cup {NoFile}]
    BY <1>2 DEF StartPreset
  <2>2. made' \in BOOLEAN
    BY <1>2 DEF StartPreset
  <2> QED
    BY <1>2, <2>1, <2>2 DEF StartPreset
<1>3. CASE ReadConfig
  BY <1>3 DEF ReadConfig
<1>4. CASE DisplayFails
  BY <1>4 DEF DisplayFails, ProgramFails, Forget
<1>5. ASSUME NEW s \in Sym, Edit(s) PROVE TypeOK'
  <2>1. mem' \in Conf
    BY <1>5 DEF Edit, Conf
  <2>2. changed' \in BOOLEAN /\ live' \in BOOLEAN
    BY <1>5 DEF Edit
  <2> QED
    BY <1>5, <2>1, <2>2 DEF Edit
<1>6. ASSUME NEW f \in Name, SaveAs(f) PROVE TypeOK'
  BY <1>6 DEF SaveAs
<1>7. ASSUME NEW f \in Name, Load(f) PROVE TypeOK'
  BY <1>7 DEF Load
<1>8. ASSUME NEW f \in Name, LoadMissing(f) PROVE TypeOK'
  <2>1. changed' \in BOOLEAN
    BY <1>8 DEF LoadMissing
  <2> QED
    BY <1>8, <2>1 DEF LoadMissing
<1>9. CASE LeaveUnchanged
  BY <1>9 DEF LeaveUnchanged
<1>10. CASE AnswerYes
  BY <1>10 DEF AnswerYes
<1>11. CASE AnswerNo
  BY <1>11 DEF AnswerNo
<1>12. CASE CreateFails
  BY <1>12 DEF CreateFails, WriteReturns1, ProgramFails, Forget
<1>13. CASE WriteTmp
  BY <1>13 DEF WriteTmp
<1>14. CASE Backup
  BY <1>14 DEF Backup
<1>15. CASE InstallConfig
  BY <1>15 DEF InstallConfig
<1>16. CASE InstallFails
  BY <1>16 DEF InstallFails, WriteReturns1, ProgramFails, Forget
<1>17. CASE WriteDep
  <2>1. cmd' \in BOOLEAN /\ live' \in BOOLEAN /\ changed' \in BOOLEAN
    BY <1>17 DEF WriteDep
  <2>2. todo' \subseteq Sym
    BY <1>17 DEF WriteDep
  <2> QED
    BY <1>17, <2>1, <2>2 DEF WriteDep
<1>18. ASSUME NEW s \in Sym, Touch(s) PROVE TypeOK'
  BY <1>18 DEF Touch
<1>19. CASE TouchFails
  BY <1>19 DEF TouchFails, ProgramFails, Forget
<1>20. CASE InstallHeader
  BY <1>20 DEF InstallHeader
<1>21. CASE InstallAuto
  BY <1>21 DEF InstallAuto, Forget
<1>22. CASE AutoconfFails
  BY <1>22 DEF AutoconfFails, ProgramFails, Forget
<1>23. CASE StartBuild
  <2>1. made' \in BOOLEAN
    BY <1>23 DEF StartBuild
  <2>2. using' \in Conf /\ prereqs' \subseteq heads
    BY <1>23 DEF StartBuild
  <2> QED
    BY <1>23, <2>1, <2>2 DEF StartBuild
<1>24. CASE CopyDepends
  BY <1>24 DEF CopyDepends
<1>25. CASE Rebuild
  BY <1>25 DEF Rebuild, MakeEnds
<1>26. CASE LeaveBuilt
  BY <1>26 DEF LeaveBuilt, MakeEnds
<1>27. CASE Clean
  BY <1>27 DEF Clean
<1>28. CASE Kill
  BY <1>28 DEF Kill, Forget
<1>29. CASE UNCHANGED vars
  BY <1>29 DEF vars
<1> QED
  BY <1>1, <1>2, <1>3, <1>4, <1>5, <1>6, <1>7, <1>8, <1>9, <1>10, <1>11,
     <1>12, <1>13, <1>14, <1>15, <1>16, <1>17, <1>18, <1>19, <1>20,
     <1>21, <1>22, <1>23, <1>24, <1>25, <1>26, <1>27, <1>28, <1>29
     DEF Next, Menuconfig, ConfWrite, ConfWriteAutoconf, Make

\* A fresh or a used tree has the types.
LEMMA TypeInit == Init => TypeOK
  BY ConfAssumption, ModeAssumption DEF Init, TypeOK, Content, Name

\* Every variable keeps its type, in every execution of the programs.
THEOREM TypeCorrect == Spec => []TypeOK
<1>1. TypeOK /\ [Next]_vars => TypeOK'
  BY TypeStep
<1> QED
  BY TypeInit, <1>1, PTL DEF Spec

-----------------------------------------------------------------------------
(* What the build relies on                                                *)

BuiltInv == TypeOK /\ StaleIsMarked /\ SplitDone /\ MadeQuiet

\* The headers record every difference: comparing with auto.conf, touching
\* the headers and only then replacing auto.conf keeps it so, wherever the
\* sequence is broken off.
LEMMA BuiltStep == BuiltInv /\ [Next]_vars => BuiltInv'
<1> SUFFICES ASSUME BuiltInv, [Next]_vars
             PROVE  StaleIsMarked' /\ SplitDone' /\ MadeQuiet'
  BY TypeStep DEF BuiltInv
<1> USE ConfAssumption DEF BuiltInv, TypeOK, disk, session, build, history
<1> USE DEF StaleIsMarked, SplitDone, MadeQuiet, Differs, WasOn
<1>1. ASSUME NEW p \in {"conf", "mconf"}, Start(p)
      PROVE  StaleIsMarked' /\ SplitDone' /\ MadeQuiet'
  BY <1>1 DEF Start
<1>2. ASSUME NEW c \in Presets, StartPreset(c)
      PROVE  StaleIsMarked' /\ SplitDone' /\ MadeQuiet'
  BY <1>2 DEF StartPreset
<1>3. CASE ReadConfig
  BY <1>3 DEF ReadConfig
<1>4. CASE DisplayFails
  BY <1>4 DEF DisplayFails, ProgramFails, Forget
<1>5. ASSUME NEW s \in Sym, Edit(s)
      PROVE  StaleIsMarked' /\ SplitDone' /\ MadeQuiet'
  BY <1>5 DEF Edit
<1>6. ASSUME NEW f \in Name, SaveAs(f)
      PROVE  StaleIsMarked' /\ SplitDone' /\ MadeQuiet'
  BY <1>6 DEF SaveAs
<1>7. ASSUME NEW f \in Name, Load(f)
      PROVE  StaleIsMarked' /\ SplitDone' /\ MadeQuiet'
  BY <1>7 DEF Load
<1>8. ASSUME NEW f \in Name, LoadMissing(f)
      PROVE  StaleIsMarked' /\ SplitDone' /\ MadeQuiet'
  BY <1>8 DEF LoadMissing
<1>9. CASE LeaveUnchanged
  BY <1>9 DEF LeaveUnchanged
<1>10. CASE AnswerYes
  BY <1>10 DEF AnswerYes
<1>11. CASE AnswerNo
  BY <1>11 DEF AnswerNo
<1>12. CASE CreateFails
  BY <1>12 DEF CreateFails, WriteReturns1, ProgramFails, Forget
<1>13. CASE WriteTmp
  BY <1>13 DEF WriteTmp
<1>14. CASE Backup
  BY <1>14 DEF Backup
<1>15. CASE InstallConfig
  BY <1>15 DEF InstallConfig
<1>16. CASE InstallFails
  BY <1>16 DEF InstallFails, WriteReturns1, ProgramFails, Forget
<1>17. CASE WriteDep
  BY <1>17 DEF WriteDep
<1>18. ASSUME NEW s \in Sym, Touch(s)
       PROVE  StaleIsMarked' /\ SplitDone' /\ MadeQuiet'
  <2>1. SplitDone'
    BY <1>18 DEF Touch
  <2>2. StaleIsMarked' /\ MadeQuiet'
    BY <1>18 DEF Touch
  <2> QED
    BY <2>1, <2>2
<1>19. CASE TouchFails
  BY <1>19 DEF TouchFails, ProgramFails, Forget
<1>20. CASE InstallHeader
  BY <1>20 DEF InstallHeader
<1>21. CASE InstallAuto
  <2>1. ASSUME agreed, NEW s \in Sym, built[s] # mem[s]
        PROVE  s \in newer
    <3>1. CASE built[s] # auto[s]
      BY <1>21, <2>1, <3>1 DEF InstallAuto
    <3>2. CASE built[s] = auto[s]
      <4>1. auto[s] \in BOOLEAN /\ mem[s] \in BOOLEAN /\ auto # NoFile
        BY <2>1, ContentAssumption DEF Conf
      <4> QED
        BY <1>21, <2>1, <3>2, <4>1 DEF InstallAuto
    <3> QED
      BY <3>1, <3>2
  <2> QED
    BY <1>21, <2>1 DEF InstallAuto, Forget
<1>22. CASE AutoconfFails
  BY <1>22 DEF AutoconfFails, ProgramFails, Forget
<1>23. CASE StartBuild
  BY <1>23 DEF StartBuild
<1>24. CASE CopyDepends
  BY <1>24 DEF CopyDepends
<1>25. CASE Rebuild
  BY <1>25 DEF Rebuild, MakeEnds
<1>26. CASE LeaveBuilt
  <2>1. made' => newer = {}
    BY <1>26 DEF LeaveBuilt, MakeEnds, Outdated
  <2> QED
    BY <1>26, <2>1 DEF LeaveBuilt, MakeEnds
<1>27. CASE Clean
  BY <1>27 DEF Clean
<1>28. CASE Kill
  BY <1>28 DEF Kill, Forget
<1>29. CASE UNCHANGED vars
  BY <1>29 DEF vars
<1> QED
  BY <1>1, <1>2, <1>3, <1>4, <1>5, <1>6, <1>7, <1>8, <1>9, <1>10, <1>11,
     <1>12, <1>13, <1>14, <1>15, <1>16, <1>17, <1>18, <1>19, <1>20,
     <1>21, <1>22, <1>23, <1>24, <1>25, <1>26, <1>27, <1>28, <1>29
     DEF Next, Menuconfig, ConfWrite, ConfWriteAutoconf, Make

\* The inductive invariant holds of every execution.
THEOREM BuildIsInvariant == Spec => []BuiltInv
<1>1. Init => BuiltInv
  BY TypeInit DEF Init, BuiltInv, StaleIsMarked, SplitDone, MadeQuiet
<1>2. BuiltInv /\ [Next]_vars => BuiltInv'
  BY BuiltStep
<1> QED
  BY <1>1, <1>2, PTL DEF Spec

\* After a make that saw every header the consumer stands for .config, if
\* auto.conf agrees with .config and did when the consumer was last built:
\* for all symbols, all answers of the developer and all faults.
THEOREM BuiltAsConfigured == Spec => []BuiltIsConfigured
<1>1. BuiltInv => BuiltIsConfigured
  <2> SUFFICES ASSUME BuiltInv, made, agreed, file[Main] = auto
               PROVE  built = file[Main]
    BY DEF BuiltIsConfigured
  <2>1. built \in Conf /\ auto \in Conf /\ newer = {}
    BY DEF BuiltInv, StaleIsMarked, MadeQuiet
  <2>2. \A s \in Sym : built[s] = auto[s]
    BY <2>1 DEF BuiltInv, StaleIsMarked
  <2> QED
    BY <2>1, <2>2 DEF Conf
<1> QED
  BY BuildIsInvariant, <1>1, PTL

\* auto.conf is replaced only when the header agrees with it and every symbol
\* it changes has been touched.
THEOREM AutoIsLast == Spec => AutoMarksCompletion
<1>1. BuiltInv /\ BuiltInv' /\ [Next]_vars =>
         (auto' # auto =>
             /\ header' = auto'
             /\ \A s \in Sym : auto'[s] # WasOn(s) => s \in newer')
  <2> SUFFICES ASSUME BuiltInv, [Next]_vars, auto' # auto
               PROVE  /\ header' = auto'
                      /\ \A s \in Sym : auto'[s] # WasOn(s) => s \in newer'
    OBVIOUS
  <2>1. InstallAuto
    BY DEF Next, vars, disk, Start, StartPreset, ReadConfig, DisplayFails,
           Menuconfig, Edit, SaveAs, Load, LoadMissing, LeaveUnchanged,
           AnswerYes, AnswerNo, ConfWrite, CreateFails, WriteTmp, Backup,
           InstallConfig, InstallFails, ConfWriteAutoconf, WriteDep, Touch,
           TouchFails, InstallHeader, AutoconfFails, Make, StartBuild,
           CopyDepends, Rebuild, LeaveBuilt, Clean, Kill
  <2> QED
    BY <2>1 DEF InstallAuto, BuiltInv, SplitDone, Differs
<1> QED
  BY BuildIsInvariant, <1>1, PTL DEF Spec, AutoMarksCompletion

-----------------------------------------------------------------------------
(* What the developer relies on                                            *)

KeptInv == TypeOK /\ UsedTree /\ FilesReported /\ WriteFull

\* In a tree configured before, a configuration on its way from a file to its
\* .old copy and from the temporary file to its place is always in one of
\* them, if no rename is refused.
LEMMA KeptStep ==
  ASSUME Used, "rename" \notin Faults, KeptInv, [Next]_vars
  PROVE  KeptInv'
<1> SUFFICES UsedTree' /\ FilesReported' /\ WriteFull'
  BY TypeStep DEF KeptInv
<1> USE ConfAssumption, ContentAssumption, ModeAssumption
<1> USE DEF KeptInv, TypeOK, disk, session, build, history, Content, Name
<1> USE DEF UsedTree, FilesReported, WriteFull
<1>1. ASSUME NEW p \in {"conf", "mconf"}, Start(p)
      PROVE  UsedTree' /\ FilesReported' /\ WriteFull'
  BY <1>1 DEF Start
<1>2. ASSUME NEW c \in Presets, StartPreset(c)
      PROVE  UsedTree' /\ FilesReported' /\ WriteFull'
  BY <1>2 DEF StartPreset
<1>3. CASE ReadConfig
  BY <1>3 DEF ReadConfig
<1>4. CASE DisplayFails
  BY <1>4 DEF DisplayFails, ProgramFails, Forget
<1>5. ASSUME NEW s \in Sym, Edit(s)
      PROVE  UsedTree' /\ FilesReported' /\ WriteFull'
  BY <1>5 DEF Edit
<1>6. ASSUME NEW f \in Name, SaveAs(f)
      PROVE  UsedTree' /\ FilesReported' /\ WriteFull'
  BY <1>6 DEF SaveAs
<1>7. ASSUME NEW f \in Name, Load(f)
      PROVE  UsedTree' /\ FilesReported' /\ WriteFull'
  BY <1>7 DEF Load
<1>8. ASSUME NEW f \in Name, LoadMissing(f)
      PROVE  UsedTree' /\ FilesReported' /\ WriteFull'
  BY <1>8 DEF LoadMissing
<1>9. CASE LeaveUnchanged
  BY <1>9 DEF LeaveUnchanged
<1>10. CASE AnswerYes
  BY <1>10 DEF AnswerYes
<1>11. CASE AnswerNo
  BY <1>11 DEF AnswerNo
<1>12. CASE CreateFails
  BY <1>12 DEF CreateFails, WriteReturns1, ProgramFails, Forget
<1>13. CASE WriteTmp
  BY <1>13 DEF WriteTmp
<1>14. CASE Backup
  BY <1>14 DEF Backup
<1>15. CASE InstallConfig
  BY <1>15 DEF InstallConfig
<1>16. CASE InstallFails
  BY <1>16 DEF InstallFails, WriteReturns1, ProgramFails, Forget
<1>17. CASE WriteDep
  BY <1>17 DEF WriteDep
<1>18. ASSUME NEW s \in Sym, Touch(s)
       PROVE  UsedTree' /\ FilesReported' /\ WriteFull'
  BY <1>18 DEF Touch
<1>19. CASE TouchFails
  BY <1>19 DEF TouchFails, ProgramFails, Forget
<1>20. CASE InstallHeader
  BY <1>20 DEF InstallHeader
<1>21. CASE InstallAuto
  BY <1>21 DEF InstallAuto, Forget
<1>22. CASE AutoconfFails
  BY <1>22 DEF AutoconfFails, ProgramFails, Forget
<1>23. CASE StartBuild
  BY <1>23 DEF StartBuild
<1>24. CASE CopyDepends
  BY <1>24 DEF CopyDepends
<1>25. CASE Rebuild
  BY <1>25 DEF Rebuild, MakeEnds
<1>26. CASE LeaveBuilt
  BY <1>26 DEF LeaveBuilt, MakeEnds
<1>27. CASE Clean
  BY <1>27 DEF Clean
<1>28. CASE Kill
  BY <1>28 DEF Kill, Forget
<1>29. CASE UNCHANGED vars
  BY <1>29 DEF vars
<1> QED
  BY <1>1, <1>2, <1>3, <1>4, <1>5, <1>6, <1>7, <1>8, <1>9, <1>10, <1>11,
     <1>12, <1>13, <1>14, <1>15, <1>16, <1>17, <1>18, <1>19, <1>20,
     <1>21, <1>22, <1>23, <1>24, <1>25, <1>26, <1>27, <1>28, <1>29
     DEF Next, Menuconfig, ConfWrite, ConfWriteAutoconf, Make

\* What conf_write reported as written is in the file or in its .old copy.
THEOREM ConfigurationKept ==
  ASSUME Used, "rename" \notin Faults
  PROVE  Spec => []ConfigKept
<1>1. Init => KeptInv
  BY TypeInit, ModeAssumption
     DEF Init, KeptInv, UsedTree, FilesReported, WriteFull
<1>2. KeptInv /\ [Next]_vars => KeptInv'
  BY KeptStep
<1>3. KeptInv => ConfigKept
  BY DEF KeptInv, FilesReported, ConfigKept
<1> QED
  BY <1>1, <1>2, <1>3, PTL DEF Spec

HeldInv == KeptInv /\ UnchangedHeld /\ NoSilentLoss

\* Values that are in no file count as changed until the developer has been
\* asked, if no file to load is missing.
LEMMA HeldStep ==
  ASSUME Used, "rename" \notin Faults, "load_missing" \notin Choices,
         HeldInv, [Next]_vars
  PROVE  HeldInv'
<1> SUFFICES UnchangedHeld' /\ NoSilentLoss'
  BY KeptStep DEF HeldInv
<1> USE ConfAssumption, ContentAssumption, ModeAssumption
<1> USE DEF HeldInv, KeptInv, TypeOK, WriteFull, disk, session, build, history
<1> USE DEF UnchangedHeld, NoSilentLoss, Content, Name
<1>1. ASSUME NEW p \in {"conf", "mconf"}, Start(p)
      PROVE  UnchangedHeld' /\ NoSilentLoss'
  BY <1>1 DEF Start
<1>2. ASSUME NEW c \in Presets, StartPreset(c)
      PROVE  UnchangedHeld' /\ NoSilentLoss'
  BY <1>2 DEF StartPreset
<1>3. CASE ReadConfig
  BY <1>3 DEF ReadConfig
<1>4. CASE DisplayFails
  BY <1>4 DEF DisplayFails, ProgramFails, Forget
<1>5. ASSUME NEW s \in Sym, Edit(s) PROVE UnchangedHeld' /\ NoSilentLoss'
  BY <1>5 DEF Edit
<1>6. ASSUME NEW f \in Name, SaveAs(f) PROVE UnchangedHeld' /\ NoSilentLoss'
  BY <1>6 DEF SaveAs
<1>7. ASSUME NEW f \in Name, Load(f) PROVE UnchangedHeld' /\ NoSilentLoss'
  BY <1>7 DEF Load
<1>8. ASSUME NEW f \in Name, LoadMissing(f)
      PROVE  UnchangedHeld' /\ NoSilentLoss'
  BY <1>8 DEF LoadMissing
<1>9. CASE LeaveUnchanged
  BY <1>9 DEF LeaveUnchanged
<1>10. CASE AnswerYes
  BY <1>10 DEF AnswerYes
<1>11. CASE AnswerNo
  BY <1>11 DEF AnswerNo
<1>12. CASE CreateFails
  BY <1>12 DEF CreateFails, WriteReturns1, ProgramFails, Forget
<1>13. CASE WriteTmp
  BY <1>13 DEF WriteTmp
<1>14. CASE Backup
  BY <1>14 DEF Backup
<1>15. CASE InstallConfig
  BY <1>15 DEF InstallConfig
<1>16. CASE InstallFails
  BY <1>16 DEF InstallFails, WriteReturns1, ProgramFails, Forget
<1>17. CASE WriteDep
  BY <1>17 DEF WriteDep
<1>18. ASSUME NEW s \in Sym, Touch(s) PROVE UnchangedHeld' /\ NoSilentLoss'
  BY <1>18 DEF Touch
<1>19. CASE TouchFails
  BY <1>19 DEF TouchFails, ProgramFails, Forget
<1>20. CASE InstallHeader
  BY <1>20 DEF InstallHeader
<1>21. CASE InstallAuto
  BY <1>21 DEF InstallAuto, Forget
<1>22. CASE AutoconfFails
  BY <1>22 DEF AutoconfFails, ProgramFails, Forget
<1>23. CASE StartBuild
  BY <1>23 DEF StartBuild
<1>24. CASE CopyDepends
  BY <1>24 DEF CopyDepends
<1>25. CASE Rebuild
  BY <1>25 DEF Rebuild, MakeEnds
<1>26. CASE LeaveBuilt
  BY <1>26 DEF LeaveBuilt, MakeEnds
<1>27. CASE Clean
  BY <1>27 DEF Clean
<1>28. CASE Kill
  BY <1>28 DEF Kill, Forget
<1>29. CASE UNCHANGED vars
  BY <1>29 DEF vars
<1> QED
  BY <1>1, <1>2, <1>3, <1>4, <1>5, <1>6, <1>7, <1>8, <1>9, <1>10, <1>11,
     <1>12, <1>13, <1>14, <1>15, <1>16, <1>17, <1>18, <1>19, <1>20,
     <1>21, <1>22, <1>23, <1>24, <1>25, <1>26, <1>27, <1>28, <1>29
     DEF Next, Menuconfig, ConfWrite, ConfWriteAutoconf, Make

\* A menuconfig that ends with values in no file has asked about them.
THEOREM NothingLostSilently ==
  ASSUME Used, "rename" \notin Faults, "load_missing" \notin Choices
  PROVE  Spec => []NoSilentLoss
<1>1. Init => HeldInv
  BY TypeInit, ModeAssumption
     DEF Init, HeldInv, KeptInv, UsedTree, FilesReported, WriteFull,
         UnchangedHeld, NoSilentLoss
<1>2. HeldInv /\ [Next]_vars => HeldInv'
  BY HeldStep
<1>3. HeldInv => NoSilentLoss
  BY DEF HeldInv
<1> QED
  BY <1>1, <1>2, <1>3, PTL DEF Spec

=============================================================================
