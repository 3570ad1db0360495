------------------------- MODULE UpdateInstallProofs -------------------------
(***************************************************************************)
(* Proofs about UpdateInstall for any number of launchers, helpers and     *)
(* stages, any versions and any number of crashes, errors and damaged      *)
(* files.  IInv is the inductive invariant; the properties follow from it. *)
(***************************************************************************)
EXTENDS UpdateInstall, TLAPS

\* Program counters at which a helper holds the update mutex, both mutexes,
\* or works on the installation directory.
HoldsUpdate == {"wait", "lock", "release"} \cup {"game", "unlock"} \cup FileSteps
HoldsBoth   == {"game", "unlock"} \cup FileSteps
HoldsSingleton == {"singleton", "check", "recovering", "exiting"} \cup RunningStates

\* Whoever is at such a point is the one recorded in the mutex.
LockInv ==
    /\ \A h \in Helpers : /\ hpc[h] \in HoldsUpdate => updateLock = h
                          /\ hpc[h] \in HoldsBoth => launcherLock = h
    /\ \A l \in Launchers : /\ lpc[l] = "check" => updateLock = l
                            /\ lpc[l] \in HoldsSingleton => launcherLock = l

\* A mapped EXE cannot be replaced, so every live launcher runs the EXE that
\* is installed now; one past its startup checks saw no journal.
ImageInv ==
    \A l \in Launchers :
        /\ lpc[l] # "off" => image[l] \in Versions /\ image[l] = installed["exe"]
        /\ lpc[l] \in RunningStates => journal = None

\* The patch can only be loaded by a launcher that holds the singleton mutex.
GameInv ==
    /\ ~game => loaded = None
    /\ \A h \in Helpers : hpc[h] \in FileSteps => loaded = None

Kept(s, f, v) == backup[s][f] = v \/ <<s, f, "backup">> \in damaged

\* The stage of a live helper exists; a helper that backs up, or is about to
\* publish, has saved the files visited so far, with no journal around.
StageInv ==
    \A h \in Helpers :
        /\ hpc[h] # "off" => hstage[h] \in Stages /\ manifest[hstage[h]] # None
        /\ hpc[h] \in {"start", "wait", "lock", "game", "begin"} => hfile[h] = "exe"
        /\ hpc[h] \in {"backup", "publish"} => journal = None
        /\ \A f \in Files :
              hpc[h] = "publish" \/ (hpc[h] = "backup" /\ f = "exe" /\ hfile[h] = "dll")
              => saved[h][f] = installed[f] /\ Kept(hstage[h], f, installed[f])

\* A helper between publication and commit, or inside recover(), works under
\* the journal; before it removes the journal both files are one version.
PhaseInv ==
    \A h \in Helpers :
        /\ hpc[h] \in {"swap", "verify", "commit", "restore", "replace", "unmark"}
              => journal # None
        /\ hpc[h] = "commit" => \A f \in Files : installed[f] = manifest[hstage[h]]
        /\ hpc[h] \in {"restore", "replace"} =>
              /\ saved[h] = journal.originals
              /\ hfile[h] = "dll" => installed["exe"] = journal.originals["exe"]
        /\ hpc[h] = "unmark" => \A f \in Files : installed[f] = journal.originals[f]

IInv == /\ TypeOK /\ LockInv /\ ImageInv /\ GameInv /\ StageInv /\ PhaseInv
        /\ PairSafety /\ BackupsRetained

\* What a step that is not Damage or CleanStart does to the budgets.
BudgetStep == faults' \in 0..MaxFaults /\ damaged' = damaged

\* Names of state sets, tuples and program-counter moves are always expanded.
USE ConstantsAssumption DEF HoldsUpdate, HoldsBoth, HoldsSingleton, FileSteps,
   RunningStates, Files, StageExists, Kept, Mapped, Content, NoFiles,
   HelperPC, LauncherPC, Journals, disk, launchers, helpers, locks, gameVars,
   budget, BudgetStep, Locked, LauncherGo, HelperGo, HelperMoves, HelperFails,
   AfterError, NextFile

LEMMA FaultStep ==
  ASSUME TypeOK, Fault \/ UNCHANGED budget
  PROVE  BudgetStep
BY DEF TypeOK, Fault

LEMMA PartialBackup ==
  ASSUME TypeOK, StageInv, NEW h \in Helpers, MaybePartialBackup(h)
  PROVE  backup' \in [Stages -> [Files -> Content]]
<1>1. CASE backup' = backup
  BY <1>1 DEF TypeOK
<1>2. CASE /\ hpc[h] = "backup"
           /\ backup' = [backup EXCEPT ![hstage[h]][hfile[h]] = Bad]
  <2>1. hstage[h] \in Stages /\ hfile[h] \in Files
    BY <1>2 DEF TypeOK, StageInv
  <2>2. [backup[hstage[h]] EXCEPT ![hfile[h]] = Bad] \in [Files -> Content]
    BY <2>1 DEF TypeOK
  <2> QED
    BY <1>2, <2>1, <2>2 DEF TypeOK
<1> QED
  BY <1>1, <1>2 DEF MaybePartialBackup

-----------------------------------------------------------------------------
(* Launcher steps.                                                         *)

\* A launcher process ends, or only its error dialog is left.
LEMMA LauncherEnds ==
  ASSUME IInv, NEW l \in Launchers, NEW to \in {"off", "dialog"},
         EndLauncher(l, to), lpc[l] # "off", UNCHANGED <<disk, gameVars>>, BudgetStep
  PROVE  IInv'
<1> USE DEF IInv, EndLauncher, DropLocks
<1>1. TypeOK'
  BY DEF TypeOK
<1>2. LockInv'
  BY DEF TypeOK, LockInv
<1>3. ImageInv'
  BY DEF TypeOK, LockInv, ImageInv
<1>4. GameInv'
  BY DEF TypeOK, LockInv, GameInv
<1>5. StageInv'
  BY DEF TypeOK, LockInv, StageInv, PhaseInv
<1>6. PhaseInv'
  BY DEF TypeOK, LockInv, StageInv, PhaseInv, BackupsRetained
<1>7. PairSafety' /\ BackupsRetained'
  BY DEF TypeOK, LockInv, StageInv, PhaseInv, PairSafety, BackupsRetained
<1> QED BY <1>1, <1>2, <1>3, <1>4, <1>5, <1>6, <1>7

\* A new process maps the installed EXE.
LEMMA UserStartStep ==
  ASSUME IInv, NEW l \in Launchers, UserStart(l)
  PROVE  IInv'
<1> USE DEF IInv, UserStart, StartProcess
<1>1. TypeOK'
  BY DEF TypeOK
<1>2. LockInv'
  BY DEF TypeOK, LockInv
<1>3. ImageInv'
  BY DEF TypeOK, LockInv, ImageInv
<1>4. GameInv'
  BY DEF TypeOK, LockInv, GameInv
<1>5. StageInv'
  BY DEF TypeOK, LockInv, StageInv, PhaseInv
<1>6. PhaseInv'
  BY DEF TypeOK, LockInv, StageInv, PhaseInv, BackupsRetained
<1>7. PairSafety' /\ BackupsRetained'
  BY DEF TypeOK, LockInv, StageInv, PhaseInv, PairSafety, BackupsRetained
<1> QED BY <1>1, <1>2, <1>3, <1>4, <1>5, <1>6, <1>7

\* The singleton mutex is taken, or the process ends.
LEMMA TakeSingletonStep ==
  ASSUME IInv, NEW l \in Launchers, TakeSingleton(l)
  PROVE  IInv'
<1> USE DEF IInv, TakeSingleton
<1>0. BudgetStep
  BY FaultStep DEF IInv, TakeSingleton
<1>a. CASE ~(launcherLock = None)
  BY <1>0, <1>a, LauncherEnds DEF IInv, TakeSingleton
<1>b. CASE launcherLock = None
  <2>1. TypeOK'
    BY <1>b, SMTT(20) DEF TypeOK
  <2>2. LockInv'
    BY <1>b DEF TypeOK, LockInv
  <2>3. ImageInv'
    BY <1>b DEF TypeOK, LockInv, ImageInv
  <2>4. GameInv'
    BY <1>b DEF TypeOK, LockInv, GameInv
  <2>5. StageInv'
    BY <1>b DEF TypeOK, LockInv, StageInv, PhaseInv
  <2>6. PhaseInv'
    BY <1>b DEF TypeOK, LockInv, StageInv, PhaseInv, BackupsRetained
  <2>7. PairSafety' /\ BackupsRetained'
    BY <1>b DEF TypeOK, LockInv, StageInv, PhaseInv, PairSafety,
       BackupsRetained
  <2> QED BY <2>1, <2>2, <2>3, <2>4, <2>5, <2>6, <2>7
<1> QED BY <1>a, <1>b

\* The update mutex is taken, or only the dialog is left.
LEMMA TakeUpdateLockStep ==
  ASSUME IInv, NEW l \in Launchers, TakeUpdateLock(l)
  PROVE  IInv'
<1> USE DEF IInv, TakeUpdateLock
<1>0. BudgetStep
  BY FaultStep DEF IInv, TakeUpdateLock
<1>a. CASE ~(updateLock = None)
  BY <1>0, <1>a, LauncherEnds DEF IInv, TakeUpdateLock
<1>b. CASE updateLock = None
  <2>1. TypeOK'
    BY <1>b DEF TypeOK
  <2>2. LockInv'
    BY <1>b DEF TypeOK, LockInv
  <2>3. ImageInv'
    BY <1>b DEF TypeOK, LockInv, ImageInv
  <2>4. GameInv'
    BY <1>b DEF TypeOK, LockInv, GameInv
  <2>5. StageInv'
    BY <1>b DEF TypeOK, LockInv, StageInv, PhaseInv
  <2>6. PhaseInv'
    BY <1>b DEF TypeOK, LockInv, StageInv, PhaseInv, BackupsRetained
  <2>7. PairSafety' /\ BackupsRetained'
    BY <1>b DEF TypeOK, LockInv, StageInv, PhaseInv, PairSafety,
       BackupsRetained
  <2> QED BY <2>1, <2>2, <2>3, <2>4, <2>5, <2>6, <2>7
<1> QED BY <1>a, <1>b

\* The journal stops a start.
LEMMA FindJournalStep ==
  ASSUME IInv, NEW l \in Launchers, FindJournal(l)
  PROVE  IInv'
<1> USE DEF IInv, FindJournal
<1>1. TypeOK'
  BY DEF TypeOK
<1>2. LockInv'
  BY DEF TypeOK, LockInv
<1>3. ImageInv'
  BY DEF TypeOK, LockInv, ImageInv
<1>4. GameInv'
  BY DEF TypeOK, LockInv, GameInv
<1>5. StageInv'
  BY DEF TypeOK, LockInv, StageInv, PhaseInv
<1>6. PhaseInv'
  BY DEF TypeOK, LockInv, StageInv, PhaseInv, BackupsRetained
<1>7. PairSafety' /\ BackupsRetained'
  BY DEF TypeOK, LockInv, StageInv, PhaseInv, PairSafety, BackupsRetained
<1> QED BY <1>1, <1>2, <1>3, <1>4, <1>5, <1>6, <1>7

\* Cleanup spares the stages of live helpers, and there is no journal.
LEMMA CleanStartStep ==
  ASSUME IInv, NEW l \in Launchers, CleanStart(l)
  PROVE  IInv'
<1> USE DEF IInv, CleanStart
<1>1. TypeOK'
  BY DEF TypeOK
<1>2. LockInv'
  BY DEF TypeOK, LockInv
<1>3. ImageInv'
  BY DEF TypeOK, LockInv, ImageInv
<1>4. GameInv'
  BY DEF TypeOK, LockInv, GameInv
<1>5. StageInv'
  BY DEF TypeOK, LockInv, StageInv, PhaseInv
<1>6. PhaseInv'
  BY DEF TypeOK, LockInv, StageInv, PhaseInv, BackupsRetained
<1>7. PairSafety' /\ BackupsRetained'
  BY DEF TypeOK, LockInv, StageInv, PhaseInv, PairSafety, BackupsRetained
<1> QED BY <1>1, <1>2, <1>3, <1>4, <1>5, <1>6, <1>7

\* The recovery helper starts from an existing stage.
LEMMA StartRecoveryStep ==
  ASSUME IInv, NEW l \in Launchers, StartRecovery(l)
  PROVE  IInv'
<1> USE DEF IInv, StartRecovery, SpawnHelper
<1>1. TypeOK'
  BY DEF TypeOK, StageInv, PhaseInv
<1>2. LockInv'
  BY DEF TypeOK, LockInv
<1>3. ImageInv'
  BY DEF TypeOK, LockInv, ImageInv
<1>4. GameInv'
  BY DEF TypeOK, LockInv, GameInv
<1>5. StageInv'
  BY DEF TypeOK, LockInv, StageInv, PhaseInv
<1>6. PhaseInv'
  BY DEF TypeOK, LockInv, StageInv, PhaseInv, BackupsRetained
<1>7. PairSafety' /\ BackupsRetained'
  BY DEF TypeOK, LockInv, StageInv, PhaseInv, PairSafety, BackupsRetained
<1> QED BY <1>1, <1>2, <1>3, <1>4, <1>5, <1>6, <1>7

\* A fresh stage appears.
LEMMA PrepareStep ==
  ASSUME IInv, NEW l \in Launchers, Prepare(l)
  PROVE  IInv'
<1> USE DEF IInv, Prepare
<1>1. TypeOK'
  BY DEF TypeOK
<1>2. LockInv'
  BY DEF TypeOK, LockInv
<1>3. ImageInv'
  BY DEF TypeOK, LockInv, ImageInv
<1>4. GameInv'
  BY DEF TypeOK, LockInv, GameInv
<1>5. StageInv'
  BY DEF TypeOK, LockInv, StageInv, PhaseInv
<1>6. PhaseInv'
  BY DEF TypeOK, LockInv, StageInv, PhaseInv, BackupsRetained
<1>7. PairSafety' /\ BackupsRetained'
  BY DEF TypeOK, LockInv, StageInv, PhaseInv, PairSafety, BackupsRetained
<1> QED BY <1>1, <1>2, <1>3, <1>4, <1>5, <1>6, <1>7

\* The hand-off begins.
LEMMA ClickInstallStep ==
  ASSUME IInv, NEW l \in Launchers, ClickInstall(l)
  PROVE  IInv'
<1> USE DEF IInv, ClickInstall
<1>1. TypeOK'
  BY DEF TypeOK
<1>2. LockInv'
  BY DEF TypeOK, LockInv
<1>3. ImageInv'
  BY DEF TypeOK, LockInv, ImageInv
<1>4. GameInv'
  BY DEF TypeOK, LockInv, GameInv
<1>5. StageInv'
  BY DEF TypeOK, LockInv, StageInv, PhaseInv
<1>6. PhaseInv'
  BY DEF TypeOK, LockInv, StageInv, PhaseInv, BackupsRetained
<1>7. PairSafety' /\ BackupsRetained'
  BY DEF TypeOK, LockInv, StageInv, PhaseInv, PairSafety, BackupsRetained
<1> QED BY <1>1, <1>2, <1>3, <1>4, <1>5, <1>6, <1>7

\* The update helper starts from an existing stage.
LEMMA HandOffStep ==
  ASSUME IInv, NEW l \in Launchers, HandOff(l)
  PROVE  IInv'
<1> USE DEF IInv, HandOff, SpawnHelper
<1>1. TypeOK'
  BY DEF TypeOK, StageInv, PhaseInv
<1>2. LockInv'
  BY DEF TypeOK, LockInv
<1>3. ImageInv'
  BY DEF TypeOK, LockInv, ImageInv
<1>4. GameInv'
  BY DEF TypeOK, LockInv, GameInv
<1>5. StageInv'
  BY DEF TypeOK, LockInv, StageInv, PhaseInv
<1>6. PhaseInv'
  BY DEF TypeOK, LockInv, StageInv, PhaseInv, BackupsRetained
<1>7. PairSafety' /\ BackupsRetained'
  BY DEF TypeOK, LockInv, StageInv, PhaseInv, PairSafety, BackupsRetained
<1> QED BY <1>1, <1>2, <1>3, <1>4, <1>5, <1>6, <1>7

\* A helper that cannot start: back to the window, or give up.
LEMMA SpawnFailsStep ==
  ASSUME IInv, NEW l \in Launchers, SpawnFails(l)
  PROVE  IInv'
<1> USE DEF IInv, SpawnFails
<1>0. BudgetStep
  BY FaultStep DEF IInv, SpawnFails
<1>a. CASE ~(lpc[l] = "handoff")
  BY <1>0, <1>a, LauncherEnds DEF IInv, SpawnFails
<1>b. CASE lpc[l] = "handoff"
  <2>1. TypeOK'
    <3>1. lpc' = [lpc EXCEPT ![l] = "running"]
      BY <1>b
    <3>2. UNCHANGED <<disk, image, lstage, helpers, locks, gameVars>>
      BY <1>b
    <3>3. lpc' \in [Launchers -> LauncherPC]
      BY <3>1 DEF TypeOK
    <3> HIDE DEF SpawnFails, LauncherGo, LauncherPC, HelperPC
    <3> QED
      BY <1>0, <3>2, <3>3 DEF TypeOK
  <2>2. LockInv'
    BY <1>0, <1>b DEF TypeOK, LockInv
  <2>3. ImageInv'
    BY <1>0, <1>b DEF TypeOK, LockInv, ImageInv
  <2>4. GameInv'
    BY <1>0, <1>b DEF TypeOK, LockInv, GameInv
  <2>5. StageInv'
    BY <1>0, <1>b DEF TypeOK, LockInv, StageInv, PhaseInv
  <2>6. PhaseInv'
    BY <1>0, <1>b DEF TypeOK, LockInv, StageInv, PhaseInv, BackupsRetained
  <2>7. PairSafety' /\ BackupsRetained'
    BY <1>0, <1>b DEF TypeOK, LockInv, StageInv, PhaseInv, PairSafety,
       BackupsRetained
  <2> QED BY <2>1, <2>2, <2>3, <2>4, <2>5, <2>6, <2>7
<1> QED BY <1>a, <1>b

\* Only a window injects, and it holds the singleton mutex.
LEMMA InjectStep ==
  ASSUME IInv, NEW l \in Launchers, Inject(l)
  PROVE  IInv'
<1> USE DEF IInv, Inject
<1>1. TypeOK'
  <2>1. loaded' \in Versions
    BY DEF TypeOK, ImageInv, PairSafety
  <2> QED
    BY <2>1 DEF TypeOK
<1>2. LockInv'
  BY DEF TypeOK, LockInv
<1>3. ImageInv'
  BY DEF TypeOK, LockInv, ImageInv
<1>4. GameInv'
  BY DEF TypeOK, LockInv, GameInv
<1>5. StageInv'
  BY DEF TypeOK, LockInv, StageInv, PhaseInv
<1>6. PhaseInv'
  BY DEF TypeOK, LockInv, StageInv, PhaseInv, BackupsRetained
<1>7. PairSafety' /\ BackupsRetained'
  BY DEF TypeOK, LockInv, StageInv, PhaseInv, PairSafety, BackupsRetained
<1> QED BY <1>1, <1>2, <1>3, <1>4, <1>5, <1>6, <1>7

LEMMA LauncherExitStep ==
  ASSUME IInv, NEW l \in Launchers, LauncherExit(l) \/ LauncherCrash(l)
  PROVE  IInv'
BY LauncherEnds, FaultStep DEF IInv, LauncherExit, LauncherCrash

-----------------------------------------------------------------------------
(* Helper steps outside the transaction.                                   *)

\* A helper ends, or only its error dialog is left; it may leave a partial
\* backup that no journal names.
LEMMA HelperEnds ==
  ASSUME IInv, NEW h \in Helpers, NEW to \in {"off", "dialog"}, EndHelper(h, to),
         hpc[h] # "off", MaybePartialBackup(h),
         UNCHANGED <<installed, journal, manifest, fresh, temp, launchers, gameVars>>,
         BudgetStep
  PROVE  IInv'
<1> USE DEF IInv, EndHelper, DropLocks, MaybePartialBackup
<1>1. TypeOK'
  <2>1. backup' \in [Stages -> [Files -> Content]]
    BY PartialBackup
  <2> QED
    BY <2>1 DEF TypeOK
<1>2. LockInv'
  BY DEF TypeOK, LockInv
<1>3. ImageInv'
  BY DEF TypeOK, LockInv, ImageInv
<1>4. GameInv'
  BY DEF TypeOK, LockInv, GameInv
<1>5. StageInv'
  BY DEF TypeOK, LockInv, StageInv, PhaseInv
<1>6. PhaseInv'
  BY DEF TypeOK, LockInv, StageInv, PhaseInv, BackupsRetained
<1>7. PairSafety' /\ BackupsRetained'
  BY DEF TypeOK, LockInv, StageInv, PhaseInv, PairSafety, BackupsRetained
<1> QED BY <1>1, <1>2, <1>3, <1>4, <1>5, <1>6, <1>7

\* The update mutex was free.
LEMMA HelperLockStep ==
  ASSUME IInv, NEW h \in Helpers, HelperLock(h)
  PROVE  IInv'
<1> USE DEF IInv, HelperLock
<1>1. TypeOK'
  BY DEF TypeOK
<1>2. LockInv'
  BY DEF TypeOK, LockInv
<1>3. ImageInv'
  BY DEF TypeOK, LockInv, ImageInv
<1>4. GameInv'
  BY DEF TypeOK, LockInv, GameInv
<1>5. StageInv'
  BY DEF TypeOK, LockInv, StageInv, PhaseInv
<1>6. PhaseInv'
  BY DEF TypeOK, LockInv, StageInv, PhaseInv, BackupsRetained
<1>7. PairSafety' /\ BackupsRetained'
  BY DEF TypeOK, LockInv, StageInv, PhaseInv, PairSafety, BackupsRetained
<1> QED BY <1>1, <1>2, <1>3, <1>4, <1>5, <1>6, <1>7

\* The launcher that spawned the helper is gone.
LEMMA ParentGoneStep ==
  ASSUME IInv, NEW h \in Helpers, ParentGone(h)
  PROVE  IInv'
<1> USE DEF IInv, ParentGone
<1>1. TypeOK'
  BY DEF TypeOK
<1>2. LockInv'
  BY DEF TypeOK, LockInv
<1>3. ImageInv'
  BY DEF TypeOK, LockInv, ImageInv
<1>4. GameInv'
  BY DEF TypeOK, LockInv, GameInv
<1>5. StageInv'
  BY DEF TypeOK, LockInv, StageInv, PhaseInv
<1>6. PhaseInv'
  BY DEF TypeOK, LockInv, StageInv, PhaseInv, BackupsRetained
<1>7. PairSafety' /\ BackupsRetained'
  BY DEF TypeOK, LockInv, StageInv, PhaseInv, PairSafety, BackupsRetained
<1> QED BY <1>1, <1>2, <1>3, <1>4, <1>5, <1>6, <1>7

\* Now no launcher can start.
LEMMA HelperTakesLauncherLockStep ==
  ASSUME IInv, NEW h \in Helpers, HelperTakesLauncherLock(h)
  PROVE  IInv'
<1> USE DEF IInv, HelperTakesLauncherLock
<1>1. TypeOK'
  BY DEF TypeOK
<1>2. LockInv'
  BY DEF TypeOK, LockInv
<1>3. ImageInv'
  BY DEF TypeOK, LockInv, ImageInv
<1>4. GameInv'
  BY DEF TypeOK, LockInv, GameInv
<1>5. StageInv'
  BY DEF TypeOK, LockInv, StageInv, PhaseInv
<1>6. PhaseInv'
  BY DEF TypeOK, LockInv, StageInv, PhaseInv, BackupsRetained
<1>7. PairSafety' /\ BackupsRetained'
  BY DEF TypeOK, LockInv, StageInv, PhaseInv, PairSafety, BackupsRetained
<1> QED BY <1>1, <1>2, <1>3, <1>4, <1>5, <1>6, <1>7

\* No game, so no loaded DLL, and none can be loaded from here on.
LEMMA GameClosedStep ==
  ASSUME IInv, NEW h \in Helpers, GameClosed(h)
  PROVE  IInv'
<1> USE DEF IInv, GameClosed
<1>1. TypeOK'
  BY DEF TypeOK
<1>2. LockInv'
  BY DEF TypeOK, LockInv
<1>3. ImageInv'
  BY DEF TypeOK, LockInv, ImageInv
<1>4. GameInv'
  BY DEF TypeOK, LockInv, GameInv
<1>5. StageInv'
  BY DEF TypeOK, LockInv, StageInv, PhaseInv
<1>6. PhaseInv'
  BY DEF TypeOK, LockInv, StageInv, PhaseInv, BackupsRetained
<1>7. PairSafety' /\ BackupsRetained'
  BY DEF TypeOK, LockInv, StageInv, PhaseInv, PairSafety, BackupsRetained
<1> QED BY <1>1, <1>2, <1>3, <1>4, <1>5, <1>6, <1>7

\* The work is over.
LEMMA DropLauncherLockStep ==
  ASSUME IInv, NEW h \in Helpers, DropLauncherLock(h)
  PROVE  IInv'
<1> USE DEF IInv, DropLauncherLock
<1>1. TypeOK'
  BY DEF TypeOK
<1>2. LockInv'
  BY DEF TypeOK, LockInv
<1>3. ImageInv'
  BY DEF TypeOK, LockInv, ImageInv
<1>4. GameInv'
  BY DEF TypeOK, LockInv, GameInv
<1>5. StageInv'
  BY DEF TypeOK, LockInv, StageInv, PhaseInv
<1>6. PhaseInv'
  BY DEF TypeOK, LockInv, StageInv, PhaseInv, BackupsRetained
<1>7. PairSafety' /\ BackupsRetained'
  BY DEF TypeOK, LockInv, StageInv, PhaseInv, PairSafety, BackupsRetained
<1> QED BY <1>1, <1>2, <1>3, <1>4, <1>5, <1>6, <1>7

\* The work is over.
LEMMA DropUpdateLockStep ==
  ASSUME IInv, NEW h \in Helpers, DropUpdateLock(h)
  PROVE  IInv'
<1> USE DEF IInv, DropUpdateLock
<1>1. TypeOK'
  BY DEF TypeOK
<1>2. LockInv'
  BY DEF TypeOK, LockInv
<1>3. ImageInv'
  BY DEF TypeOK, LockInv, ImageInv
<1>4. GameInv'
  BY DEF TypeOK, LockInv, GameInv
<1>5. StageInv'
  BY DEF TypeOK, LockInv, StageInv, PhaseInv
<1>6. PhaseInv'
  BY DEF TypeOK, LockInv, StageInv, PhaseInv, BackupsRetained
<1>7. PairSafety' /\ BackupsRetained'
  BY DEF TypeOK, LockInv, StageInv, PhaseInv, PairSafety, BackupsRetained
<1> QED BY <1>1, <1>2, <1>3, <1>4, <1>5, <1>6, <1>7

LEMMA HelperStopsStep ==
  ASSUME IInv, NEW h \in Helpers,
         \/ HelperRefused(h) \/ ParentTimeout(h) \/ NoRelaunch(h)
         \/ HelperDismissed(h) \/ HelperCrash(h)
  PROVE  IInv'
<1>1. BudgetStep
  BY FaultStep DEF IInv, HelperRefused, ParentTimeout, NoRelaunch, HelperDismissed,
                   HelperCrash
<1>2. CASE HelperRefused(h) \/ ParentTimeout(h) \/ NoRelaunch(h)
  BY <1>1, <1>2, HelperEnds DEF HelperRefused, ParentTimeout, NoRelaunch, MaybePartialBackup
<1>3. CASE HelperDismissed(h) \/ HelperCrash(h)
  BY <1>1, <1>3, HelperEnds DEF HelperDismissed, HelperCrash, MaybePartialBackup
<1> QED
  BY <1>2, <1>3

\* The helper ends by starting the installed EXE.
LEMMA RelaunchStep ==
  ASSUME IInv, NEW h \in Helpers, Relaunch(h)
  PROVE  IInv'
<1> USE DEF IInv, Relaunch, StartProcess, EndHelper, DropLocks
<1>1. TypeOK'
  BY DEF TypeOK
<1>2. LockInv'
  BY DEF TypeOK, LockInv
<1>3. ImageInv'
  BY DEF TypeOK, LockInv, ImageInv
<1>4. GameInv'
  BY DEF TypeOK, LockInv, GameInv
<1>5. StageInv'
  BY DEF TypeOK, LockInv, StageInv, PhaseInv
<1>6. PhaseInv'
  BY DEF TypeOK, LockInv, StageInv, PhaseInv, BackupsRetained
<1>7. PairSafety' /\ BackupsRetained'
  BY DEF TypeOK, LockInv, StageInv, PhaseInv, PairSafety, BackupsRetained
<1> QED BY <1>1, <1>2, <1>3, <1>4, <1>5, <1>6, <1>7

-----------------------------------------------------------------------------
(* transaction().                                                          *)

\* Nothing is published yet.
LEMMA BeginStep ==
  ASSUME IInv, NEW h \in Helpers, Begin(h)
  PROVE  IInv'
<1> USE DEF IInv, Begin
<1>1. TypeOK'
  <2>1. \/ hpc' = [hpc EXCEPT ![h] = "backup"] /\ failed' = failed
        \/ hpc' = [hpc EXCEPT ![h] = "unlock"] /\ failed' = [failed EXCEPT ![h] = TRUE]
    OBVIOUS
  <2>2. UNCHANGED <<disk, launchers, hmode, hstage, hfile, parent, saved, locks,
                    gameVars, budget>>
    OBVIOUS
  <2>3. hpc' \in [Helpers -> HelperPC] /\ failed' \in [Helpers -> BOOLEAN]
    <3>1. hpc \in [Helpers -> HelperPC] /\ failed \in [Helpers -> BOOLEAN]
      BY DEF TypeOK
    <3> QED
      BY <2>1, <3>1
  <2> HIDE DEF Begin, HelperMoves, HelperFails, HelperGo, HelperPC, IInv
  <2>4. TypeOK
    BY DEF IInv
  <2> QED
    BY <2>2, <2>3, <2>4, SMTT(30) DEF TypeOK
<1>2. LockInv'
  BY DEF TypeOK, LockInv
<1>3. ImageInv'
  BY DEF TypeOK, LockInv, ImageInv
<1>4. GameInv'
  BY DEF TypeOK, LockInv, GameInv
<1>5. StageInv'
  BY DEF TypeOK, LockInv, StageInv, PhaseInv
<1>6. PhaseInv'
  BY DEF TypeOK, LockInv, StageInv, PhaseInv, BackupsRetained
<1>7. PairSafety' /\ BackupsRetained'
  BY DEF TypeOK, LockInv, StageInv, PhaseInv, PairSafety, BackupsRetained
<1> QED BY <1>1, <1>2, <1>3, <1>4, <1>5, <1>6, <1>7

\* One more file is backed up and remembered.
LEMMA BackUpStep ==
  ASSUME IInv, NEW h \in Helpers, BackUp(h)
  PROVE  IInv'
<1> USE DEF IInv, BackUp
<1>1. TypeOK'
  <2>1. hstage[h] \in Stages /\ hfile[h] \in Files
    BY DEF TypeOK, StageInv
  <2>2. /\ backup' \in [Stages -> [Files -> Content]]
        /\ saved' \in [Helpers -> [Files -> Content]]
    BY <2>1 DEF TypeOK
  <2> QED
    BY <2>2 DEF TypeOK
<1>2. LockInv'
  BY DEF TypeOK, LockInv
<1>3. ImageInv'
  BY DEF TypeOK, LockInv, ImageInv
<1>4. GameInv'
  BY DEF TypeOK, LockInv, GameInv
<1>5. StageInv'
  BY DEF TypeOK, LockInv, StageInv, PhaseInv
<1>6. PhaseInv'
  BY DEF TypeOK, LockInv, StageInv, PhaseInv, BackupsRetained
<1>7. PairSafety' /\ BackupsRetained'
  BY DEF TypeOK, LockInv, StageInv, PhaseInv, PairSafety, BackupsRetained
<1> QED BY <1>1, <1>2, <1>3, <1>4, <1>5, <1>6, <1>7

\* The journal appears over two complete backups of one version.
LEMMA PublishStep ==
  ASSUME IInv, NEW h \in Helpers, Publish(h)
  PROVE  IInv'
<1> USE DEF IInv, Publish
<1>0. /\ journal' # None /\ journal' \in Journals
      /\ journal'.stage = hstage[h] /\ journal'.originals = saved[h]
      /\ \A f \in Files : saved[h][f] = installed[f]
  <2>1. \A f \in Files : saved[h][f] = installed[f] /\ installed[f] \in Versions
    BY DEF StageInv, PairSafety
  <2>2. saved[h] \in [Files -> Versions]
    BY <2>1 DEF TypeOK
  <2>3. hstage[h] \in Stages
    BY DEF StageInv
  <2>4. [stage |-> hstage[h], originals |-> saved[h]] \in Journals
    BY <2>2, <2>3
  <2> QED
    BY <2>1, <2>4
<1>1. TypeOK'
  BY <1>0 DEF TypeOK
<1>2. LockInv'
  BY <1>0 DEF TypeOK, LockInv
<1>3. ImageInv'
  BY <1>0 DEF TypeOK, LockInv, ImageInv
<1>4. GameInv'
  BY <1>0 DEF TypeOK, LockInv, GameInv
<1>5. StageInv'
  BY <1>0 DEF TypeOK, LockInv, StageInv, PhaseInv
<1>6. PhaseInv'
  BY <1>0 DEF TypeOK, LockInv, StageInv, PhaseInv, BackupsRetained
<1>7. PairSafety' /\ BackupsRetained'
  BY <1>0 DEF TypeOK, LockInv, StageInv, PhaseInv, PairSafety, BackupsRetained
<1> QED BY <1>1, <1>2, <1>3, <1>4, <1>5, <1>6, <1>7

\* A file is replaced under the journal, with no launcher running it.
LEMMA SwapStep ==
  ASSUME IInv, NEW h \in Helpers, Swap(h)
  PROVE  IInv'
<1> USE DEF IInv, Swap, InUse
<1>1. TypeOK'
  <2>1. hstage[h] \in Stages /\ hfile[h] \in Files
    BY DEF TypeOK, StageInv
  <2>2. /\ installed' \in [Files -> Content]
        /\ fresh' \in [Stages -> [Files -> Content]]
    BY <2>1 DEF TypeOK
  <2> QED
    BY <2>2 DEF TypeOK
<1>2. LockInv'
  BY DEF TypeOK, LockInv
<1>3. ImageInv'
  BY DEF TypeOK, LockInv, ImageInv
<1>4. GameInv'
  BY DEF TypeOK, LockInv, GameInv
<1>5. StageInv'
  BY DEF TypeOK, LockInv, StageInv, PhaseInv
<1>6. PhaseInv'
  BY DEF TypeOK, LockInv, StageInv, PhaseInv, BackupsRetained
<1>7. PairSafety' /\ BackupsRetained'
  BY DEF TypeOK, LockInv, StageInv, PhaseInv, PairSafety, BackupsRetained
<1> QED BY <1>1, <1>2, <1>3, <1>4, <1>5, <1>6, <1>7

\* Only a verified pair reaches the commit.
LEMMA VerifyDirectoryStep ==
  ASSUME IInv, NEW h \in Helpers, VerifyDirectory(h)
  PROVE  IInv'
<1> USE DEF IInv, VerifyDirectory, Verified
<1>1. TypeOK'
  <2>1. \/ hpc' = [hpc EXCEPT ![h] = "commit"] /\ failed' = failed
        \/ hpc' = [hpc EXCEPT ![h] = "load"] /\ failed' = [failed EXCEPT ![h] = TRUE]
    OBVIOUS
  <2>2. UNCHANGED <<disk, launchers, hmode, hstage, hfile, parent, saved, locks,
                    gameVars, budget>>
    OBVIOUS
  <2>3. hpc' \in [Helpers -> HelperPC] /\ failed' \in [Helpers -> BOOLEAN]
    <3>1. hpc \in [Helpers -> HelperPC] /\ failed \in [Helpers -> BOOLEAN]
      BY DEF TypeOK
    <3> QED
      BY <2>1, <3>1
  <2> HIDE DEF VerifyDirectory, HelperMoves, HelperFails, HelperGo, HelperPC, IInv
  <2>4. TypeOK
    BY DEF IInv
  <2> QED
    BY <2>2, <2>3, <2>4, SMTT(30) DEF TypeOK
<1>2. LockInv'
  BY DEF TypeOK, LockInv
<1>3. ImageInv'
  BY DEF TypeOK, LockInv, ImageInv
<1>4. GameInv'
  BY DEF TypeOK, LockInv, GameInv
<1>5. StageInv'
  BY DEF TypeOK, LockInv, StageInv, PhaseInv
<1>6. PhaseInv'
  BY DEF TypeOK, LockInv, StageInv, PhaseInv, BackupsRetained
<1>7. PairSafety' /\ BackupsRetained'
  BY DEF TypeOK, LockInv, StageInv, PhaseInv, PairSafety, BackupsRetained
<1> QED BY <1>1, <1>2, <1>3, <1>4, <1>5, <1>6, <1>7

\* The commit point: the installed pair is the verified one.
LEMMA CommitStep ==
  ASSUME IInv, NEW h \in Helpers, Commit(h)
  PROVE  IInv'
<1> USE DEF IInv, Commit
<1>1. TypeOK'
  BY DEF TypeOK
<1>2. LockInv'
  BY DEF TypeOK, LockInv
<1>3. ImageInv'
  BY DEF TypeOK, LockInv, ImageInv
<1>4. GameInv'
  BY DEF TypeOK, LockInv, GameInv
<1>5. StageInv'
  BY DEF TypeOK, LockInv, StageInv, PhaseInv
<1>6. PhaseInv'
  BY DEF TypeOK, LockInv, StageInv, PhaseInv, BackupsRetained
<1>7. PairSafety' /\ BackupsRetained'
  <2>1. manifest[hstage[h]] \in Versions
    <3>1. hpc[h] = "commit" /\ manifest \in [Stages -> Versions \cup {None}]
      BY DEF TypeOK
    <3>2. hstage[h] \in Stages /\ manifest[hstage[h]] # None
      BY <3>1 DEF StageInv
    <3> QED
      BY <3>1, <3>2
  <2>2. \A f \in Files : installed[f] = manifest[hstage[h]]
    BY DEF PhaseInv
  <2> QED
    BY <2>1, <2>2 DEF PairSafety, BackupsRetained
<1> QED BY <1>1, <1>2, <1>3, <1>4, <1>5, <1>6, <1>7

-----------------------------------------------------------------------------
(* recover() and failures.                                                 *)

\* The bytes in memory are exactly the recorded originals.
LEMMA LoadBackupsStep ==
  ASSUME IInv, NEW h \in Helpers, LoadBackups(h)
  PROVE  IInv'
<1> USE DEF IInv, LoadBackups
<1>0. hpc'[h] = "restore" => journal # None /\ saved'[h] = journal.originals
  <2> SUFFICES ASSUME hpc'[h] = "restore"
               PROVE  journal # None /\ saved'[h] = journal.originals
    OBVIOUS
  <2>1. journal # None /\ journal \in Journals /\ saved'[h] = backup[journal.stage]
    BY DEF TypeOK
  <2>2. \A f \in Files : backup[journal.stage][f] = journal.originals[f]
    BY DEF TypeOK
  <2>3. backup[journal.stage] \in [Files -> Content]
    BY <2>1 DEF TypeOK
  <2>4. journal.originals \in [Files -> Versions]
    BY <2>1
  <2> QED
    BY <2>1, <2>2, <2>3, <2>4
<1>1. TypeOK'
  <2>1. saved' \in [Helpers -> [Files -> Content]]
    <3>1. CASE hpc'[h] = "restore"
      <4>1. journal \in Journals /\ saved' = [saved EXCEPT ![h] = backup[journal.stage]]
        BY <1>0, <3>1 DEF TypeOK
      <4> QED
        BY <4>1 DEF TypeOK
    <3>2. CASE hpc'[h] # "restore"
      BY <3>2 DEF TypeOK
    <3> QED
      BY <3>1, <3>2
  <2>2. hpc' \in [Helpers -> HelperPC] /\ hfile' \in [Helpers -> Files]
    <3>1. \/ hpc' = [hpc EXCEPT ![h] = "restore"] /\ hfile' = [hfile EXCEPT ![h] = "exe"]
          \/ hpc' = [hpc EXCEPT ![h] = "unlock"] /\ hfile' = hfile
      OBVIOUS
    <3>2. hpc \in [Helpers -> HelperPC] /\ hfile \in [Helpers -> Files]
      BY DEF TypeOK
    <3>3. "restore" \in HelperPC /\ "unlock" \in HelperPC /\ "exe" \in Files
      BY DEF HelperPC
    <3> HIDE DEF IInv, LoadBackups
    <3> QED
      BY <3>1, <3>2, <3>3
  <2>3. failed' \in [Helpers -> BOOLEAN]
    <3>1. failed' = failed \/ failed' = [failed EXCEPT ![h] = TRUE]
      OBVIOUS
    <3> QED
      BY <3>1 DEF TypeOK
  <2>4. UNCHANGED <<disk, launchers, hmode, hstage, parent, locks, gameVars, budget>>
    OBVIOUS
  <2> HIDE DEF LoadBackups, HelperFails, HelperGo, HelperPC
  <2> QED
    BY <2>1, <2>2, <2>3, <2>4 DEF TypeOK
<1>2. LockInv'
  BY <1>0 DEF TypeOK, LockInv
<1>3. ImageInv'
  BY <1>0 DEF TypeOK, LockInv, ImageInv
<1>4. GameInv'
  BY <1>0 DEF TypeOK, LockInv, GameInv
<1>5. StageInv'
  BY <1>0 DEF TypeOK, LockInv, StageInv, PhaseInv
<1>6. PhaseInv'
  BY <1>0 DEF TypeOK, LockInv, StageInv, PhaseInv, BackupsRetained
<1>7. PairSafety' /\ BackupsRetained'
  BY <1>0 DEF TypeOK, LockInv, StageInv, PhaseInv, PairSafety, BackupsRetained
<1> QED BY <1>1, <1>2, <1>3, <1>4, <1>5, <1>6, <1>7

\* The file already is the original.
LEMMA RestoreSkipStep ==
  ASSUME IInv, NEW h \in Helpers, RestoreSkip(h)
  PROVE  IInv'
<1> USE DEF IInv, RestoreSkip
<1>1. TypeOK'
  BY DEF TypeOK
<1>2. LockInv'
  BY DEF TypeOK, LockInv
<1>3. ImageInv'
  BY DEF TypeOK, LockInv, ImageInv
<1>4. GameInv'
  BY DEF TypeOK, LockInv, GameInv
<1>5. StageInv'
  BY DEF TypeOK, LockInv, StageInv, PhaseInv
<1>6. PhaseInv'
  BY DEF TypeOK, LockInv, StageInv, PhaseInv, BackupsRetained
<1>7. PairSafety' /\ BackupsRetained'
  BY DEF TypeOK, LockInv, StageInv, PhaseInv, PairSafety, BackupsRetained
<1> QED BY <1>1, <1>2, <1>3, <1>4, <1>5, <1>6, <1>7

\* A temporary copy is written.
LEMMA RestoreWriteStep ==
  ASSUME IInv, NEW h \in Helpers, RestoreWrite(h)
  PROVE  IInv'
<1> USE DEF IInv, RestoreWrite
<1>1. TypeOK'
  BY DEF TypeOK, StageInv, PhaseInv
<1>2. LockInv'
  BY DEF TypeOK, LockInv
<1>3. ImageInv'
  BY DEF TypeOK, LockInv, ImageInv
<1>4. GameInv'
  BY DEF TypeOK, LockInv, GameInv
<1>5. StageInv'
  BY DEF TypeOK, LockInv, StageInv, PhaseInv
<1>6. PhaseInv'
  BY DEF TypeOK, LockInv, StageInv, PhaseInv, BackupsRetained
<1>7. PairSafety' /\ BackupsRetained'
  BY DEF TypeOK, LockInv, StageInv, PhaseInv, PairSafety, BackupsRetained
<1> QED BY <1>1, <1>2, <1>3, <1>4, <1>5, <1>6, <1>7

\* An original is put back.
LEMMA RestoreReplaceStep ==
  ASSUME IInv, NEW h \in Helpers, RestoreReplace(h)
  PROVE  IInv'
<1> USE DEF IInv, RestoreReplace, InUse
<1>1. TypeOK'
  BY DEF TypeOK, StageInv, PhaseInv
<1>2. LockInv'
  BY DEF TypeOK, LockInv
<1>3. ImageInv'
  BY DEF TypeOK, LockInv, ImageInv
<1>4. GameInv'
  BY DEF TypeOK, LockInv, GameInv
<1>5. StageInv'
  BY DEF TypeOK, LockInv, StageInv, PhaseInv
<1>6. PhaseInv'
  BY DEF TypeOK, LockInv, StageInv, PhaseInv, BackupsRetained
<1>7. PairSafety' /\ BackupsRetained'
  BY DEF TypeOK, LockInv, StageInv, PhaseInv, PairSafety, BackupsRetained
<1> QED BY <1>1, <1>2, <1>3, <1>4, <1>5, <1>6, <1>7

\* The journal goes once both originals are back.
LEMMA UnmarkStep ==
  ASSUME IInv, NEW h \in Helpers, Unmark(h)
  PROVE  IInv'
<1> USE DEF IInv, Unmark
<1>1. TypeOK'
  BY DEF TypeOK
<1>2. LockInv'
  BY DEF TypeOK, LockInv
<1>3. ImageInv'
  BY DEF TypeOK, LockInv, ImageInv
<1>4. GameInv'
  BY DEF TypeOK, LockInv, GameInv
<1>5. StageInv'
  BY DEF TypeOK, LockInv, StageInv, PhaseInv
<1>6. PhaseInv'
  BY DEF TypeOK, LockInv, StageInv, PhaseInv, BackupsRetained
<1>7. PairSafety' /\ BackupsRetained'
  BY DEF TypeOK, LockInv, StageInv, PhaseInv, PairSafety, BackupsRetained
<1> QED BY <1>1, <1>2, <1>3, <1>4, <1>5, <1>6, <1>7

\* A failed file operation changes at most an unpublished backup.
LEMMA HelperIOErrorStep ==
  ASSUME IInv, NEW h \in Helpers, HelperIOError(h)
  PROVE  IInv'
<1> USE DEF IInv, HelperIOError, MaybePartialBackup
<1>0. BudgetStep
  BY FaultStep
<1>1. TypeOK'
  <2>1. backup' \in [Stages -> [Files -> Content]]
    BY PartialBackup
  <2> QED
    BY <1>0, <2>1 DEF TypeOK
<1>2. LockInv'
  BY <1>0 DEF TypeOK, LockInv
<1>3. ImageInv'
  BY <1>0 DEF TypeOK, LockInv, ImageInv
<1>4. GameInv'
  BY <1>0 DEF TypeOK, LockInv, GameInv
<1>5. StageInv'
  BY <1>0 DEF TypeOK, LockInv, StageInv, PhaseInv
<1>6. PhaseInv'
  BY <1>0 DEF TypeOK, LockInv, StageInv, PhaseInv, BackupsRetained
<1>7. PairSafety' /\ BackupsRetained'
  BY <1>0 DEF TypeOK, LockInv, StageInv, PhaseInv, PairSafety, BackupsRetained
<1> QED BY <1>1, <1>2, <1>3, <1>4, <1>5, <1>6, <1>7

\* A mapped image is not replaced.
LEMMA ReplaceDeniedStep ==
  ASSUME IInv, NEW h \in Helpers, ReplaceDenied(h)
  PROVE  IInv'
<1> USE DEF IInv, ReplaceDenied
<1>1. TypeOK'
  BY DEF TypeOK
<1>2. LockInv'
  BY DEF TypeOK, LockInv
<1>3. ImageInv'
  BY DEF TypeOK, LockInv, ImageInv
<1>4. GameInv'
  BY DEF TypeOK, LockInv, GameInv
<1>5. StageInv'
  BY DEF TypeOK, LockInv, StageInv, PhaseInv
<1>6. PhaseInv'
  BY DEF TypeOK, LockInv, StageInv, PhaseInv, BackupsRetained
<1>7. PairSafety' /\ BackupsRetained'
  BY DEF TypeOK, LockInv, StageInv, PhaseInv, PairSafety, BackupsRetained
<1> QED BY <1>1, <1>2, <1>3, <1>4, <1>5, <1>6, <1>7

\* The game comes and goes.
LEMMA GameStartStep ==
  ASSUME IInv, GameStart
  PROVE  IInv'
<1> USE DEF IInv, GameStart
<1>1. TypeOK'
  BY DEF TypeOK
<1>2. LockInv'
  BY DEF TypeOK, LockInv
<1>3. ImageInv'
  BY DEF TypeOK, LockInv, ImageInv
<1>4. GameInv'
  BY DEF TypeOK, LockInv, GameInv
<1>5. StageInv'
  BY DEF TypeOK, LockInv, StageInv, PhaseInv
<1>6. PhaseInv'
  BY DEF TypeOK, LockInv, StageInv, PhaseInv, BackupsRetained
<1>7. PairSafety' /\ BackupsRetained'
  BY DEF TypeOK, LockInv, StageInv, PhaseInv, PairSafety, BackupsRetained
<1> QED BY <1>1, <1>2, <1>3, <1>4, <1>5, <1>6, <1>7

\* The game comes and goes.
LEMMA GameExitStep ==
  ASSUME IInv, GameExit
  PROVE  IInv'
<1> USE DEF IInv, GameExit
<1>1. TypeOK'
  BY DEF TypeOK
<1>2. LockInv'
  BY DEF TypeOK, LockInv
<1>3. ImageInv'
  BY DEF TypeOK, LockInv, ImageInv
<1>4. GameInv'
  BY DEF TypeOK, LockInv, GameInv
<1>5. StageInv'
  BY DEF TypeOK, LockInv, StageInv, PhaseInv
<1>6. PhaseInv'
  BY DEF TypeOK, LockInv, StageInv, PhaseInv, BackupsRetained
<1>7. PairSafety' /\ BackupsRetained'
  BY DEF TypeOK, LockInv, StageInv, PhaseInv, PairSafety, BackupsRetained
<1> QED BY <1>1, <1>2, <1>3, <1>4, <1>5, <1>6, <1>7

\* Damage touches staged files and backups only, and is recorded.
LEMMA DamageStep ==
  ASSUME IInv, NEW s \in Stages, NEW f \in Files, Damage(s, f)
  PROVE  IInv'
<1> USE DEF IInv
<1>0. /\ UNCHANGED <<installed, journal, manifest, temp, launchers, helpers, locks,
                     gameVars, faults>>
      /\ fresh' \in [Stages -> [Files -> Content]]
      /\ backup' \in [Stages -> [Files -> Content]]
      /\ damaged' \subseteq Stages \X Files \X {"new", "backup"}
  <2>1. /\ fresh \in [Stages -> [Files -> Content]] /\ backup \in [Stages -> [Files -> Content]]
        /\ damaged \subseteq Stages \X Files \X {"new", "backup"}
    BY DEF TypeOK
  <2>2. damaged' = damaged \cup {<<s, f, "new">>} \/ damaged' = damaged \cup {<<s, f, "backup">>}
    BY DEF Damage
  <2>3. damaged' \subseteq Stages \X Files \X {"new", "backup"}
    BY <2>1, <2>2
  <2>4. fresh' = [fresh EXCEPT ![s][f] = Bad] \/ fresh' = fresh
    BY DEF Damage
  <2>5. backup' = [backup EXCEPT ![s][f] = Bad] \/ backup' = backup
    BY DEF Damage
  <2>6. fresh' \in [Stages -> [Files -> Content]] /\ backup' \in [Stages -> [Files -> Content]]
    BY <2>1, <2>4, <2>5
  <2> QED
    BY <2>3, <2>6 DEF Damage
<1>1. \A z \in Stages, g \in Files, v \in Content : Kept(z, g, v) => Kept(z, g, v)'
  BY DEF TypeOK, Damage
<1>2. TypeOK' /\ LockInv' /\ ImageInv' /\ GameInv'
  BY <1>0 DEF TypeOK, LockInv, ImageInv, GameInv
<1>3. StageInv'
  <2>1. ASSUME NEW z \in Stages, NEW g \in Files, Kept(z, g, installed[g])
        PROVE  Kept(z, g, installed[g])'
    <3>1. installed[g] \in Content /\ installed'[g] = installed[g]
      BY <1>0 DEF TypeOK
    <3>2. backup[z][g] = installed[g] \/ <<z, g, "backup">> \in damaged
      BY <2>1
    <3>3. backup'[z][g] = installed[g] \/ <<z, g, "backup">> \in damaged'
      BY <1>1, <3>1, <3>2
    <3> QED BY <3>1, <3>3
  <2> HIDE DEF Kept
  <2> QED
    BY <1>0, <2>1 DEF StageInv
<1>4. PhaseInv'
  BY <1>0 DEF PhaseInv
<1>5. PairSafety' /\ BackupsRetained'
  BY <1>0, <1>1 DEF TypeOK, PairSafety, BackupsRetained
<1> QED BY <1>2, <1>3, <1>4, <1>5

-----------------------------------------------------------------------------
(* The invariant and what follows from it.                                 *)

LEMMA InitInvariant == Init => IInv
<1> SUFFICES ASSUME Init PROVE IInv
  OBVIOUS
<1>1. PICK v \in Versions : installed = [f \in Files |-> v]
  BY DEF Init
<1>2. TypeOK
  <2>1. installed \in [Files -> Content] /\ NoFiles \in [Files -> Content]
    BY <1>1
  <2>2. /\ "off" \in LauncherPC /\ "off" \in HelperPC /\ "exe" \in Files
        /\ faults \in 0..MaxFaults
    BY DEF Init, LauncherPC, HelperPC
  <2>3. manifest \in [Stages -> Versions \cup {None}] /\ temp \in [Stages -> SUBSET Files]
    BY DEF Init
  <2>4. /\ lpc \in [Launchers -> LauncherPC] /\ image \in [Launchers -> Versions \cup {None}]
        /\ lstage \in [Launchers -> Stages \cup {None}]
    BY <2>2 DEF Init
  <2>5. /\ hpc \in [Helpers -> HelperPC] /\ hmode \in [Helpers -> {"apply", "recover"}]
        /\ hstage \in [Helpers -> Stages \cup {None}] /\ hfile \in [Helpers -> Files]
        /\ parent \in [Helpers -> Launchers \cup {None}]
    BY <2>2 DEF Init
  <2> HIDE DEF NoFiles
  <2>6. /\ fresh \in [Stages -> [Files -> Content]] /\ backup \in [Stages -> [Files -> Content]]
        /\ saved \in [Helpers -> [Files -> Content]]
    BY <2>1 DEF Init
  <2> QED
    BY <2>1, <2>2, <2>3, <2>4, <2>5, <2>6 DEF Init, TypeOK
<1>3. LockInv /\ ImageInv /\ GameInv /\ StageInv /\ PhaseInv
  BY DEF Init, LockInv, ImageInv, GameInv, StageInv, PhaseInv
<1>4. PairSafety /\ BackupsRetained
  BY <1>1 DEF Init, PairSafety, BackupsRetained
<1> QED BY <1>2, <1>3, <1>4 DEF IInv

LEMMA NextInvariant == IInv /\ [Next]_vars => IInv'
<1> SUFFICES ASSUME IInv, [Next]_vars
             PROVE  IInv'
  OBVIOUS
<1>1. ASSUME NEW l \in Launchers, LauncherStep(l)
      PROVE  IInv'
  BY <1>1, TakeSingletonStep, TakeUpdateLockStep, FindJournalStep, CleanStartStep,
     StartRecoveryStep DEF LauncherStep
<1>2. ASSUME NEW l \in Launchers, UserStep(l)
      PROVE  IInv'
  BY <1>2, UserStartStep, PrepareStep, ClickInstallStep, HandOffStep, LauncherExitStep,
     InjectStep DEF UserStep
<1>3. ASSUME NEW h \in Helpers, HelperStep(h) \/ HelperDismissed(h)
      PROVE  IInv'
  BY <1>3, HelperLockStep, ParentGoneStep, HelperTakesLauncherLockStep, GameClosedStep,
     HelperStopsStep, BeginStep, BackUpStep, PublishStep, SwapStep, VerifyDirectoryStep,
     CommitStep, LoadBackupsStep, RestoreSkipStep, RestoreWriteStep, RestoreReplaceStep,
     UnmarkStep, ReplaceDeniedStep, DropLauncherLockStep, DropUpdateLockStep, RelaunchStep
  DEF HelperStep
<1>4. ASSUME Environment
      PROVE  IInv'
  BY <1>4, LauncherExitStep, SpawnFailsStep, HelperStopsStep, HelperIOErrorStep,
     GameStartStep, GameExitStep, DamageStep DEF Environment
<1>5. CASE UNCHANGED vars
  BY <1>5 DEF vars, IInv, TypeOK, LockInv, ImageInv, GameInv, StageInv, PhaseInv,
              PairSafety, BackupsRetained
<1> QED
  BY <1>1, <1>2, <1>3, <1>4, <1>5 DEF Next

\* The inductive invariant holds throughout (every conjunct above).
THEOREM UpdateInvariant == Spec => []IInv
BY InitInvariant, NextInvariant, PTL DEF Spec

\* All state of the updater keeps its type.
THEOREM UpdateTypes == Spec => []TypeOK
<1>1. IInv => TypeOK
  BY DEF IInv
<1> QED BY <1>1, UpdateInvariant, PTL

\* For any number of processes, crashes and errors, a directory without a
\* journal holds a matching, intact pair (transaction, recover).
THEOREM PairIsSafe == Spec => []PairSafety
<1>1. IInv => PairSafety
  BY DEF IInv
<1> QED BY <1>1, UpdateInvariant, PTL

\* A launcher past its startup checks runs the EXE that belongs to the
\* installed DLL, and no recovery is pending (ui::run, before_start, helper).
THEOREM RunningPairIsSafe == Spec => []RunningPair
<1>1. IInv => RunningPair
  BY DEF IInv, ImageInv, PairSafety, RunningPair, TypeOK
<1> QED BY <1>1, UpdateInvariant, PTL

\* A journal always finds the backups it names (transaction, recover, cleanup).
THEOREM BackupsAreRetained == Spec => []BackupsRetained
<1>1. IInv => BackupsRetained
  BY DEF IInv
<1> QED BY <1>1, UpdateInvariant, PTL

-----------------------------------------------------------------------------
(* What a single step may do to the installed files.                       *)

\* Only Swap and RestoreReplace write the installed files.
LEMMA InstalledChanges ==
  ASSUME [Next]_vars, installed' # installed
  PROVE  \E h \in Helpers : Swap(h) \/ RestoreReplace(h)
<1>1. ASSUME NEW l \in Launchers, LauncherStep(l)
      PROVE  installed' = installed
  BY <1>1 DEF LauncherStep, TakeSingleton, TakeUpdateLock, FindJournal, CleanStart,
              StartRecovery
<1>2. ASSUME NEW l \in Launchers, UserStep(l)
      PROVE  installed' = installed
  BY <1>2 DEF UserStep, UserStart, Prepare, ClickInstall, HandOff, LauncherExit, Inject
<1>3. ASSUME NEW h \in Helpers, HelperStep(h) \/ HelperDismissed(h), ~Swap(h),
             ~RestoreReplace(h)
      PROVE  installed' = installed
  BY <1>3 DEF HelperStep, HelperLock, ParentGone, HelperTakesLauncherLock, GameClosed,
              HelperRefused, Begin, BackUp, Publish, VerifyDirectory, Commit, LoadBackups,
              RestoreSkip, RestoreWrite, Unmark, ReplaceDenied, DropLauncherLock,
              DropUpdateLock, Relaunch, NoRelaunch, HelperDismissed
<1>4. ASSUME Environment
      PROVE  installed' = installed
  BY <1>4 DEF Environment, LauncherCrash, SpawnFails, HelperCrash, HelperIOError,
              ParentTimeout, GameStart, GameExit, Damage
<1>5. ASSUME UNCHANGED vars
      PROVE  installed' = installed
  BY <1>5 DEF vars
<1> QED
  BY <1>1, <1>2, <1>3, <1>4, <1>5 DEF Next

\* The installed files never change while the game has the patch loaded
\* (helper looks for the game once; the singleton mutex does the rest).
THEOREM NoInstallIntoLoadedGame == Spec => NoInstallWhileInjected
<1>1. IInv /\ [Next]_vars => [installed' # installed => loaded = None]_vars
  <2> SUFFICES ASSUME IInv, [Next]_vars, installed' # installed
               PROVE  loaded = None
    OBVIOUS
  <2>1. PICK h \in Helpers : Swap(h) \/ RestoreReplace(h)
    BY InstalledChanges
  <2>2. hpc[h] \in FileSteps
    BY <2>1 DEF Swap, RestoreReplace
  <2> QED
    BY <2>2 DEF IInv, GameInv
<1> QED
  BY <1>1, UpdateInvariant, PTL DEF NoInstallWhileInjected, Spec

\* No file is put back before every backup was read and verified (recover).
THEOREM RestoreUsesVerifiedSet == Spec => RestoreIsComplete
<1>1. IInv => (\A h \in Helpers : hpc[h] = "replace" => saved[h] = journal.originals)
  BY DEF IInv, PhaseInv
<1>2. IInv /\ [Next]_vars =>
        [\A h \in Helpers : hpc[h] = "replace" /\ installed' # installed
            => saved[h] = journal.originals]_vars
  BY <1>1
<1> QED
  BY <1>2, UpdateInvariant, PTL DEF RestoreIsComplete, Spec

-----------------------------------------------------------------------------
(* UpdateInstall implements AtomicUpdate.                                  *)

\* The abstract variable `running`.
Running == [l \in Launchers |-> IF lpc[l] \in RunningStates THEN image[l] ELSE None]

AtomicStep == [Atomic!Next]_(Atomic!vars)

\* While somebody else holds the singleton mutex no launcher is running.
LEMMA SingletonExcludes ==
  ASSUME LockInv, NEW p, launcherLock = p,
         \A l \in Launchers : l = p => lpc[l] \notin RunningStates
  PROVE  \A l \in Launchers : Running[l] = None
BY DEF LockInv, Running

LEMMA Stutters ==
  ASSUME Committed' = Committed, Running' = Running
  PROVE  AtomicStep
BY DEF AtomicStep, Atomic!vars, Running

\* A step that keeps the committed version, and the running set because no
\* launcher enters, leaves or changes its image in a running state.
LEMMA RunningKept ==
  ASSUME \A l \in Launchers : \/ lpc'[l] = lpc[l] /\ image'[l] = image[l]
                              \/ lpc[l] \notin RunningStates /\ lpc'[l] \notin RunningStates
                              \/ /\ lpc[l] \in RunningStates /\ lpc'[l] \in RunningStates
                                 /\ image'[l] = image[l]
  PROVE  Running' = Running
BY DEF Running

LEMMA EndRefines ==
  ASSUME IInv, NEW l \in Launchers, NEW to \in {"off", "dialog"}, EndLauncher(l, to),
         UNCHANGED disk
  PROVE  AtomicStep
<1>1. Committed' = Committed
  BY DEF Committed
<1>2. CASE lpc[l] \in RunningStates
  <2>1. Running[l] # None
    BY <1>2 DEF IInv, ImageInv, Running
  <2>2. Running' = [Running EXCEPT ![l] = None]
    BY DEF EndLauncher, Running, IInv, TypeOK
  <2>3. Atomic!Stop(l)
    BY <1>1, <2>1, <2>2 DEF Atomic!Stop, Running
  <2> QED BY <2>3 DEF AtomicStep, Atomic!Next
<1>3. CASE lpc[l] \notin RunningStates
  <2>1. Running' = Running
    BY <1>3, RunningKept DEF EndLauncher, IInv, TypeOK
  <2> QED BY <1>1, <2>1, Stutters
<1> QED BY <1>2, <1>3

LEMMA StartRefines ==
  ASSUME IInv, NEW l \in Launchers, CleanStart(l)
  PROVE  AtomicStep
<1>1. launcherLock = l /\ lpc[l] = "check"
  BY DEF CleanStart, IInv, LockInv
<1>2. Atomic!NothingRuns
  BY <1>1, SingletonExcludes DEF IInv, Atomic!NothingRuns, Running
<1>3. Committed' = Committed /\ image[l] = Committed
  BY <1>1 DEF CleanStart, Committed, IInv, ImageInv
<1>4. Running' = [Running EXCEPT ![l] = Committed]
  BY <1>3 DEF CleanStart, Running, IInv, TypeOK
<1>5. Atomic!Start(l)
  BY <1>2, <1>3, <1>4 DEF Atomic!Start, Running
<1> QED BY <1>5 DEF AtomicStep, Atomic!Next

\* Removal of the journal is the commit point.
LEMMA CommitRefines ==
  ASSUME IInv, NEW h \in Helpers, Commit(h)
  PROVE  AtomicStep
<1>1. /\ hpc[h] = "commit" /\ launcherLock = h /\ h \notin Launchers
      /\ hstage[h] \in Stages /\ manifest[hstage[h]] # None
  BY DEF Commit, IInv, LockInv, StageInv
<1>2. Committed' \in Versions
  <2>1. installed["exe"] = manifest[hstage[h]]
    BY <1>1 DEF IInv, PhaseInv
  <2> QED BY <1>1, <2>1 DEF Commit, Committed, IInv, TypeOK
<1>3. Atomic!NothingRuns
  BY <1>1, SingletonExcludes DEF IInv, Atomic!NothingRuns, Running
<1>4. Running' = Running
  BY DEF Commit, Running
<1>5. Atomic!Install(Committed')
  BY <1>3, <1>4 DEF Atomic!Install, Running
<1> QED BY <1>2, <1>5 DEF AtomicStep, Atomic!Next

LEMMA PublishRefines ==
  ASSUME IInv, NEW h \in Helpers, Publish(h)
  PROVE  AtomicStep
<1>1. saved[h]["exe"] = installed["exe"]
  BY DEF Publish, IInv, StageInv
<1>2. Committed' = Committed
  BY <1>1 DEF Publish, Committed
<1>3. Running' = Running
  BY DEF Publish, Running
<1> QED BY <1>2, <1>3, Stutters

\* Writing an installed file, or giving the old pair back, changes nothing
\* as long as the journal is there.
LEMMA RestoreRefines ==
  ASSUME IInv, NEW h \in Helpers, Swap(h) \/ RestoreReplace(h) \/ Unmark(h)
  PROVE  AtomicStep
<1>1. journal # None
  BY DEF Swap, RestoreReplace, Unmark, IInv, PhaseInv
<1>2. Committed' = Committed
  <2>1. CASE Swap(h) \/ RestoreReplace(h)
    BY <1>1, <2>1 DEF Swap, RestoreReplace, Committed
  <2>2. CASE Unmark(h)
    BY <1>1, <2>2 DEF Unmark, Committed, IInv, PhaseInv
  <2> QED BY <2>1, <2>2
<1>3. Running' = Running
  BY DEF Swap, RestoreReplace, Unmark, Running
<1> QED BY <1>2, <1>3, Stutters

LEMMA LauncherRefines ==
  ASSUME IInv, NEW l \in Launchers, LauncherStep(l) \/ UserStep(l)
  PROVE  AtomicStep
<1>1. CASE CleanStart(l)
  BY <1>1, StartRefines
<1>2. CASE LauncherExit(l)
  BY <1>2, EndRefines DEF LauncherExit
<1>3. CASE TakeSingleton(l) /\ launcherLock # None
  BY <1>3, EndRefines DEF TakeSingleton
<1>4. CASE TakeUpdateLock(l) /\ updateLock # None
  BY <1>4, EndRefines DEF TakeUpdateLock
<1>5. CASE \/ TakeSingleton(l) /\ launcherLock = None
           \/ TakeUpdateLock(l) /\ updateLock = None
           \/ FindJournal(l) \/ StartRecovery(l) \/ UserStart(l) \/ Prepare(l)
           \/ ClickInstall(l) \/ HandOff(l) \/ Inject(l)
  <2>1. Committed' = Committed
    BY <1>5 DEF Committed, TakeSingleton, TakeUpdateLock, FindJournal, StartRecovery,
                UserStart, Prepare, ClickInstall, HandOff, Inject
  <2>2. Running' = Running
    <3>1. CASE TakeSingleton(l) /\ launcherLock = None
      BY <3>1, RunningKept DEF TakeSingleton, IInv, TypeOK
    <3>2. CASE TakeUpdateLock(l) /\ updateLock = None
      BY <3>2, RunningKept DEF TakeUpdateLock, IInv, TypeOK
    <3>3. CASE FindJournal(l) \/ StartRecovery(l)
      BY <3>3, RunningKept DEF FindJournal, StartRecovery, IInv, TypeOK
    <3>4. CASE UserStart(l)
      BY <3>4, RunningKept DEF UserStart, StartProcess, IInv, TypeOK
    <3>5. CASE Prepare(l) \/ Inject(l)
      BY <3>5, RunningKept DEF Prepare, Inject
    <3>6. CASE ClickInstall(l) \/ HandOff(l)
      BY <3>6, RunningKept DEF ClickInstall, HandOff, IInv, TypeOK
    <3> QED BY <1>5, <3>1, <3>2, <3>3, <3>4, <3>5, <3>6
  <2> QED BY <2>1, <2>2, Stutters
<1> QED
  BY <1>1, <1>2, <1>3, <1>4, <1>5 DEF LauncherStep, UserStep

LEMMA HelperRefines ==
  ASSUME IInv, NEW h \in Helpers, HelperStep(h) \/ HelperDismissed(h)
  PROVE  AtomicStep
<1>1. CASE Commit(h)
  BY <1>1, CommitRefines
<1>2. CASE Publish(h)
  BY <1>2, PublishRefines
<1>3. CASE Swap(h) \/ RestoreReplace(h) \/ Unmark(h)
  BY <1>3, RestoreRefines
<1>4. CASE Relaunch(h)
  <2>1. PICK l \in Launchers : StartProcess(l)
    BY <1>4 DEF Relaunch
  <2>2. Running' = Running
    BY <2>1, RunningKept DEF StartProcess, IInv, TypeOK
  <2>3. Committed' = Committed
    BY <1>4 DEF Relaunch, Committed
  <2> QED BY <2>2, <2>3, Stutters
<1>5. CASE \/ HelperLock(h) \/ ParentGone(h) \/ HelperTakesLauncherLock(h)
           \/ GameClosed(h) \/ HelperRefused(h) \/ Begin(h) \/ BackUp(h)
           \/ VerifyDirectory(h) \/ LoadBackups(h) \/ RestoreSkip(h) \/ RestoreWrite(h)
           \/ ReplaceDenied(h) \/ DropLauncherLock(h) \/ DropUpdateLock(h) \/ NoRelaunch(h)
           \/ HelperDismissed(h)
  <2>1. UNCHANGED <<installed, journal, launchers>>
    BY <1>5 DEF HelperLock, ParentGone, HelperTakesLauncherLock, GameClosed, HelperRefused,
                Begin, BackUp, VerifyDirectory, LoadBackups, RestoreSkip, RestoreWrite,
                ReplaceDenied, DropLauncherLock, DropUpdateLock, NoRelaunch,
                HelperDismissed
  <2> QED BY <2>1, Stutters DEF Committed, Running
<1> QED
  BY <1>1, <1>2, <1>3, <1>4, <1>5 DEF HelperStep

LEMMA EnvironmentRefines ==
  ASSUME IInv, Environment
  PROVE  AtomicStep
<1>1. ASSUME NEW l \in Launchers, LauncherCrash(l)
      PROVE  AtomicStep
  BY <1>1, EndRefines DEF LauncherCrash
<1>2. ASSUME NEW l \in Launchers, SpawnFails(l)
      PROVE  AtomicStep
  <2>1. CASE lpc[l] = "handoff"
    <3>1. Running' = Running
      BY <1>2, <2>1, RunningKept DEF SpawnFails, IInv, TypeOK
    <3>2. Committed' = Committed
      BY <1>2 DEF SpawnFails, Committed
    <3> QED BY <3>1, <3>2, Stutters
  <2>2. CASE lpc[l] # "handoff"
    BY <1>2, <2>2, EndRefines DEF SpawnFails
  <2> QED BY <2>1, <2>2
<1>3. ASSUME \/ \E h \in Helpers : HelperCrash(h) \/ HelperIOError(h) \/ ParentTimeout(h)
             \/ GameStart \/ GameExit
             \/ \E s \in Stages, f \in Files : Damage(s, f)
      PROVE  AtomicStep
  <2>1. UNCHANGED <<installed, journal, launchers>>
    BY <1>3 DEF HelperCrash, HelperIOError, ParentTimeout, GameStart, GameExit, Damage
  <2> QED BY <2>1, Stutters DEF Committed, Running
<1> QED
  BY <1>1, <1>2, <1>3 DEF Environment

\* Seen from outside the pair is one version that changes atomically at the
\* removal of the journal, and every running launcher runs that version.
THEOREM UpdateRefinesAtomic == Spec => UpdateIsAtomic
<1>1. Init => Atomic!Init
  <2> SUFFICES ASSUME Init
               PROVE  Atomic!Init
    OBVIOUS
  <2>1. PICK v \in Versions : installed = [f \in Files |-> v]
    BY DEF Init
  <2>2. Committed = v
    BY <2>1 DEF Init, Committed
  <2>3. Running = [l \in Launchers |-> None]
    BY DEF Init, Running
  <2> QED BY <2>2, <2>3 DEF Atomic!Init, Running
<1>2. IInv /\ [Next]_vars => [Atomic!Next]_(Atomic!vars)
  <2> SUFFICES ASSUME IInv, [Next]_vars
               PROVE  AtomicStep
    BY DEF AtomicStep
  <2>1. CASE Next
    BY <2>1, LauncherRefines, HelperRefines, EnvironmentRefines DEF Next
  <2>2. CASE UNCHANGED vars
    BY <2>2, Stutters DEF vars, Committed, Running
  <2> QED BY <2>1, <2>2
<1> QED
  BY <1>1, <1>2, UpdateInvariant, PTL DEF Spec, UpdateIsAtomic, Atomic!Spec
=============================================================================
