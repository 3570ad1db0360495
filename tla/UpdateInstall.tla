---------------------------- MODULE UpdateInstall ----------------------------
(***************************************************************************)
(* The self-update transaction of src/launcher/updater/install.rs together *)
(* with the launcher startup that guards it (ui::run, before_start).       *)
(*                                                                         *)
(* Launchers are processes of the installed t7patch.exe; helpers are       *)
(* processes of a copy of it inside a staging directory.  Every file       *)
(* operation, lock operation and process start is a step of its own, so a  *)
(* crash, an I/O error, the game or the user can come between any two.     *)
(*                                                                         *)
(* File contents are abstracted to the version they belong to, to None     *)
(* (no such file) or to Bad (bytes that fail the recorded hash).           *)
(***************************************************************************)
EXTENDS Naturals, FiniteSets

CONSTANTS Launchers,    \* slots for t7patch.exe processes
          Helpers,      \* slots for update-helper processes
          Stages,       \* slots for .t7patch-update-* directories
          Versions,     \* release versions, ordered as numbers
          None, Bad,    \* no value; contents that fail verification
          MaxFaults,    \* bound: crashes and I/O errors in a behaviour
          MaxDamage,    \* bound: staged or backup files damaged on disk
          PatientUser   \* TRUE: the user opens t7patch only when none is at work

Files    == {"exe", "dll"}
Content  == Versions \cup {None, Bad}
NoFiles  == [f \in Files |-> None]
Journals == [stage : Stages, originals : [Files -> Versions]]

ASSUME ConstantsAssumption ==
    /\ Versions \subseteq Nat
    /\ None \notin Versions /\ Bad \notin Versions /\ None # Bad
    /\ None \notin Launchers \cup Helpers \cup Stages \cup Journals
    /\ Launchers \cap Helpers = {}
    /\ MaxFaults \in Nat /\ MaxDamage \in Nat /\ PatientUser \in BOOLEAN

VARIABLES
    (* Files of the installation directory and of the staging directories. *)
    installed,    \* t7patch.exe and t7patch.dll
    journal,      \* .t7patch-update.json, or None
    manifest,     \* per stage: the version its manifest names; None: no stage
    fresh,        \* per stage: new/
    backup,       \* per stage: backup/
    temp,         \* per stage: restore-* files left behind
    (* Launcher processes. *)
    lpc,          \* where each launcher is
    image,        \* version of the EXE image the process runs
    lstage,       \* its Ready update, or the stage it recovers
    (* Helper processes. *)
    hpc, hmode, hstage, hfile,
    parent,       \* the launcher instance it waits for; None: that one exited
    saved,        \* originals (transaction) or verified backup bytes (recover)
    failed,       \* its result: did transaction() or recover() return an error?
    (* Named mutexes: the process that holds the handle, or None. *)
    updateLock, launcherLock,
    (* The game: is it running, and which DLL version it has loaded. *)
    game, loaded,
    (* Environment budgets. *)
    faults, damaged

disk      == <<installed, journal, manifest, fresh, backup, temp>>
launchers == <<lpc, image, lstage>>
helpers   == <<hpc, hmode, hstage, hfile, parent, saved, failed>>
locks     == <<updateLock, launcherLock>>
gameVars  == <<game, loaded>>
budget    == <<faults, damaged>>
vars == <<disk, launchers, helpers, locks, gameVars, budget>>

Fault == faults < MaxFaults /\ faults' = faults + 1 /\ UNCHANGED damaged

\* Launcher states in which the window exists and the worker may be attached.
RunningStates == {"running", "handoff", "restarting"}
LauncherPC == {"off", "started", "singleton", "check", "recovering",
               "exiting", "dialog"} \cup RunningStates
HelperPC == {"off", "start", "wait", "lock", "game", "begin", "backup",
             "publish", "swap", "verify", "commit", "load", "restore",
             "replace", "unmark", "unlock", "release", "relaunch", "dialog"}

Init ==
    /\ \E v \in Versions : installed = [f \in Files |-> v]
    /\ journal = None
    /\ manifest = [s \in Stages |-> None]
    /\ fresh = [s \in Stages |-> NoFiles]
    /\ backup = [s \in Stages |-> NoFiles]
    /\ temp = [s \in Stages |-> {}]
    /\ lpc = [l \in Launchers |-> "off"]
    /\ image = [l \in Launchers |-> None]
    /\ lstage = [l \in Launchers |-> None]
    /\ hpc = [h \in Helpers |-> "off"]
    /\ hmode = [h \in Helpers |-> "apply"]
    /\ hstage = [h \in Helpers |-> None]
    /\ hfile = [h \in Helpers |-> "exe"]
    /\ parent = [h \in Helpers |-> None]
    /\ saved = [h \in Helpers |-> NoFiles]
    /\ failed = [h \in Helpers |-> FALSE]
    /\ updateLock = None /\ launcherLock = None
    /\ game = FALSE /\ loaded = None
    /\ faults = 0 /\ damaged = {}

-----------------------------------------------------------------------------
(* Launcher startup: ui::run and before_start.                             *)

\* A process leaves: its mutex handles close, and a helper that waits for
\* this very process (PID and creation time) sees it gone.
DropLocks(p) == /\ updateLock' = IF updateLock = p THEN None ELSE updateLock
                /\ launcherLock' = IF launcherLock = p THEN None ELSE launcherLock

LauncherGo(l, to) == lpc' = [lpc EXCEPT ![l] = to]

EndLauncher(l, to) ==
    /\ LauncherGo(l, to)
    /\ image' = IF to = "off" THEN [image EXCEPT ![l] = None] ELSE image
    /\ lstage' = [lstage EXCEPT ![l] = None]
    /\ DropLocks(l)
    /\ parent' = IF to = "off"
                 THEN [h \in Helpers |-> IF parent[h] = l THEN None ELSE parent[h]]
                 ELSE parent
    /\ UNCHANGED <<hpc, hmode, hstage, hfile, saved, failed>>

\* A helper that shows its error has nothing left to do but to be dismissed.
Working(h) == hpc[h] \notin {"off", "dialog"}

NothingWorks == /\ \A l \in Launchers : lpc[l] = "off"
                /\ \A h \in Helpers : ~Working(h)

\* A t7patch.exe process starts from whatever EXE is installed right now.
StartProcess(l) == /\ lpc[l] = "off"
                   /\ installed["exe"] \in Versions
                   /\ LauncherGo(l, "started")
                   /\ image' = [image EXCEPT ![l] = installed["exe"]]
                   /\ UNCHANGED lstage

UserStart(l) == /\ PatientUser => NothingWorks
                /\ StartProcess(l)
                /\ UNCHANGED <<disk, helpers, locks, gameVars, budget>>

\* Mutant: the singleton mutex is opened, but whether it existed is ignored.
TakeSingletonUnchecked(l) ==
    /\ lpc[l] = "started"
    /\ LauncherGo(l, "singleton")
    /\ launcherLock' = l
    /\ UNCHANGED <<image, lstage, updateLock, helpers, disk, gameVars, budget>>

\* The singleton mutex; a second launcher raises the first window and leaves.
TakeSingleton(l) ==
    /\ lpc[l] = "started"
    /\ IF launcherLock = None
       THEN /\ LauncherGo(l, "singleton")
            /\ launcherLock' = l
            /\ UNCHANGED <<image, lstage, updateLock, helpers>>
       ELSE EndLauncher(l, "off")
    /\ UNCHANGED <<disk, gameVars, budget>>

\* before_start takes the update mutex or gives up with an error dialog,
\* which keeps the process, and so its EXE image, alive.
TakeUpdateLock(l) ==
    /\ lpc[l] = "singleton"
    /\ IF updateLock = None
       THEN /\ LauncherGo(l, "check")
            /\ updateLock' = l
            /\ UNCHANGED <<image, lstage, launcherLock, helpers>>
       ELSE EndLauncher(l, "dialog")
    /\ UNCHANGED <<disk, gameVars, budget>>

StageExists(s) == s # None /\ manifest[s] # None
Mapped(s) == \E h \in Helpers : hpc[h] # "off" /\ hstage[h] = s

\* A pending journal: release the update mutex and go on to the helper.
FindJournal(l) ==
    /\ lpc[l] = "check"
    /\ journal # None
    /\ StageExists(journal.stage)
    /\ LauncherGo(l, "recovering")
    /\ lstage' = [lstage EXCEPT ![l] = journal.stage]
    /\ updateLock' = None
    /\ UNCHANGED <<image, launcherLock, disk, helpers, gameVars, budget>>

\* No journal: best-effort cleanup of the stages, then start normally.  A
\* stage whose helper is still mapped stays; any other removal may fail.
CleanStart(l) ==
    /\ lpc[l] = "check"
    /\ journal = None
    /\ \E gone \in SUBSET {s \in Stages : StageExists(s) /\ ~Mapped(s)} :
          /\ manifest' = [s \in Stages |-> IF s \in gone THEN None ELSE manifest[s]]
          /\ fresh' = [s \in Stages |-> IF s \in gone THEN NoFiles ELSE fresh[s]]
          /\ backup' = [s \in Stages |-> IF s \in gone THEN NoFiles ELSE backup[s]]
          /\ temp' = [s \in Stages |-> IF s \in gone THEN {} ELSE temp[s]]
          /\ damaged' = {d \in damaged : d[1] \notin gone}
    /\ LauncherGo(l, "running")
    /\ updateLock' = None
    /\ UNCHANGED <<image, lstage, launcherLock, installed, journal,
                   helpers, gameVars, faults>>

\* start_helper: copy the EXE into the stage and start it.
SpawnHelper(l, mode) ==
    /\ StageExists(lstage[l])
    /\ \E h \in Helpers :
          /\ hpc[h] = "off"
          /\ hpc' = [hpc EXCEPT ![h] = "start"]
          /\ hmode' = [hmode EXCEPT ![h] = mode]
          /\ hstage' = [hstage EXCEPT ![h] = lstage[l]]
          /\ hfile' = [hfile EXCEPT ![h] = "exe"]
          /\ parent' = [parent EXCEPT ![h] = l]
          /\ UNCHANGED <<saved, failed>>

StartRecovery(l) ==
    /\ lpc[l] = "recovering"
    /\ SpawnHelper(l, "recover")
    /\ LauncherGo(l, "exiting")
    /\ UNCHANGED <<image, lstage, disk, locks, gameVars, budget>>

-----------------------------------------------------------------------------
(* A running launcher: the updater worker, the hand-off and the injector.  *)

\* Download, verification and extraction end with a complete stage for a
\* release newer than the running launcher.
Prepare(l) ==
    /\ lpc[l] = "running" /\ lstage[l] = None
    /\ \E s \in Stages, v \in Versions :
          /\ ~StageExists(s) /\ v > image[l]
          /\ manifest' = [manifest EXCEPT ![s] = v]
          /\ fresh' = [fresh EXCEPT ![s] = [f \in Files |-> v]]
          /\ lstage' = [lstage EXCEPT ![l] = s]
    /\ UNCHANGED <<lpc, image, installed, journal, backup, temp,
                   helpers, locks, gameVars, budget>>

\* "Install & restart": only with the game closed at that moment.
ClickInstall(l) ==
    /\ lpc[l] = "running" /\ lstage[l] # None /\ ~game
    /\ LauncherGo(l, "handoff")
    /\ UNCHANGED <<image, lstage, disk, helpers, locks, gameVars, budget>>

HandOff(l) ==
    /\ lpc[l] = "handoff"
    /\ SpawnHelper(l, "apply")
    /\ LauncherGo(l, "restarting")
    /\ UNCHANGED <<image, lstage, disk, locks, gameVars, budget>>

\* start_helper fails, or before_start cannot look for the journal: an apply
\* goes back to Ready, a starting launcher gives up with its error dialog.
SpawnFails(l) ==
    /\ lpc[l] \in {"handoff", "recovering", "check"}
    /\ Fault
    /\ IF lpc[l] = "handoff"
       THEN LauncherGo(l, "running") /\ UNCHANGED <<image, lstage, locks, helpers>>
       ELSE EndLauncher(l, "dialog")
    /\ UNCHANGED <<disk, gameVars>>

\* The detection worker loads the installed DLL into the game.  A window that
\* is handing off may still do so: see LauncherHandoff.
Inject(l) ==
    /\ lpc[l] \in RunningStates
    /\ game /\ loaded = None
    /\ loaded' = installed["dll"]
    /\ UNCHANGED <<disk, launchers, helpers, locks, game, budget>>

\* WM_CLOSE, the end of main, or the error dialog dismissed.
LauncherExit(l) ==
    /\ lpc[l] \in RunningStates \cup {"exiting", "dialog"}
    /\ EndLauncher(l, "off")
    /\ UNCHANGED <<disk, gameVars, budget>>

LauncherCrash(l) ==
    /\ lpc[l] # "off"
    /\ Fault
    /\ EndLauncher(l, "off")
    /\ UNCHANGED <<disk, gameVars>>

-----------------------------------------------------------------------------
(* The helper process: identity, locks, parent, game.                      *)

HelperGo(h, to) == hpc' = [hpc EXCEPT ![h] = to]

\* helper() returns, its handles close.  After an error main shows a message
\* box: the process, and so its image in the stage, stays until it is dismissed.
EndHelper(h, to) ==
    /\ HelperGo(h, to)
    /\ DropLocks(h)
    /\ hstage' = IF to = "off" THEN [hstage EXCEPT ![h] = None] ELSE hstage
    /\ parent' = [parent EXCEPT ![h] = None]
    /\ hmode' = [hmode EXCEPT ![h] = "apply"]
    /\ hfile' = [hfile EXCEPT ![h] = "exe"]
    /\ saved' = [saved EXCEPT ![h] = NoFiles]
    /\ failed' = [failed EXCEPT ![h] = FALSE]

\* A step of the helper that only moves its program counter.
HelperMoves(h, from, to) ==
    /\ hpc[h] = from
    /\ HelperGo(h, to)
    /\ UNCHANGED <<hmode, hstage, hfile, parent, saved, failed>>

HelperLock(h) ==
    /\ HelperMoves(h, "start", "wait")
    /\ StageExists(hstage[h]) /\ updateLock = None
    /\ updateLock' = h
    /\ UNCHANGED <<launcherLock, disk, launchers, gameVars, budget>>

ParentGone(h) ==
    /\ HelperMoves(h, "wait", "lock")
    /\ parent[h] = None
    /\ UNCHANGED <<locks, disk, launchers, gameVars, budget>>

HelperTakesLauncherLock(h) ==
    /\ HelperMoves(h, "lock", "game")
    /\ launcherLock = None
    /\ launcherLock' = h
    /\ UNCHANGED <<updateLock, disk, launchers, gameVars, budget>>

\* Mutant: the helper does not look for the game.
GameIgnored(h) ==
    /\ HelperMoves(h, "game", IF hmode[h] = "recover" THEN "load" ELSE "begin")
    /\ UNCHANGED <<locks, disk, launchers, gameVars, budget>>

GameClosed(h) ==
    /\ ~game
    /\ HelperMoves(h, "game", IF hmode[h] = "recover" THEN "load" ELSE "begin")
    /\ UNCHANGED <<locks, disk, launchers, gameVars, budget>>

\* Mutant: the helper waits until the game is closed instead of giving up.
HelperAwaitsGame(h) ==
    /\ \/ hpc[h] = "start" /\ (updateLock # None \/ ~StageExists(hstage[h]))
       \/ hpc[h] = "lock" /\ launcherLock # None
    /\ EndHelper(h, "dialog")
    /\ UNCHANGED <<disk, launchers, gameVars, budget>>

\* The early returns of helper(): the stage is gone or a mutex exists (it
\* never waits for one), or the game runs.
HelperRefused(h) ==
    /\ \/ hpc[h] = "start" /\ (updateLock # None \/ ~StageExists(hstage[h]))
       \/ hpc[h] = "lock" /\ launcherLock # None
       \/ hpc[h] = "game" /\ game
    /\ EndHelper(h, "dialog")
    /\ UNCHANGED <<disk, launchers, gameVars, budget>>

\* The parent is still alive after 30 s: a fault of the launcher.
ParentTimeout(h) ==
    /\ hpc[h] = "wait" /\ parent[h] # None
    /\ Fault
    /\ EndHelper(h, "dialog")
    /\ UNCHANGED <<disk, launchers, gameVars>>

\* The user dismisses the error dialog.
HelperDismissed(h) ==
    /\ hpc[h] = "dialog"
    /\ EndHelper(h, "off")
    /\ UNCHANGED <<disk, launchers, gameVars, budget>>

-----------------------------------------------------------------------------
(* transaction(): verify new/, back up, publish the journal, replace both  *)
(* files, verify the directory, remove the journal.                        *)

Locked(h, from) == hpc[h] = from /\ UNCHANGED <<locks, launchers, gameVars, budget>>

InUse(f) == IF f = "exe" THEN \E l \in Launchers : lpc[l] # "off"
                         ELSE loaded # None

\* The per-file loops visit the EXE, then the DLL, then go on.
NextFile(h, again, after) ==
    /\ hfile' = [hfile EXCEPT ![h] = IF @ = "exe" THEN "dll" ELSE "exe"]
    /\ HelperGo(h, IF hfile[h] = "exe" THEN again ELSE after)

\* After the journal is published an error leads to recover(); before, and
\* inside recover(), it ends the attempt and leaves the disk as it is.  The
\* result is an error either way, also when recover() then succeeds.
AfterError(from) == IF from \in {"swap", "verify", "commit"} THEN "load" ELSE "unlock"

HelperFails(h, from) ==
    /\ hpc[h] = from
    /\ HelperGo(h, AfterError(from))
    /\ failed' = [failed EXCEPT ![h] = TRUE]
    /\ UNCHANGED <<hmode, hstage, hfile, parent, saved>>

Verified(content, v) == \A f \in Files : content[f] = v

\* An earlier journal or a stage that fails verification ends the attempt.
Begin(h) ==
    /\ Locked(h, "begin")
    /\ IF journal = None /\ Verified(fresh[hstage[h]], manifest[hstage[h]])
       THEN HelperMoves(h, "begin", "backup") ELSE HelperFails(h, "begin")
    /\ UNCHANGED disk

\* create_new: a backup that already exists is never overwritten.
BackUp(h) ==
    LET s == hstage[h]  f == hfile[h] IN
    /\ Locked(h, "backup")
    /\ backup[s][f] = None
    /\ backup' = [backup EXCEPT ![s][f] = installed[f]]
    /\ saved' = [saved EXCEPT ![h][f] = installed[f]]
    /\ NextFile(h, "backup", "publish")
    /\ UNCHANGED <<installed, journal, manifest, fresh, temp, hmode, hstage, parent, failed>>

\* One rename on the same volume, without REPLACE_EXISTING.
Publish(h) ==
    /\ Locked(h, "publish")
    /\ journal = None
    /\ journal' = [stage |-> hstage[h], originals |-> saved[h]]
    /\ HelperMoves(h, "publish", "swap")
    /\ UNCHANGED <<installed, manifest, fresh, backup, temp>>

Swap(h) ==
    LET s == hstage[h]  f == hfile[h] IN
    /\ Locked(h, "swap")
    /\ ~InUse(f)
    /\ installed' = [installed EXCEPT ![f] = fresh[s][f]]
    /\ fresh' = [fresh EXCEPT ![s][f] = None]
    /\ NextFile(h, "swap", "verify")
    /\ UNCHANGED <<journal, manifest, backup, temp, hmode, hstage, parent, saved, failed>>

VerifyDirectory(h) ==
    /\ Locked(h, "verify")
    /\ IF Verified(installed, manifest[hstage[h]])
       THEN HelperMoves(h, "verify", "commit") ELSE HelperFails(h, "verify")
    /\ UNCHANGED disk

Commit(h) ==
    /\ Locked(h, "commit")
    /\ journal # None
    /\ journal' = None
    /\ HelperMoves(h, "commit", "unlock")
    /\ UNCHANGED <<installed, manifest, fresh, backup, temp>>

-----------------------------------------------------------------------------
(* recover(): read and verify every backup, put back what differs, remove  *)
(* the journal.                                                            *)

\* Mutant: only the first backup is verified before the restore begins.
LoadFirstBackup(h) ==
    /\ Locked(h, "load")
    /\ journal # None /\ backup[journal.stage]["exe"] = journal.originals["exe"]
    /\ saved' = [saved EXCEPT ![h] = backup[journal.stage]]
    /\ hfile' = [hfile EXCEPT ![h] = "exe"]
    /\ HelperGo(h, "restore")
    /\ UNCHANGED <<disk, hmode, hstage, parent, failed>>

LoadBackups(h) ==
    /\ Locked(h, "load")
    /\ IF /\ journal # None
          /\ StageExists(journal.stage)
          /\ \A f \in Files : backup[journal.stage][f] = journal.originals[f]
       THEN /\ saved' = [saved EXCEPT ![h] = backup[journal.stage]]
            /\ hfile' = [hfile EXCEPT ![h] = "exe"]
            /\ HelperGo(h, "restore")
            /\ UNCHANGED <<hmode, hstage, parent, failed>>
       ELSE HelperFails(h, "load")
    /\ UNCHANGED disk

\* Mutant: the first file that matches ends the loop.
RestoreStopsAtMatch(h) ==
    /\ Locked(h, "restore")
    /\ installed[hfile[h]] = saved[h][hfile[h]]
    /\ NextFile(h, "unmark", "unmark")
    /\ UNCHANGED <<disk, hmode, hstage, parent, saved, failed>>

RestoreSkip(h) ==
    /\ Locked(h, "restore")
    /\ installed[hfile[h]] = saved[h][hfile[h]]
    /\ NextFile(h, "restore", "unmark")
    /\ UNCHANGED <<disk, hmode, hstage, parent, saved, failed>>

\* Mutant: a restore file left by an interrupted attempt is not removed.
RestoreWriteKeepsOld(h) ==
    LET s == journal.stage  f == hfile[h] IN
    /\ Locked(h, "restore")
    /\ installed[f] # saved[h][f]
    /\ f \notin temp[s]
    /\ temp' = [temp EXCEPT ![s] = @ \cup {f}]
    /\ HelperMoves(h, "restore", "replace")
    /\ UNCHANGED <<installed, journal, manifest, fresh, backup>>

\* A restore file left by an interrupted attempt is removed first, because
\* write_new would refuse it.
RestoreWrite(h) ==
    LET s == journal.stage  f == hfile[h] IN
    /\ Locked(h, "restore")
    /\ installed[f] # saved[h][f]
    /\ LET cleared == temp[s] \ {f} IN
          /\ f \notin cleared
          /\ temp' = [temp EXCEPT ![s] = cleared \cup {f}]
    /\ HelperMoves(h, "restore", "replace")
    /\ UNCHANGED <<installed, journal, manifest, fresh, backup>>

\* Mutant: the backup itself, not a copy, is renamed over the target.
RestoreMovesBackup(h) ==
    LET s == journal.stage  f == hfile[h] IN
    /\ Locked(h, "replace")
    /\ ~InUse(f)
    /\ installed' = [installed EXCEPT ![f] = saved[h][f]]
    /\ backup' = [backup EXCEPT ![s][f] = None]
    /\ NextFile(h, "restore", "unmark")
    /\ UNCHANGED <<journal, manifest, fresh, temp, hmode, hstage, parent, saved, failed>>

RestoreReplace(h) ==
    LET s == journal.stage  f == hfile[h] IN
    /\ Locked(h, "replace")
    /\ ~InUse(f)
    /\ installed' = [installed EXCEPT ![f] = saved[h][f]]
    /\ temp' = [temp EXCEPT ![s] = @ \ {f}]
    /\ NextFile(h, "restore", "unmark")
    /\ UNCHANGED <<journal, manifest, fresh, backup, hmode, hstage, parent, saved, failed>>

Unmark(h) ==
    /\ Locked(h, "unmark")
    /\ journal' = None
    /\ HelperMoves(h, "unmark", "unlock")
    /\ UNCHANGED <<installed, manifest, fresh, backup, temp>>

-----------------------------------------------------------------------------
(* Errors, the end of the helper, crashes.                                 *)

FileSteps == {"begin", "backup", "publish", "swap", "verify", "commit",
              "load", "restore", "replace", "unmark"}

\* A failed or interrupted write leaves a partial backup file behind.
MaybePartialBackup(h) ==
    backup' \in {backup} \cup
        (IF hpc[h] = "backup" /\ backup[hstage[h]][hfile[h]] = None
         THEN {[backup EXCEPT ![hstage[h]][hfile[h]] = Bad]} ELSE {})

HelperIOError(h) ==
    /\ hpc[h] \in FileSteps
    /\ Fault
    /\ HelperFails(h, hpc[h])
    /\ MaybePartialBackup(h)
    /\ UNCHANGED <<installed, journal, manifest, fresh, temp, locks, launchers, gameVars>>

\* Windows refuses to replace a mapped image.
ReplaceDenied(h) ==
    /\ hpc[h] \in {"swap", "replace"}
    /\ InUse(hfile[h])
    /\ HelperFails(h, hpc[h])
    /\ UNCHANGED <<disk, locks, launchers, gameVars, budget>>

DropLauncherLock(h) ==
    /\ HelperMoves(h, "unlock", "release")
    /\ launcherLock' = None
    /\ UNCHANGED <<updateLock, disk, launchers, gameVars, budget>>

DropUpdateLock(h) ==
    /\ HelperMoves(h, "release", "relaunch")
    /\ updateLock' = None
    /\ UNCHANGED <<launcherLock, disk, launchers, gameVars, budget>>

\* Without a journal, with either outcome, the installed launcher starts.
Relaunch(h) ==
    /\ hpc[h] = "relaunch" /\ journal = None
    /\ \E l \in Launchers : StartProcess(l)
    /\ EndHelper(h, IF failed[h] THEN "dialog" ELSE "off")
    /\ UNCHANGED <<disk, gameVars, budget>>

\* With a pending journal nothing starts; a failed start is only reported.
\* (With every launcher slot taken, the bound, the start counts as failed.)
NoRelaunch(h) ==
    /\ hpc[h] = "relaunch"
    /\ IF journal = None /\ \E l \in Launchers : lpc[l] = "off"
       THEN Fault ELSE UNCHANGED budget
    /\ EndHelper(h, "dialog")
    /\ UNCHANGED <<disk, launchers, gameVars>>

HelperCrash(h) ==
    /\ hpc[h] # "off"
    /\ Fault
    /\ EndHelper(h, "off")
    /\ MaybePartialBackup(h)
    /\ UNCHANGED <<installed, journal, manifest, fresh, temp, launchers, gameVars>>

-----------------------------------------------------------------------------
(* The game and the disk.                                                  *)

GameStart == /\ ~game /\ game' = TRUE
             /\ UNCHANGED <<loaded, disk, launchers, helpers, locks, budget>>

GameExit == /\ game /\ game' = FALSE /\ loaded' = None
            /\ UNCHANGED <<disk, launchers, helpers, locks, budget>>

\* A staged file or a backup stops matching its recorded hash.
Damage(s, f) ==
    /\ Cardinality(damaged) < MaxDamage
    /\ \/ /\ fresh[s][f] \in Versions
          /\ fresh' = [fresh EXCEPT ![s][f] = Bad]
          /\ damaged' = damaged \cup {<<s, f, "new">>}
          /\ UNCHANGED backup
       \/ /\ backup[s][f] \in Versions
          /\ backup' = [backup EXCEPT ![s][f] = Bad]
          /\ damaged' = damaged \cup {<<s, f, "backup">>}
          /\ UNCHANGED fresh
    /\ UNCHANGED <<installed, journal, manifest, temp, launchers, helpers,
                   locks, gameVars, faults>>

-----------------------------------------------------------------------------

LauncherStep(l) == TakeSingleton(l) \/ TakeUpdateLock(l) \/ FindJournal(l)
                   \/ CleanStart(l) \/ StartRecovery(l)

UserStep(l) == UserStart(l) \/ Prepare(l) \/ ClickInstall(l) \/ HandOff(l)
               \/ LauncherExit(l) \/ Inject(l)

HelperStep(h) ==
    \/ HelperLock(h) \/ ParentGone(h) \/ HelperTakesLauncherLock(h)
    \/ GameClosed(h) \/ HelperRefused(h)
    \/ Begin(h) \/ BackUp(h) \/ Publish(h) \/ Swap(h) \/ VerifyDirectory(h)
    \/ Commit(h) \/ LoadBackups(h) \/ RestoreSkip(h) \/ RestoreWrite(h)
    \/ RestoreReplace(h) \/ Unmark(h) \/ ReplaceDenied(h)
    \/ DropLauncherLock(h) \/ DropUpdateLock(h) \/ Relaunch(h) \/ NoRelaunch(h)

Environment == \/ \E l \in Launchers : LauncherCrash(l) \/ SpawnFails(l)
               \/ \E h \in Helpers : HelperCrash(h) \/ HelperIOError(h)
                                         \/ ParentTimeout(h)
               \/ GameStart \/ GameExit
               \/ \E s \in Stages, f \in Files : Damage(s, f)

Next == \/ \E l \in Launchers : LauncherStep(l) \/ UserStep(l)
        \/ \E h \in Helpers : HelperStep(h) \/ HelperDismissed(h)
        \/ Environment

Spec == Init /\ [][Next]_vars

\* What the processes and the user owe: a process that can go on does, a
\* launcher that has nothing left to do ends, the user dismisses the dialogs
\* and opens t7patch again when nothing is at work.
ProcessFairness ==
    /\ \A l \in Launchers :
          /\ WF_vars(LauncherStep(l))
          /\ WF_vars(lpc[l] \in {"restarting", "exiting", "dialog"} /\ LauncherExit(l))
    /\ \A h \in Helpers : WF_vars(HelperStep(h)) /\ WF_vars(HelperDismissed(h))

FairSpec == Spec /\ ProcessFairness /\ WF_vars(\E l \in Launchers : UserStart(l))

-----------------------------------------------------------------------------
(* Properties.                                                             *)

\* Every variable keeps its type (install.rs, all of the state above).
TypeOK ==
    /\ installed \in [Files -> Content]
    /\ journal \in Journals \cup {None}
    /\ manifest \in [Stages -> Versions \cup {None}]
    /\ fresh \in [Stages -> [Files -> Content]]
    /\ backup \in [Stages -> [Files -> Content]]
    /\ temp \in [Stages -> SUBSET Files]
    /\ lpc \in [Launchers -> LauncherPC]
    /\ image \in [Launchers -> Versions \cup {None}]
    /\ lstage \in [Launchers -> Stages \cup {None}]
    /\ hpc \in [Helpers -> HelperPC]
    /\ hmode \in [Helpers -> {"apply", "recover"}]
    /\ hstage \in [Helpers -> Stages \cup {None}]
    /\ hfile \in [Helpers -> Files]
    /\ parent \in [Helpers -> Launchers \cup {None}]
    /\ saved \in [Helpers -> [Files -> Content]]
    /\ failed \in [Helpers -> BOOLEAN]
    /\ updateLock \in Launchers \cup Helpers \cup {None}
    /\ launcherLock \in Launchers \cup Helpers \cup {None}
    /\ game \in BOOLEAN
    /\ loaded \in Versions \cup {None}
    /\ faults \in 0..MaxFaults
    /\ damaged \subseteq Stages \X Files \X {"new", "backup"}

\* Whatever crashes or fails, a directory without a recovery journal holds
\* two intact files of one version: "removal of the journal is the commit
\* point" (install.rs, transaction and recover).
PairSafety ==
    journal = None => /\ installed["exe"] \in Versions
                      /\ installed["dll"] = installed["exe"]

\* A launcher past its startup checks never coexists with a journal, and the
\* EXE it runs is the version of the DLL it would load into the game; the
\* helper cannot change either file under it (ui::run, before_start, helper).
RunningPair ==
    \A l \in Launchers : lpc[l] \in RunningStates =>
        /\ journal = None
        /\ image[l] = installed["exe"]
        /\ image[l] = installed["dll"]

\* While a journal exists the stage it names still holds, for both files, the
\* backups it records, and they are one version: neither the transaction,
\* a recovery nor a launcher's cleanup destroys what a rollback needs.
BackupsRetained ==
    journal # None =>
        /\ StageExists(journal.stage)
        /\ journal.originals["exe"] = journal.originals["dll"]
        /\ \A f \in Files : \/ backup[journal.stage][f] = journal.originals[f]
                            \/ <<journal.stage, f, "backup">> \in damaged

\* The installed files never change while the game has the patch loaded,
\* although the helper looks for the game only once, before it begins.
NoInstallWhileInjected == [][installed' # installed => loaded = None]_vars

\* No file is put back before every backup was read and verified: a restore
\* writes from a complete verified set, so a damaged backup never leads to a
\* partial restore (recover: "Validate every backup before restoring").
RestoreIsComplete ==
    [][\A h \in Helpers : hpc[h] = "replace" /\ installed' # installed
           => saved[h] = journal.originals]_vars

\* Seen from outside, the pair is one version that changes atomically, at the
\* removal of the journal, and a running launcher runs exactly that version.
Committed == IF journal = None THEN installed["exe"] ELSE journal.originals["exe"]

Atomic == INSTANCE AtomicUpdate WITH
    current <- Committed,
    running <- [l \in Launchers |-> IF lpc[l] \in RunningStates THEN image[l] ELSE None]

UpdateIsAtomic == Atomic!Spec

\* A helper's work never waits for anything that may not happen: it comes to
\* its end or to its error dialog, and both mutexes are free of it by then,
\* however long the user leaves that dialog open (helper: mutexes are tried,
\* not awaited; main: only the message box waits for the user).
HelpersEnd ==
    \A h \in Helpers :
        Working(h) ~> ~Working(h) /\ updateLock # h /\ launcherLock # h

\* If the game is eventually closed for good, nothing of the stage is damaged
\* (the staged program runs the recovery, the backups are what it restores) and
\* the user keeps opening t7patch, an interrupted update is eventually rolled
\* back or committed, whatever partial restore the previous attempts left.
RecoveryCompletes ==
    <>[](~game /\ damaged = {}) => (journal # None ~> journal = None)
=============================================================================
