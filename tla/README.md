# TLA+ verification of T7Patch

T7Patch is a Windows launcher (`t7patch.exe`) that loads a patch DLL
(`t7patch.dll`) into the game *Black Ops III*, follows what it reports, and
updates both files from GitHub releases. The Rust sources are in `src/src/`
(paths below are relative to it). This directory holds TLA+ models of the parts
whose correctness depends on the order of events, the TLC configurations that
check them on small instances, and TLAPS proofs of their safety properties for
every value of the constants.

- [1. The system](#1-the-system)
- [2. Modules and their code](#2-modules-and-their-code)
- [3. Runs: what is checked, and how far](#3-runs-what-is-checked-and-how-far)
- [4. Fairness](#4-fairness)
- [5. Proofs](#5-proofs)
- [6. Divergence between code and documentation](#6-divergence-between-code-and-documentation)
- [7. What is not modelled](#7-what-is-not-modelled)
- [8. Plan](#8-plan)
- [9. Running everything](#9-running-everything)

## 1. The system

### Components

| Component | State it keeps | Operations | Correct when |
|---|---|---|---|
| **Update transaction** `launcher/updater/install.rs` | Files: the installed pair, the journal `.t7patch-update.json`, staging directories (`update.json`, `new/`, `backup/`, `restore-*`). Two named mutexes. | `before_start`, `cleanup`, `start_helper`, `helper`, `transaction`, `recover`, `replace` | Whatever crashes, the installed pair is one version or can be restored; nobody runs or injects a mixed pair; nothing is replaced under a loaded DLL |
| **Updater worker** `launcher/updater/mod.rs`, `http.rs` | `Mutex<State>`, a stop flag per thread, the staging directory while it is written | `check`, `download`, `launch`, `Drop`, `http::get`, `StageGuard` | What is offered for installation is one verified build; the state shown is that of the last request; a request ends; no directory is forgotten |
| **Package** `launcher/updater/package.rs` | none (a manifest) | `newer_than`, `parse`, `validate`, `extract`, `verify_directory`, `verify_pe` | Only the two named files with the recorded hashes are accepted |
| **Launcher worker** `launcher/mod.rs` | `paused`, `quiescent`, `stop` (atomics), the session, the status text | thread loop, `pause`/`resume`/`quiescent`, `Drop` | Paused means that no session exists; a dropped worker ends |
| **Launcher window** `launcher/ui.rs` | settings and dirty flag, update view, timers | `save`, `update_action`, `refresh_update`, `WM_TIMER`, `WM_CLOSE`, `run` | No edit is lost at the hand-over to the helper; a failed hand-over resumes detection |
| **Loader session** `launcher/process.rs` | `Stage`, `RemoteCall`, `RemoteBuffer`, `active` | `attach`, `poll`, `alive`, drops | Memory in the game outlives the thread that uses it; one thread at a time; what is shown was true at the last poll |
| **Runtime** `runtime.rs`, `lib.rs`, `launcher_api.rs` | `STATE`, `LIFECYCLE`, `STOP`, `LAST_ERROR`, `T7PatchStatus`, two worker threads | `install_checked`, `uninstall`, `State::start`, `State::deactivate`, `T7PatchStart`, `Unload` | Install, rollback and removal are atomic for callers; no deadlock at the join; no handler is removed while code is modified |
| **Patches** `memory.rs`, `minhook.rs`, `arxan.rs`, `exceptions.rs` | saved bytes, hooks, integrity handlers, vectored handler | apply/restore, enable/remove, `maintain` | as parts of the runtime |
| **Network limiter** `network_guard.rs` | global and per-peer token buckets, event counters | `Gate::allow`, `Bucket::take`, `report` | Budgets hold over any interval; a live peer is not evicted |
| **Protection caches** `protection.rs` | friends cache; caches of owned content and of download progress | `is_friend` with its refresh, the detours of Steam's functions | Only friends of the last complete query are accepted; Steam is asked at its intervals, by one thread, without a lock that it could wait for |
| **Message checks** `packets.rs`, `structs.rs` | none that outlives a message | `reader_layout`, `inspect`, `check_pending_info` | No reader leaves its buffers; a message passes exactly when its lists and numbers are in order |
| **Game hooks** `hooks.rs` | none | the detours, `verify_checksum` | Every message of the network goes through the checks and the password |
| **Configuration** `config.rs`, `settings.rs` | previous/current password, name, the watched file | `Watcher::start`, `poll`, `Config::apply`, `set_password`, `set_name` | A rotation accepts both passwords for one period and no others; a change of the file arrives; the game, wherever the name could be written, and Steam show one name |
| **Profiling** `profiling.rs`, `diagnostics.rs` | lock-free `PendingCalls` slots, counters | `begin`, `Pending::drop`, `append`, reports | A slot has one owner; a line of the report is about one call; a call that hangs and has a slot is reported |
| **History view** `launcher/history.rs` | tail of the journal, a worker | `parse`, `read`, worker loop | Partial first and last lines are not shown |
| **Leaves** `game_build.rs`, `hashing.rs`, `structs.rs`, `bin/t7patch.rs`, scripts, CI | none | pure functions, entry points | covered by unit tests |

### How they interact

- The **window thread** and the **launcher worker** share three atomics. The
  window sets `paused`, polls `quiescent` from a timer, and only then starts
  the helper.
- The **helper** is another process. It and the launcher meet in two named
  mutexes (update lock, launcher singleton), in the launcher's exit, and in
  the files of the installation directory; the next launcher start finds the
  journal and starts recovery.
- The **launcher worker** calls into the **game** with remote threads
  (`LoadLibraryW`, `T7PatchStart`) that run on an argument buffer in the game,
  and reads the word `T7PatchStatus` from the game's memory.
- In the game, calls of `T7PatchStart`, `Unload` and the gamemode loader race
  each other and the DLL's own configuration worker under `LIFECYCLE` and
  `STATE`; `uninstall` joins that worker while it holds `LIFECYCLE`.
- The game's network threads share the limiter behind one mutex, but each
  reads the clock before it takes that mutex.
- The **updater's threads** share a state with the window behind a mutex and
  look at a flag that the window sets; they are never joined. A staging directory
  outlives its thread when it is ready, its process when that ends, and is removed
  by the next launcher's `cleanup`, which may run while a thread of a process that
  is about to end still writes it.
- The DLL's **configuration worker** and the exports of `lib.rs` set name, friends
  rule and password from different threads; messages are verified against the
  password on the game's threads in between.
- Any thread of the game asks the **friends cache**, one of them asks Steam, and
  Steam may call back on that thread or wait for another one.
- Any thread of the game enters its calls in the slots of `PendingCalls` while
  the diagnostics worker reads them; neither waits for the other.

### What is hard

Crashes between two file operations, retries of a half-done recovery, two
launchers and two helpers at once, the game starting in the middle of an
installation, a check and the use of its result on different threads, a join
under a mutex the joined thread wants, partial failure of an installation
sequence and of its rollback, remote threads that outlive their creator, time
stamps taken out of order, a release that is replaced between its three requests,
a file that is read while it is written, passwords that rotate under a message, a
list that changes while it is read by index, sizes that wrap. `PROJECT.json` lists each of them at its line.

## 2. Modules and their code

| Module | What it is | Code |
|---|---|---|
| `AtomicUpdate` | abstract: the installed pair is one version that changes in one step, never while anyone uses it | what `install.rs` promises |
| `UpdateInstall` | the update transaction with launchers, helpers, locks, files, game, crashes | `install.rs`, `ui::run`, `update_action`/`refresh_update`, `Session::attach`, `bin/t7patch.rs` |
| `LauncherHandoff` | window thread and worker up to the helper's start, memory step by memory step | `mod.rs`, `ui.rs` |
| `PatchStatus` | abstract: the status word the DLL shows and whether the game's code is modified | what `runtime.rs` promises |
| `PatchLifecycle` | the DLL's start, rollback, removal and worker threads under its mutexes | `runtime.rs`, `lib.rs`, `arxan.rs`, `exceptions.rs`, `memory.rs` |
| `LoaderSession` | sessions and remote calls, with the DLL as an instance of `PatchStatus` | `process.rs`, `mod.rs` |
| `NetworkGuard` | both levels of token buckets with callers that stall between clock and mutex | `network_guard.rs` |
| `PendingCalls` | the slots of calls in progress, one atomic access per step, and their report | `profiling.rs` |
| `UpdaterWorker` | requests of the window, their threads, the network's answers and the staging directories | `updater/mod.rs`, `http.rs`, `package.rs`, `StageGuard` and `cleanup` of `install.rs` |
| `FriendsCache` | calls of `is_friend`, the refresh, and Steam | `protection.rs` |
| `ConfigWatch` | the watched file, its worker, the exports and the verification of messages | `config.rs`, `settings.rs`, `runtime.rs`, `lib.rs`, `hooks.rs` |
| `ReaderLayout` | the 32-bit arithmetic on a message's descriptor, with a reference definition | `packets.rs`, `structs.rs` |
| `MessageInspection` | the inspectors as programs for the game's readers, and the hook of instant messages | `packets.rs`, `hooks.rs` |
| `UpdateInstallProofs`, `PatchLifecycleProofs`, `NetworkGuardProofs`, `PendingCallsProofs`, `FriendsCacheProofs`, `LoaderSessionProofs` | theorems about one module each | |
| `LauncherProofs` | theorems about `LauncherHandoff` and `UpdaterWorker` | |
| `MessageProofs` | theorems about `ReaderLayout`, `MessageInspection` and `ConfigWatch` | |
| `MCUpdateInstall`, `MCNetworkGuard`, `MCPendingCalls`, `MCUpdaterWorker`, `MCConfigWatch`, `MCMessageInspection` | symmetry, record and function constants for TLC | |

They compose in three places. `UpdateInstall` is shown to implement
`AtomicUpdate`, and `PatchLifecycle` to implement `PatchStatus`; `LoaderSession`
is built on `PatchStatus` rather than on `PatchLifecycle`, so it inherits what
is proved there. `LauncherHandoff` refines, in the other direction of time, the
two steps `ClickInstall` and `HandOff` of `UpdateInstall`: it shows which orders
of pausing, saving and starting the helper the two threads really allow, and
`UpdateInstall` admits every one of them (its `Inject` is possible in every state
in which the window exists). `UpdaterWorker` ends where `UpdateInstall` begins: what
its `ReadyIsVerified` says of a stage on offer is what `Prepare` of `UpdateInstall`
assumes of one.

**UpdateInstall.** File contents are versions, `None` (no file) or `Bad` (fails
its hash). `installed`, `journal`, `manifest`, `fresh`, `backup` and `temp` are
the files; `lpc`, `image`, `lstage` are the launcher processes; `hpc` and the
variables after it are the helpers, one program-counter value per file operation
of `transaction` and `recover`. Every `move`, `write`, lock and process start is
a step, so a crash (`HelperCrash`, `LauncherCrash`), an I/O error
(`HelperIOError`, `ReplaceDenied`, `MaybePartialBackup`) or the game can come
between any two. `Locked` are the steps the helper makes under both mutexes. When
`helper()` returns an error, `main` shows it in a message box: the mutexes are free by
then, but the process, with its image mapped in the stage, stays in `dialog` until
`HelperDismissed`. `failed` is the result that decides this, and it is an error too
when `recover` has put the previous version back and the launcher starts again. Two
details of Windows are external assumptions: a process's mutex handles are closed
when it ends, and a file that is mapped as an image cannot be replaced.
`before_start`'s `cleanup` ignores its errors; the model removes a directory
whole or not at all, and never one whose helper image is running.
A crash is that of a process, not a power loss: file operations are durable when
they return.

**LauncherHandoff.** One action per load or store of an atomic in
`Worker::start`'s loop and per handler of the window. `MaxFailures` bounds the
helper starts that fail.

**PatchLifecycle.** `locks` and `fields` name the statics and the `State` the
actions change. `Call` is one caller in `T7PatchStart`, the gamemode loader or
`Unload`; the sequence in `State::start` is one action per step that may fail,
and `Abort` enters the rollback that `State::deactivate` shares with removal.
Hooks and patches are counted, not named: the code applies them in a fixed order.
A failure of `Integrity::install` that cannot restore its own handlers is
abstracted to one that did.

**LoaderSession.** A call is `kind`, `thread`, `buffer`, `code` and the launcher
it belongs to. Threads run in the game independently of the session: a launcher
that is closed (`Close`) leaves an argument behind when its thread still runs, one
that is killed (`Kill`) always does. `own` says that the session belongs to the
process that runs now, which is what `Session::alive` tests. The refusal of a game
with a `t7patch.dll` from another path is one of `Attach`'s failures.

**NetworkGuard.** A call reads the clock (`Call`), later takes the mutex and runs
`Gate::allow` in one step (`KnownPeer`, `NewPeer`, `TableFull`, `GlobalDenies`)
with that old time. `Finish` returns what was decided. Event counters and the text
of `report` are left out.

**PendingCalls.** One action per access to an atomic in `begin`, `Pending::drop`
and `append`. What the fields hold is abstracted to the token of the call that
stored them, which is what tells two calls apart; the Relaxed accesses to them
come in any order between the accesses to the owner. That the loads of the fields
come before the second load of the owner is what x86-64, the only target, does;
the Acquire of that load would not order them in Rust's memory model.

**UpdaterWorker.** A step of a thread is a test of its flag, a store to the shared
state, a file operation or an answer of the network, and each may fail (`Fail`,
with `Unwind` for the `StageGuard`). GitHub is external: for each version it holds
a build or none, and builds are replaced at any time, also by one that is packed
wrongly; `latest`, manifest and archive are three requests, so a download may see
three builds. A body comes in units and may end early; a hash is the build's name.
`Launch` keeps the code's order: the old flag is set, the old thread not awaited.
Processes follow each other, and the next one's `Start` may overlap with the
last one's threads, since the singleton is released first.

**FriendsCache.** Each section under the cache's mutex is a step. Steam's list is
read entry by entry and may change in between. `CalledBack` is a call that Steam
makes inside a query, on the same thread; `SteamWaits` makes the query wait for any
other call in the patch. `current` and `last` are history: who was a friend during
the query, and when the last one ended.

**ConfigWatch.** A file is the value or `Nil` that `parse` finds for each key. The
worker's `Config::apply` is one step per lock; the exports come between any two.
`copies` is the name at each place in the game that `set_name` writes: five fixed ones
and one behind a pointer. Any of these writes may fail, and the last is skipped while
its pointer cannot be followed (`config.rs:62-72`): `missed` records, as history, which
places the last update did not reach. `held` is who has `NAME_UPDATE`. A message copies the
password (`Receive`) and reads the clock later (`Verify`). Passwords are distinct
and so are their checksums; the checksum itself is not computed.

**ReaderLayout and MessageInspection.** `Faulty` is `reader_layout` with its widths
as constants, so that overflow happens on a small machine; `Sound` says in unbounded
arithmetic what the game's readers rely on. An inspector is a list of instructions,
each a call of a native reader or a run of calls that only read; the
readers are external and answer anything the sender may have written, fail
(`ReadFault`), or, after the message has ended (`Exhaust`), give zeros and set the
flag, as the game's do. `InOrder` defines, without the inspectors, the sequences of
counts and list marks of a message in order.

## 3. Runs: what is checked, and how far

| Run | Instance | Properties |
|---|---|---|
| `update_safety` | 2 launchers, 2 helpers, 2 stages, 2 versions, 2 crashes or errors | `PairSafety`, `BackupsRetained`, `NoInstallWhileInjected`, `UpdateIsAtomic` |
| `update_recovery` | 2 launchers, 2 helpers, 1 stage, 2 errors, 2 damaged files, fair | `RestoreIsComplete`, `RecoveryCompletes`, `HelpersEnd` |
| `handoff` | 2 failed helper starts, fair | `FirstHandoffIsPaused`, `SettingsSettled`, `HandoffSettles`, `DetectionResumes` |
| `handoff_stale` | 1 failed start; expected to fail | `PausedBeforeHelper` |
| `lifecycle` | 2 callers, 2 patches, 2 hooks, 2 failures, 4 calls, fair | `CoveredWhileModified`, `QuietWhenOver`, `PatchedOnce`, `CallsReturn` |
| `loader` | 2 calls, 2 launchers, 2 games, 1 failure, fair | `BufferOutlivesCall`, `OneThreadPerLauncher`, `ShownIsInstalled`, `AskedUntilAnswered`, `VerdictReached`, `DeactivationShown` |
| `network` | 3 peers, 2 slots, 2 callers, 4 clock units | `GlobalBudget`, `PeerBudget` |
| `pending` | 3 calls, 2 slots, 2 fields, 3 tokens, 1 overflow, fair report | `SlotHasOneOwner`, `ReportIsOneCall`, `HangIsReported` |
| `friends` | 2 calls, 2 people, interval 2, delays 1 to 3, 1 change of Steam, 3 clock units, fair | `OnlyFriends`, `QueriesSpaced`, `CallsReturn` |
| `config` | 4 files, 2 changes, 1 export, 1 copy, 1 message, period 1, 2 clock units, fair | `NamesAgree`, `AcceptedWasCurrent`, `GraceKept`, `FileSettles` |
| `messages` | about 33,000 inputs on a machine with sizes of 3 bits, all kinds; 3 players, 2 votes, 2 lobbies | `InspectionIsExact`, `StopsAtFault`, `ReadersStayInside` |
| `updater` | 2 launchers, 2 threads, 2 stages, 3 builds, 2 requests per get, 2 changes of the releases, fair | `ReadyIsVerified`, `NothingLeftBehind`, `LastRequestWins`, `RequestsEnd` |

What the properties say:

- **PairSafety** — with no journal, EXE and DLL are two intact files of one
  version. **BackupsRetained** — with a journal, its stage still holds the backup
  of both files, of one version, unless the disk damaged them: neither a
  transaction nor a recovery nor a cleanup destroys what a rollback needs.
  **UpdateIsAtomic** — seen through the journal, the pair changes in one step
  (refinement of `AtomicUpdate`).
  **NoInstallWhileInjected** — the installed files never change while the game has
  the DLL loaded, although the helper looks for the game only once.
  **RestoreIsComplete** — a recovery puts nothing back unless both backups were
  verified. **RecoveryCompletes** — once the game stays closed, the user keeps
  opening t7patch and the disk leaves the files alone, a journal does not stay.
  **HelpersEnd** — a helper's work comes to its end or to its error dialog, and its
  mutexes are free by then, however long the user leaves the dialog open.
- **FirstHandoffIsPaused** — when the first helper is started the worker is not on
  its way to the game; **PausedBeforeHelper** says so of every helper, and fails
  (section 6). **SettingsSettled** — from the pause to the end of the process no
  edit is unsaved and the last save succeeded.
  **DetectionResumes**, **HandoffSettles** — a failed hand-over resumes detection,
  and every other one ends the launcher, which joins its worker first.
- **CoveredWhileModified** — while a patch or hook is in place, the integrity
  handlers and the vectored handler are too, also when a rollback fails half-way.
  **QuietWhenOver** — once `FAILED` or `DEACTIVATED` is published
  no worker of the DLL runs and settings are not written to the game.
  **PatchedOnce** — one attempt per game process and no way back (refinement of
  `PatchStatus`). **CallsReturn** — every call of an export returns, in particular
  `uninstall` from its join.
- **BufferOutlivesCall**, **OneThreadPerLauncher**, **ShownIsInstalled**,
  **AskedUntilAnswered**, **VerdictReached**, **DeactivationShown** — as named
  in section 1. `ShownIsInstalled` is about `Session::active`; the text in the
  window follows it one scan later.
- **GlobalBudget**, **PeerBudget** — in an interval that starts anywhere (`since`),
  what was let through costs at most the burst plus the rate times its length,
  although entries are evicted and made again with full credit and calls come with
  old time stamps.
- **SlotHasOneOwner** — two calls never fill or free the same slot.
  **ReportIsOneCall** — a line of the report speaks of one call, although slots are
  reused while they are read. **HangIsReported** — a
  call that has a slot and stays in its function is, from some point on, in every
  report that has visited all slots, before the filter for calls that are two seconds
  old; and such reports go on being made. A call that finds no slot is only part of the
  overflow's number (`profiling.rs:137`), so that "every call is tracked"
  (`profiling.rs:67`) is true up to the capacity of the table.
- **OnlyFriends** — whoever is accepted was a friend at some time of the last
  complete query, although the list moves while it is read by index and failed
  queries come in between. **QueriesSpaced** — one call at a time asks Steam, and
  not before the interval that the failures in a row set is over, counted from the
  end of the last query, however old the asking call's time stamp.
  **CallsReturn** (of `FriendsCache`) — every call returns, also one that Steam makes
  inside a query or that it waits for.
- **AcceptedWasCurrent** — a message is accepted only under a password that was
  current at its copy or at most `Grace` before the verification, although it may rotate between the copy of the
  password and the reading of the clock, and twice through the worker's unlocked
  comparison. **GraceKept** — while only the file sets the password, the last one
  passes for the whole period, whatever else in the file changes. It is not stated
  once an export has set the password: `T7SetNetworkPassword` with the same value,
  or one between the worker's comparison and its set (`config.rs:81`), makes the
  previous password the current one and ends the period early.
  **NamesAgree** — outside `NAME_UPDATE`, every place in the game that the last update
  reached holds the published name.
  **FileSettles** — a complete file that is left alone is in force from some point on,
  whatever incomplete or unreadable state it went through; of the name in the game this
  is said of the places that could be written, since `poll` keeps the contents as applied
  whatever became of the writes and does not repeat them. An export's value is
  replaced by the file's only when the file changes.
- **InspectionIsExact** — a message passes exactly when its lists and numbers are
  those of a message in order and nothing was read past its end.
  **StopsAtFault** — what was read so far always begins a message in order, with the
  zeros after the message's end counted as read: the game's readers are never sent past
  a fault. **ReadersStayInside** — a message that is
  inspected, or handed on, has a descriptor whose every byte has an address and whose
  lengths are exact in signed 32-bit arithmetic, and a copied rest fits its buffer.
- **ReadyIsVerified** — a stage on offer holds its owner mark, the manifest of the
  release that is shown, newer than this launcher, and exactly the two files that
  manifest names. **NothingLeftBehind** — a directory belongs to a thread or an offer
  of a live process, or could not be removed, or its process is gone and the next
  launcher's cleanup is to find it. **LastRequestWins** — only the thread of the last
  request changes what a window shows; progress and results are stored without
  a look at the flag or after it, so this rests on the requests that a busy or ready
  window refuses. **RequestsEnd** — a window does not stay busy.

Types (`TypeOK`), `RunningPair`, `ActiveIsComplete`, `RepliesAgree`,
`OneEntryPerPeer`, `LivePeerKeepsEntry` and `OverflowIsCounted` are proved for every
instance (section 5) and need no run.

Every property has a mutant in its module (operators with a comment *Mutant:*),
a plausible slip in that code with which TLC finds the property violated.

**Bounds.** Two of each process are enough for every pairwise race, and the locks
make a third wait like the second. Two faults give a crash in the middle of the
recovery from a crash; the third would repeat the second, since recovery returns
to the state it started from. Two stages let a new update be prepared while a
journal names an older one. Two patches and two hooks give a failure before,
between and after; two callers give an installer and a remover, each of which the
other's mutexes stop at any point, and the proofs cover more. In `network`, three peers compete for two slots and the clock is long
enough to evict, refill and evict again (`PeerIdle` 3, clock 4). `MaxCalls`,
`MaxLaunches`, `MaxGames`, `MaxClock`, `MaxFailures`, `MaxFaults`, `MaxDamage`,
`MaxTokens`, `MaxLost`,
`MaxChanges` and `MaxWrites` occur only in guards. In `pending` all calls look for a
slot at the same place first, a slot is used twice, all slots may be taken, and
the third token is one that the counter wraps to (`Wrap` 6), which must not be
published. 
In `friends` one call refreshes while the other reads or is waited for, and the clock
is long enough for a failure, its delay, a success and the begin of the next query.
In `config` one rotation to another password and back falls into one period, and a
file passes through an incomplete state. One copy of the name, reached or missed by each
update, stands for the six: no step relates two of them, and the properties speak of
each by itself (the proofs are for any set of copies, two of which give a million states
and the same result). In `messages` `UMax` 7 and `IMax` 3 make every
sum that can wrap do so, and lists end before, at and after every limit. In `updater`
two requests per `get` stand for the code's six (`MaxHops`), the archive for one unit,
and the release is made and replaced once: the three requests of a download see every
mixture of two builds. Deadlock is checked in `update_safety`, `pending` and
`friends`; elsewhere the bounded counters, the end of the launcher or of the message,
or users and faults that are used up stop the system.

`MaxStall` is an assumption about the code's surroundings rather than a bound: a
thread waits less than `MaxStall` between reading the clock and taking the
limiter's mutex. The eviction property needs `PeerIdle >= 2*Unit + MaxStall`
(30 s, `PEER_IDLE_MS`, against 1 s in the code).

## 4. Fairness

- *Update*: the steps of helpers and of starting or ending launchers are weakly
  fair: until a helper ends or shows its error it waits for no user, and its mutexes
  are tried, never awaited. The user is fair in dismissing error dialogs, of launchers
  and helpers, and in opening t7patch again; faults, the game and clicks are
  not. `HelpersEnd` does not depend on the dismissal; `RecoveryCompletes` does: its
  user waits for launchers to end, and the instance has only two helper processes. `PatientUser` says that the user opens
  t7patch only when no launcher runs and no helper is at work; a helper's dialog may be
  open. Without it `RecoveryCompletes` does not hold, and
  should not: a launcher and the helper of the previous one may refuse each other
  for as long as the user keeps clicking, since each finds the other's mutex held.
  The 30 s for which a helper waits for its parent is a fault of the budget.
- *Hand-off*: the worker's loop, the window's timer and the close message that the
  hand-off posts are weakly fair. The user is fair nowhere.
- *Lifecycle*: the steps of each caller and worker are weakly fair, and strongly
  fair where a caller waits for a mutex: Rust's locks promise no order among
  waiters, and the property is that the code does not deadlock, not that its locks
  are fair. No call has to be made. The workers' own tries of `STATE` need no more
  than weak fairness, since they give up and look at `STOP` again.
- *Loader*: the worker polls, threads in the game are scheduled, the game becomes
  ready at some point, and a call of `T7PatchStart` answers, which is
  `CallsReturn`. Nobody has to close, exit or unload anything. Settings are taken
  as configured and the worker as not paused.
- *Pending calls*: the report is weakly fair, as the diagnostics worker polls it
  every five seconds. No call has to return, or even to get its slot.
- *Friends*: each call is strongly fair: a thread of the game runs on, and Steam,
  though it may call back and wait, does not do so for ever. Nothing has to be asked.
- *Configuration*: the worker's step is strongly fair, since `NAME_UPDATE` and a file
  that is unreadable now and then disable it in between; an export that has
  published a name copies it. No export has to be called and no file written.
- *Updater*: threads run, and every call of WinHTTP returns, because `http.rs` sets
  its timeouts. GitHub and the user are fair nowhere.

## 5. Proofs

All are safety properties of `Spec` (`WatchSpec`, `UpdaterSpec`), for every value of
the constants that satisfies the named assumptions. Each component has one inductive
invariant, which TLC has checked on the instance of its run as well, except that of
`MessageInspection`, which quantifies over sets of logs of any length. `LauncherProofs`
and `MessageProofs` extend two components whose variables and definitions have
different names and whose proofs do not meet.

**UpdateInstallProofs** (`ConstantsAssumption`: versions are numbers, `None` and
`Bad` are neither, launchers and helpers are different processes). `PairSafety` and
`BackupsRetained` are not inductive: that removing the journal leaves a pair
depends on what the helper that removes it has done, and that on nobody else
having done anything. `IInv` adds `LockInv` (whoever is at a point of the code
that needs a mutex is recorded in it, so at most one process is there),
`ImageInv` (a live launcher runs the installed EXE, since a mapped image cannot be
replaced), `GameInv` (no helper works on files while the DLL is loaded), `StageInv`
(a live helper's stage exists, and what it has backed up is what is installed) and
`PhaseInv` (what each point between publication and commit, and each point of
`recover`, has established). `UpdateInvariant` proves it action by action;
`UpdateTypes`, `PairIsSafe`, `RunningPairIsSafe`, `BackupsAreRetained`,
`NoInstallIntoLoadedGame`, `RestoreUsesVerifiedSet` follow from it, and
`UpdateRefinesAtomic` proves that every step is a step of `AtomicUpdate` or a
stutter.

**PatchLifecycleProofs** (`CallersAssumption`, `CountsAssumption`,
`BoundsAssumption`: the worker is no caller, there is at least one patch). The
invariant is `TypeOK`, `Locking` (who is where holds which mutex), `Joins` (a
running worker always has a join handle, or a caller that took it is at the
join), `Phase` (what the holder of `LIFECYCLE` has done at each point of
`State::start` and `State::deactivate`; what is stable when nobody holds it) and
`CoveredWhileModified`. `ActiveIsComplete` needs all of them: another caller may
be anywhere, and a worker may still run when a removal starts. From
`LifecycleInvariant` follow `LifecycleTypes`, `ModifiedCodeIsCovered`,
`ActiveIsInstalled`, `NothingRunsAfterwards`, `PatchesOnlyOnce` (the refinement)
and `AnswersAgree`.

**NetworkGuardProofs** (`GuardAssumption`: natural numbers, and `PeerIdle >=
2*Unit + MaxStall`). The budgets are token-bucket potentials: `GInv` bounds what
was admitted *plus* what credit is left by the burst plus the rate times the time
up to the bucket's own time stamp, which calls with old time stamps do not move
back (`GlobalInv`, `EntryInv`); and for a peer without an entry it says that so
little was admitted since `since` that an entry with full credit, made with a time
stamp up to `MaxStall` old, does it no favour (`AbsentInv`). That last part is where
the assumption is used. From `GuardInvariant` follow `GlobalBudgetHolds`,
`PeerBudgetHolds`, `EntriesAreUnique`, `GuardTypes` and `LivePeersStay`.

**PendingCallsProofs** (`TableAssumption`: the table is not empty, callers start at
one of its slots, and so few tokens are given out that none comes twice). What a
report line needs is that an owner that reads the same twice was the same in
between. `IInv` says so step by step: a held slot's owner is 1 or the holder's
token (`Owned`); a token is known to no slot, no caller and no report before it is
published (`Private`), hence what a report has seen is never published again; what
is published is complete (`Stored`, `Published`); and while the owner is still what
was seen, so is every field that was read (`Reading`). From `PendingInvariant`
follow `PendingTypes`, `SlotsHaveOneOwner`, `ReportsAreCoherent` and
`OverflowAddsUp`.

**LoaderSessionProofs** (`NilAssumption`, `BoundsAssumption`). That a launcher has one
thread in the game depends on the stage its session is in, on the process the session
belongs to, and on who made the thread. `Mine` says that a live thread of the running
launcher is that of the session's call, in this process, unless the session has failed
and makes no more; `Told` that an answer *active* which is still to be read is true;
`ShownInStage` that a patch is shown as active only in the stages that follow it. From
`SessionInvariant` follow `SessionTypes`, `ArgumentsOutliveThreads`,
`LaunchersTakeTurns` and `ShownIsTrue`. `VerdictsAreFinal` needs an invariant of its
own, `Unanswered`: in every stage from which a thread can still be made, the answer
heard last, if any, is *waiting*.

**LauncherProofs, LauncherHandoff** (`FailuresAssumption`). `Quiet` says of the time before the
first failed helper that nothing takes a pause back: a worker about to store
`quiescent` is paused, and one that has stored it is not active. It does not hold
afterwards, which is section 6. `FirstHelperIsSafe` and `SettingsStaySaved` follow from
`HandoffInvariant`.

**LauncherProofs, UpdaterWorker** (`UpdaterAssumption`, and `NoDirectoryAssumption`:
`Nil` is no directory, builds or threads being arbitrary sets). What a stage on offer
holds was established by a thread that may be gone, over several requests and file
operations, so `UpdaterInv` carries it along:

- `LatestRuns`: a thread that runs is that of its launcher's last request, which is
  busy with it. `Busy` is what makes this inductive, since it refuses a request while
  there is a thread to store over it. `LastRequestHasTheWindow` is a consequence.
- `Exclusive`: a directory is held by one thread or one state; nobody else writes it,
  and a new one is nobody's.
- `Known` and `Built`: what a thread knows at each place (that its manifest is of the
  release that was announced, which is newer), and how far its directory is
  (`Reached`: the entries written so far are that many different files of the
  manifest's build). `Built` is claimed for a launcher whose window is open only:
  a thread of one that is closing may write into a directory that the next launcher
  has just cleaned up.
- `OneWindow`: hence the next launcher's cleanup, which removes directories without
  asking whose they are, removes none of an open window.
- `Settled`: a state has a stage exactly when it is *Ready* or handing off.

Steps of a thread that keep its directory go through one lemma (`StepKeeps`), the ends
of threads (a result stored or discarded, the end of the process) through another
(`EndsKeep`). `OfferedUpdatesAreVerified` and `NoStageIsForgotten` follow from
`UpdaterInvariant`.

**FriendsCacheProofs** (`FriendsAssumption`: the longest delay is reached by five
doublings of the first, as 30 s is from 1 s). The invariant says that the refreshing flag
belongs to one call, that what it has collected are people of `current.query`, and, in
`Timed`, that between a query's end and its result only that call knows the interval,
and that otherwise the cache's next query is not before it. Without the
assumption the delay would end below `Longest`. `AcceptedAreFriends`, `SteamIsSpared`
and `FriendsTypes` follow from `FriendsInvariant`.

**MessageProofs, MessageInspection** (`WidthAssumption`; `LimitsAssumption`: a save may
have a size, and there are at most two lobbies, the number for which the reference is
written out; `InputsAssumption`: a lobby message is of a kind that `inspect` tells
apart). `LayoutIsSound` proves `~Faulty(m) => Sound(m)` for every descriptor and all
widths of the machine: the checked additions and the order of the comparisons are
enough for every byte of both buffers to have an address. `ReadersAreInside` carries
it through the inspection.

`InspectionInvariant` relates an inspector to its reference at every point of every
message, for any number of players and votes. A language is a set of logs that may
still be read, `After(x, A)` what is left of it once x was. `Reads(todo, md, G)` says
which language the instructions that are left read: `Link` states it of one
instruction and of what follows, so that it is a fact about every position of `todo`,
and no recursion over the instructions is needed. As the list after a count depends on
the number that was read, G gives a language for each value of `n`. `Reading` is the
invariant: `G[n]` is exactly what, after the log, makes a message in order
(`Wanted`). While the modes are not read it holds for each of them (`Going`), which
is why `BranchOnModes` finds the right continuation. The lemmas named `...Before`
put an instruction in front of a sequence and show that `Program` begins in the
invariant (`ProgramReads`, `GameReads`); those named `...After` say what a number, an
element or an end leaves; the two meet in one lemma per action. `InspectionsAreExact`
follows as no instruction is left at the end, `NoReaderPastAFault` as no language is
empty: neither depends on where the message ends.

**MessageProofs, ConfigWatch** (`ConfigAssumption`: the default file is complete, a file
has its three keys, and the worker is no export). `Publishing` says that whoever has
`NAME_UPDATE` is about to copy the name that it has published, from which
`NamesAlwaysAgree` follows, for the places that the last copying reached. The properties of passwords need three facts: `Rotated`
(both stored passwords were current when the second was set, or later),
`CopiesAreRecent` (what a message has copied was current then, or was replaced later
than it was copied) and, for as long as no export has set a password, `FileRotates`
(the worker sets another password than the current one, so that the stored previous
one is the last other one). `AcceptedPasswordsWereCurrent` and `GraceIsKept`, both
about the step in which a message is verified, follow from `WatchInvariant`.

**Only model-checked**: all liveness (`RecoveryCompletes`, `HelpersEnd`,
`HandoffSettles`, `DetectionResumes`, `CallsReturn` of both modules, `VerdictReached`,
`DeactivationShown`, `HangIsReported`, `FileSettles`, `RequestsEnd`), which is out of
the prover's reach. Every safety property of the runs is a theorem.

## 6. Divergence between code and documentation

`handoff_stale` shows a behaviour that the repository's README excludes: *"The
launcher saves pending settings, pauses injection, and starts a temporary
helper."* The worker tests `paused` and then stores `quiescent`
(`launcher/mod.rs:57-58`). When it is descheduled between the two while a
hand-over fails and resumes, it marks a worker that is no longer paused as
quiescent, and the next hand-over starts its helper at once, before the worker
has dropped the session it may have made in between. It takes a failed helper
start, and the consequence is small: the helper still waits for the launcher's
exit and checks for the game under both mutexes, which is why
`NoInstallWhileInjected` holds in `UpdateInstall` with injection allowed until
the end of the window. The first hand-over always is paused
(`FirstHandoffIsPaused`).

## 7. What is not modelled

- Wording, layout, icons, painting, tabs and dialogs of `ui.rs`; `bin/` apart from
  its two entry modes; build files, scripts, examples and CI.
- JSON and PE parsing, size limits and the computation of hashes: a package is right,
  or wrong in one of its parts. The offline package check of the release workflow. A
  release that is deleted. In `UpdaterWorker` a stage whose helper image is mapped
  cannot be told from one that could not be removed; `UpdateInstall` does tell.
- `protection.rs`: the caches of owned content and of download progress. Each keeps an
  answer of Steam under its key, the first without an end, the second for five minutes;
  two threads that both miss store their answers one after the other
  (`protection.rs:159`), and either answer is one that Steam gave.
- `hooks.rs`: detours that check an argument or call the game's function, and keep
  nothing. Their life is that of the hooks in `PatchLifecycle`.
- `packets.rs`: which fault is reported, the samples of `READER_DIAGNOSTICS`, the
  preparation of the copied message (`prep_read`, external, may fail) and the value of
  a checksum.
- `config.rs`: a write of the name that fails or is skipped is not repeated before the
  next change, so the game may show the older name at that place; the properties of the
  name leave such places out. How a write fails is not looked into.
- What the exception handler does with a fault, and the text of crash logs; scanning,
  page protection and instruction lengths in `memory.rs` and `minhook.rs`.
- Sampled counters of `profiling.rs` and `network_guard.rs` and the text of reports.
- `launcher/history.rs` reads the tail of the journal for the window; it writes nothing
  and a journal that grows or is truncated while it is read costs a line on the screen.
- `game_build.rs` and `hashing.rs` are pure functions with unit tests; their result is
  the constant choice `supported`.
- Power loss, and whatever other programs do to the files beyond `Damage`.

## 8. Plan

Modules, in order; those marked *done* are in this directory.

1. *done* — `AtomicUpdate`, `UpdateInstall` and its proofs: a wrong step here
   destroys an installation.
2. *done* — `NetworkGuard` and its proofs.
3. *done* — `LauncherHandoff`, `PatchStatus`, `PatchLifecycle` and its proofs,
   `LoaderSession`.
4. *done* — `UpdaterWorker` (`updater/mod.rs`, `http.rs`, `package.rs`).
5. *done* — `ConfigWatch` (`config.rs`, `settings.rs`), with the authentication of
   messages under the previous and the current password.
6. *done* — `FriendsCache` (`protection.rs`) and its proofs.
7. *done* — `PendingCalls` (`profiling.rs`) and its proofs: the slot protocol with
   tokens, slots full.
8. *done* — `ReaderLayout` and `MessageInspection` (`packets.rs`), with the proof of the
   32-bit layout arithmetic against its reference.
9. *done* — proofs of the safety of `LauncherHandoff` and `LoaderSession`.
10. *done* — proofs of the safety of `ConfigWatch` and `UpdaterWorker`, and of
    `AskedUntilAnswered`.
11. *done* — proofs of `InspectionIsExact` and `StopsAtFault` (`MessageInspection`).
12. `History` (`launcher/history.rs`): tail reading against appends and truncation; the
    download caches of `protection.rs`.

## 9. Running everything

    tlc -workers 2 -config UpdateInstall_safety.cfg   MCUpdateInstall
    tlc -workers 2 -config UpdateInstall_recovery.cfg UpdateInstall
    tlc -workers 2 -config LauncherHandoff.cfg        LauncherHandoff
    tlc -workers 2 -config LauncherHandoff_stale.cfg  LauncherHandoff
    tlc -workers 2 -config PatchLifecycle.cfg         PatchLifecycle
    tlc -workers 2 -config LoaderSession.cfg          LoaderSession
    tlc -workers 2 -config NetworkGuard.cfg           MCNetworkGuard
    tlc -workers 2 -config PendingCalls.cfg           MCPendingCalls
    tlc -workers 2 -config FriendsCache.cfg           FriendsCache
    tlc -workers 2 -config ConfigWatch.cfg            MCConfigWatch
    tlc -workers 2 -config MessageInspection.cfg      MCMessageInspection
    tlc -workers 2 -config UpdaterWorker.cfg          MCUpdaterWorker
    tlapm UpdateInstallProofs.tla
    tlapm PatchLifecycleProofs.tla
    tlapm NetworkGuardProofs.tla
    tlapm PendingCallsProofs.tla
    tlapm LauncherProofs.tla
    tlapm LoaderSessionProofs.tla
    tlapm FriendsCacheProofs.tla
    tlapm MessageProofs.tla

Each run ends within four minutes on two workers, each proof within three.
