---------------------------- MODULE PatchLifecycle ----------------------------
(***************************************************************************)
(* The life of the patch inside one game process (src/runtime.rs, with the *)
(* exports of src/lib.rs).  Remote threads of launchers and threads of the *)
(* game call T7PatchStart, zbr_run_gamemode_lui and Unload concurrently;   *)
(* LIFECYCLE serialises them, STATE is shared with the configuration       *)
(* worker, which only ever tries to take it.  Loops over patches and hooks *)
(* take one step per element, because the game runs meanwhile.             *)
(*                                                                         *)
(* Left out: the settings (path, name, password), the process priority and *)
(* the patched bytes themselves.                                           *)
(***************************************************************************)
EXTENDS Integers

CONSTANTS
    Callers,     \* threads that call the DLL's exports
    NoOne,       \* nobody holds a lock
    Worker,      \* the configuration worker, as holder of STATE
    Patches,     \* number of memory patches
    Hooks,       \* number of MinHook targets
    MaxFaults,   \* bound: operations of Windows or MinHook that fail
    MaxCalls     \* bound: calls of the exports

ASSUME CallersAssumption == NoOne \notin Callers /\ Worker \notin Callers /\ NoOne # Worker
ASSUME CountsAssumption  == Patches \in Nat \ {0} /\ Hooks \in Nat
ASSUME BoundsAssumption  == MaxFaults \in Nat /\ MaxCalls \in Nat

VARIABLES
    (* Statics. *)
    lifecycle, state,   \* holders of the two mutexes
    stop, gameReady, status, lastError,
    (* Fields of State. *)
    attempted, active, integrity, handler, enabled,
    workerHandle,       \* State.worker and State.profiler_worker are Some
    (* The game's code. *)
    applied,            \* patches whose bytes are in place
    live,               \* hooks that are enabled
    (* Threads. *)
    pc, reply,
    cursor,             \* loop index of the holder of LIFECYCLE
    restored, rollback, \* local variables of deactivate
    taken,              \* join handles that Unload took out of State
    config, profiler,   \* the two worker threads
    (* Environment. *)
    supported, faults, calls

locks   == <<lifecycle, state>>
statics == <<stop, gameReady, status, lastError>>
fields  == <<attempted, active, integrity, handler, enabled, workerHandle>>
code    == <<applied, live>>
locals  == <<cursor, restored, rollback, taken>>
threads == <<config, profiler>>
env     == <<supported, faults, calls>>
vars    == <<locks, statics, fields, code, pc, reply, locals, threads, env>>

Replies == {"none", "unsupported", "waiting", "active", "failed", "deactivated"}

StartPC == {"integrity", "handler", "prepare", "apply", "enable", "ready", "spawn",
            "profiler", "publish"}
DeactivatePC == {"disable", "restore", "quiet", "unhandle", "unpatch", "inactive"}
InstallPC == {"install", "state", "decide", "error"} \cup StartPC
UnloadPC == {"unload", "stop", "take?", "take", "join", "state2", "check"}
PC == {"idle"} \cup InstallPC \cup UnloadPC \cup DeactivatePC

Init ==
    /\ lifecycle = NoOne /\ state = NoOne
    /\ stop = FALSE /\ gameReady = FALSE /\ status = "waiting" /\ lastError = FALSE
    /\ attempted = FALSE /\ active = FALSE /\ integrity = FALSE
    /\ handler = "none" /\ enabled = 0 /\ workerHandle = FALSE
    /\ applied = {} /\ live = {}
    /\ pc = [c \in Callers |-> "idle"] /\ reply = [c \in Callers |-> "none"]
    /\ cursor = 0 /\ restored = TRUE /\ rollback = FALSE
    /\ taken = [c \in Callers |-> FALSE]
    /\ config = "none" /\ profiler = "none"
    /\ supported \in BOOLEAN /\ faults = 0 /\ calls = 0

-----------------------------------------------------------------------------
(* Locks and calls.                                                        *)

Go(c, from, to) == pc[c] = from /\ pc' = [pc EXCEPT ![c] = to]

Fault == faults < MaxFaults /\ faults' = faults + 1

\* Both guards go out of scope; the caller has its answer.
Return(c, from, answer) ==
    /\ Go(c, from, "idle")
    /\ lifecycle' = NoOne /\ state' = NoOne
    /\ reply' = [reply EXCEPT ![c] = answer]

\* T7PatchStart or zbr_run_gamemode_lui calls install_checked, or Unload
\* calls uninstall.
Call(c) ==
    /\ calls < MaxCalls /\ calls' = calls + 1
    /\ \/ Go(c, "idle", "install")
       \/ Go(c, "idle", "unload")
    /\ reply' = [reply EXCEPT ![c] = "none"]
    /\ UNCHANGED <<locks, statics, fields, code, locals, threads, supported, faults>>

\* Mutant: Unload relies on STATE alone.
LockLifecycleToInstall(c) ==
    /\ \/ Go(c, "install", "state") /\ lifecycle = NoOne /\ lifecycle' = c
       \/ Go(c, "unload", "stop") /\ UNCHANGED lifecycle
    /\ UNCHANGED <<state, statics, fields, code, reply, locals, threads, env>>

\* LIFECYCLE.lock(), the first statement of both.
LockLifecycle(c) ==
    /\ \/ Go(c, "install", "state")
       \/ Go(c, "unload", "stop")
    /\ lifecycle = NoOne /\ lifecycle' = c
    /\ UNCHANGED <<state, statics, fields, code, reply, locals, threads, env>>

\* STATE.lock().
LockState(c) ==
    /\ \/ Go(c, "state", "decide")
       \/ Go(c, "take?", "take")
       \/ Go(c, "state2", "check")
    /\ state = NoOne /\ state' = c
    /\ UNCHANGED <<lifecycle, statics, fields, code, reply, locals, threads, env>>

-----------------------------------------------------------------------------
(* install_checked.                                                        *)

\* Mutant: a failed attempt is made again.
DecideAgain(c) ==
    \/ /\ Return(c, "decide", "active")
       /\ active
       /\ UNCHANGED <<statics, fields, code, locals, threads, env>>
    \/ /\ Go(c, "decide", "integrity")
       /\ ~active /\ supported
       /\ attempted' = TRUE
       /\ UNCHANGED <<locks, statics, active, integrity, handler, enabled, workerHandle,
                      code, reply, locals, threads, env>>

\* Installed already, or attempted already: the stored answer.
Repeat(c) ==
    /\ \/ active /\ Return(c, "decide", "active")
       \/ ~active /\ attempted
          /\ Return(c, "decide", IF lastError THEN "failed" ELSE "deactivated")
    /\ UNCHANGED <<statics, fields, code, locals, threads, env>>

\* The executable is unknown, or ready() does not find the game initialised.
Refuse(c) ==
    /\ ~active /\ ~attempted
    /\ \/ ~supported /\ Return(c, "decide", "unsupported")
       \/ supported /\ Return(c, "decide", "waiting")
    /\ UNCHANGED <<statics, fields, code, locals, threads, env>>

Attempt(c) ==
    /\ Go(c, "decide", "integrity")
    /\ ~active /\ ~attempted /\ supported
    /\ attempted' = TRUE
    /\ UNCHANGED <<locks, statics, active, integrity, handler, enabled, workerHandle,
                   code, reply, locals, threads, env>>

Decide(c) == Repeat(c) \/ Refuse(c) \/ Attempt(c)

\* State::start returns an error: deactivate(true) begins with the hooks.
Abort(c, from) ==
    /\ Go(c, from, "disable")
    /\ Fault
    /\ cursor' = enabled /\ restored' = TRUE /\ rollback' = TRUE
    /\ UNCHANGED <<locks, statics, attempted, active, enabled, workerHandle, live,
                   reply, taken, threads, supported, calls>>

\* The module is pinned and Integrity::install patches the integrity checks, or
\* takes back what it patched.
InstallIntegrity(c) ==
    \/ /\ Go(c, "integrity", "handler")
       /\ integrity' = TRUE
       /\ UNCHANGED <<locks, statics, attempted, active, handler, enabled, workerHandle,
                      code, reply, locals, threads, env>>
    \/ /\ Abort(c, "integrity")
       /\ UNCHANGED <<integrity, handler, applied>>

\* The message reader is validated, MinHook initialised, Handler::install.
InstallHandler(c) ==
    \/ /\ Go(c, "handler", "prepare")
       /\ handler' = "active"
       /\ UNCHANGED <<locks, statics, attempted, active, integrity, enabled, workerHandle,
                      code, reply, locals, threads, env>>
    \/ /\ Abort(c, "handler")
       /\ UNCHANGED <<integrity, handler, applied>>

\* Hooks are created and patches prepared; the game's code is still untouched.
Prepare(c) ==
    \/ /\ Go(c, "prepare", "apply")
       /\ cursor' = 1
       /\ UNCHANGED <<locks, statics, fields, code, reply, restored, rollback, taken,
                      threads, env>>
    \/ /\ Abort(c, "prepare")
       /\ UNCHANGED <<integrity, handler, applied>>

\* Patch::apply; write_bytes may fail before or after its bytes are in place.
Apply(c) ==
    \/ /\ pc[c] = "apply" /\ cursor \in 1..Patches
       /\ applied' = applied \cup {cursor}
       /\ cursor' = cursor + 1
       /\ UNCHANGED <<locks, statics, fields, live, pc, reply, restored, rollback, taken,
                      threads, env>>
    \/ /\ Go(c, "apply", "enable") /\ cursor > Patches
       /\ cursor' = 1
       /\ UNCHANGED <<locks, statics, fields, code, reply, restored, rollback, taken,
                      threads, env>>
    \/ /\ cursor \in 1..Patches
       /\ Abort(c, "apply")
       /\ applied' \in {applied, applied \cup {cursor}}
       /\ UNCHANGED <<integrity, handler>>

\* minhook::enable, and the target is pushed on enabled.
Enable(c) ==
    \/ /\ pc[c] = "enable" /\ cursor \in 1..Hooks
       /\ live' = live \cup {cursor}
       /\ enabled' = cursor
       /\ cursor' = cursor + 1
       /\ UNCHANGED <<locks, statics, attempted, active, integrity, handler, workerHandle,
                      applied, pc, reply, restored, rollback, taken, threads, env>>
    \/ /\ Go(c, "enable", "ready") /\ cursor > Hooks
       /\ UNCHANGED <<locks, statics, fields, code, reply, locals, threads, env>>
    \/ /\ cursor \in 1..Hooks
       /\ Abort(c, "enable")
       /\ UNCHANGED <<integrity, handler, applied>>

\* GAME_READY, the game's settings and the first reading of the configuration.
GameReady(c) ==
    /\ Go(c, "ready", "spawn")
    /\ gameReady' = TRUE
    /\ UNCHANGED <<locks, stop, status, lastError, fields, code, reply, locals, threads, env>>

\* STOP is taken back and the configuration worker spawned.
Spawn(c) ==
    /\ stop' = FALSE
    /\ \/ /\ Go(c, "spawn", "profiler")
          /\ config' = "check" /\ workerHandle' = TRUE
          /\ UNCHANGED <<locks, gameReady, status, lastError, attempted, active, integrity,
                         handler, enabled, code, reply, locals, profiler, env>>
       \/ /\ Go(c, "spawn", "disable")
          /\ Fault
          /\ cursor' = enabled /\ restored' = TRUE /\ rollback' = TRUE
          /\ UNCHANGED <<locks, gameReady, status, lastError, fields, code, reply, taken,
                         threads, supported, calls>>

\* The diagnostics worker is optional.
SpawnProfiler(c) ==
    /\ Go(c, "profiler", "publish")
    /\ profiler' \in {"none", "run"}
    /\ UNCHANGED <<locks, statics, fields, code, reply, locals, config, env>>

Publish(c) ==
    /\ Return(c, "publish", "active")
    /\ active' = TRUE /\ status' = "active"
    /\ UNCHANGED <<stop, gameReady, lastError, attempted, integrity, handler, enabled,
                   workerHandle, code, locals, threads, env>>

\* The rolled back attempt is answered, now and in later calls, by its error.
KeepError(c) ==
    /\ Return(c, "error", "failed")
    /\ lastError' = TRUE
    /\ UNCHANGED <<stop, gameReady, status, fields, code, locals, threads, env>>

-----------------------------------------------------------------------------
(* State::deactivate.                                                      *)

\* Hooks from the last to the first; one that cannot be disabled stays.
Disable(c) ==
    \/ /\ pc[c] = "disable" /\ cursor > 0
       /\ cursor' = cursor - 1
       /\ \/ live' = live \ {cursor} /\ UNCHANGED <<restored, faults>>
          \/ Fault /\ restored' = FALSE /\ UNCHANGED live
       /\ UNCHANGED <<locks, statics, fields, applied, pc, reply, rollback, taken, threads,
                      supported, calls>>
    \/ /\ Go(c, "disable", "restore") /\ cursor = 0
       /\ cursor' = Patches
       /\ UNCHANGED <<locks, statics, fields, code, reply, restored, rollback, taken,
                      threads, env>>

\* Patches from the last to the first, those whose bytes are in place.
Restore(c) ==
    \/ /\ pc[c] = "restore" /\ cursor > 0
       /\ cursor' = cursor - 1
       /\ \/ applied' = applied \ {cursor} /\ UNCHANGED <<restored, faults>>
          \/ /\ cursor \in applied /\ Fault /\ restored' = FALSE
             /\ applied' \in {applied, applied \ {cursor}}
       /\ UNCHANGED <<locks, statics, fields, live, pc, reply, rollback, taken, threads,
                      supported, calls>>
    \/ /\ Go(c, "restore", "quiet") /\ cursor = 0
       /\ UNCHANGED <<locks, statics, fields, code, reply, locals, threads, env>>

Quiet(c) ==
    /\ Go(c, "quiet", "unhandle")
    /\ gameReady' = FALSE
    /\ UNCHANGED <<locks, stop, status, lastError, fields, code, reply, locals, threads, env>>

\* Mutant: the handler is deactivated whatever happened.
UnhandleAlways(c) ==
    /\ Go(c, "unhandle", "unpatch")
    /\ handler' = IF handler = "active" THEN "inactive" ELSE handler
    /\ UNCHANGED <<locks, statics, attempted, active, integrity, enabled, workerHandle,
                   code, reply, locals, threads, env>>

\* The exception handler stays while something could not be restored.
Unhandle(c) ==
    /\ Go(c, "unhandle", "unpatch")
    /\ handler' = IF restored /\ handler = "active" THEN "inactive" ELSE handler
    /\ UNCHANGED <<locks, statics, attempted, active, integrity, enabled, workerHandle,
                   code, reply, locals, threads, env>>

\* The integrity checks come back only when a failed attempt left no trace.
Unpatch(c) ==
    /\ Go(c, "unpatch", "inactive")
    /\ \/ rollback /\ restored /\ integrity' = FALSE /\ UNCHANGED faults
       \/ rollback /\ restored /\ Fault /\ UNCHANGED integrity
       \/ ~(rollback /\ restored) /\ UNCHANGED <<integrity, faults>>
    /\ UNCHANGED <<locks, statics, attempted, active, handler, enabled, workerHandle,
                   code, reply, locals, threads, supported, calls>>

Inactive(c) ==
    /\ active' = FALSE
    /\ \/ /\ rollback /\ Go(c, "inactive", "error")
          /\ status' = "failed"
          /\ UNCHANGED <<locks, reply>>
       \/ /\ ~rollback /\ Return(c, "inactive", "none")
          /\ status' = "deactivated"
    /\ UNCHANGED <<stop, gameReady, lastError, attempted, integrity, handler, enabled,
                   workerHandle, code, locals, threads, env>>

-----------------------------------------------------------------------------
(* uninstall.                                                              *)

StoreStop(c) ==
    /\ Go(c, "stop", "take?")
    /\ stop' = TRUE
    /\ UNCHANGED <<locks, gameReady, status, lastError, fields, code, reply, locals,
                   threads, env>>

\* The join handles are taken under STATE, which is released again.
TakeHandles(c) ==
    /\ Go(c, "take", "join")
    /\ taken' = [taken EXCEPT ![c] = workerHandle]
    /\ workerHandle' = FALSE
    /\ state' = NoOne
    /\ UNCHANGED <<lifecycle, statics, attempted, active, integrity, handler, enabled,
                   code, reply, cursor, restored, rollback, threads, env>>

\* Mutant: the handles are dropped, which detaches the threads.
Detach(c) ==
    /\ Go(c, "join", "state2")
    /\ taken' = [taken EXCEPT ![c] = FALSE]
    /\ UNCHANGED <<locks, statics, fields, code, reply, cursor, restored, rollback,
                   threads, env>>

Join(c) ==
    /\ Go(c, "join", "state2")
    /\ taken[c] => config = "ended" /\ profiler # "run"
    /\ taken' = [taken EXCEPT ![c] = FALSE]
    /\ UNCHANGED <<locks, statics, fields, code, reply, cursor, restored, rollback,
                   threads, env>>

CheckActive(c) ==
    \/ /\ Go(c, "check", "disable")
       /\ active
       /\ cursor' = enabled /\ restored' = TRUE /\ rollback' = FALSE
       /\ UNCHANGED <<locks, statics, fields, code, reply, taken, threads, env>>
    \/ /\ Return(c, "check", "none")
       /\ ~active
       /\ UNCHANGED <<statics, fields, code, locals, threads, env>>

-----------------------------------------------------------------------------
(* The workers.                                                            *)

ConfigStep(from, to) ==
    /\ config = from /\ config' = to
    /\ UNCHANGED <<lifecycle, statics, fields, code, pc, reply, locals, profiler, env>>

\* while !STOP; the sleep is cut short by STOP as well.
ConfigCheck == ConfigStep("check", IF stop THEN "ended" ELSE "try") /\ UNCHANGED state

\* STATE.try_lock(): Integrity::maintain runs under the lock, or is left out.
ConfigTryLock ==
    \/ ConfigStep("try", "maintain") /\ state = NoOne /\ state' = Worker
    \/ ConfigStep("try", "poll") /\ state # NoOne /\ UNCHANGED state

ConfigMaintain == ConfigStep("maintain", "poll") /\ state' = NoOne

\* Watcher::poll applies a changed configuration to the game.
ConfigPoll == ConfigStep("poll", "check") /\ UNCHANGED state

ProfilerStep ==
    /\ profiler = "run" /\ stop
    /\ profiler' = "ended"
    /\ UNCHANGED <<locks, statics, fields, code, pc, reply, locals, config, env>>

-----------------------------------------------------------------------------
Start(c) == \/ InstallIntegrity(c) \/ InstallHandler(c) \/ Prepare(c) \/ Apply(c) \/ Enable(c)
            \/ GameReady(c) \/ Spawn(c) \/ SpawnProfiler(c) \/ Publish(c) \/ KeepError(c)
Deactivate(c) == Disable(c) \/ Restore(c) \/ Quiet(c) \/ Unhandle(c) \/ Unpatch(c) \/ Inactive(c)
Uninstall(c) == StoreStop(c) \/ TakeHandles(c) \/ Join(c) \/ CheckActive(c)

Running(c) == Decide(c) \/ Start(c) \/ Deactivate(c) \/ Uninstall(c)
Config == ConfigCheck \/ ConfigTryLock \/ ConfigMaintain \/ ConfigPoll

Next ==
    \/ \E c \in Callers : Call(c) \/ LockLifecycle(c) \/ LockState(c) \/ Running(c)
    \/ Config \/ ProfilerStep

Spec == Init /\ [][Next]_vars

\* Every thread is scheduled.  A mutex that is released again and again is
\* obtained in the end: the worker, which holds STATE briefly, sleeps for a
\* second after each turn, and calls do not go on for ever.
Fairness ==
    /\ \A c \in Callers : /\ WF_vars(Running(c))
                          /\ SF_vars(LockLifecycle(c)) /\ SF_vars(LockState(c))
    /\ WF_vars(Config) /\ WF_vars(ProfilerStep)

FairSpec == Spec /\ Fairness

-----------------------------------------------------------------------------
(* Properties.                                                             *)

\* Every variable keeps its type (State, statics, threads).
TypeOK ==
    /\ lifecycle \in Callers \cup {NoOne} /\ state \in Callers \cup {NoOne, Worker}
    /\ stop \in BOOLEAN /\ gameReady \in BOOLEAN /\ lastError \in BOOLEAN
    /\ status \in {"waiting", "active", "failed", "deactivated"}
    /\ attempted \in BOOLEAN /\ active \in BOOLEAN /\ integrity \in BOOLEAN
    /\ handler \in {"none", "active", "inactive"} /\ enabled \in 0..Hooks
    /\ workerHandle \in BOOLEAN
    /\ applied \subseteq 1..Patches /\ live \subseteq 1..Hooks
    /\ pc \in [Callers -> PC] /\ reply \in [Callers -> Replies]
    /\ cursor \in Nat /\ restored \in BOOLEAN /\ rollback \in BOOLEAN
    /\ taken \in [Callers -> BOOLEAN]
    /\ config \in {"none", "check", "try", "maintain", "poll", "ended"}
    /\ profiler \in {"none", "run", "ended"}
    /\ supported \in BOOLEAN /\ faults \in 0..MaxFaults /\ calls \in 0..MaxCalls

Modified == applied # {} \/ live # {}

\* At every moment the game runs with one of our hooks or patches in its code,
\* the exception handler that repairs the game's faults is active and the
\* game's integrity checks are disarmed, whatever fails (start, deactivate).
CoveredWhileModified == Modified => handler = "active" /\ integrity

Deactivating == \E c \in Callers : pc[c] \in DeactivatePC

\* ACTIVE is published with everything in place, and stays so until Unload
\* begins to take it back.
ActiveIsComplete ==
    status = "active" /\ ~Deactivating =>
        applied = 1..Patches /\ live = 1..Hooks /\ gameReady

\* Once DEACTIVATED or FAILED is published no worker of the DLL runs and the
\* game is not written to by later settings (uninstall joins before
\* deactivate).
QuietWhenOver ==
    status \in {"failed", "deactivated"} =>
        config \in {"none", "ended"} /\ profiler # "run" /\ ~gameReady

\* A bootstrap call answers with the word that passive polling reads, although
\* the two are kept apart (install_checked, T7PatchStatus).
RepliesAgree ==
    [][\A c \in Callers : reply'[c] # reply[c] /\ reply'[c] # "none" =>
            \/ reply'[c] = status'
            \/ reply'[c] = "unsupported" /\ status' = "waiting"]_vars

\* One attempt per game process, and no way back (PatchStatus).
OneShot == INSTANCE PatchStatus WITH patched <- Modified
PatchedOnce == OneShot!Spec

\* Every call of an export returns: the locks and the joins never leave the
\* caller, who may be a thread of the game, waiting for ever.
CallsReturn == \A c \in Callers : pc[c] # "idle" ~> pc[c] = "idle"
=============================================================================
