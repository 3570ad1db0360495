------------------------- MODULE PatchLifecycleProofs -------------------------
(***************************************************************************)
(* What PatchLifecycle promises for every number of threads, patches and   *)
(* hooks, proved with TLAPS.                                               *)
(*                                                                         *)
(* The inductive invariant IInv says who holds which mutex (Locking), that *)
(* a running worker is never without a join handle (Joins), that what is   *)
(* in the game's code is covered (CoveredWhileModified), and, for the one  *)
(* thread that holds LIFECYCLE, what each point of start and deactivate    *)
(* has already done (Phase).                                               *)
(***************************************************************************)
EXTENDS PatchLifecycle, TLAPS

Outside == {"idle", "install", "unload"}
Holding == {"decide", "error", "take", "check"} \cup StartPC \cup DeactivatePC
Calm    == {"state", "decide", "stop", "take?", "take", "join", "state2", "check"}

Locking ==
    /\ \A c \in Callers : lifecycle = c <=> pc[c] \notin Outside
    /\ \A c \in Callers : state = c <=> pc[c] \in Holding
    /\ state = Worker <=> config = "maintain"

WorkersQuiet == config \in {"none", "ended"} /\ profiler # "run"

Joins ==
    /\ \A c \in Callers : pc[c] = "join" => ~workerHandle /\ (taken[c] \/ WorkersQuiet)
    /\ WorkersQuiet \/ workerHandle \/ \E c \in Callers : pc[c] = "join"

Untouched == /\ ~attempted /\ ~active /\ ~lastError /\ ~integrity /\ handler = "none"
             /\ applied = {} /\ live = {} /\ enabled = 0
             /\ config = "none" /\ profiler = "none" /\ ~gameReady

Installed == /\ attempted /\ active /\ ~lastError /\ integrity /\ handler = "active"
             /\ applied = 1..Patches /\ live = 1..Hooks /\ enabled = Hooks
             /\ gameReady

Over == attempted /\ ~active /\ WorkersQuiet /\ ~gameReady

Stable == \/ status = "waiting" /\ Untouched
          \/ status = "active" /\ Installed
          \/ status = "failed" /\ lastError /\ Over
          \/ status = "deactivated" /\ ~lastError /\ Over

\* What holds when the holder of LIFECYCLE is at p, while State::start runs.
InStart(p) ==
    /\ p \in StartPC => attempted /\ ~active /\ ~lastError /\ status = "waiting"
    /\ p \in StartPC \ {"profiler", "publish"} => config = "none" /\ profiler = "none"
    /\ p \in {"integrity", "handler", "prepare"} =>
           applied = {} /\ live = {} /\ enabled = 0
    /\ p \in StartPC \ {"integrity"} => integrity
    /\ p \in StartPC \ {"integrity", "handler"} => handler = "active"
    /\ p = "apply" => /\ live = {} /\ enabled = 0
                      /\ cursor \in 1..Patches + 1 /\ applied = 1..(cursor - 1)
    /\ p = "enable" => /\ applied = 1..Patches
                       /\ cursor \in 1..Hooks + 1 /\ live = 1..(cursor - 1)
                       /\ enabled = cursor - 1
    /\ p \in {"ready", "spawn", "profiler", "publish"} =>
           applied = 1..Patches /\ live = 1..Hooks /\ enabled = Hooks
    /\ p \in {"spawn", "profiler", "publish"} => gameReady
    /\ p \in {"profiler", "publish"} => workerHandle

\* The same while State::deactivate runs.
InDeactivate(p) ==
    /\ p \in DeactivatePC =>
           /\ attempted /\ ~lastError /\ WorkersQuiet
           /\ rollback => ~active /\ status = "waiting"
           /\ ~rollback => active /\ status = "active"
    /\ p = "disable" => /\ cursor \in 0..Hooks
                        /\ live \subseteq 1..enabled
                        /\ restored => live \subseteq 1..cursor
    /\ p = "restore" => /\ cursor \in 0..Patches
                        /\ restored => live = {} /\ applied \subseteq 1..cursor
    /\ p \in {"quiet", "unhandle", "unpatch", "inactive"} => (restored => ~Modified)
    /\ p \in {"unhandle", "unpatch", "inactive", "error"} => ~gameReady
    /\ p = "error" => attempted /\ ~active /\ ~lastError /\ status = "failed" /\ WorkersQuiet

InPhase(p) ==
    /\ p \in Calm => Stable
    /\ p \in {"state2", "check"} => WorkersQuiet
    /\ InStart(p)
    /\ InDeactivate(p)

Phase == /\ lifecycle = NoOne => Stable
         /\ \A c \in Callers : lifecycle = c => InPhase(pc[c])

IInv == TypeOK /\ Locking /\ Joins /\ Phase /\ CoveredWhileModified

-----------------------------------------------------------------------------
(* The initial states.                                                     *)

LEMMA InitInvariant == Init => IInv
<1> SUFFICES ASSUME Init PROVE IInv
  OBVIOUS
<1> USE CallersAssumption, CountsAssumption, BoundsAssumption
<1>1. TypeOK
  <2>1. pc \in [Callers -> PC] /\ reply \in [Callers -> Replies]
    BY DEF Init, PC, Replies
  <2>2. /\ stop \in BOOLEAN /\ gameReady \in BOOLEAN /\ lastError \in BOOLEAN
        /\ attempted \in BOOLEAN /\ active \in BOOLEAN /\ integrity \in BOOLEAN
    BY DEF Init
  <2>3. /\ workerHandle \in BOOLEAN /\ restored \in BOOLEAN /\ rollback \in BOOLEAN
        /\ taken \in [Callers -> BOOLEAN]
    BY DEF Init
  <2> QED
    BY <2>1, <2>2, <2>3 DEF Init, TypeOK
<1>2. Locking
  BY DEF Init, Locking, Outside, Holding, StartPC, DeactivatePC
<1>3. Joins
  BY DEF Init, Joins, WorkersQuiet
<1>4. Phase
  BY DEF Init, Phase, Stable, Untouched
<1>5. CoveredWhileModified
  BY DEF Init, CoveredWhileModified, Modified
<1> QED
  BY <1>1, <1>2, <1>3, <1>4, <1>5 DEF IInv

-----------------------------------------------------------------------------
(* TypeOK. *)

LEMMA TypesCall ==
    ASSUME TypeOK, NEW c \in Callers, Call(c) \/ LockLifecycle(c) \/ LockState(c)
    PROVE  TypeOK'
<1> USE CallersAssumption, CountsAssumption, BoundsAssumption
<1>1. CASE Call(c)
  BY <1>1, SMTT(60) DEF Call, Go, vars, locks, statics, fields, code, locals, threads, env, TypeOK, PC, InstallPC, UnloadPC, StartPC, DeactivatePC, Replies
<1>2. CASE LockLifecycle(c)
  BY <1>2, SMTT(60) DEF LockLifecycle, Go, vars, locks, statics, fields, code, locals, threads, env, TypeOK, PC, InstallPC, UnloadPC, StartPC, DeactivatePC, Replies
<1>3. CASE LockState(c)
  BY <1>3, SMTT(60) DEF LockState, Go, vars, locks, statics, fields, code, locals, threads, env, TypeOK, PC, InstallPC, UnloadPC, StartPC, DeactivatePC, Replies
<1> QED
  BY <1>1, <1>2, <1>3

LEMMA TypesDecide ==
    ASSUME TypeOK, NEW c \in Callers, Decide(c)
    PROVE  TypeOK'
<1> USE CallersAssumption, CountsAssumption, BoundsAssumption
<1>1. CASE Repeat(c)
  BY <1>1, SMTT(60) DEF Repeat, Go, Return, vars, locks, statics, fields, code, locals, threads, env, TypeOK, PC, InstallPC, UnloadPC, StartPC, DeactivatePC, Replies
<1>2. CASE Refuse(c)
  BY <1>2, SMTT(60) DEF Refuse, Go, Return, vars, locks, statics, fields, code, locals, threads, env, TypeOK, PC, InstallPC, UnloadPC, StartPC, DeactivatePC, Replies
<1>3. CASE Attempt(c)
  BY <1>3, SMTT(60) DEF Attempt, Go, vars, locks, statics, fields, code, locals, threads, env, TypeOK, PC, InstallPC, UnloadPC, StartPC, DeactivatePC, Replies
<1> QED
  BY <1>1, <1>2, <1>3 DEF Decide

LEMMA TypesStart ==
    ASSUME TypeOK, NEW c \in Callers, Start(c)
    PROVE  TypeOK'
<1> USE CallersAssumption, CountsAssumption, BoundsAssumption
<1>1. CASE InstallIntegrity(c)
  <2>1. pc' \in [Callers -> PC]
    BY <1>1 DEF InstallIntegrity, Abort, Fault, Go, TypeOK, PC, InstallPC, UnloadPC, StartPC, DeactivatePC, locals, fields, code, env
  <2>2. integrity' \in BOOLEAN
    BY <1>1 DEF InstallIntegrity, Abort, Fault, TypeOK, fields, locals, code, env
  <2>3. cursor' \in Nat
    BY <1>1 DEF InstallIntegrity, Abort, Fault, TypeOK, locals, fields, code, env
  <2>4. restored' \in BOOLEAN
    BY <1>1 DEF InstallIntegrity, Abort, Fault, TypeOK, locals, fields, code, env
  <2>5. rollback' \in BOOLEAN
    BY <1>1 DEF InstallIntegrity, Abort, Fault, TypeOK, locals, fields, code, env
  <2>6. faults' \in 0..MaxFaults
    BY <1>1 DEF InstallIntegrity, Abort, Fault, TypeOK, env, locals, fields, code
  <2>7. UNCHANGED <<locks, statics, attempted, active, handler, enabled, workerHandle, code, reply, taken, threads, supported, calls>>
    BY <1>1 DEF InstallIntegrity, Abort, Fault, locks, statics, fields, code, locals, threads, env
  <2> QED
    BY <2>1, <2>2, <2>3, <2>4, <2>5, <2>6, <2>7 DEF TypeOK, locks, statics, code, threads
<1>2. CASE InstallHandler(c)
  <2>1. pc' \in [Callers -> PC]
    BY <1>2 DEF InstallHandler, Abort, Fault, Go, TypeOK, PC, InstallPC, UnloadPC, StartPC, DeactivatePC, locals, fields, code, env
  <2>2. handler' \in {"none", "active", "inactive"}
    BY <1>2 DEF InstallHandler, Abort, Fault, TypeOK, fields, locals, code, env
  <2>3. cursor' \in Nat
    BY <1>2 DEF InstallHandler, Abort, Fault, TypeOK, locals, fields, code, env
  <2>4. restored' \in BOOLEAN
    BY <1>2 DEF InstallHandler, Abort, Fault, TypeOK, locals, fields, code, env
  <2>5. rollback' \in BOOLEAN
    BY <1>2 DEF InstallHandler, Abort, Fault, TypeOK, locals, fields, code, env
  <2>6. faults' \in 0..MaxFaults
    BY <1>2 DEF InstallHandler, Abort, Fault, TypeOK, env, locals, fields, code
  <2>7. UNCHANGED <<locks, statics, attempted, active, integrity, enabled, workerHandle, code, reply, taken, threads, supported, calls>>
    BY <1>2 DEF InstallHandler, Abort, Fault, locks, statics, fields, code, locals, threads, env
  <2> QED
    BY <2>1, <2>2, <2>3, <2>4, <2>5, <2>6, <2>7 DEF TypeOK, locks, statics, code, threads
<1>3. CASE Prepare(c)
  <2>1. pc' \in [Callers -> PC]
    BY <1>3 DEF Prepare, Abort, Fault, Go, TypeOK, PC, InstallPC, UnloadPC, StartPC, DeactivatePC, locals, fields, code, env
  <2>2. cursor' \in Nat
    BY <1>3 DEF Prepare, Abort, Fault, TypeOK, locals, fields, code, env
  <2>3. restored' \in BOOLEAN
    BY <1>3 DEF Prepare, Abort, Fault, TypeOK, locals, fields, code, env
  <2>4. rollback' \in BOOLEAN
    BY <1>3 DEF Prepare, Abort, Fault, TypeOK, locals, fields, code, env
  <2>5. faults' \in 0..MaxFaults
    BY <1>3 DEF Prepare, Abort, Fault, TypeOK, env, locals, fields, code
  <2>6. UNCHANGED <<locks, statics, fields, code, reply, taken, threads, supported, calls>>
    BY <1>3 DEF Prepare, Abort, Fault, locks, statics, fields, code, locals, threads, env
  <2> QED
    BY <2>1, <2>2, <2>3, <2>4, <2>5, <2>6 DEF TypeOK, locks, statics, fields, code, threads
<1>4. CASE Apply(c)
  <2>1. pc' \in [Callers -> PC]
    BY <1>4 DEF Apply, Abort, Fault, Go, TypeOK, PC, InstallPC, UnloadPC, StartPC, DeactivatePC, locals, fields, code, env
  <2>2. applied' \subseteq 1..Patches
    BY <1>4 DEF Apply, Abort, Fault, TypeOK, code, locals, fields, env
  <2>3. cursor' \in Nat
    BY <1>4 DEF Apply, Abort, Fault, TypeOK, locals, fields, code, env
  <2>4. restored' \in BOOLEAN
    BY <1>4 DEF Apply, Abort, Fault, TypeOK, locals, fields, code, env
  <2>5. rollback' \in BOOLEAN
    BY <1>4 DEF Apply, Abort, Fault, TypeOK, locals, fields, code, env
  <2>6. faults' \in 0..MaxFaults
    BY <1>4 DEF Apply, Abort, Fault, TypeOK, env, locals, fields, code
  <2>7. UNCHANGED <<locks, statics, fields, live, reply, taken, threads, supported, calls>>
    BY <1>4 DEF Apply, Abort, Fault, locks, statics, fields, code, locals, threads, env
  <2> QED
    BY <2>1, <2>2, <2>3, <2>4, <2>5, <2>6, <2>7 DEF TypeOK, locks, statics, fields, threads
<1>5. CASE Enable(c)
  <2>1. pc' \in [Callers -> PC]
    BY <1>5 DEF Enable, Abort, Fault, Go, TypeOK, PC, InstallPC, UnloadPC, StartPC, DeactivatePC, locals, fields, code, env
  <2>2. live' \subseteq 1..Hooks
    BY <1>5 DEF Enable, Abort, Fault, TypeOK, code, locals, fields, env
  <2>3. enabled' \in 0..Hooks
    BY <1>5 DEF Enable, Abort, Fault, TypeOK, fields, locals, code, env
  <2>4. cursor' \in Nat
    BY <1>5 DEF Enable, Abort, Fault, TypeOK, locals, fields, code, env
  <2>5. restored' \in BOOLEAN
    BY <1>5 DEF Enable, Abort, Fault, TypeOK, locals, fields, code, env
  <2>6. rollback' \in BOOLEAN
    BY <1>5 DEF Enable, Abort, Fault, TypeOK, locals, fields, code, env
  <2>7. faults' \in 0..MaxFaults
    BY <1>5 DEF Enable, Abort, Fault, TypeOK, env, locals, fields, code
  <2>8. UNCHANGED <<locks, statics, attempted, active, integrity, handler, workerHandle, applied, reply, taken, threads, supported, calls>>
    BY <1>5 DEF Enable, Abort, Fault, locks, statics, fields, code, locals, threads, env
  <2> QED
    BY <2>1, <2>2, <2>3, <2>4, <2>5, <2>6, <2>7, <2>8 DEF TypeOK, locks, statics, threads
<1>6. CASE GameReady(c)
  BY <1>6, SMTT(60) DEF GameReady, Go, vars, locks, statics, fields, code, locals, threads, env, TypeOK, PC, InstallPC, UnloadPC, StartPC, DeactivatePC, Replies
<1>7. CASE Spawn(c)
  <2>1. pc' \in [Callers -> PC]
    BY <1>7 DEF Spawn, Fault, Go, TypeOK, PC, InstallPC, UnloadPC, StartPC, DeactivatePC, locals, fields, code, env
  <2>2. stop' \in BOOLEAN
    BY <1>7 DEF Spawn, Fault, TypeOK, statics, locals, fields, code, env
  <2>3. config' \in {"none", "check", "try", "maintain", "poll", "ended"}
    BY <1>7 DEF Spawn, Fault, TypeOK, threads, locals, fields, code, env
  <2>4. workerHandle' \in BOOLEAN
    BY <1>7 DEF Spawn, Fault, TypeOK, fields, locals, code, env
  <2>5. cursor' \in Nat
    BY <1>7 DEF Spawn, Fault, TypeOK, locals, fields, code, env
  <2>6. restored' \in BOOLEAN
    BY <1>7 DEF Spawn, Fault, TypeOK, locals, fields, code, env
  <2>7. rollback' \in BOOLEAN
    BY <1>7 DEF Spawn, Fault, TypeOK, locals, fields, code, env
  <2>8. faults' \in 0..MaxFaults
    BY <1>7 DEF Spawn, Fault, TypeOK, env, locals, fields, code
  <2>9. UNCHANGED <<locks, gameReady, status, lastError, attempted, active, integrity, handler, enabled, code, reply, taken, profiler, supported, calls>>
    BY <1>7 DEF Spawn, Fault, locks, statics, fields, code, locals, threads, env
  <2> QED
    BY <2>1, <2>2, <2>3, <2>4, <2>5, <2>6, <2>7, <2>8, <2>9 DEF TypeOK, locks, code
<1>8. CASE SpawnProfiler(c)
  BY <1>8, SMTT(60) DEF SpawnProfiler, Go, vars, locks, statics, fields, code, locals, threads, env, TypeOK, PC, InstallPC, UnloadPC, StartPC, DeactivatePC, Replies
<1>9. CASE Publish(c)
  BY <1>9, SMTT(60) DEF Publish, Go, Return, vars, locks, statics, fields, code, locals, threads, env, TypeOK, PC, InstallPC, UnloadPC, StartPC, DeactivatePC, Replies
<1>10. CASE KeepError(c)
  BY <1>10, SMTT(60) DEF KeepError, Go, Return, vars, locks, statics, fields, code, locals, threads, env, TypeOK, PC, InstallPC, UnloadPC, StartPC, DeactivatePC, Replies
<1> QED
  BY <1>1, <1>2, <1>3, <1>4, <1>5, <1>6, <1>7, <1>8, <1>9, <1>10 DEF Start

LEMMA TypesDeactivate ==
    ASSUME TypeOK, NEW c \in Callers, Deactivate(c)
    PROVE  TypeOK'
<1> USE CallersAssumption, CountsAssumption, BoundsAssumption
<1>1. CASE Disable(c)
  <2>1. pc' \in [Callers -> PC]
    BY <1>1 DEF Disable, Fault, Go, TypeOK, PC, InstallPC, UnloadPC, StartPC, DeactivatePC
  <2>2. live' \subseteq 1..Hooks
    BY <1>1 DEF Disable, Fault, TypeOK, code
  <2>3. cursor' \in Nat
    BY <1>1 DEF Disable, Fault, TypeOK, locals
  <2>4. restored' \in BOOLEAN
    BY <1>1 DEF Disable, Fault, TypeOK, locals
  <2>5. faults' \in 0..MaxFaults
    BY <1>1 DEF Disable, Fault, TypeOK, env
  <2>6. UNCHANGED <<locks, statics, fields, applied, reply, rollback, taken, threads, supported, calls>>
    BY <1>1 DEF Disable, Fault, locks, statics, fields, code, locals, threads, env
  <2> QED
    BY <2>1, <2>2, <2>3, <2>4, <2>5, <2>6 DEF TypeOK, locks, statics, fields, threads
<1>2. CASE Restore(c)
  <2>1. pc' \in [Callers -> PC]
    BY <1>2 DEF Restore, Fault, Go, TypeOK, PC, InstallPC, UnloadPC, StartPC, DeactivatePC
  <2>2. applied' \subseteq 1..Patches
    BY <1>2 DEF Restore, Fault, TypeOK, code
  <2>3. cursor' \in Nat
    BY <1>2 DEF Restore, Fault, TypeOK, locals
  <2>4. restored' \in BOOLEAN
    BY <1>2 DEF Restore, Fault, TypeOK, locals
  <2>5. faults' \in 0..MaxFaults
    BY <1>2 DEF Restore, Fault, TypeOK, env
  <2>6. UNCHANGED <<locks, statics, fields, live, reply, rollback, taken, threads, supported, calls>>
    BY <1>2 DEF Restore, Fault, locks, statics, fields, code, locals, threads, env
  <2> QED
    BY <2>1, <2>2, <2>3, <2>4, <2>5, <2>6 DEF TypeOK, locks, statics, fields, threads
<1>3. CASE Quiet(c)
  <2>1. pc' \in [Callers -> PC]
    BY <1>3 DEF Quiet, Go, TypeOK, PC, InstallPC, UnloadPC, StartPC, DeactivatePC
  <2>2. gameReady' \in BOOLEAN
    BY <1>3 DEF Quiet, TypeOK, statics
  <2>3. UNCHANGED <<locks, stop, status, lastError, fields, code, reply, locals, threads, env>>
    BY <1>3 DEF Quiet, locks, statics, fields, code, locals, threads, env
  <2> QED
    BY <2>1, <2>2, <2>3 DEF TypeOK, locks, fields, code, locals, threads, env
<1>4. CASE Unhandle(c)
  BY <1>4, SMTT(60) DEF Unhandle, Go, vars, locks, statics, fields, code, locals, threads, env, TypeOK, PC, InstallPC, UnloadPC, StartPC, DeactivatePC, Replies
<1>5. CASE Unpatch(c)
  <2>1. pc' \in [Callers -> PC]
    BY <1>5 DEF Unpatch, Fault, Go, TypeOK, PC, InstallPC, UnloadPC, StartPC, DeactivatePC
  <2>2. integrity' \in BOOLEAN
    BY <1>5 DEF Unpatch, Fault, TypeOK, fields
  <2>3. faults' \in 0..MaxFaults
    BY <1>5 DEF Unpatch, Fault, TypeOK, env
  <2>4. UNCHANGED <<locks, statics, attempted, active, handler, enabled, workerHandle, code, reply, locals, threads, supported, calls>>
    BY <1>5 DEF Unpatch, Fault, locks, statics, fields, code, locals, threads, env
  <2> QED
    BY <2>1, <2>2, <2>3, <2>4 DEF TypeOK, locks, statics, code, locals, threads
<1>6. CASE Inactive(c)
  <2>1. pc' \in [Callers -> PC]
    BY <1>6 DEF Inactive, Return, Go, TypeOK, PC, InstallPC, UnloadPC, StartPC, DeactivatePC
  <2>2. active' \in BOOLEAN
    BY <1>6 DEF Inactive, Return, TypeOK, fields
  <2>3. status' \in {"waiting", "active", "failed", "deactivated"}
    BY <1>6 DEF Inactive, Return, TypeOK, statics
  <2>4. lifecycle' \in Callers \cup {NoOne}
    BY <1>6 DEF Inactive, Return, TypeOK, locks
  <2>5. state' \in Callers \cup {NoOne, Worker}
    BY <1>6 DEF Inactive, Return, TypeOK, locks
  <2>6. reply' \in [Callers -> Replies]
    BY <1>6 DEF Inactive, Return, TypeOK, Replies
  <2>7. UNCHANGED <<stop, gameReady, lastError, attempted, integrity, handler, enabled, workerHandle, code, locals, threads, env>>
    BY <1>6 DEF Inactive, Return, locks, statics, fields, code, locals, threads, env
  <2> QED
    BY <2>1, <2>2, <2>3, <2>4, <2>5, <2>6, <2>7 DEF TypeOK, code, locals, threads, env
<1> QED
  BY <1>1, <1>2, <1>3, <1>4, <1>5, <1>6 DEF Deactivate

LEMMA TypesUninstall ==
    ASSUME TypeOK, NEW c \in Callers, Uninstall(c)
    PROVE  TypeOK'
<1> USE CallersAssumption, CountsAssumption, BoundsAssumption
<1>1. CASE StoreStop(c)
  BY <1>1, SMTT(60) DEF StoreStop, Go, vars, locks, statics, fields, code, locals, threads, env, TypeOK, PC, InstallPC, UnloadPC, StartPC, DeactivatePC, Replies
<1>2. CASE TakeHandles(c)
  <2>1. pc' \in [Callers -> PC]
    BY <1>2 DEF TakeHandles, Go, TypeOK, PC, InstallPC, UnloadPC, StartPC, DeactivatePC
  <2>2. taken' \in [Callers -> BOOLEAN]
    BY <1>2 DEF TakeHandles, TypeOK, locals
  <2>3. workerHandle' \in BOOLEAN
    BY <1>2 DEF TakeHandles, TypeOK, fields
  <2>4. state' \in Callers \cup {NoOne, Worker}
    BY <1>2 DEF TakeHandles, TypeOK, locks
  <2>5. UNCHANGED <<lifecycle, statics, attempted, active, integrity, handler, enabled, code, reply, cursor, restored, rollback, threads, env>>
    BY <1>2 DEF TakeHandles, locks, statics, fields, code, locals, threads, env
  <2> QED
    BY <2>1, <2>2, <2>3, <2>4, <2>5 DEF TypeOK, statics, code, threads, env
<1>3. CASE Join(c)
  BY <1>3, SMTT(60) DEF Join, Go, vars, locks, statics, fields, code, locals, threads, env, TypeOK, PC, InstallPC, UnloadPC, StartPC, DeactivatePC, Replies
<1>4. CASE CheckActive(c)
  <2>1. pc' \in [Callers -> PC]
    BY <1>4 DEF CheckActive, Return, Go, TypeOK, PC, InstallPC, UnloadPC, StartPC, DeactivatePC
  <2>2. lifecycle' \in Callers \cup {NoOne}
    BY <1>4 DEF CheckActive, Return, TypeOK, locks
  <2>3. state' \in Callers \cup {NoOne, Worker}
    BY <1>4 DEF CheckActive, Return, TypeOK, locks
  <2>4. reply' \in [Callers -> Replies]
    BY <1>4 DEF CheckActive, Return, TypeOK, Replies
  <2>5. cursor' \in Nat
    BY <1>4 DEF CheckActive, Return, TypeOK, locals
  <2>6. restored' \in BOOLEAN
    BY <1>4 DEF CheckActive, Return, TypeOK, locals
  <2>7. rollback' \in BOOLEAN
    BY <1>4 DEF CheckActive, Return, TypeOK, locals
  <2>8. UNCHANGED <<statics, fields, code, taken, threads, env>>
    BY <1>4 DEF CheckActive, Return, locks, statics, fields, code, locals, threads, env
  <2> QED
    BY <2>1, <2>2, <2>3, <2>4, <2>5, <2>6, <2>7, <2>8 DEF TypeOK, statics, fields, code, threads, env
<1> QED
  BY <1>1, <1>2, <1>3, <1>4 DEF Uninstall

LEMMA TypesWorkers ==
    ASSUME TypeOK, Config \/ ProfilerStep \/ UNCHANGED vars
    PROVE  TypeOK'
<1> USE CallersAssumption, CountsAssumption, BoundsAssumption
<1>1. CASE ConfigCheck
  BY <1>1, SMTT(60) DEF ConfigCheck, ConfigStep, vars, locks, statics, fields, code, locals, threads, env, TypeOK, PC, InstallPC, UnloadPC, StartPC, DeactivatePC, Replies
<1>2. CASE ConfigTryLock
  <2>1. state' \in Callers \cup {NoOne, Worker}
    BY <1>2 DEF ConfigTryLock, ConfigStep, TypeOK
  <2>2. config' \in {"maintain", "poll"}
    BY <1>2 DEF ConfigTryLock, ConfigStep
  <2>3. UNCHANGED <<lifecycle, statics, fields, code, pc, reply, locals, profiler, env>>
    BY <1>2 DEF ConfigTryLock, ConfigStep
  <2> QED
    BY <2>1, <2>2, <2>3 DEF TypeOK, statics, fields, code, locals, env
<1>3. CASE ConfigMaintain
  BY <1>3, SMTT(60) DEF ConfigMaintain, ConfigStep, vars, locks, statics, fields, code, locals, threads, env, TypeOK, PC, InstallPC, UnloadPC, StartPC, DeactivatePC, Replies
<1>4. CASE ConfigPoll
  BY <1>4, SMTT(60) DEF ConfigPoll, ConfigStep, vars, locks, statics, fields, code, locals, threads, env, TypeOK, PC, InstallPC, UnloadPC, StartPC, DeactivatePC, Replies
<1>5. CASE ProfilerStep
  BY <1>5, SMTT(60) DEF ProfilerStep, vars, locks, statics, fields, code, locals, threads, env, TypeOK, PC, InstallPC, UnloadPC, StartPC, DeactivatePC, Replies
<1>6. CASE UNCHANGED vars
  BY <1>6, SMTT(60) DEF vars, locks, statics, fields, code, locals, threads, env, TypeOK, PC, InstallPC, UnloadPC, StartPC, DeactivatePC, Replies
<1> QED
  BY <1>1, <1>2, <1>3, <1>4, <1>5, <1>6 DEF Config

-----------------------------------------------------------------------------
(* Locking. *)

LEMMA LocksCall ==
    ASSUME TypeOK, Locking, NEW c \in Callers, Call(c) \/ LockLifecycle(c) \/ LockState(c)
    PROVE  Locking'
<1> USE CallersAssumption, CountsAssumption, BoundsAssumption
<1>1. CASE Call(c)
  BY <1>1, SMTT(60) DEF Call, Go, vars, locks, statics, fields, code, locals, threads, env, TypeOK, Locking, Outside, Holding, StartPC, DeactivatePC
<1>2. CASE LockLifecycle(c)
  BY <1>2, SMTT(60) DEF LockLifecycle, Go, vars, locks, statics, fields, code, locals, threads, env, TypeOK, Locking, Outside, Holding, StartPC, DeactivatePC
<1>3. CASE LockState(c)
  BY <1>3, SMTT(60) DEF LockState, Go, vars, locks, statics, fields, code, locals, threads, env, TypeOK, Locking, Outside, Holding, StartPC, DeactivatePC
<1> QED
  BY <1>1, <1>2, <1>3

LEMMA LocksDecide ==
    ASSUME TypeOK, Locking, NEW c \in Callers, Decide(c)
    PROVE  Locking'
<1> USE CallersAssumption, CountsAssumption, BoundsAssumption
<1>1. CASE Repeat(c)
  BY <1>1, SMTT(60) DEF Repeat, Go, Return, vars, locks, statics, fields, code, locals, threads, env, TypeOK, Locking, Outside, Holding, StartPC, DeactivatePC
<1>2. CASE Refuse(c)
  BY <1>2, SMTT(60) DEF Refuse, Go, Return, vars, locks, statics, fields, code, locals, threads, env, TypeOK, Locking, Outside, Holding, StartPC, DeactivatePC
<1>3. CASE Attempt(c)
  BY <1>3, SMTT(60) DEF Attempt, Go, vars, locks, statics, fields, code, locals, threads, env, TypeOK, Locking, Outside, Holding, StartPC, DeactivatePC
<1> QED
  BY <1>1, <1>2, <1>3 DEF Decide

LEMMA LocksStart ==
    ASSUME TypeOK, Locking, NEW c \in Callers, Start(c)
    PROVE  Locking'
<1> USE CallersAssumption, CountsAssumption, BoundsAssumption
<1>1. CASE InstallIntegrity(c)
  BY <1>1, SMTT(60) DEF InstallIntegrity, Go, Abort, Fault, vars, locks, statics, fields, code, locals, threads, env, TypeOK, Locking, Outside, Holding, StartPC, DeactivatePC
<1>2. CASE InstallHandler(c)
  BY <1>2, SMTT(60) DEF InstallHandler, Go, Abort, Fault, vars, locks, statics, fields, code, locals, threads, env, TypeOK, Locking, Outside, Holding, StartPC, DeactivatePC
<1>3. CASE Prepare(c)
  BY <1>3, SMTT(60) DEF Prepare, Go, Abort, Fault, vars, locks, statics, fields, code, locals, threads, env, TypeOK, Locking, Outside, Holding, StartPC, DeactivatePC
<1>4. CASE Apply(c)
  BY <1>4, SMTT(60) DEF Apply, Go, Abort, Fault, vars, locks, statics, fields, code, locals, threads, env, TypeOK, Locking, Outside, Holding, StartPC, DeactivatePC
<1>5. CASE Enable(c)
  BY <1>5, SMTT(60) DEF Enable, Go, Abort, Fault, vars, locks, statics, fields, code, locals, threads, env, TypeOK, Locking, Outside, Holding, StartPC, DeactivatePC
<1>6. CASE GameReady(c)
  BY <1>6, SMTT(60) DEF GameReady, Go, vars, locks, statics, fields, code, locals, threads, env, TypeOK, Locking, Outside, Holding, StartPC, DeactivatePC
<1>7. CASE Spawn(c)
  BY <1>7, SMTT(60) DEF Spawn, Go, Fault, vars, locks, statics, fields, code, locals, threads, env, TypeOK, Locking, Outside, Holding, StartPC, DeactivatePC
<1>8. CASE SpawnProfiler(c)
  BY <1>8, SMTT(60) DEF SpawnProfiler, Go, vars, locks, statics, fields, code, locals, threads, env, TypeOK, Locking, Outside, Holding, StartPC, DeactivatePC
<1>9. CASE Publish(c)
  BY <1>9, SMTT(60) DEF Publish, Go, Return, vars, locks, statics, fields, code, locals, threads, env, TypeOK, Locking, Outside, Holding, StartPC, DeactivatePC
<1>10. CASE KeepError(c)
  BY <1>10, SMTT(60) DEF KeepError, Go, Return, vars, locks, statics, fields, code, locals, threads, env, TypeOK, Locking, Outside, Holding, StartPC, DeactivatePC
<1> QED
  BY <1>1, <1>2, <1>3, <1>4, <1>5, <1>6, <1>7, <1>8, <1>9, <1>10 DEF Start

LEMMA LocksDeactivate ==
    ASSUME TypeOK, Locking, NEW c \in Callers, Deactivate(c)
    PROVE  Locking'
<1> USE CallersAssumption, CountsAssumption, BoundsAssumption
<1>1. CASE Disable(c)
  BY <1>1, SMTT(60) DEF Disable, Go, Fault, vars, locks, statics, fields, code, locals, threads, env, TypeOK, Locking, Outside, Holding, StartPC, DeactivatePC
<1>2. CASE Restore(c)
  BY <1>2, SMTT(60) DEF Restore, Go, Fault, vars, locks, statics, fields, code, locals, threads, env, TypeOK, Locking, Outside, Holding, StartPC, DeactivatePC
<1>3. CASE Quiet(c)
  BY <1>3, SMTT(60) DEF Quiet, Go, vars, locks, statics, fields, code, locals, threads, env, TypeOK, Locking, Outside, Holding, StartPC, DeactivatePC
<1>4. CASE Unhandle(c)
  BY <1>4, SMTT(60) DEF Unhandle, Go, vars, locks, statics, fields, code, locals, threads, env, TypeOK, Locking, Outside, Holding, StartPC, DeactivatePC
<1>5. CASE Unpatch(c)
  BY <1>5, SMTT(60) DEF Unpatch, Go, Fault, vars, locks, statics, fields, code, locals, threads, env, TypeOK, Locking, Outside, Holding, StartPC, DeactivatePC
<1>6. CASE Inactive(c)
  BY <1>6, SMTT(60) DEF Inactive, Go, Return, vars, locks, statics, fields, code, locals, threads, env, TypeOK, Locking, Outside, Holding, StartPC, DeactivatePC
<1> QED
  BY <1>1, <1>2, <1>3, <1>4, <1>5, <1>6 DEF Deactivate

LEMMA LocksUninstall ==
    ASSUME TypeOK, Locking, NEW c \in Callers, Uninstall(c)
    PROVE  Locking'
<1> USE CallersAssumption, CountsAssumption, BoundsAssumption
<1>1. CASE StoreStop(c)
  BY <1>1, SMTT(60) DEF StoreStop, Go, vars, locks, statics, fields, code, locals, threads, env, TypeOK, Locking, Outside, Holding, StartPC, DeactivatePC
<1>2. CASE TakeHandles(c)
  BY <1>2, SMTT(60) DEF TakeHandles, Go, vars, locks, statics, fields, code, locals, threads, env, TypeOK, Locking, Outside, Holding, StartPC, DeactivatePC
<1>3. CASE Join(c)
  BY <1>3, SMTT(60) DEF Join, Go, vars, locks, statics, fields, code, locals, threads, env, TypeOK, Locking, Outside, Holding, StartPC, DeactivatePC
<1>4. CASE CheckActive(c)
  BY <1>4, SMTT(60) DEF CheckActive, Go, Return, vars, locks, statics, fields, code, locals, threads, env, TypeOK, Locking, Outside, Holding, StartPC, DeactivatePC
<1> QED
  BY <1>1, <1>2, <1>3, <1>4 DEF Uninstall

LEMMA LocksWorkers ==
    ASSUME TypeOK, Locking, Config \/ ProfilerStep \/ UNCHANGED vars
    PROVE  Locking'
<1> USE CallersAssumption, CountsAssumption, BoundsAssumption
<1>1. CASE ConfigCheck
  BY <1>1, SMTT(60) DEF ConfigCheck, ConfigStep, vars, locks, statics, fields, code, locals, threads, env, TypeOK, Locking, Outside, Holding, StartPC, DeactivatePC
<1>2. CASE ConfigTryLock
  BY <1>2, SMTT(60) DEF ConfigTryLock, ConfigStep, vars, locks, statics, fields, code, locals, threads, env, TypeOK, Locking, Outside, Holding, StartPC, DeactivatePC
<1>3. CASE ConfigMaintain
  BY <1>3, SMTT(60) DEF ConfigMaintain, ConfigStep, vars, locks, statics, fields, code, locals, threads, env, TypeOK, Locking, Outside, Holding, StartPC, DeactivatePC
<1>4. CASE ConfigPoll
  BY <1>4, SMTT(60) DEF ConfigPoll, ConfigStep, vars, locks, statics, fields, code, locals, threads, env, TypeOK, Locking, Outside, Holding, StartPC, DeactivatePC
<1>5. CASE ProfilerStep
  BY <1>5, SMTT(60) DEF ProfilerStep, vars, locks, statics, fields, code, locals, threads, env, TypeOK, Locking, Outside, Holding, StartPC, DeactivatePC
<1>6. CASE UNCHANGED vars
  BY <1>6, SMTT(60) DEF vars, locks, statics, fields, code, locals, threads, env, TypeOK, Locking, Outside, Holding, StartPC, DeactivatePC
<1> QED
  BY <1>1, <1>2, <1>3, <1>4, <1>5, <1>6 DEF Config

-----------------------------------------------------------------------------
(* Joins. *)

LEMMA JoinsCall ==
    ASSUME TypeOK, Locking, Joins, Phase, NEW c \in Callers, Call(c) \/ LockLifecycle(c) \/ LockState(c)
    PROVE  Joins'
<1> USE CallersAssumption, CountsAssumption, BoundsAssumption
<1>1. CASE Call(c)
  BY <1>1, SMTT(60) DEF Call, Go, vars, locks, statics, fields, code, locals, threads, env, TypeOK, Locking, Joins, Phase, InPhase, InStart, InDeactivate, WorkersQuiet, Outside, Holding, StartPC, DeactivatePC
<1>2. CASE LockLifecycle(c)
  BY <1>2, SMTT(60) DEF LockLifecycle, Go, vars, locks, statics, fields, code, locals, threads, env, TypeOK, Locking, Joins, Phase, InPhase, InStart, InDeactivate, WorkersQuiet, Outside, Holding, StartPC, DeactivatePC
<1>3. CASE LockState(c)
  BY <1>3, SMTT(60) DEF LockState, Go, vars, locks, statics, fields, code, locals, threads, env, TypeOK, Locking, Joins, Phase, InPhase, InStart, InDeactivate, WorkersQuiet, Outside, Holding, StartPC, DeactivatePC
<1> QED
  BY <1>1, <1>2, <1>3

LEMMA JoinsDecide ==
    ASSUME TypeOK, Locking, Joins, Phase, NEW c \in Callers, Decide(c)
    PROVE  Joins'
<1> USE CallersAssumption, CountsAssumption, BoundsAssumption
<1>1. CASE Repeat(c)
  BY <1>1, SMTT(60) DEF Repeat, Go, Return, vars, locks, statics, fields, code, locals, threads, env, TypeOK, Locking, Joins, Phase, InPhase, InStart, InDeactivate, WorkersQuiet, Outside, Holding, StartPC, DeactivatePC
<1>2. CASE Refuse(c)
  BY <1>2, SMTT(60) DEF Refuse, Go, Return, vars, locks, statics, fields, code, locals, threads, env, TypeOK, Locking, Joins, Phase, InPhase, InStart, InDeactivate, WorkersQuiet, Outside, Holding, StartPC, DeactivatePC
<1>3. CASE Attempt(c)
  BY <1>3, SMTT(60) DEF Attempt, Go, vars, locks, statics, fields, code, locals, threads, env, TypeOK, Locking, Joins, Phase, InPhase, InStart, InDeactivate, WorkersQuiet, Outside, Holding, StartPC, DeactivatePC
<1> QED
  BY <1>1, <1>2, <1>3 DEF Decide

LEMMA JoinsStart ==
    ASSUME TypeOK, Locking, Joins, Phase, NEW c \in Callers, Start(c)
    PROVE  Joins'
<1> USE CallersAssumption, CountsAssumption, BoundsAssumption
<1>1. CASE InstallIntegrity(c)
  BY <1>1, SMTT(60) DEF InstallIntegrity, Go, Abort, Fault, vars, locks, statics, fields, code, locals, threads, env, TypeOK, Locking, Joins, Phase, InPhase, InStart, InDeactivate, WorkersQuiet, Outside, Holding, StartPC, DeactivatePC
<1>2. CASE InstallHandler(c)
  BY <1>2, SMTT(60) DEF InstallHandler, Go, Abort, Fault, vars, locks, statics, fields, code, locals, threads, env, TypeOK, Locking, Joins, Phase, InPhase, InStart, InDeactivate, WorkersQuiet, Outside, Holding, StartPC, DeactivatePC
<1>3. CASE Prepare(c)
  BY <1>3, SMTT(60) DEF Prepare, Go, Abort, Fault, vars, locks, statics, fields, code, locals, threads, env, TypeOK, Locking, Joins, Phase, InPhase, InStart, InDeactivate, WorkersQuiet, Outside, Holding, StartPC, DeactivatePC
<1>4. CASE Apply(c)
  BY <1>4, SMTT(60) DEF Apply, Go, Abort, Fault, vars, locks, statics, fields, code, locals, threads, env, TypeOK, Locking, Joins, Phase, InPhase, InStart, InDeactivate, WorkersQuiet, Outside, Holding, StartPC, DeactivatePC
<1>5. CASE Enable(c)
  BY <1>5, SMTT(60) DEF Enable, Go, Abort, Fault, vars, locks, statics, fields, code, locals, threads, env, TypeOK, Locking, Joins, Phase, InPhase, InStart, InDeactivate, WorkersQuiet, Outside, Holding, StartPC, DeactivatePC
<1>6. CASE GameReady(c)
  BY <1>6, SMTT(60) DEF GameReady, Go, vars, locks, statics, fields, code, locals, threads, env, TypeOK, Locking, Joins, Phase, InPhase, InStart, InDeactivate, WorkersQuiet, Outside, Holding, StartPC, DeactivatePC
<1>7. CASE Spawn(c)
  BY <1>7, SMTT(60) DEF Spawn, Go, Fault, vars, locks, statics, fields, code, locals, threads, env, TypeOK, Locking, Joins, Phase, InPhase, InStart, InDeactivate, WorkersQuiet, Outside, Holding, StartPC, DeactivatePC
<1>8. CASE SpawnProfiler(c)
  BY <1>8, SMTT(60) DEF SpawnProfiler, Go, vars, locks, statics, fields, code, locals, threads, env, TypeOK, Locking, Joins, Phase, InPhase, InStart, InDeactivate, WorkersQuiet, Outside, Holding, StartPC, DeactivatePC
<1>9. CASE Publish(c)
  BY <1>9, SMTT(60) DEF Publish, Go, Return, vars, locks, statics, fields, code, locals, threads, env, TypeOK, Locking, Joins, Phase, InPhase, InStart, InDeactivate, WorkersQuiet, Outside, Holding, StartPC, DeactivatePC
<1>10. CASE KeepError(c)
  BY <1>10, SMTT(60) DEF KeepError, Go, Return, vars, locks, statics, fields, code, locals, threads, env, TypeOK, Locking, Joins, Phase, InPhase, InStart, InDeactivate, WorkersQuiet, Outside, Holding, StartPC, DeactivatePC
<1> QED
  BY <1>1, <1>2, <1>3, <1>4, <1>5, <1>6, <1>7, <1>8, <1>9, <1>10 DEF Start

LEMMA JoinsDeactivate ==
    ASSUME TypeOK, Locking, Joins, Phase, NEW c \in Callers, Deactivate(c)
    PROVE  Joins'
<1> USE CallersAssumption, CountsAssumption, BoundsAssumption
<1>1. CASE Disable(c)
  BY <1>1, SMTT(60) DEF Disable, Go, Fault, vars, locks, statics, fields, code, locals, threads, env, TypeOK, Locking, Joins, Phase, InPhase, InStart, InDeactivate, WorkersQuiet, Outside, Holding, StartPC, DeactivatePC
<1>2. CASE Restore(c)
  BY <1>2, SMTT(60) DEF Restore, Go, Fault, vars, locks, statics, fields, code, locals, threads, env, TypeOK, Locking, Joins, Phase, InPhase, InStart, InDeactivate, WorkersQuiet, Outside, Holding, StartPC, DeactivatePC
<1>3. CASE Quiet(c)
  BY <1>3, SMTT(60) DEF Quiet, Go, vars, locks, statics, fields, code, locals, threads, env, TypeOK, Locking, Joins, Phase, InPhase, InStart, InDeactivate, WorkersQuiet, Outside, Holding, StartPC, DeactivatePC
<1>4. CASE Unhandle(c)
  BY <1>4, SMTT(60) DEF Unhandle, Go, vars, locks, statics, fields, code, locals, threads, env, TypeOK, Locking, Joins, Phase, InPhase, InStart, InDeactivate, WorkersQuiet, Outside, Holding, StartPC, DeactivatePC
<1>5. CASE Unpatch(c)
  BY <1>5, SMTT(60) DEF Unpatch, Go, Fault, vars, locks, statics, fields, code, locals, threads, env, TypeOK, Locking, Joins, Phase, InPhase, InStart, InDeactivate, WorkersQuiet, Outside, Holding, StartPC, DeactivatePC
<1>6. CASE Inactive(c)
  BY <1>6, SMTT(60) DEF Inactive, Go, Return, vars, locks, statics, fields, code, locals, threads, env, TypeOK, Locking, Joins, Phase, InPhase, InStart, InDeactivate, WorkersQuiet, Outside, Holding, StartPC, DeactivatePC
<1> QED
  BY <1>1, <1>2, <1>3, <1>4, <1>5, <1>6 DEF Deactivate

LEMMA JoinsUninstall ==
    ASSUME TypeOK, Locking, Joins, Phase, NEW c \in Callers, Uninstall(c)
    PROVE  Joins'
<1> USE CallersAssumption, CountsAssumption, BoundsAssumption
<1>1. CASE StoreStop(c)
  BY <1>1, SMTT(60) DEF StoreStop, Go, vars, locks, statics, fields, code, locals, threads, env, TypeOK, Locking, Joins, Phase, InPhase, InStart, InDeactivate, WorkersQuiet, Outside, Holding, StartPC, DeactivatePC
<1>2. CASE TakeHandles(c)
  BY <1>2, SMTT(60) DEF TakeHandles, Go, vars, locks, statics, fields, code, locals, threads, env, TypeOK, Locking, Joins, Phase, InPhase, InStart, InDeactivate, WorkersQuiet, Outside, Holding, StartPC, DeactivatePC
<1>3. CASE Join(c)
  BY <1>3, SMTT(60) DEF Join, Go, vars, locks, statics, fields, code, locals, threads, env, TypeOK, Locking, Joins, Phase, InPhase, InStart, InDeactivate, WorkersQuiet, Outside, Holding, StartPC, DeactivatePC
<1>4. CASE CheckActive(c)
  BY <1>4, SMTT(60) DEF CheckActive, Go, Return, vars, locks, statics, fields, code, locals, threads, env, TypeOK, Locking, Joins, Phase, InPhase, InStart, InDeactivate, WorkersQuiet, Outside, Holding, StartPC, DeactivatePC
<1> QED
  BY <1>1, <1>2, <1>3, <1>4 DEF Uninstall

LEMMA JoinsWorkers ==
    ASSUME TypeOK, Locking, Joins, Phase, Config \/ ProfilerStep \/ UNCHANGED vars
    PROVE  Joins'
<1> USE CallersAssumption, CountsAssumption, BoundsAssumption
<1>1. CASE ConfigCheck
  BY <1>1, SMTT(60) DEF ConfigCheck, ConfigStep, vars, locks, statics, fields, code, locals, threads, env, TypeOK, Locking, Joins, Phase, InPhase, InStart, InDeactivate, WorkersQuiet, Outside, Holding, StartPC, DeactivatePC
<1>2. CASE ConfigTryLock
  BY <1>2, SMTT(60) DEF ConfigTryLock, ConfigStep, vars, locks, statics, fields, code, locals, threads, env, TypeOK, Locking, Joins, Phase, InPhase, InStart, InDeactivate, WorkersQuiet, Outside, Holding, StartPC, DeactivatePC
<1>3. CASE ConfigMaintain
  BY <1>3, SMTT(60) DEF ConfigMaintain, ConfigStep, vars, locks, statics, fields, code, locals, threads, env, TypeOK, Locking, Joins, Phase, InPhase, InStart, InDeactivate, WorkersQuiet, Outside, Holding, StartPC, DeactivatePC
<1>4. CASE ConfigPoll
  BY <1>4, SMTT(60) DEF ConfigPoll, ConfigStep, vars, locks, statics, fields, code, locals, threads, env, TypeOK, Locking, Joins, Phase, InPhase, InStart, InDeactivate, WorkersQuiet, Outside, Holding, StartPC, DeactivatePC
<1>5. CASE ProfilerStep
  BY <1>5, SMTT(60) DEF ProfilerStep, vars, locks, statics, fields, code, locals, threads, env, TypeOK, Locking, Joins, Phase, InPhase, InStart, InDeactivate, WorkersQuiet, Outside, Holding, StartPC, DeactivatePC
<1>6. CASE UNCHANGED vars
  BY <1>6, SMTT(60) DEF vars, locks, statics, fields, code, locals, threads, env, TypeOK, Locking, Joins, Phase, InPhase, InStart, InDeactivate, WorkersQuiet, Outside, Holding, StartPC, DeactivatePC
<1> QED
  BY <1>1, <1>2, <1>3, <1>4, <1>5, <1>6 DEF Config

-----------------------------------------------------------------------------
(* Phase. *)

\* The holder of LIFECYCLE goes from one point to another.
LEMMA PhaseMove ==
    ASSUME TypeOK, Locking, NEW c \in Callers, NEW from, NEW to, Go(c, from, to),
           from \notin Outside, UNCHANGED lifecycle, InPhase(to)'
    PROVE  Phase'
<1>1. lifecycle' = c /\ c # NoOne
  BY CallersAssumption DEF Locking, Go
<1>2. pc'[c] = to
  BY DEF Go, TypeOK
<1>3. ASSUME NEW d \in Callers, lifecycle' = d PROVE InPhase(pc[d])'
  <2>1. d = c
    BY <1>1, <1>3
  <2>2. pc'[d] = to
    BY <2>1, <1>2
  <2> QED
    BY <2>2 DEF InPhase, InStart, InDeactivate, Stable, Untouched, Installed, Over, WorkersQuiet, Modified
<1> QED
  BY <1>1, <1>3 DEF Phase

\* It stays where it is, inside a loop.
LEMMA PhaseStay ==
    ASSUME TypeOK, Locking, NEW c \in Callers, pc[c] \notin Outside, UNCHANGED <<lifecycle, pc>>,
           NEW at, pc[c] = at, InPhase(at)'
    PROVE  Phase'
<1>1. lifecycle' = c /\ c # NoOne
  BY CallersAssumption DEF Locking
<1>3. ASSUME NEW d \in Callers, lifecycle' = d PROVE InPhase(pc[d])'
  <2>1. d = c
    BY <1>1, <1>3
  <2>2. pc'[d] = at
    BY <2>1
  <2> QED
    BY <2>2 DEF InPhase, InStart, InDeactivate, Stable, Untouched, Installed, Over, WorkersQuiet, Modified
<1> QED
  BY <1>1, <1>3 DEF Phase

LEMMA PhaseAt ==
    ASSUME Locking, Phase, NEW c \in Callers, NEW from, pc[c] = from, from \notin Outside
    PROVE  InPhase(from)
BY DEF Locking, Phase

\* deactivate(true) begins with the hooks that start has enabled.
LEMMA AbortPhase ==
    ASSUME TypeOK, Locking, Phase, NEW c \in Callers, NEW from \in StartPC \ {"profiler", "publish"},
           Abort(c, from)
    PROVE  Phase'
<1>1. InPhase(from) /\ from \notin Outside
  <2>1. pc[c] = from /\ from \notin Outside
    BY DEF Abort, Go, StartPC, Outside
  <2> QED
    BY <2>1, PhaseAt
<1>2. /\ attempted /\ ~active /\ ~lastError /\ status = "waiting"
      /\ config = "none" /\ profiler = "none"
  BY <1>1 DEF InPhase, InStart
<1>3. enabled \in 0..Hooks /\ live \subseteq 1..enabled
  BY <1>1, CountsAssumption DEF InPhase, InStart, StartPC, TypeOK
<1>4. InPhase("disable")'
  BY <1>2, <1>3 DEF Abort, InPhase, InStart, InDeactivate, Calm, StartPC, DeactivatePC, statics, threads, WorkersQuiet
<1> QED
  BY <1>1, <1>4, PhaseMove DEF Abort, locks

LEMMA PhaseCall ==
    ASSUME TypeOK, Locking, Joins, Phase, NEW c \in Callers, Call(c) \/ LockLifecycle(c) \/ LockState(c)
    PROVE  Phase'
<1> USE CallersAssumption, CountsAssumption, BoundsAssumption
<1>1. CASE Call(c)
  BY <1>1, SMTT(60) DEF Call, Go, vars, locks, statics, fields, code, locals, threads, env, TypeOK, Locking, Joins, Phase, InPhase, InStart, InDeactivate, Stable, Untouched, Installed, Over, WorkersQuiet, Modified, Outside, Holding, Calm, StartPC, DeactivatePC
<1>2. CASE LockLifecycle(c)
  BY <1>2, SMTT(60) DEF LockLifecycle, Go, vars, locks, statics, fields, code, locals, threads, env, TypeOK, Locking, Joins, Phase, InPhase, InStart, InDeactivate, Stable, Untouched, Installed, Over, WorkersQuiet, Modified, Outside, Holding, Calm, StartPC, DeactivatePC
<1>3. CASE LockState(c)
  BY <1>3, SMTT(60) DEF LockState, Go, vars, locks, statics, fields, code, locals, threads, env, TypeOK, Locking, Joins, Phase, InPhase, InStart, InDeactivate, Stable, Untouched, Installed, Over, WorkersQuiet, Modified, Outside, Holding, Calm, StartPC, DeactivatePC
<1> QED
  BY <1>1, <1>2, <1>3

LEMMA PhaseDecide ==
    ASSUME TypeOK, Locking, Joins, Phase, NEW c \in Callers, Decide(c)
    PROVE  Phase'
<1> USE CallersAssumption, CountsAssumption, BoundsAssumption
<1>1. CASE Repeat(c)
  BY <1>1, SMTT(60) DEF Repeat, Go, Return, vars, locks, statics, fields, code, locals, threads, env, TypeOK, Locking, Joins, Phase, InPhase, InStart, InDeactivate, Stable, Untouched, Installed, Over, WorkersQuiet, Modified, Outside, Holding, Calm, StartPC, DeactivatePC
<1>2. CASE Refuse(c)
  BY <1>2, SMTT(60) DEF Refuse, Go, Return, vars, locks, statics, fields, code, locals, threads, env, TypeOK, Locking, Joins, Phase, InPhase, InStart, InDeactivate, Stable, Untouched, Installed, Over, WorkersQuiet, Modified, Outside, Holding, Calm, StartPC, DeactivatePC
<1>3. CASE Attempt(c)
  BY <1>3, SMTT(60) DEF Attempt, Go, vars, locks, statics, fields, code, locals, threads, env, TypeOK, Locking, Joins, Phase, InPhase, InStart, InDeactivate, Stable, Untouched, Installed, Over, WorkersQuiet, Modified, Outside, Holding, Calm, StartPC, DeactivatePC
<1> QED
  BY <1>1, <1>2, <1>3 DEF Decide

LEMMA PhaseStart ==
    ASSUME TypeOK, Locking, Joins, Phase, NEW c \in Callers, Start(c)
    PROVE  Phase'
<1> USE CallersAssumption, CountsAssumption, BoundsAssumption
<1>0. ASSUME NEW p \in StartPC, pc[c] = p PROVE InPhase(p) /\ p \notin Outside
  BY <1>0, PhaseAt DEF StartPC, Outside
<1>1. CASE InstallIntegrity(c)
  <2>1. ASSUME Abort(c, "integrity") PROVE Phase'
    BY <2>1, AbortPhase DEF StartPC
  <2>2. ASSUME Go(c, "integrity", "handler"), integrity' = TRUE,
               UNCHANGED <<locks, statics, attempted, active, handler, enabled, code, threads>>
        PROVE  Phase'
    <3>1. InPhase("integrity") /\ "integrity" \notin Outside
      BY <1>0, <2>2 DEF Go, StartPC
    <3>2. InPhase("handler")'
      BY <3>1, <2>2 DEF InPhase, InStart, InDeactivate, Calm, StartPC, DeactivatePC,
                        statics, code, threads
    <3> QED
      BY <3>1, <3>2, <2>2, PhaseMove DEF locks
  <2> QED
    BY <1>1, <2>1, <2>2 DEF InstallIntegrity
<1>2. CASE InstallHandler(c)
  <2>1. ASSUME Abort(c, "handler") PROVE Phase'
    BY <2>1, AbortPhase DEF StartPC
  <2>2. ASSUME Go(c, "handler", "prepare"), handler' = "active",
               UNCHANGED <<locks, statics, attempted, active, integrity, enabled, code, threads>>
        PROVE  Phase'
    <3>1. InPhase("handler") /\ "handler" \notin Outside
      BY <1>0, <2>2 DEF Go, StartPC
    <3>2. InPhase("prepare")'
      BY <3>1, <2>2 DEF InPhase, InStart, InDeactivate, Calm, StartPC, DeactivatePC,
                        statics, code, threads
    <3> QED
      BY <3>1, <3>2, <2>2, PhaseMove DEF locks
  <2> QED
    BY <1>2, <2>1, <2>2 DEF InstallHandler
<1>3. CASE Prepare(c)
  <2>1. ASSUME Abort(c, "prepare") PROVE Phase'
    BY <2>1, AbortPhase DEF StartPC
  <2>2. ASSUME Go(c, "prepare", "apply"), cursor' = 1,
               UNCHANGED <<locks, statics, fields, code, threads>>
        PROVE  Phase'
    <3>1. InPhase("prepare") /\ "prepare" \notin Outside
      BY <1>0, <2>2 DEF Go, StartPC
    <3>2. 1 \in 1..Patches + 1 /\ {} = 1..(1 - 1)
      OBVIOUS
    <3>3. InPhase("apply")'
      BY <3>1, <3>2, <2>2 DEF InPhase, InStart, InDeactivate, Calm, StartPC, DeactivatePC,
                        statics, fields, code, threads
    <3> QED
      BY <3>1, <3>3, <2>2, PhaseMove DEF locks
  <2> QED
    BY <1>3, <2>1, <2>2 DEF Prepare
<1>4. CASE Apply(c)
  <2>1. ASSUME Abort(c, "apply") PROVE Phase'
    BY <2>1, AbortPhase DEF StartPC
  <2>2. ASSUME pc[c] = "apply", cursor \in 1..Patches,
               applied' = applied \cup {cursor}, cursor' = cursor + 1,
               UNCHANGED <<locks, statics, fields, live, pc, threads>>
        PROVE  Phase'
    <3>1. InPhase("apply") /\ "apply" \notin Outside
      BY <1>0, <2>2 DEF StartPC
    <3>2. (1..(cursor - 1)) \cup {cursor} = 1..((cursor + 1) - 1) /\ cursor + 1 \in 1..Patches + 1
      BY <2>2
    <3>3. applied' = 1..(cursor' - 1) /\ cursor' \in 1..Patches + 1
      BY <3>1, <3>2, <2>2 DEF InPhase, InStart
    <3>4. InPhase("apply")'
      BY <3>1, <3>3, <2>2 DEF InPhase, InStart, InDeactivate, Calm, StartPC, DeactivatePC,
                        statics, fields, threads
    <3> QED
      BY <3>1, <3>4, <2>2, PhaseStay DEF locks
  <2>3. ASSUME Go(c, "apply", "enable"), cursor > Patches, cursor' = 1,
               UNCHANGED <<locks, statics, fields, code, threads>>
        PROVE  Phase'
    <3>1. InPhase("apply") /\ "apply" \notin Outside
      BY <1>0, <2>3 DEF Go, StartPC
    <3>2. cursor = Patches + 1
      BY <3>1, <2>3 DEF InPhase, InStart
    <3>3. applied = 1..Patches
      BY <3>1, <3>2 DEF InPhase, InStart
    <3>4. 1 \in 1..Hooks + 1 /\ {} = 1..(1 - 1)
      OBVIOUS
    <3>5. InPhase("enable")'
      BY <3>1, <3>3, <3>4, <2>3 DEF InPhase, InStart, InDeactivate, Calm, StartPC, DeactivatePC,
                        statics, fields, code, threads
    <3> QED
      BY <3>1, <3>5, <2>3, PhaseMove DEF locks
  <2> QED
    BY <1>4, <2>1, <2>2, <2>3 DEF Apply
<1>5. CASE Enable(c)
  <2>1. ASSUME Abort(c, "enable") PROVE Phase'
    BY <2>1, AbortPhase DEF StartPC
  <2>2. ASSUME pc[c] = "enable", cursor \in 1..Hooks, live' = live \cup {cursor},
               enabled' = cursor, cursor' = cursor + 1,
               UNCHANGED <<locks, statics, attempted, active, integrity, handler, applied,
                           pc, threads>>
        PROVE  Phase'
    <3>1. InPhase("enable") /\ "enable" \notin Outside
      BY <1>0, <2>2 DEF StartPC
    <3>2. (1..(cursor - 1)) \cup {cursor} = 1..((cursor + 1) - 1) /\ cursor + 1 \in 1..Hooks + 1
      BY <2>2
    <3>3. live' = 1..(cursor' - 1) /\ cursor' \in 1..Hooks + 1 /\ enabled' = cursor' - 1
      BY <3>1, <3>2, <2>2 DEF InPhase, InStart
    <3>4. InPhase("enable")'
      BY <3>1, <3>3, <2>2 DEF InPhase, InStart, InDeactivate, Calm, StartPC, DeactivatePC,
                        statics, threads
    <3> QED
      BY <3>1, <3>4, <2>2, PhaseStay DEF locks
  <2>3. ASSUME Go(c, "enable", "ready"), cursor > Hooks,
               UNCHANGED <<locks, statics, fields, code, locals, threads>>
        PROVE  Phase'
    <3>1. InPhase("enable") /\ "enable" \notin Outside
      BY <1>0, <2>3 DEF Go, StartPC
    <3>2. cursor = Hooks + 1
      BY <3>1, <2>3 DEF InPhase, InStart
    <3>3. live = 1..Hooks /\ enabled = Hooks
      BY <3>1, <3>2 DEF InPhase, InStart
    <3>4. InPhase("ready")'
      BY <3>1, <3>3, <2>3 DEF InPhase, InStart, InDeactivate, Calm, StartPC, DeactivatePC,
                        statics, fields, code, threads
    <3> QED
      BY <3>1, <3>4, <2>3, PhaseMove DEF locks
  <2> QED
    BY <1>5, <2>1, <2>2, <2>3 DEF Enable
<1>6. CASE GameReady(c)
  BY <1>6, SMTT(60) DEF GameReady, Go, vars, locks, statics, fields, code, locals, threads, env, TypeOK, Locking, Joins, Phase, InPhase, InStart, InDeactivate, Stable, Untouched, Installed, Over, WorkersQuiet, Modified, Outside, Holding, Calm, StartPC, DeactivatePC
<1>7. CASE Spawn(c)
  BY <1>7, SMTT(60) DEF Spawn, Go, Fault, vars, locks, statics, fields, code, locals, threads, env, TypeOK, Locking, Joins, Phase, InPhase, InStart, InDeactivate, Stable, Untouched, Installed, Over, WorkersQuiet, Modified, Outside, Holding, Calm, StartPC, DeactivatePC
<1>8. CASE SpawnProfiler(c)
  BY <1>8, SMTT(60) DEF SpawnProfiler, Go, vars, locks, statics, fields, code, locals, threads, env, TypeOK, Locking, Joins, Phase, InPhase, InStart, InDeactivate, Stable, Untouched, Installed, Over, WorkersQuiet, Modified, Outside, Holding, Calm, StartPC, DeactivatePC
<1>9. CASE Publish(c)
  BY <1>9, SMTT(60) DEF Publish, Go, Return, vars, locks, statics, fields, code, locals, threads, env, TypeOK, Locking, Joins, Phase, InPhase, InStart, InDeactivate, Stable, Untouched, Installed, Over, WorkersQuiet, Modified, Outside, Holding, Calm, StartPC, DeactivatePC
<1>10. CASE KeepError(c)
  BY <1>10, SMTT(60) DEF KeepError, Go, Return, vars, locks, statics, fields, code, locals, threads, env, TypeOK, Locking, Joins, Phase, InPhase, InStart, InDeactivate, Stable, Untouched, Installed, Over, WorkersQuiet, Modified, Outside, Holding, Calm, StartPC, DeactivatePC
<1> QED
  BY <1>1, <1>2, <1>3, <1>4, <1>5, <1>6, <1>7, <1>8, <1>9, <1>10 DEF Start

LEMMA PhaseDeactivate ==
    ASSUME TypeOK, Locking, Joins, Phase, NEW c \in Callers, Deactivate(c)
    PROVE  Phase'
<1> USE CallersAssumption, CountsAssumption, BoundsAssumption
<1>0. ASSUME NEW p \in DeactivatePC, pc[c] = p PROVE InPhase(p) /\ p \notin Outside
  BY <1>0, PhaseAt DEF DeactivatePC, Outside
<1>1. CASE Disable(c)
  <2>1. ASSUME pc[c] = "disable", cursor > 0, cursor' = cursor - 1,
               \/ live' = live \ {cursor} /\ UNCHANGED restored
               \/ restored' = FALSE /\ UNCHANGED live,
               UNCHANGED <<locks, statics, fields, applied, pc, rollback, threads>>
        PROVE  Phase'
    <3>1. InPhase("disable") /\ "disable" \notin Outside
      BY <1>0, <2>1 DEF DeactivatePC
    <3>2. cursor \in 0..Hooks /\ live \subseteq 1..enabled /\ (restored => live \subseteq 1..cursor)
      BY <3>1 DEF InPhase, InDeactivate
    <3>3. (1..cursor) \ {cursor} \subseteq 1..(cursor - 1)
      BY <2>1, <3>2
    <3>4. restored' => live' \subseteq 1..cursor'
      BY <3>2, <3>3, <2>1
    <3>5. cursor' \in 0..Hooks
      BY <3>2, <2>1
    <3>6. enabled' = enabled /\ live' \subseteq live
      BY <2>1 DEF fields
    <3>7. live' \subseteq 1..enabled'
      BY <3>2, <3>6
    <3>8. InPhase("disable")'
      BY <3>1, <3>4, <3>5, <3>7, <2>1 DEF InPhase, InStart, InDeactivate, Calm, StartPC, DeactivatePC,
                        statics, fields, threads, WorkersQuiet
    <3> QED
      BY <3>1, <3>8, <2>1, PhaseStay DEF locks
  <2>2. ASSUME Go(c, "disable", "restore"), cursor = 0, cursor' = Patches,
               UNCHANGED <<locks, statics, fields, code, restored, rollback, threads>>
        PROVE  Phase'
    <3>1. InPhase("disable") /\ "disable" \notin Outside
      BY <1>0, <2>2 DEF Go, DeactivatePC
    <3>2. 1..0 = {} /\ Patches \in 0..Patches
      OBVIOUS
    <3>3. restored => live = {} /\ applied \subseteq 1..Patches
      BY <3>1, <3>2, <2>2 DEF InPhase, InDeactivate, TypeOK
    <3>4. InPhase("restore")'
      BY <3>1, <3>2, <3>3, <2>2 DEF InPhase, InStart, InDeactivate, Calm, StartPC, DeactivatePC,
                        statics, fields, code, threads, WorkersQuiet
    <3> QED
      BY <3>1, <3>4, <2>2, PhaseMove DEF locks
  <2> QED
    BY <1>1, <2>1, <2>2 DEF Disable
<1>2. CASE Restore(c)
  <2>1. ASSUME pc[c] = "restore", cursor > 0, cursor' = cursor - 1,
               \/ applied' = applied \ {cursor} /\ UNCHANGED restored
               \/ restored' = FALSE,
               UNCHANGED <<locks, statics, fields, live, pc, rollback, threads>>
        PROVE  Phase'
    <3>1. InPhase("restore") /\ "restore" \notin Outside
      BY <1>0, <2>1 DEF DeactivatePC
    <3>2. cursor \in 0..Patches /\ (restored => live = {} /\ applied \subseteq 1..cursor)
      BY <3>1 DEF InPhase, InDeactivate
    <3>3. (1..cursor) \ {cursor} \subseteq 1..(cursor - 1)
      BY <2>1, <3>2
    <3>4. restored' => live' = {} /\ applied' \subseteq 1..cursor'
      BY <3>2, <3>3, <2>1
    <3>5. cursor' \in 0..Patches
      BY <3>2, <2>1
    <3>6. InPhase("restore")'
      BY <3>1, <3>4, <3>5, <2>1 DEF InPhase, InStart, InDeactivate, Calm, StartPC, DeactivatePC,
                        statics, fields, threads, WorkersQuiet
    <3> QED
      BY <3>1, <3>6, <2>1, PhaseStay DEF locks
  <2>2. ASSUME Go(c, "restore", "quiet"), cursor = 0,
               UNCHANGED <<locks, statics, fields, code, locals, threads>>
        PROVE  Phase'
    <3>1. InPhase("restore") /\ "restore" \notin Outside
      BY <1>0, <2>2 DEF Go, DeactivatePC
    <3>2. 1..0 = {}
      OBVIOUS
    <3>3. restored => ~Modified
      BY <3>1, <3>2, <2>2 DEF InPhase, InDeactivate, Modified
    <3>4. InPhase("quiet")'
      BY <3>1, <3>3, <2>2 DEF InPhase, InStart, InDeactivate, Calm, StartPC, DeactivatePC,
                        statics, fields, code, locals, threads, WorkersQuiet, Modified
    <3> QED
      BY <3>1, <3>4, <2>2, PhaseMove DEF locks
  <2> QED
    BY <1>2, <2>1, <2>2 DEF Restore
<1>3. CASE Quiet(c)
  BY <1>3, SMTT(60) DEF Quiet, Go, vars, locks, statics, fields, code, locals, threads, env, TypeOK, Locking, Joins, Phase, InPhase, InStart, InDeactivate, Stable, Untouched, Installed, Over, WorkersQuiet, Modified, Outside, Holding, Calm, StartPC, DeactivatePC
<1>4. CASE Unhandle(c)
  BY <1>4, SMTT(60) DEF Unhandle, Go, vars, locks, statics, fields, code, locals, threads, env, TypeOK, Locking, Joins, Phase, InPhase, InStart, InDeactivate, Stable, Untouched, Installed, Over, WorkersQuiet, Modified, Outside, Holding, Calm, StartPC, DeactivatePC
<1>5. CASE Unpatch(c)
  BY <1>5, SMTT(60) DEF Unpatch, Go, Fault, vars, locks, statics, fields, code, locals, threads, env, TypeOK, Locking, Joins, Phase, InPhase, InStart, InDeactivate, Stable, Untouched, Installed, Over, WorkersQuiet, Modified, Outside, Holding, Calm, StartPC, DeactivatePC
<1>6. CASE Inactive(c)
  BY <1>6, SMTT(60) DEF Inactive, Go, Return, vars, locks, statics, fields, code, locals, threads, env, TypeOK, Locking, Joins, Phase, InPhase, InStart, InDeactivate, Stable, Untouched, Installed, Over, WorkersQuiet, Modified, Outside, Holding, Calm, StartPC, DeactivatePC
<1> QED
  BY <1>1, <1>2, <1>3, <1>4, <1>5, <1>6 DEF Deactivate

LEMMA PhaseUninstall ==
    ASSUME TypeOK, Locking, Joins, Phase, NEW c \in Callers, Uninstall(c)
    PROVE  Phase'
<1> USE CallersAssumption, CountsAssumption, BoundsAssumption
<1>1. CASE StoreStop(c)
  BY <1>1, SMTT(60) DEF StoreStop, Go, vars, locks, statics, fields, code, locals, threads, env, TypeOK, Locking, Joins, Phase, InPhase, InStart, InDeactivate, Stable, Untouched, Installed, Over, WorkersQuiet, Modified, Outside, Holding, Calm, StartPC, DeactivatePC
<1>2. CASE TakeHandles(c)
  BY <1>2, SMTT(60) DEF TakeHandles, Go, vars, locks, statics, fields, code, locals, threads, env, TypeOK, Locking, Joins, Phase, InPhase, InStart, InDeactivate, Stable, Untouched, Installed, Over, WorkersQuiet, Modified, Outside, Holding, Calm, StartPC, DeactivatePC
<1>3. CASE Join(c)
  BY <1>3, SMTT(60) DEF Join, Go, vars, locks, statics, fields, code, locals, threads, env, TypeOK, Locking, Joins, Phase, InPhase, InStart, InDeactivate, Stable, Untouched, Installed, Over, WorkersQuiet, Modified, Outside, Holding, Calm, StartPC, DeactivatePC
<1>4. CASE CheckActive(c)
  <2>0. pc[c] = "check" /\ "check" \notin Outside
    BY <1>4 DEF CheckActive, Go, Return, Outside
  <2>1. InPhase("check")
    BY <2>0, PhaseAt
  <2>2. Stable /\ WorkersQuiet
    BY <2>1 DEF InPhase, Calm
  <2>3. ASSUME Go(c, "check", "disable"), active, cursor' = enabled, restored' = TRUE,
               rollback' = FALSE, UNCHANGED <<locks, statics, fields, code, threads>>
        PROVE  Phase'
    <3>1. status = "active" /\ Installed
      BY <2>2, <2>3 DEF Stable, Untouched, Over
    <3>2. enabled \in 0..Hooks /\ live \subseteq 1..enabled
      BY <3>1 DEF Installed
    <3>3. InPhase("disable")'
      BY <3>1, <3>2, <2>2, <2>3 DEF InPhase, InStart, InDeactivate, Installed, Calm, StartPC,
                        DeactivatePC, statics, fields, code, threads, WorkersQuiet
    <3> QED
      BY <3>3, <2>0, <2>3, PhaseMove DEF locks
  <2>4. ASSUME lifecycle' = NoOne, UNCHANGED <<statics, fields, code, threads>>
        PROVE  Phase'
    BY <2>2, <2>4 DEF Phase, Stable, Untouched, Installed, Over, WorkersQuiet, statics, fields,
                      code, threads
  <2> QED
    BY <1>4, <2>3, <2>4 DEF CheckActive, Return
<1> QED
  BY <1>1, <1>2, <1>3, <1>4 DEF Uninstall

LEMMA PhaseWorkers ==
    ASSUME TypeOK, Locking, Joins, Phase, Config \/ ProfilerStep \/ UNCHANGED vars
    PROVE  Phase'
<1> USE CallersAssumption, CountsAssumption, BoundsAssumption
<1>1. CASE ConfigCheck
  BY <1>1, SMTT(60) DEF ConfigCheck, ConfigStep, vars, locks, statics, fields, code, locals, threads, env, TypeOK, Locking, Joins, Phase, InPhase, InStart, InDeactivate, Stable, Untouched, Installed, Over, WorkersQuiet, Modified, Outside, Holding, Calm, StartPC, DeactivatePC
<1>2. CASE ConfigTryLock
  BY <1>2, SMTT(60) DEF ConfigTryLock, ConfigStep, vars, locks, statics, fields, code, locals, threads, env, TypeOK, Locking, Joins, Phase, InPhase, InStart, InDeactivate, Stable, Untouched, Installed, Over, WorkersQuiet, Modified, Outside, Holding, Calm, StartPC, DeactivatePC
<1>3. CASE ConfigMaintain
  BY <1>3, SMTT(60) DEF ConfigMaintain, ConfigStep, vars, locks, statics, fields, code, locals, threads, env, TypeOK, Locking, Joins, Phase, InPhase, InStart, InDeactivate, Stable, Untouched, Installed, Over, WorkersQuiet, Modified, Outside, Holding, Calm, StartPC, DeactivatePC
<1>4. CASE ConfigPoll
  BY <1>4, SMTT(60) DEF ConfigPoll, ConfigStep, vars, locks, statics, fields, code, locals, threads, env, TypeOK, Locking, Joins, Phase, InPhase, InStart, InDeactivate, Stable, Untouched, Installed, Over, WorkersQuiet, Modified, Outside, Holding, Calm, StartPC, DeactivatePC
<1>5. CASE ProfilerStep
  BY <1>5, SMTT(60) DEF ProfilerStep, vars, locks, statics, fields, code, locals, threads, env, TypeOK, Locking, Joins, Phase, InPhase, InStart, InDeactivate, Stable, Untouched, Installed, Over, WorkersQuiet, Modified, Outside, Holding, Calm, StartPC, DeactivatePC
<1>6. CASE UNCHANGED vars
  BY <1>6, SMTT(60) DEF vars, locks, statics, fields, code, locals, threads, env, TypeOK, Locking, Joins, Phase, InPhase, InStart, InDeactivate, Stable, Untouched, Installed, Over, WorkersQuiet, Modified, Outside, Holding, Calm, StartPC, DeactivatePC
<1> QED
  BY <1>1, <1>2, <1>3, <1>4, <1>5, <1>6 DEF Config

-----------------------------------------------------------------------------
(* CoveredWhileModified. *)

LEMMA CoverCall ==
    ASSUME TypeOK, Locking, Phase, CoveredWhileModified, NEW c \in Callers, Call(c) \/ LockLifecycle(c) \/ LockState(c)
    PROVE  CoveredWhileModified'
<1> USE CallersAssumption, CountsAssumption, BoundsAssumption
<1>1. CASE Call(c)
  BY <1>1, SMTT(60) DEF Call, Go, vars, locks, statics, fields, code, locals, threads, env, TypeOK, Locking, Phase, InPhase, InStart, InDeactivate, Modified, CoveredWhileModified, Outside, StartPC, DeactivatePC
<1>2. CASE LockLifecycle(c)
  BY <1>2, SMTT(60) DEF LockLifecycle, Go, vars, locks, statics, fields, code, locals, threads, env, TypeOK, Locking, Phase, InPhase, InStart, InDeactivate, Modified, CoveredWhileModified, Outside, StartPC, DeactivatePC
<1>3. CASE LockState(c)
  BY <1>3, SMTT(60) DEF LockState, Go, vars, locks, statics, fields, code, locals, threads, env, TypeOK, Locking, Phase, InPhase, InStart, InDeactivate, Modified, CoveredWhileModified, Outside, StartPC, DeactivatePC
<1> QED
  BY <1>1, <1>2, <1>3

LEMMA CoverDecide ==
    ASSUME TypeOK, Locking, Phase, CoveredWhileModified, NEW c \in Callers, Decide(c)
    PROVE  CoveredWhileModified'
<1> USE CallersAssumption, CountsAssumption, BoundsAssumption
<1>1. CASE Repeat(c)
  BY <1>1, SMTT(60) DEF Repeat, Go, Return, vars, locks, statics, fields, code, locals, threads, env, TypeOK, Locking, Phase, InPhase, InStart, InDeactivate, Modified, CoveredWhileModified, Outside, StartPC, DeactivatePC
<1>2. CASE Refuse(c)
  BY <1>2, SMTT(60) DEF Refuse, Go, Return, vars, locks, statics, fields, code, locals, threads, env, TypeOK, Locking, Phase, InPhase, InStart, InDeactivate, Modified, CoveredWhileModified, Outside, StartPC, DeactivatePC
<1>3. CASE Attempt(c)
  BY <1>3, SMTT(60) DEF Attempt, Go, vars, locks, statics, fields, code, locals, threads, env, TypeOK, Locking, Phase, InPhase, InStart, InDeactivate, Modified, CoveredWhileModified, Outside, StartPC, DeactivatePC
<1> QED
  BY <1>1, <1>2, <1>3 DEF Decide

LEMMA CoverStart ==
    ASSUME TypeOK, Locking, Phase, CoveredWhileModified, NEW c \in Callers, Start(c)
    PROVE  CoveredWhileModified'
<1> USE CallersAssumption, CountsAssumption, BoundsAssumption
<1>1. CASE InstallIntegrity(c)
  BY <1>1, SMTT(60) DEF InstallIntegrity, Go, Abort, Fault, vars, locks, statics, fields, code, locals, threads, env, TypeOK, Locking, Phase, InPhase, InStart, InDeactivate, Modified, CoveredWhileModified, Outside, StartPC, DeactivatePC
<1>2. CASE InstallHandler(c)
  BY <1>2, SMTT(60) DEF InstallHandler, Go, Abort, Fault, vars, locks, statics, fields, code, locals, threads, env, TypeOK, Locking, Phase, InPhase, InStart, InDeactivate, Modified, CoveredWhileModified, Outside, StartPC, DeactivatePC
<1>3. CASE Prepare(c)
  BY <1>3, SMTT(60) DEF Prepare, Go, Abort, Fault, vars, locks, statics, fields, code, locals, threads, env, TypeOK, Locking, Phase, InPhase, InStart, InDeactivate, Modified, CoveredWhileModified, Outside, StartPC, DeactivatePC
<1>4. CASE Apply(c)
  BY <1>4, SMTT(60) DEF Apply, Go, Abort, Fault, vars, locks, statics, fields, code, locals, threads, env, TypeOK, Locking, Phase, InPhase, InStart, InDeactivate, Modified, CoveredWhileModified, Outside, StartPC, DeactivatePC
<1>5. CASE Enable(c)
  BY <1>5, SMTT(60) DEF Enable, Go, Abort, Fault, vars, locks, statics, fields, code, locals, threads, env, TypeOK, Locking, Phase, InPhase, InStart, InDeactivate, Modified, CoveredWhileModified, Outside, StartPC, DeactivatePC
<1>6. CASE GameReady(c)
  BY <1>6, SMTT(60) DEF GameReady, Go, vars, locks, statics, fields, code, locals, threads, env, TypeOK, Locking, Phase, InPhase, InStart, InDeactivate, Modified, CoveredWhileModified, Outside, StartPC, DeactivatePC
<1>7. CASE Spawn(c)
  BY <1>7, SMTT(60) DEF Spawn, Go, Fault, vars, locks, statics, fields, code, locals, threads, env, TypeOK, Locking, Phase, InPhase, InStart, InDeactivate, Modified, CoveredWhileModified, Outside, StartPC, DeactivatePC
<1>8. CASE SpawnProfiler(c)
  BY <1>8, SMTT(60) DEF SpawnProfiler, Go, vars, locks, statics, fields, code, locals, threads, env, TypeOK, Locking, Phase, InPhase, InStart, InDeactivate, Modified, CoveredWhileModified, Outside, StartPC, DeactivatePC
<1>9. CASE Publish(c)
  BY <1>9, SMTT(60) DEF Publish, Go, Return, vars, locks, statics, fields, code, locals, threads, env, TypeOK, Locking, Phase, InPhase, InStart, InDeactivate, Modified, CoveredWhileModified, Outside, StartPC, DeactivatePC
<1>10. CASE KeepError(c)
  BY <1>10, SMTT(60) DEF KeepError, Go, Return, vars, locks, statics, fields, code, locals, threads, env, TypeOK, Locking, Phase, InPhase, InStart, InDeactivate, Modified, CoveredWhileModified, Outside, StartPC, DeactivatePC
<1> QED
  BY <1>1, <1>2, <1>3, <1>4, <1>5, <1>6, <1>7, <1>8, <1>9, <1>10 DEF Start

LEMMA CoverDeactivate ==
    ASSUME TypeOK, Locking, Phase, CoveredWhileModified, NEW c \in Callers, Deactivate(c)
    PROVE  CoveredWhileModified'
<1> USE CallersAssumption, CountsAssumption, BoundsAssumption
<1>1. CASE Disable(c)
  BY <1>1, SMTT(60) DEF Disable, Go, Fault, vars, locks, statics, fields, code, locals, threads, env, TypeOK, Locking, Phase, InPhase, InStart, InDeactivate, Modified, CoveredWhileModified, Outside, StartPC, DeactivatePC
<1>2. CASE Restore(c)
  BY <1>2, SMTT(60) DEF Restore, Go, Fault, vars, locks, statics, fields, code, locals, threads, env, TypeOK, Locking, Phase, InPhase, InStart, InDeactivate, Modified, CoveredWhileModified, Outside, StartPC, DeactivatePC
<1>3. CASE Quiet(c)
  BY <1>3, SMTT(60) DEF Quiet, Go, vars, locks, statics, fields, code, locals, threads, env, TypeOK, Locking, Phase, InPhase, InStart, InDeactivate, Modified, CoveredWhileModified, Outside, StartPC, DeactivatePC
<1>4. CASE Unhandle(c)
  BY <1>4, SMTT(60) DEF Unhandle, Go, vars, locks, statics, fields, code, locals, threads, env, TypeOK, Locking, Phase, InPhase, InStart, InDeactivate, Modified, CoveredWhileModified, Outside, StartPC, DeactivatePC
<1>5. CASE Unpatch(c)
  BY <1>5, SMTT(60) DEF Unpatch, Go, Fault, vars, locks, statics, fields, code, locals, threads, env, TypeOK, Locking, Phase, InPhase, InStart, InDeactivate, Modified, CoveredWhileModified, Outside, StartPC, DeactivatePC
<1>6. CASE Inactive(c)
  BY <1>6, SMTT(60) DEF Inactive, Go, Return, vars, locks, statics, fields, code, locals, threads, env, TypeOK, Locking, Phase, InPhase, InStart, InDeactivate, Modified, CoveredWhileModified, Outside, StartPC, DeactivatePC
<1> QED
  BY <1>1, <1>2, <1>3, <1>4, <1>5, <1>6 DEF Deactivate

LEMMA CoverUninstall ==
    ASSUME TypeOK, Locking, Phase, CoveredWhileModified, NEW c \in Callers, Uninstall(c)
    PROVE  CoveredWhileModified'
<1> USE CallersAssumption, CountsAssumption, BoundsAssumption
<1>1. CASE StoreStop(c)
  BY <1>1, SMTT(60) DEF StoreStop, Go, vars, locks, statics, fields, code, locals, threads, env, TypeOK, Locking, Phase, InPhase, InStart, InDeactivate, Modified, CoveredWhileModified, Outside, StartPC, DeactivatePC
<1>2. CASE TakeHandles(c)
  BY <1>2, SMTT(60) DEF TakeHandles, Go, vars, locks, statics, fields, code, locals, threads, env, TypeOK, Locking, Phase, InPhase, InStart, InDeactivate, Modified, CoveredWhileModified, Outside, StartPC, DeactivatePC
<1>3. CASE Join(c)
  BY <1>3, SMTT(60) DEF Join, Go, vars, locks, statics, fields, code, locals, threads, env, TypeOK, Locking, Phase, InPhase, InStart, InDeactivate, Modified, CoveredWhileModified, Outside, StartPC, DeactivatePC
<1>4. CASE CheckActive(c)
  BY <1>4, SMTT(60) DEF CheckActive, Go, Return, vars, locks, statics, fields, code, locals, threads, env, TypeOK, Locking, Phase, InPhase, InStart, InDeactivate, Modified, CoveredWhileModified, Outside, StartPC, DeactivatePC
<1> QED
  BY <1>1, <1>2, <1>3, <1>4 DEF Uninstall

LEMMA CoverWorkers ==
    ASSUME TypeOK, Locking, Phase, CoveredWhileModified, Config \/ ProfilerStep \/ UNCHANGED vars
    PROVE  CoveredWhileModified'
<1> USE CallersAssumption, CountsAssumption, BoundsAssumption
<1>1. CASE ConfigCheck
  BY <1>1, SMTT(60) DEF ConfigCheck, ConfigStep, vars, locks, statics, fields, code, locals, threads, env, TypeOK, Locking, Phase, InPhase, InStart, InDeactivate, Modified, CoveredWhileModified, Outside, StartPC, DeactivatePC
<1>2. CASE ConfigTryLock
  BY <1>2, SMTT(60) DEF ConfigTryLock, ConfigStep, vars, locks, statics, fields, code, locals, threads, env, TypeOK, Locking, Phase, InPhase, InStart, InDeactivate, Modified, CoveredWhileModified, Outside, StartPC, DeactivatePC
<1>3. CASE ConfigMaintain
  BY <1>3, SMTT(60) DEF ConfigMaintain, ConfigStep, vars, locks, statics, fields, code, locals, threads, env, TypeOK, Locking, Phase, InPhase, InStart, InDeactivate, Modified, CoveredWhileModified, Outside, StartPC, DeactivatePC
<1>4. CASE ConfigPoll
  BY <1>4, SMTT(60) DEF ConfigPoll, ConfigStep, vars, locks, statics, fields, code, locals, threads, env, TypeOK, Locking, Phase, InPhase, InStart, InDeactivate, Modified, CoveredWhileModified, Outside, StartPC, DeactivatePC
<1>5. CASE ProfilerStep
  BY <1>5, SMTT(60) DEF ProfilerStep, vars, locks, statics, fields, code, locals, threads, env, TypeOK, Locking, Phase, InPhase, InStart, InDeactivate, Modified, CoveredWhileModified, Outside, StartPC, DeactivatePC
<1>6. CASE UNCHANGED vars
  BY <1>6, SMTT(60) DEF vars, locks, statics, fields, code, locals, threads, env, TypeOK, Locking, Phase, InPhase, InStart, InDeactivate, Modified, CoveredWhileModified, Outside, StartPC, DeactivatePC
<1> QED
  BY <1>1, <1>2, <1>3, <1>4, <1>5, <1>6 DEF Config

-----------------------------------------------------------------------------
(* The inductive step.                                                     *)

LEMMA InvCall ==
    ASSUME IInv, NEW c \in Callers, Call(c) \/ LockLifecycle(c) \/ LockState(c)
    PROVE  IInv'
<1> USE DEF IInv
<1>1. TypeOK'
  BY TypesCall
<1>2. Locking'
  BY LocksCall
<1>3. Joins'
  BY JoinsCall
<1>4. Phase'
  BY PhaseCall
<1>5. CoveredWhileModified'
  BY CoverCall
<1> QED
  BY <1>1, <1>2, <1>3, <1>4, <1>5

LEMMA InvDecide ==
    ASSUME IInv, NEW c \in Callers, Decide(c)
    PROVE  IInv'
<1> USE DEF IInv
<1>1. TypeOK'
  BY TypesDecide
<1>2. Locking'
  BY LocksDecide
<1>3. Joins'
  BY JoinsDecide
<1>4. Phase'
  BY PhaseDecide
<1>5. CoveredWhileModified'
  BY CoverDecide
<1> QED
  BY <1>1, <1>2, <1>3, <1>4, <1>5

LEMMA InvStart ==
    ASSUME IInv, NEW c \in Callers, Start(c)
    PROVE  IInv'
<1> USE DEF IInv
<1>1. TypeOK'
  BY TypesStart
<1>2. Locking'
  BY LocksStart
<1>3. Joins'
  BY JoinsStart
<1>4. Phase'
  BY PhaseStart
<1>5. CoveredWhileModified'
  BY CoverStart
<1> QED
  BY <1>1, <1>2, <1>3, <1>4, <1>5

LEMMA InvDeactivate ==
    ASSUME IInv, NEW c \in Callers, Deactivate(c)
    PROVE  IInv'
<1> USE DEF IInv
<1>1. TypeOK'
  BY TypesDeactivate
<1>2. Locking'
  BY LocksDeactivate
<1>3. Joins'
  BY JoinsDeactivate
<1>4. Phase'
  BY PhaseDeactivate
<1>5. CoveredWhileModified'
  BY CoverDeactivate
<1> QED
  BY <1>1, <1>2, <1>3, <1>4, <1>5

LEMMA InvUninstall ==
    ASSUME IInv, NEW c \in Callers, Uninstall(c)
    PROVE  IInv'
<1> USE DEF IInv
<1>1. TypeOK'
  BY TypesUninstall
<1>2. Locking'
  BY LocksUninstall
<1>3. Joins'
  BY JoinsUninstall
<1>4. Phase'
  BY PhaseUninstall
<1>5. CoveredWhileModified'
  BY CoverUninstall
<1> QED
  BY <1>1, <1>2, <1>3, <1>4, <1>5

LEMMA InvWorkers ==
    ASSUME IInv, Config \/ ProfilerStep \/ UNCHANGED vars
    PROVE  IInv'
<1> USE DEF IInv
<1>1. TypeOK'
  BY TypesWorkers
<1>2. Locking'
  BY LocksWorkers
<1>3. Joins'
  BY JoinsWorkers
<1>4. Phase'
  BY PhaseWorkers
<1>5. CoveredWhileModified'
  BY CoverWorkers
<1> QED
  BY <1>1, <1>2, <1>3, <1>4, <1>5

LEMMA StepInvariant == IInv /\ [Next]_vars => IInv'
<1> SUFFICES ASSUME IInv, [Next]_vars PROVE IInv'
  OBVIOUS
<1>1. ASSUME NEW c \in Callers, Call(c) \/ LockLifecycle(c) \/ LockState(c) PROVE IInv'
  BY <1>1, InvCall
<1>2. ASSUME NEW c \in Callers, Decide(c) PROVE IInv'
  BY <1>2, InvDecide
<1>3. ASSUME NEW c \in Callers, Start(c) PROVE IInv'
  BY <1>3, InvStart
<1>4. ASSUME NEW c \in Callers, Deactivate(c) PROVE IInv'
  BY <1>4, InvDeactivate
<1>5. ASSUME NEW c \in Callers, Uninstall(c) PROVE IInv'
  BY <1>5, InvUninstall
<1>6. CASE Config \/ ProfilerStep \/ UNCHANGED vars
  BY <1>6, InvWorkers
<1> QED
  BY <1>1, <1>2, <1>3, <1>4, <1>5, <1>6 DEF Next, Running

\* IInv holds in every reachable state.
THEOREM LifecycleInvariant == Spec => []IInv
<1>1. Init => IInv
  BY InitInvariant
<1>2. IInv /\ [Next]_vars => IInv'
  BY StepInvariant
<1> QED
  BY <1>1, <1>2, PTL DEF Spec

\* Every variable keeps its type.
THEOREM LifecycleTypes == Spec => []TypeOK
<1>1. IInv => TypeOK
  BY DEF IInv
<1> QED
  BY <1>1, LifecycleInvariant, PTL

\* The game never runs with one of our hooks or patches in its code while the
\* exception handler is off or the integrity checks are armed, whichever of
\* the steps of start and deactivate fail.
THEOREM ModifiedCodeIsCovered == Spec => []CoveredWhileModified
<1>1. IInv => CoveredWhileModified
  BY DEF IInv
<1> QED
  BY <1>1, LifecycleInvariant, PTL

\* The holder of LIFECYCLE, if there is one, or the stable state otherwise.
LEMMA WhoHolds ==
    ASSUME IInv
    PROVE  Stable \/ \E c \in Callers : InPhase(pc[c]) /\ pc[c] \in StartPC \cup DeactivatePC \cup {"error"}
<1> USE DEF IInv
<1>1. CASE lifecycle = NoOne
  BY <1>1 DEF Phase
<1>2. CASE \E c \in Callers : lifecycle = c
  <2>1. PICK c \in Callers : lifecycle = c
    BY <1>2
  <2>2. InPhase(pc[c]) /\ pc[c] \in PC \ Outside
    BY <2>1 DEF Phase, Locking, TypeOK
  <2>3. pc[c] \in Calm \/ pc[c] \in StartPC \cup DeactivatePC \cup {"error"}
    BY <2>2 DEF PC, InstallPC, UnloadPC, Outside, Calm
  <2> QED
    BY <2>2, <2>3 DEF InPhase
<1> QED
  BY <1>1, <1>2 DEF TypeOK

\* A DLL that reports ACTIVE, and that nobody is deactivating, has everything
\* in place.
THEOREM ActiveIsInstalled == Spec => []ActiveIsComplete
<1>1. ASSUME IInv PROVE ActiveIsComplete
  <2> SUFFICES ASSUME status = "active", ~Deactivating
               PROVE  applied = 1..Patches /\ live = 1..Hooks /\ gameReady
    BY DEF ActiveIsComplete
  <2>1. ASSUME NEW c \in Callers, InPhase(pc[c]), pc[c] \in StartPC \cup {"error"} PROVE FALSE
    BY <2>1 DEF InPhase, InStart, InDeactivate
  <2>2. Stable
    BY <1>1, <2>1, WhoHolds DEF Deactivating
  <2> QED
    BY <2>2 DEF Stable, Installed
<1> QED
  BY <1>1, LifecycleInvariant, PTL

\* Once FAILED or DEACTIVATED is published no worker of the DLL runs.
THEOREM NothingRunsAfterwards == Spec => []QuietWhenOver
<1>1. ASSUME IInv PROVE QuietWhenOver
  <2> SUFFICES ASSUME status \in {"failed", "deactivated"}
               PROVE  WorkersQuiet /\ ~gameReady
    BY DEF QuietWhenOver, WorkersQuiet
  <2>1. CASE Stable
    BY <2>1 DEF Stable, Over
  <2>2. ASSUME NEW c \in Callers, InPhase(pc[c]),
               pc[c] \in StartPC \cup DeactivatePC \cup {"error"}
        PROVE  WorkersQuiet /\ ~gameReady
    BY <2>2 DEF InPhase, InStart, InDeactivate
  <2> QED
    BY <1>1, <2>1, <2>2, WhoHolds
<1> QED
  BY <1>1, LifecycleInvariant, PTL

-----------------------------------------------------------------------------
(* PatchLifecycle implements PatchStatus.                                  *)

\* Most steps change neither the status nor the game's code.
Silent(c) ==
    \/ Call(c) \/ LockLifecycle(c) \/ LockState(c) \/ Decide(c) \/ Uninstall(c)
    \/ InstallIntegrity(c) \/ InstallHandler(c) \/ Prepare(c) \/ GameReady(c) \/ Spawn(c)
    \/ SpawnProfiler(c) \/ KeepError(c)
    \/ Quiet(c) \/ Unhandle(c) \/ Unpatch(c)

LEMMA SilentStep ==
    ASSUME NEW c \in Callers, Silent(c)
    PROVE  UNCHANGED <<status, code>>
<1>1. CASE Call(c)
  BY <1>1 DEF Call, statics, code
<1>2. CASE LockLifecycle(c)
  BY <1>2 DEF LockLifecycle, statics, code
<1>3. CASE LockState(c)
  BY <1>3 DEF LockState, statics, code
<1>4. CASE Repeat(c)
  BY <1>4 DEF Repeat, statics, code
<1>5. CASE Refuse(c)
  BY <1>5 DEF Refuse, statics, code
<1>6. CASE Attempt(c)
  BY <1>6 DEF Attempt, statics, code
<1>7. CASE InstallIntegrity(c)
  BY <1>7 DEF InstallIntegrity, Abort, statics, code
<1>8. CASE InstallHandler(c)
  BY <1>8 DEF InstallHandler, Abort, statics, code
<1>9. CASE Prepare(c)
  BY <1>9 DEF Prepare, Abort, statics, code
<1>10. CASE GameReady(c)
  BY <1>10 DEF GameReady, statics, code
<1>11. CASE Spawn(c)
  BY <1>11 DEF Spawn, statics, code
<1>12. CASE SpawnProfiler(c)
  BY <1>12 DEF SpawnProfiler, statics, code
<1>13. CASE KeepError(c)
  BY <1>13 DEF KeepError, statics, code
<1>14. CASE Quiet(c)
  BY <1>14 DEF Quiet, statics, code
<1>15. CASE Unhandle(c)
  BY <1>15 DEF Unhandle, statics, code
<1>16. CASE Unpatch(c)
  BY <1>16 DEF Unpatch, statics, code
<1>17. CASE StoreStop(c)
  BY <1>17 DEF StoreStop, statics, code
<1>18. CASE TakeHandles(c)
  BY <1>18 DEF TakeHandles, statics, code
<1>19. CASE Join(c)
  BY <1>19 DEF Join, statics, code
<1>20. CASE CheckActive(c)
  BY <1>20 DEF CheckActive, statics, code
<1> QED
  BY <1>1, <1>2, <1>3, <1>4, <1>5, <1>6, <1>7, <1>8, <1>9, <1>10, <1>11,
     <1>12, <1>13, <1>14, <1>15, <1>16, <1>17, <1>18, <1>19, <1>20
     DEF Silent, Decide, Uninstall

LEMMA WorkerStepIsSilent ==
    ASSUME Config \/ ProfilerStep \/ UNCHANGED vars
    PROVE  UNCHANGED <<status, code>>
BY DEF Config, ConfigCheck, ConfigTryLock, ConfigMaintain, ConfigPoll, ConfigStep, ProfilerStep,
       statics, code, vars

\* What a thread inside start or deactivate knows of the status.
LEMMA StatusAt ==
    ASSUME IInv, NEW c \in Callers, NEW p \in StartPC \cup DeactivatePC, pc[c] = p
    PROVE  /\ InPhase(p)
           /\ p \in StartPC => status = "waiting"
           /\ p \in DeactivatePC => status = IF rollback THEN "waiting" ELSE "active"
<1>1. p \notin Outside
  BY DEF StartPC, DeactivatePC, Outside
<1>2. InPhase(p)
  BY <1>1, PhaseAt DEF IInv
<1>3. p \in StartPC => status = "waiting"
  BY <1>2 DEF InPhase, InStart
<1>4. p \in DeactivatePC => status = IF rollback THEN "waiting" ELSE "active"
  BY <1>2 DEF InPhase, InDeactivate, IInv, TypeOK
<1> QED
  BY <1>2, <1>3, <1>4

\* start modifies the game while the status is WAITING.
LEMMA ApplyMaps ==
    ASSUME IInv, NEW c \in Callers, Apply(c) \/ Enable(c)
    PROVE  [OneShot!Next]_(OneShot!vars)
<1>1. \E p \in {"apply", "enable"} : pc[c] = p
  BY DEF Apply, Enable, Abort, Go
<1>2. status = "waiting"
  BY <1>1, StatusAt DEF StartPC
<1>3. UNCHANGED status
  BY DEF Apply, Enable, Abort, statics
<1>4. Modified' \in BOOLEAN
  BY DEF Modified
<1> QED
  BY <1>2, <1>3, <1>4 DEF OneShot!Next, OneShot!Work

LEMMA PublishMaps ==
    ASSUME IInv, NEW c \in Callers, Publish(c)
    PROVE  [OneShot!Next]_(OneShot!vars)
<1>1. pc[c] = "publish"
  BY DEF Publish, Return, Go
<1>2. InPhase("publish") /\ status = "waiting"
  BY <1>1, StatusAt DEF StartPC
<1>3. 1 \in applied
  BY <1>2, CountsAssumption DEF InPhase, InStart
<1>4. Modified /\ UNCHANGED Modified
  BY <1>3 DEF Modified, Publish, code
<1>5. status' = "active"
  BY DEF Publish
<1> QED
  BY <1>2, <1>4, <1>5 DEF OneShot!Next, OneShot!Activate

\* deactivate only removes, while an active patch still says ACTIVE.
LEMMA RemovalMaps ==
    ASSUME IInv, NEW c \in Callers, Disable(c) \/ Restore(c)
    PROVE  [OneShot!Next]_(OneShot!vars)
<1>1. \E p \in {"disable", "restore"} : pc[c] = p
  BY DEF Disable, Restore, Go
<1>2. status \in {"waiting", "active"}
  BY <1>1, StatusAt DEF DeactivatePC
<1>3. UNCHANGED status
  BY DEF Disable, Restore, statics
<1>4. applied' \subseteq applied /\ live' \subseteq live
  BY DEF Disable, Restore, code
<1>5. Modified' => Modified
  BY <1>4 DEF Modified
<1>6. Modified \in BOOLEAN /\ Modified' \in BOOLEAN
  BY DEF Modified
<1>7. CASE status = "waiting"
  BY <1>3, <1>6, <1>7 DEF OneShot!Next, OneShot!Work
<1>8. CASE status = "active" /\ Modified' = Modified
  BY <1>3, <1>8 DEF OneShot!vars
<1>9. CASE status = "active" /\ Modified /\ ~Modified'
  BY <1>3, <1>6, <1>9 DEF OneShot!Next, OneShot!Remove
<1> QED
  BY <1>2, <1>5, <1>6, <1>7, <1>8, <1>9

LEMMA InactiveMaps ==
    ASSUME IInv, NEW c \in Callers, Inactive(c)
    PROVE  [OneShot!Next]_(OneShot!vars)
<1>1. pc[c] = "inactive"
  BY DEF Inactive, Go, Return
<1>2. status = IF rollback THEN "waiting" ELSE "active"
  BY <1>1, StatusAt DEF DeactivatePC
<1>3. UNCHANGED Modified
  BY DEF Inactive, code, Modified
<1>4. status' = IF rollback THEN "failed" ELSE "deactivated"
  BY DEF Inactive
<1>5. CASE rollback
  BY <1>2, <1>3, <1>4, <1>5 DEF OneShot!Next, OneShot!Fail
<1>6. CASE ~rollback
  BY <1>2, <1>3, <1>4, <1>6 DEF OneShot!Next, OneShot!Deactivate
<1> QED
  BY <1>5, <1>6

LEMMA StepMaps == IInv /\ [Next]_vars => [OneShot!Next]_(OneShot!vars)
<1> SUFFICES ASSUME IInv, [Next]_vars PROVE [OneShot!Next]_(OneShot!vars)
  OBVIOUS
<1>1. ASSUME UNCHANGED <<status, code>> PROVE [OneShot!Next]_(OneShot!vars)
  BY <1>1 DEF OneShot!vars, Modified, code
<1>2. ASSUME NEW c \in Callers, Silent(c) PROVE [OneShot!Next]_(OneShot!vars)
  BY <1>1, <1>2, SilentStep
<1>3. CASE Config \/ ProfilerStep \/ UNCHANGED vars
  BY <1>1, <1>3, WorkerStepIsSilent
<1>4. ASSUME NEW c \in Callers, Apply(c) \/ Enable(c) PROVE [OneShot!Next]_(OneShot!vars)
  BY <1>4, ApplyMaps
<1>5. ASSUME NEW c \in Callers, Publish(c) PROVE [OneShot!Next]_(OneShot!vars)
  BY <1>5, PublishMaps
<1>6. ASSUME NEW c \in Callers, Disable(c) \/ Restore(c) PROVE [OneShot!Next]_(OneShot!vars)
  BY <1>6, RemovalMaps
<1>7. ASSUME NEW c \in Callers, Inactive(c) PROVE [OneShot!Next]_(OneShot!vars)
  BY <1>7, InactiveMaps
<1> QED
  BY <1>2, <1>3, <1>4, <1>5, <1>6, <1>7 DEF Next, Running, Start, Deactivate, Silent

\* The game is patched in one attempt, and a patch that FAILED or was
\* DEACTIVATED never comes back: PatchLifecycle implements PatchStatus.
THEOREM PatchesOnlyOnce == Spec => PatchedOnce
<1>1. Init => OneShot!Init
  BY DEF Init, OneShot!Init, Modified
<1>2. IInv /\ [Next]_vars => [OneShot!Next]_(OneShot!vars)
  BY StepMaps
<1> QED
  BY <1>1, <1>2, LifecycleInvariant, PTL DEF Spec, PatchedOnce, OneShot!Spec

-----------------------------------------------------------------------------
(* Answers.                                                                *)

Agrees(c) == reply'[c] # reply[c] /\ reply'[c] # "none" =>
                 \/ reply'[c] = status'
                 \/ reply'[c] = "unsupported" /\ status' = "waiting"

LEMMA ReturnAgrees ==
    ASSUME TypeOK, NEW c \in Callers, NEW from, NEW answer, Return(c, from, answer),
           \/ answer = "none"
           \/ answer = status'
           \/ answer = "unsupported" /\ status' = "waiting"
    PROVE  \A d \in Callers : Agrees(d)
BY DEF Return, Agrees, TypeOK

LEMMA SameReplyAgrees ==
    ASSUME UNCHANGED reply
    PROVE  \A d \in Callers : Agrees(d)
BY DEF Agrees

LEMMA CallAgrees ==
    ASSUME TypeOK, NEW c \in Callers, Call(c)
    PROVE  \A d \in Callers : Agrees(d)
BY DEF Call, Agrees, TypeOK

LEMMA DecideAgrees ==
    ASSUME IInv, NEW c \in Callers, Decide(c)
    PROVE  \A d \in Callers : Agrees(d)
<1>1. pc[c] = "decide" /\ "decide" \notin Outside
  BY DEF Decide, Repeat, Refuse, Attempt, Return, Go, Outside
<1>2. Stable
  <2>1. InPhase("decide")
    BY <1>1, PhaseAt DEF IInv
  <2> QED
    BY <2>1 DEF InPhase, Calm
<1>3. CASE Repeat(c)
  <2>1. UNCHANGED status
    BY <1>3 DEF Repeat, statics
  <2>2. CASE active /\ Return(c, "decide", "active")
    <3>1. status' = "active"
      BY <1>2, <2>1, <2>2 DEF Stable, Untouched, Over
    <3> QED
      BY <2>2, <3>1, ReturnAgrees DEF IInv
  <2>3. CASE ~active /\ attempted /\ Return(c, "decide", IF lastError THEN "failed" ELSE "deactivated")
    <3>1. status' = IF lastError THEN "failed" ELSE "deactivated"
      BY <1>2, <2>1, <2>3 DEF Stable, Untouched, Installed
    <3> QED
      BY <2>3, <3>1, ReturnAgrees DEF IInv
  <2> QED
    BY <1>3, <2>2, <2>3 DEF Repeat
<1>4. CASE Refuse(c)
  <2>1. status' = "waiting"
    BY <1>2, <1>4 DEF Refuse, statics, Stable, Installed, Over
  <2>2. CASE Return(c, "decide", "unsupported")
    BY <2>1, <2>2, ReturnAgrees DEF IInv
  <2>3. CASE Return(c, "decide", "waiting")
    BY <2>1, <2>3, ReturnAgrees DEF IInv
  <2> QED
    BY <1>4, <2>2, <2>3 DEF Refuse
<1>5. CASE Attempt(c)
  BY <1>5, SameReplyAgrees DEF Attempt
<1> QED
  BY <1>3, <1>4, <1>5 DEF Decide

LEMMA StartAgrees ==
    ASSUME IInv, NEW c \in Callers, Start(c)
    PROVE  \A d \in Callers : Agrees(d)
<1>1. CASE Publish(c)
  <2>1. Return(c, "publish", "active") /\ status' = "active"
    BY <1>1 DEF Publish
  <2> QED
    BY <2>1, ReturnAgrees DEF IInv
<1>2. CASE KeepError(c)
  <2>1. Return(c, "error", "failed") /\ UNCHANGED status
    BY <1>2 DEF KeepError
  <2>2. pc[c] = "error" /\ "error" \notin Outside
    BY <2>1 DEF Return, Go, Outside
  <2>3. InPhase("error")
    BY <2>2, PhaseAt DEF IInv
  <2>4. status' = "failed"
    BY <2>1, <2>3 DEF InPhase, InDeactivate
  <2> QED
    BY <2>1, <2>4, ReturnAgrees DEF IInv
<1>3. CASE UNCHANGED reply
  BY <1>3, SameReplyAgrees
<1> QED
  BY <1>1, <1>2, <1>3 DEF Start, InstallIntegrity, InstallHandler, Prepare, Apply, Enable, GameReady,
                          Spawn, SpawnProfiler, Abort

LEMMA DeactivateAgrees ==
    ASSUME IInv, NEW c \in Callers, Deactivate(c)
    PROVE  \A d \in Callers : Agrees(d)
<1>1. CASE Return(c, "inactive", "none")
  BY <1>1, ReturnAgrees DEF IInv
<1>2. CASE UNCHANGED reply
  BY <1>2, SameReplyAgrees
<1> QED
  BY <1>1, <1>2 DEF Deactivate, Disable, Restore, Quiet, Unhandle, Unpatch, Inactive

LEMMA UninstallAgrees ==
    ASSUME IInv, NEW c \in Callers, Uninstall(c)
    PROVE  \A d \in Callers : Agrees(d)
<1>1. CASE Return(c, "check", "none")
  BY <1>1, ReturnAgrees DEF IInv
<1>2. CASE UNCHANGED reply
  BY <1>2, SameReplyAgrees
<1> QED
  BY <1>1, <1>2 DEF Uninstall, StoreStop, TakeHandles, Join, CheckActive

\* What a bootstrap call answers is what passive polling reads.
THEOREM AnswersAgree == Spec => RepliesAgree
<1>1. ASSUME IInv, [Next]_vars PROVE [\A c \in Callers : Agrees(c)]_vars
  <2>1. ASSUME NEW c \in Callers, LockLifecycle(c) \/ LockState(c)
        PROVE  \A d \in Callers : Agrees(d)
    BY <2>1, SameReplyAgrees DEF LockLifecycle, LockState
  <2>2. ASSUME NEW c \in Callers, Call(c) PROVE \A d \in Callers : Agrees(d)
    BY <1>1, <2>2, CallAgrees DEF IInv
  <2>3. ASSUME NEW c \in Callers, Running(c) PROVE \A d \in Callers : Agrees(d)
    BY <1>1, <2>3, DecideAgrees, StartAgrees, DeactivateAgrees, UninstallAgrees DEF Running
  <2>4. ASSUME Config \/ ProfilerStep PROVE \A d \in Callers : Agrees(d)
    BY <2>4, SameReplyAgrees DEF Config, ConfigCheck, ConfigTryLock, ConfigMaintain, ConfigPoll,
                                 ConfigStep, ProfilerStep
  <2> QED
    BY <1>1, <2>1, <2>2, <2>3, <2>4 DEF Next
<1> QED
  BY <1>1, LifecycleInvariant, PTL DEF Spec, RepliesAgree, Agrees

=============================================================================
