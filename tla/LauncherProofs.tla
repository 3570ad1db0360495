--------------------------- MODULE LauncherProofs ---------------------------
(***************************************************************************)
(* Proofs about the launcher's two modules that share no state:            *)
(* LauncherHandoff (the worker and the hand-over to the helper) and        *)
(* UpdaterWorker (the updater's threads).                                  *)
(*                                                                         *)
(* LauncherHandoff: until a helper has failed to start, nothing takes a    *)
(* pause back, so that quiescent, once stored, is true of a worker that    *)
(* can only find itself paused again.                                      *)
(*                                                                         *)
(* UpdaterWorker: a launcher's thread is that of its last request, and a   *)
(* staging directory has one owner, a thread or an update on offer; what   *)
(* its owner knows of it is what was checked.                              *)
(***************************************************************************)
EXTENDS LauncherHandoff, UpdaterWorker, TLAPS

\* A window that resumes detection has seen a helper fail.
Resuming == upc \in {"resume", "unpause"} => failures # 0

\* Before that, quiescent says that the worker is paused and stays so.
Quiet == failures = 0 =>
             /\ wpc = "mark" => paused
             /\ quiescent => paused /\ ~Active
             /\ upc = "starting" \/ restarting => quiescent

IInv == TypeOK /\ Resuming /\ Quiet /\ SettingsSettled

LEMMA InvInit == Init => IInv
<1> SUFFICES ASSUME Init PROVE IInv
    OBVIOUS
<1> USE DEF Init
<1>1. TypeOK
    <2>1. {stop, paused, quiescent, configured} \subseteq BOOLEAN
        OBVIOUS
    <2>2. configured \in BOOLEAN /\ saveError \in BOOLEAN
        OBVIOUS
    <2>3. {restarting, dirty, saveError, game} \subseteq BOOLEAN
        BY <2>2
    <2>4. failures \in 0..MaxFailures
        BY FailuresAssumption
    <2>5. /\ wpc \in WorkerPC /\ session \in {"none", "live", "dead"}
          /\ upc \in WindowPC /\ update \in {"none", "ready", "handoff"}
        BY DEF WorkerPC, WindowPC
    <2> QED
        BY <2>1, <2>3, <2>4, <2>5 DEF TypeOK
<1> QED
    BY <1>1 DEF IInv, Resuming, Quiet, SettingsSettled, Active

-----------------------------------------------------------------------------

LEMMA WorkerKeeps ==
    ASSUME IInv, WorkerStep
    PROVE  IInv'
<1> USE DEF IInv
<1>0. UNCHANGED <<stop, paused, configured, upc, edits, handoff, game>>
    BY DEF WorkerStep, CheckStop, LoadPaused, MarkQuiescent, ClearQuiescent, PollOrFind,
           Attach, flags
<1>1. quiescent' \in BOOLEAN
    BY DEF WorkerStep, CheckStop, LoadPaused, MarkQuiescent, ClearQuiescent, PollOrFind,
           Attach, flags, TypeOK
<1>2. wpc' \in WorkerPC
    BY DEF WorkerStep, CheckStop, LoadPaused, MarkQuiescent, ClearQuiescent, PollOrFind,
           Attach, WorkerGo, WorkerPC
<1>3. session' \in {"none", "live", "dead"}
    BY DEF WorkerStep, CheckStop, LoadPaused, MarkQuiescent, ClearQuiescent, PollOrFind,
           Attach, TypeOK
<1>4. TypeOK'
    BY <1>0, <1>1, <1>2, <1>3 DEF TypeOK, edits, handoff
<1>5. Resuming' /\ SettingsSettled'
    BY <1>0 DEF Resuming, SettingsSettled, edits, handoff
<1>6. Quiet'
    <2>1. CASE CheckStop
        BY <1>0, <2>1 DEF CheckStop, WorkerGo, flags, handoff, Quiet, Active
    <2>2. CASE LoadPaused
        BY <1>0, <2>2 DEF LoadPaused, WorkerGo, flags, handoff, Quiet, Active
    <2>3. CASE MarkQuiescent
        BY <1>0, <2>3 DEF MarkQuiescent, WorkerGo, handoff, Quiet, Active
    <2>4. CASE ClearQuiescent
        BY <1>0, <2>4 DEF ClearQuiescent, WorkerGo, handoff, Quiet, Active
    <2>5. CASE PollOrFind
        BY <1>0, <2>5 DEF PollOrFind, WorkerGo, flags, handoff, Quiet, Active
    <2>6. CASE Attach
        BY <1>0, <2>6 DEF Attach, WorkerGo, flags, handoff, Quiet, Active
    <2> QED
        BY <2>1, <2>2, <2>3, <2>4, <2>5, <2>6 DEF WorkerStep
<1> QED
    BY <1>4, <1>5, <1>6

LEMMA SaveAndPauseKeeps ==
    ASSUME IInv, SaveAndPause
    PROVE  IInv'
<1> USE DEF IInv
<1>1. UNCHANGED <<stop, quiescent, worker, restarting, failures, game>> /\ upc = "save"
    BY DEF SaveAndPause
<1>2. dirty' = FALSE /\ saveError' \in BOOLEAN /\ configured' \in BOOLEAN
    <2>1. CASE dirty
        BY <2>1 DEF SaveAndPause, Save
    <2>2. CASE ~dirty
        BY <2>2 DEF SaveAndPause, edits, TypeOK
    <2> QED
        BY <2>1, <2>2
<1>3. CASE saveError'
    <2>1. UNCHANGED <<paused, update>> /\ upc' = "idle"
        BY <1>3 DEF SaveAndPause
    <2>2. update # "handoff"
        BY <1>3 DEF SaveAndPause, SettingsSettled, edits
    <2> QED
        BY <1>1, <1>2, <2>1, <2>2 DEF TypeOK, WindowPC, worker, Resuming, Quiet, Active,
           SettingsSettled
<1>4. CASE ~saveError'
    <2>1. upc' = "look" /\ paused' = TRUE /\ update' = "handoff"
        BY <1>4 DEF SaveAndPause
    <2> QED
        BY <1>1, <1>2, <1>4, <2>1 DEF TypeOK, WindowPC, worker, Resuming, Quiet, Active,
           SettingsSettled
<1> QED
    BY <1>3, <1>4

LEMMA WindowKeeps ==
    ASSUME IInv, WindowStep
    PROVE  IInv'
<1> USE DEF IInv, WindowGo, TypeOK, WindowPC, Resuming, Quiet, Active, SettingsSettled,
        flags, worker, edits, handoff
<1>1. CASE Timer
    BY <1>1 DEF Timer
<1>2. CASE LookQuiescent
    BY <1>2 DEF LookQuiescent
<1>3. CASE HelperStarted
    BY <1>3 DEF HelperStarted
<1>4. CASE HelperFails
    BY <1>4, FailuresAssumption DEF HelperFails
<1>5. CASE ResumeQuiescent
    BY <1>5 DEF ResumeQuiescent
<1>6. CASE ResumePaused
    BY <1>6 DEF ResumePaused
<1>7. CASE StopWorker
    BY <1>7 DEF StopWorker
<1>8. CASE Join
    BY <1>8 DEF Join
<1> QED
    BY <1>1, <1>2, <1>3, <1>4, <1>5, <1>6, <1>7, <1>8, SaveAndPauseKeeps DEF WindowStep

LEMMA UserKeeps ==
    ASSUME IInv, User
    PROVE  IInv'
<1> USE DEF IInv, WindowGo, TypeOK, WindowPC, Resuming, Quiet, Active, SettingsSettled,
        flags, worker, edits, handoff
<1>1. CASE Edit
    BY <1>1 DEF Edit
<1>2. CASE SaveEdits
    BY <1>2 DEF SaveEdits, Save
<1>3. CASE UpdateReady
    BY <1>3 DEF UpdateReady
<1>4. CASE ClickInstall
    BY <1>4 DEF ClickInstall
<1>5. CASE Close
    <2>1. CASE dirty
        BY <1>5, <2>1 DEF Close, Save
    <2>2. CASE ~dirty
        BY <1>5, <2>2 DEF Close
    <2> QED
        BY <2>1, <2>2
<1> QED
    BY <1>1, <1>2, <1>3, <1>4, <1>5 DEF User

LEMMA GameKeeps ==
    ASSUME IInv, GameStart \/ GameExit \/ UNCHANGED vars
    PROVE  IInv'
<1> USE DEF IInv, TypeOK, Resuming, Quiet, Active, SettingsSettled,
        flags, worker, edits, handoff
<1>1. CASE GameStart
    BY <1>1 DEF GameStart
<1>2. CASE GameExit
    BY <1>2 DEF GameExit
<1>3. CASE UNCHANGED vars
    BY <1>3 DEF vars
<1> QED
    BY <1>1, <1>2, <1>3

-----------------------------------------------------------------------------
(* The theorems.                                                            *)

\* Until a helper has failed, a stored quiescent is true of the worker; edits
\* end with the pause.
THEOREM HandoffInvariant == Spec => []IInv
<1>1. IInv /\ [Next]_vars => IInv'
    BY WorkerKeeps, WindowKeeps, UserKeeps, GameKeeps DEF Next
<1> QED
    BY InvInit, <1>1, PTL DEF Spec

\* The flags, program counters and the hand-off's state keep their types.
THEOREM HandoffTypes == Spec => []TypeOK
<1>1. IInv => TypeOK
    BY DEF IInv
<1> QED
    BY <1>1, HandoffInvariant, PTL

\* The first hand-off pauses the worker before its helper is started, wherever
\* the worker is when the window looks at it.
THEOREM FirstHelperIsSafe == Spec => []FirstHandoffIsPaused
<1>1. IInv => FirstHandoffIsPaused
    BY DEF IInv, Quiet, FirstHandoffIsPaused
<1> QED
    BY <1>1, HandoffInvariant, PTL

\* From the pause on, the settings on disk are the user's.
THEOREM SettingsStaySaved == Spec => []SettingsSettled
<1>1. IInv => SettingsSettled
    BY DEF IInv
<1> QED
    BY <1>1, HandoffInvariant, PTL

-----------------------------------------------------------------------------
(* The inductive invariant of UpdaterWorker.                                *)

Fetching == {"hop", "body", "progress", "create"}
Staging  == {"own", "extract", "manifest", "persist"}
Leaving  == {"finish", "discard", "store"}
Places   == {"off", "unwind"} \cup Fetching \cup Staging \cup Leaving

Releases == [version : Nat, size : Nat]
Outcome  == [is : {"Idle", "Checking", "Available", "Downloading", "Ready", "Handoff", "Error"},
             release : Releases \cup {Nil}, stage : Stages \cup {Nil}]
Worker   == [pc : Places, of : Launchers \cup {Nil},
             what : {"latest", "manifest", "archive"} \cup {Nil}, release : Releases \cup {Nil},
             hops : Nat, body : Builds \cup {Nil}, got : Nat, manifest : Builds \cup {Nil},
             stage : Stages \cup {Nil}, entry : Nat, result : Outcome \cup {Nil}]

UpdaterTypes ==
    /\ life \in [Launchers -> {"new", "created", "running", "closing", "gone"}]
    /\ state \in [Launchers -> Outcome] /\ latest \in [Launchers -> Threads \cup {Nil}]
    /\ thread \in [Threads -> Worker] /\ stopping \subseteq Threads
    /\ stage \in [Stages -> Directory \cup {Nil}] /\ leftover \subseteq Stages
    /\ assets \in [Versions -> Builds \cup {Nil}] /\ changes \in Nat

\* Only the last launcher's window is open.
OneWindow ==
    \A l \in Launchers : life[l] # "new" => \A k \in 1..l - 1 : life[k] \in {"closing", "gone"}

\* A thread is that of its launcher's last request, which is busy with it.
LatestRuns ==
    \A t \in Threads :
        /\ thread[t].pc = "off" => thread[t] = NoThread
        /\ thread[t].pc # "off" =>
               /\ thread[t].of \in Launchers /\ latest[thread[t].of] = t
               /\ state[thread[t].of].is \in {"Checking", "Downloading"}
               /\ life[thread[t].of] \in {"running", "closing"}

Offers(o) == o.is = "Available" => o.release \in Releases /\ o.release.version > Installed

\* A state has a stage when there is an update to be installed, and offers only
\* a newer release.
Settled ==
    \A l \in Launchers :
        /\ state[l].stage # Nil <=> state[l].is \in {"Ready", "Handoff"}
        /\ Offers(state[l])

\* What a thread knows at each place.
Knows(w) ==
    /\ w.pc \in Fetching =>
           w.stage = Nil /\ w.entry = 0 /\ w.what \in {"latest", "manifest", "archive"}
    /\ w.pc \in {"body", "progress"} => w.body \in Builds
    /\ w.pc \in Staging \cup {"unwind"} => w.stage # Nil
    /\ w.pc \in Staging \cup {"progress", "create"} => w.what = "archive"
    /\ w.pc \in Staging \cup Fetching /\ w.what \in {"manifest", "archive"} =>
           w.release \in Releases /\ w.release.version > Installed
    /\ w.pc \in Staging \cup Fetching /\ w.what = "archive" =>
           w.manifest \in Builds /\ Release(w.manifest) = w.release
    /\ w.pc = "unwind" => w.result = Plain("Error")
    /\ w.pc \in Leaving =>
           /\ w.result \in Outcome /\ w.result.is \in {"Idle", "Available", "Ready", "Error"}
           /\ w.result.stage = w.stage /\ (w.result.is = "Ready" <=> w.stage # Nil)
           /\ Offers(w.result)

Known == \A t \in Threads : Knows(thread[t])

\* A directory has at most one owner.
Exclusive ==
    \A s \in Stages :
        /\ \A t, u \in Threads : thread[t].stage = s /\ thread[u].stage = s => t = u
        /\ \A l, k \in Launchers : state[l].stage = s /\ state[k].stage = s => l = k
        /\ \A t \in Threads, l \in Launchers : ~(thread[t].stage = s /\ state[l].stage = s)

Verified(d, release) ==
    /\ d # Nil /\ d.owner /\ d.manifest # Nil
    /\ Release(d.manifest) = release /\ Newer(d.manifest)
    /\ d.new = {Content(name, d.manifest) : name \in Names}

\* How far the directory of a thread is.
Reached(w, d) ==
    /\ w.pc = "own" => d # Nil /\ d.new = {} /\ w.entry = 0
    /\ w.pc = "extract" =>
           /\ d # Nil /\ d.owner
           /\ \/ w.entry = 0 /\ d.new = {}
              \/ w.entry = 1 /\ \E name \in Names : d.new = {Content(name, w.manifest)}
    /\ w.pc = "manifest" =>
           d # Nil /\ d.owner /\ d.new = {Content(name, w.manifest) : name \in Names}
    /\ w.pc = "persist" => Verified(d, w.release)
    /\ w.pc \in Leaving /\ w.result.is = "Ready" => Verified(d, w.result.release)

\* The next launcher cleans up only when this one's window is closed.
Built ==
    \A t \in Threads : thread[t].pc # "off" /\ life[thread[t].of] = "running" =>
        Reached(thread[t], stage[thread[t].stage])

UpdaterInv ==
    /\ UpdaterTypes /\ OneWindow /\ LatestRuns /\ Settled /\ Known /\ Exclusive
    /\ Built /\ ReadyIsVerified /\ NothingLeftBehind

LEMMA UpdaterInitInv == UpdaterInit => UpdaterInv
<1> SUFFICES ASSUME UpdaterInit PROVE UpdaterInv
    OBVIOUS
<1>1. NoThread \in Worker
    BY DEF NoThread, Worker, Places
<1>2. Plain("Idle") \in Outcome
    BY DEF Plain, State, Outcome
<1>3. assets \in [Versions -> Builds \cup {Nil}]
    BY DEF UpdaterInit
<1>4. UpdaterTypes
    BY <1>1, <1>2, <1>3 DEF UpdaterInit, UpdaterTypes
<1>5. /\ \A t \in Threads : thread[t] = NoThread
      /\ \A l \in Launchers : life[l] = "new" /\ state[l] = Plain("Idle")
      /\ \A s \in Stages : stage[s] = Nil
    BY DEF UpdaterInit
<1>6. /\ NoThread.pc = "off" /\ NoThread.stage = Nil
      /\ Plain("Idle").is = "Idle" /\ Plain("Idle").stage = Nil
    BY DEF NoThread, Plain, State
<1>7. OneWindow /\ LatestRuns
    BY <1>5, <1>6 DEF OneWindow, LatestRuns
<1>8. Settled /\ Known
    BY <1>5, <1>6 DEF Settled, Offers, Known, Knows, Fetching, Staging, Leaving
<1>9. Exclusive
    BY <1>5, <1>6, UpdaterAssumption DEF Exclusive
<1>10. Built /\ ReadyIsVerified /\ NothingLeftBehind
    BY <1>5, <1>6 DEF Built, ReadyIsVerified, NothingLeftBehind, Existing
<1> QED
    BY <1>4, <1>7, <1>8, <1>9, <1>10 DEF UpdaterInv

\* A thread that runs, and what is known of it.
LEMMA RunningThread ==
    ASSUME UpdaterInv, NEW t \in Threads, thread[t].pc # "off"
    PROVE  /\ thread[t] \in Worker /\ Knows(thread[t])
           /\ thread[t].of \in Launchers /\ latest[thread[t].of] = t
           /\ state[thread[t].of].is \in {"Checking", "Downloading"}
           /\ state[thread[t].of].stage = Nil
           /\ life[thread[t].of] \in {"running", "closing"}
           /\ life[thread[t].of] = "running" => Reached(thread[t], stage[thread[t].stage])
<1>1. /\ thread[t].of \in Launchers /\ latest[thread[t].of] = t
      /\ state[thread[t].of].is \in {"Checking", "Downloading"}
      /\ life[thread[t].of] \in {"running", "closing"}
    BY DEF UpdaterInv, LatestRuns
<1>2. state[thread[t].of].stage = Nil
    BY <1>1 DEF UpdaterInv, Settled
<1>3. thread[t] \in Worker /\ Knows(thread[t])
    BY DEF UpdaterInv, UpdaterTypes, Known
<1>4. life[thread[t].of] = "running" => Reached(thread[t], stage[thread[t].stage])
    BY DEF UpdaterInv, Built
<1> QED
    BY <1>1, <1>2, <1>3, <1>4

\* What a step leaves alone stays verified.
LEMMA ReachedStill ==
    ASSUME UpdaterInv, NEW u \in Threads, thread[u].pc # "off",
           life[thread[u].of] = "running",
           \A s \in Stages : thread[u].stage = s => stage'[s] = stage[s]
    PROVE  Reached(thread[u], stage'[thread[u].stage])
<1>1. thread[u] \in Worker /\ Knows(thread[u]) /\ Reached(thread[u], stage[thread[u].stage])
    BY RunningThread
<1>2. CASE thread[u].stage \in Stages
    BY <1>1, <1>2
<1>3. CASE thread[u].stage \notin Stages
    <2>1. thread[u].stage = Nil
        BY <1>1, <1>3 DEF Worker
    <2>2. /\ thread[u].pc \in Fetching \cup Leaving
          /\ thread[u].pc \in Leaving => thread[u].result.is # "Ready"
        BY <1>1, <2>1 DEF Worker, Places, Knows
    <2> QED
        BY <2>2 DEF Reached, Fetching, Leaving
<1> QED
    BY <1>2, <1>3

LEMMA VerifiedStill ==
    ASSUME UpdaterInv, NEW l \in Launchers, life[l] = "running",
           state[l].is \in {"Ready", "Handoff"},
           \A s \in Stages : state[l].stage = s => stage'[s] = stage[s]
    PROVE  Verified(stage'[state[l].stage], state[l].release)
<1>1. state[l].stage \in Stages
    BY DEF UpdaterInv, UpdaterTypes, Outcome, Settled
<1>2. Verified(stage[state[l].stage], state[l].release)
    BY DEF UpdaterInv, ReadyIsVerified, Verified
<1> QED
    BY <1>1, <1>2

LEMMA ReleasesHaveTypes ==
    ASSUME NEW b \in Builds
    PROVE  Release(b) \in Releases /\ Release(b).version = b.version
BY UpdaterAssumption DEF Release, Releases

-----------------------------------------------------------------------------
(* A thread's step that leaves it its stage, and to which only the content  *)
(* of that stage and the launcher's progress are not the same afterwards.   *)

LEMMA StepKeeps ==
    ASSUME UpdaterInv, NEW t \in Threads, thread[t].pc # "off",
           NEW w \in Worker, w.of = thread[t].of, w.stage = thread[t].stage, w.pc # "off",
           Knows(w), life[w.of] = "running" => Reached(w, stage'[w.stage]),
           thread' = [thread EXCEPT ![t] = w],
           \/ state' = state
           \/ state' = [state EXCEPT ![w.of] = Plain("Downloading")],
           UNCHANGED <<life, latest, stopping, leftover, github>>,
           stage' \in [Stages -> Directory \cup {Nil}],
           \A s \in Stages : s # w.stage => stage'[s] = stage[s],
           w.stage \in Stages => (stage'[w.stage] = Nil <=> stage[w.stage] = Nil)
    PROVE  UpdaterInv'
<1> DEFINE l == w.of
<1>1. /\ l \in Launchers /\ latest[l] = t /\ state[l].is \in {"Checking", "Downloading"}
      /\ state[l].stage = Nil /\ life[l] \in {"running", "closing"}
    BY RunningThread
<1>2. thread'[t] = w /\ \A u \in Threads \ {t} : thread'[u] = thread[u]
    BY DEF UpdaterInv, UpdaterTypes
<1>3. /\ Plain("Downloading") \in Outcome /\ Plain("Downloading").stage = Nil
      /\ Plain("Downloading").is = "Downloading"
    BY DEF Plain, State, Outcome
<1>4. /\ state'[l].is \in {"Checking", "Downloading"} /\ state'[l].stage = Nil
      /\ \A k \in Launchers \ {l} : state'[k] = state[k]
      /\ state' \in [Launchers -> Outcome]
    BY <1>1, <1>3 DEF UpdaterInv, UpdaterTypes
<1>5. \A u \in Threads : thread'[u].stage = thread[u].stage /\ thread'[u].of = thread[u].of
    BY <1>2
<1>6. \A k \in Launchers : state'[k].stage = state[k].stage
    BY <1>1, <1>4
<1>7. UpdaterTypes'
    BY <1>4 DEF UpdaterInv, UpdaterTypes, github
<1>8. OneWindow'
    BY DEF UpdaterInv, OneWindow
<1>9. LatestRuns'
    BY <1>1, <1>2, <1>4 DEF UpdaterInv, LatestRuns
<1>10. Settled'
    BY <1>1, <1>4 DEF UpdaterInv, Settled, Offers
<1>11. Known'
    BY <1>2 DEF UpdaterInv, Known
<1>12. Exclusive'
    BY <1>5, <1>6 DEF UpdaterInv, Exclusive
<1>13. Built'
    <2> SUFFICES ASSUME NEW u \in Threads, thread'[u].pc # "off",
                        life'[thread'[u].of] = "running"
                 PROVE  Reached(thread'[u], stage'[thread'[u].stage])
        BY DEF Built
    <2>1. CASE u = t
        BY <1>2, <2>1
    <2>2. CASE u # t
        <3>1. /\ thread'[u] = thread[u] /\ life' = life
              /\ \A s \in Stages : thread[u].stage = s => stage'[s] = stage[s]
            BY <1>2, <2>2 DEF UpdaterInv, Exclusive
        <3> QED
            BY <3>1, ReachedStill
    <2> QED
        BY <2>1, <2>2
<1>14. ReadyIsVerified'
    <2> SUFFICES ASSUME NEW k \in Launchers, life'[k] = "running",
                        state'[k].is \in {"Ready", "Handoff"}
                 PROVE  Verified(stage'[state'[k].stage], state'[k].release)
        BY DEF ReadyIsVerified, Verified
    <2>1. k # l /\ state'[k] = state[k]
        BY <1>4
    <2>2. \A s \in Stages : state[k].stage = s => stage'[s] = stage[s]
        BY DEF UpdaterInv, Exclusive
    <2> QED
        BY <2>1, <2>2, VerifiedStill
<1>15. NothingLeftBehind'
    <2>1. Existing' = Existing
        BY DEF Existing
    <2>2. \A s \in Stages : Held(s)' <=> Held(s)
        BY <1>5, <1>6 DEF Held
    <2> QED
        BY <2>1, <2>2 DEF UpdaterInv, NothingLeftBehind, Existing
<1> QED
    BY <1>7, <1>8, <1>9, <1>10, <1>11, <1>12, <1>13, <1>14, <1>15 DEF UpdaterInv

\* One that touches nothing but the thread.
LEMMA MoveKeeps ==
    ASSUME UpdaterInv, NEW t \in Threads, thread[t].pc # "off",
           NEW w \in Worker, w.of = thread[t].of, w.stage = thread[t].stage, w.pc # "off",
           Knows(w), life[w.of] = "running" => Reached(w, stage[w.stage]),
           thread' = [thread EXCEPT ![t] = w],
           UNCHANGED <<life, updater, stage, leftover, github>>
    PROVE  UpdaterInv'
<1>1. stage \in [Stages -> Directory \cup {Nil}]
    BY DEF UpdaterInv, UpdaterTypes
<1>2. /\ state' = state /\ UNCHANGED <<life, latest, stopping, leftover, github>>
      /\ stage' = stage
    BY DEF updater
<1> QED
    BY <1>1, <1>2, StepKeeps

\* What a thread is when its work has returned.
LEMMA Returned ==
    ASSUME NEW t \in Threads, thread[t] \in Worker, NEW pc \in Places, NEW result \in Outcome,
           Leaves(t, pc, result)
    PROVE  \E w \in Worker :
               /\ w.pc = pc /\ w.of = thread[t].of /\ w.stage = thread[t].stage
               /\ w.result = result /\ thread' = [thread EXCEPT ![t] = w]
<1> DEFINE w == [NoThread EXCEPT !.pc = pc, !.of = thread[t].of,
                                 !.stage = thread[t].stage, !.result = result]
<1>1. w \in Worker
    BY DEF NoThread, Worker
<1>2. /\ w.pc = pc /\ w.of = thread[t].of /\ w.stage = thread[t].stage /\ w.result = result
      /\ thread' = [thread EXCEPT ![t] = w]
    BY DEF NoThread, Leaves
<1> QED
    BY <1>1, <1>2

LEMMA FailKeeps ==
    ASSUME UpdaterInv, NEW t \in Threads, thread[t].pc # "off", Fail(t), Outside
    PROVE  UpdaterInv'
<1> DEFINE pc == IF thread[t].stage = Nil THEN "finish" ELSE "unwind"
<1>1. Plain("Error") \in Outcome /\ Plain("Error").is = "Error" /\ Plain("Error").stage = Nil
    BY DEF Plain, State, Outcome
<1>2. thread[t] \in Worker
    BY RunningThread
<1>3. pc \in Places /\ Leaves(t, pc, Plain("Error"))
      /\ UNCHANGED <<life, updater, stage, leftover, github>>
    BY DEF Fail, Places, Leaving, NoStore, NoFile, Outside
<1>4. PICK w \in Worker : /\ w.pc = pc /\ w.of = thread[t].of /\ w.stage = thread[t].stage
                          /\ w.result = Plain("Error") /\ thread' = [thread EXCEPT ![t] = w]
    BY <1>1, <1>2, <1>3, Returned
<1>5. Knows(w)
    BY <1>1, <1>4 DEF Knows, Offers, Fetching, Staging, Leaving
<1>6. Reached(w, stage[w.stage])
    BY <1>1, <1>4 DEF Reached
<1> QED
    BY <1>3, <1>4, <1>5, <1>6, MoveKeeps

LEMMA ResultKeeps ==
    ASSUME UpdaterInv, NEW t \in Threads, thread[t].pc # "off",
           NEW is \in {"Idle", "Available", "Ready"}, NEW release \in Releases \cup {Nil},
           Result(t, is, release), NoStore, NoFile, Outside,
           is = "Ready" <=> thread[t].stage # Nil,
           is = "Available" => release \in Releases /\ release.version > Installed,
           is = "Ready" /\ life[thread[t].of] = "running" =>
               Verified(stage[thread[t].stage], release)
    PROVE  UpdaterInv'
<1> DEFINE result == State(is, release, thread[t].stage)
<1>1. thread[t] \in Worker
    BY RunningThread
<1>2. /\ result \in Outcome /\ result.is = is /\ result.release = release
      /\ result.stage = thread[t].stage
    BY <1>1 DEF State, Outcome, Worker
<1>3. "finish" \in Places /\ Leaves(t, "finish", result)
      /\ UNCHANGED <<life, updater, stage, leftover, github>>
    BY DEF Result, Places, Leaving, NoStore, NoFile, Outside
<1> HIDE DEF result
<1>4. PICK w \in Worker : /\ w.pc = "finish" /\ w.of = thread[t].of /\ w.stage = thread[t].stage
                          /\ w.result = result /\ thread' = [thread EXCEPT ![t] = w]
    BY <1>1, <1>2, <1>3, Returned
<1>5. Knows(w)
    BY <1>2, <1>4 DEF Knows, Offers, Fetching, Staging, Leaving
<1>6. life[w.of] = "running" => Reached(w, stage[w.stage])
    BY <1>2, <1>4 DEF Reached
<1> QED
    BY <1>3, <1>4, <1>5, <1>6, MoveKeeps

LEMMA RequestKeeps ==
    ASSUME UpdaterInv, NEW t \in Threads, Request(t)
    PROVE  UpdaterInv'
<1>1. thread[t].pc = "hop" /\ thread[t].pc # "off" /\ Outside
    BY DEF Request, At
<1>2. thread[t] \in Worker /\ Knows(thread[t]) /\ thread[t].stage = Nil
    BY <1>1, RunningThread DEF Knows, Fetching
<1>3. CASE Fail(t)
    BY <1>1, <1>3, FailKeeps
<1>4. CASE Redirect(t) /\ NoStore /\ NoFile
    <2> DEFINE w == [thread[t] EXCEPT !.hops = (@ + 1) % MaxHops]
    <2>1. thread' = [thread EXCEPT ![t] = w] /\ thread[t].hops < MaxHops - 1
        BY <1>2, <1>4 DEF Redirect, MayFollow
    <2>2. thread[t].hops \in Nat /\ MaxHops \in Nat /\ thread[t].hops + 1 < MaxHops
        BY <1>2, <2>1, UpdaterAssumption DEF Worker
    <2>3. ASSUME NEW x \in Nat, NEW y \in Nat, x < y PROVE x % y = x
        BY <2>3
    <2>4. (thread[t].hops + 1) % MaxHops \in Nat
        BY <2>2, <2>3
    <2>5. /\ w \in Worker /\ w.of = thread[t].of /\ w.stage = thread[t].stage
          /\ w.entry = thread[t].entry /\ w.pc = "hop"
          /\ w.what = thread[t].what /\ w.release = thread[t].release
          /\ w.manifest = thread[t].manifest
        BY <1>1, <1>2, <2>4 DEF Worker
    <2> HIDE DEF w
    <2>6. Knows(w)
        BY <1>1, <1>2, <2>5 DEF Knows, Fetching, Staging, Leaving
    <2>7. Reached(w, stage[w.stage])
        BY <2>5 DEF Reached, Leaving
    <2>8. UNCHANGED <<life, updater, stage, leftover, github>>
        BY <1>1, <1>4 DEF Outside, NoStore, NoFile
    <2> QED
        BY <1>1, <2>1, <2>5, <2>6, <2>7, <2>8, MoveKeeps
<1>5. CASE NoBody(t) /\ NoStore /\ NoFile
    BY <1>1, <1>2, <1>5, ResultKeeps DEF NoBody
<1>6. CASE Body(t) /\ NoStore /\ NoFile
    <2>1. PICK v \in Versions :
              /\ assets[v] # Nil
              /\ thread' = [thread EXCEPT ![t].pc = "body", ![t].body = assets[v],
                                          ![t].got = 0, ![t].hops = 0]
        BY <1>6 DEF Body
    <2> DEFINE w == [thread[t] EXCEPT !.pc = "body", !.body = assets[v], !.got = 0, !.hops = 0]
    <2>2. assets[v] \in Builds
        BY <2>1 DEF UpdaterInv, UpdaterTypes
    <2>3. thread' = [thread EXCEPT ![t] = w]
        BY <2>1
    <2>4. w \in Worker
        <3>1. "body" \in Places
            BY DEF Places, Fetching
        <3> QED
            BY <1>2, <2>2, <3>1, ZenonT(60) DEF Worker
    <2>5. /\ w.of = thread[t].of /\ w.stage = thread[t].stage
          /\ w.entry = thread[t].entry /\ w.pc = "body"
        BY <1>2 DEF Worker
    <2>6. /\ w.what = thread[t].what /\ w.release = thread[t].release
          /\ w.manifest = thread[t].manifest /\ w.body \in Builds
        BY <1>2, <2>2 DEF Worker
    <2> HIDE DEF w
    <2>7. Knows(w)
        BY <1>1, <1>2, <2>4, <2>5, <2>6 DEF Knows, Fetching, Staging, Leaving
    <2>8. Reached(w, stage[w.stage])
        BY <2>5 DEF Reached, Leaving
    <2>9. UNCHANGED <<life, updater, stage, leftover, github>>
        BY <1>1, <1>6 DEF Outside, NoStore, NoFile
    <2> QED
        BY <1>1, <2>3, <2>4, <2>5, <2>7, <2>8, <2>9, MoveKeeps
<1> QED
    BY <1>3, <1>4, <1>5, <1>6 DEF Request

\* A place of the thread that says nothing of its stage.
LEMMA FetchingReachesNothing ==
    ASSUME NEW w \in Worker, w.pc \in Fetching, NEW d
    PROVE  Reached(w, d)
BY DEF Reached, Fetching, Leaving

LEMMA ReceiveKeeps ==
    ASSUME UpdaterInv, NEW t \in Threads, Receive(t)
    PROVE  UpdaterInv'
<1>1. thread[t].pc = "body" /\ thread[t].pc # "off" /\ Outside
    BY DEF Receive, At
<1>2. /\ thread[t] \in Worker /\ Knows(thread[t]) /\ thread[t].stage = Nil
      /\ thread[t].body \in Builds
    BY <1>1, RunningThread DEF Knows, Fetching
<1>3. CASE Fail(t)
    BY <1>1, <1>3, FailKeeps
<1>4. CASE NoFile /\ Chunk(t) /\ NoStore
    <2> DEFINE pc == IF thread[t].what = "archive" THEN "progress" ELSE "body"
               w  == [thread[t] EXCEPT !.got = @ + 1, !.pc = pc]
    <2>1. thread' = [thread EXCEPT ![t] = w]
        BY <1>1, <1>2, <1>4 DEF Chunk
    <2>0. pc \in Places /\ thread[t].got + 1 \in Nat
        BY <1>2 DEF Places, Fetching, Worker
    <2> HIDE DEF pc
    <2>2. /\ w \in Worker /\ w.of = thread[t].of /\ w.stage = thread[t].stage
          /\ w.entry = thread[t].entry /\ w.pc = pc
          /\ w.what = thread[t].what /\ w.release = thread[t].release
          /\ w.manifest = thread[t].manifest /\ w.body = thread[t].body
        BY <1>2, <2>0, ZenonT(60) DEF Worker
    <2> USE DEF pc
    <2> HIDE DEF w
    <2>3. Knows(w) /\ w.pc \in Fetching
        BY <1>1, <1>2, <2>2 DEF Knows, Fetching, Staging, Leaving
    <2>4. UNCHANGED <<life, updater, stage, leftover, github>>
        BY <1>1, <1>4 DEF Outside, NoStore, NoFile
    <2>5. w.pc # "off"
        BY <2>3 DEF Fetching
    <2> QED
        BY <1>1, <2>1, <2>2, <2>3, <2>4, <2>5, FetchingReachesNothing, MoveKeeps
<1>5. CASE NoFile /\ Received(t) /\ thread[t].what = "latest"
    <2>1. /\ NoStore /\ IF Newer(thread[t].body)
                        THEN Result(t, "Available", Release(thread[t].body))
                        ELSE Result(t, "Idle", Nil)
        BY <1>5 DEF Received
    <2>2. Release(thread[t].body) \in Releases
          /\ Release(thread[t].body).version = thread[t].body.version
        BY <1>2, ReleasesHaveTypes
    <2>3. CASE Newer(thread[t].body)
        <3>1. Result(t, "Available", Release(thread[t].body)) /\ NoStore /\ NoFile
            BY <1>5, <2>1, <2>3
        <3>2. Release(thread[t].body).version > Installed
            BY <2>2, <2>3 DEF Newer
        <3> QED
            BY <1>1, <1>2, <2>2, <3>1, <3>2, ResultKeeps
    <2>4. CASE ~Newer(thread[t].body)
        <3>1. Result(t, "Idle", Nil) /\ NoStore /\ NoFile
            BY <1>5, <2>1, <2>4
        <3> QED
            BY <1>1, <1>2, <3>1, ResultKeeps
    <2> QED
        BY <2>3, <2>4
<1>6. CASE NoFile /\ Received(t) /\ thread[t].what = "manifest"
    <2> DEFINE w == [thread[t] EXCEPT !.pc = "hop", !.what = "archive",
                         !.manifest = thread[t].body, !.body = Nil, !.got = 0]
    <2>1. /\ NoStore /\ Release(thread[t].body) = thread[t].release
          /\ thread' = [thread EXCEPT ![t] = w]
        BY <1>2, <1>6 DEF Received
    <2>2. /\ w \in Worker /\ w.of = thread[t].of /\ w.stage = thread[t].stage
          /\ w.entry = thread[t].entry /\ w.pc = "hop"
          /\ w.what = "archive" /\ w.release = thread[t].release
          /\ w.manifest = thread[t].body
        <3>1. "hop" \in Places /\ "archive" \in {"latest", "manifest", "archive"} \cup {Nil}
            BY DEF Places, Fetching
        <3> QED
            BY <1>2, <3>1, ZenonT(60) DEF Worker
    <2> HIDE DEF w
    <2>3. Knows(w) /\ w.pc \in Fetching
        BY <1>1, <1>2, <1>6, <2>1, <2>2 DEF Knows, Fetching, Staging, Leaving
    <2>4. UNCHANGED <<life, updater, stage, leftover, github>>
        BY <1>1, <1>6, <2>1 DEF Outside, NoStore, NoFile
    <2> QED
        BY <1>1, <2>1, <2>2, <2>3, <2>4, FetchingReachesNothing, MoveKeeps
<1>7. CASE NoFile /\ Received(t) /\ thread[t].what \notin {"latest", "manifest"}
    <2> DEFINE w == [thread[t] EXCEPT !.pc = "create"]
    <2>1. thread' = [thread EXCEPT ![t] = w] /\ Downloading(t)
        BY <1>2, <1>7 DEF Received, Go
    <2>2. thread[t].what = "archive"
        BY <1>1, <1>2, <1>7 DEF Knows, Fetching
    <2>3. /\ w \in Worker /\ w.of = thread[t].of /\ w.stage = thread[t].stage
          /\ w.entry = thread[t].entry /\ w.pc = "create"
          /\ w.what = "archive" /\ w.release = thread[t].release
          /\ w.manifest = thread[t].manifest
        BY <1>1, <1>2, <2>2 DEF Worker, Places, Fetching
    <2> HIDE DEF w
    <2>4. Knows(w) /\ w.pc \in Fetching
        BY <1>1, <1>2, <2>2, <2>3 DEF Knows, Fetching, Staging, Leaving
    <2>5. /\ UNCHANGED <<life, latest, stopping, leftover, github>> /\ stage' = stage
          /\ state' = [state EXCEPT ![w.of] = Plain("Downloading")]
        BY <1>1, <1>7, <2>1, <2>3 DEF Outside, NoFile, Downloading
    <2>6. stage \in [Stages -> Directory \cup {Nil}]
        BY DEF UpdaterInv, UpdaterTypes
    <2>7. Reached(w, stage'[w.stage])
        BY <2>3, <2>4, FetchingReachesNothing
    <2> QED
        BY <1>1, <2>1, <2>3, <2>4, <2>5, <2>6, <2>7, StepKeeps
<1> QED
    BY <1>3, <1>4, <1>5, <1>6, <1>7 DEF Receive

LEMMA ProgressKeeps ==
    ASSUME UpdaterInv, NEW t \in Threads, Progress(t)
    PROVE  UpdaterInv'
<1> DEFINE w == [thread[t] EXCEPT !.pc = "body"]
<1>1. /\ thread[t].pc = "progress" /\ thread[t].pc # "off"
      /\ thread' = [thread EXCEPT ![t] = w] /\ Downloading(t) /\ Outside /\ NoFile
    BY DEF Progress, At, Go
<1>2. thread[t] \in Worker /\ Knows(thread[t]) /\ thread[t].what = "archive"
    BY <1>1, RunningThread DEF Knows, Fetching
<1>3. /\ w \in Worker /\ w.of = thread[t].of /\ w.stage = thread[t].stage
      /\ w.entry = thread[t].entry /\ w.pc = "body"
      /\ w.what = "archive" /\ w.release = thread[t].release
      /\ w.manifest = thread[t].manifest /\ w.body = thread[t].body
    BY <1>2 DEF Worker, Places, Fetching
<1> HIDE DEF w
<1>4. Knows(w) /\ w.pc \in Fetching
    BY <1>1, <1>2, <1>3 DEF Knows, Fetching, Staging, Leaving
<1>5. /\ UNCHANGED <<life, latest, stopping, leftover, github>> /\ stage' = stage
      /\ state' = [state EXCEPT ![w.of] = Plain("Downloading")]
    BY <1>1, <1>3 DEF Outside, NoFile, Downloading
<1>6. stage \in [Stages -> Directory \cup {Nil}]
    BY DEF UpdaterInv, UpdaterTypes
<1>7. Reached(w, stage'[w.stage])
    BY <1>3, <1>4, FetchingReachesNothing
<1> QED
    BY <1>1, <1>3, <1>4, <1>5, <1>6, <1>7, StepKeeps

-----------------------------------------------------------------------------
(* The staging directory.                                                   *)

\* A directory of its own for a thread that had none.
LEMMA CreateStageKeeps ==
    ASSUME UpdaterInv, NEW t \in Threads, CreateStage(t)
    PROVE  UpdaterInv'
<1>1. thread[t].pc = "create" /\ thread[t].pc # "off" /\ Outside
    BY DEF CreateStage, At
<1>2. CASE Fail(t)
    BY <1>1, <1>2, FailKeeps
<1>3. CASE ~Fail(t)
    <2> DEFINE d == [owner |-> FALSE, new |-> {}, manifest |-> Nil]
    <2>1. PICK s \in Stages :
              /\ Free(s) /\ stage' = [stage EXCEPT ![s] = d]
              /\ thread' = [thread EXCEPT ![t].pc = "own", ![t].stage = s]
              /\ NoStore /\ leftover' = leftover
        <3> DEFINE x == CHOOSE x \in Stages : Free(x)
        <3>1. \E y \in Stages : Free(y)
            BY <1>3 DEF CreateStage
        <3>2. x \in Stages /\ Free(x)
            BY <3>1
        <3>3. /\ stage' = [stage EXCEPT ![x] = d]
              /\ thread' = [thread EXCEPT ![t].pc = "own", ![t].stage = x]
              /\ NoStore /\ leftover' = leftover
            BY <1>3 DEF CreateStage
        <3> HIDE DEF x, d
        <3> QED
            BY <3>2, <3>3
    <2> DEFINE w == [thread[t] EXCEPT !.pc = "own", !.stage = s]
    <2>2. Free(s) /\ thread' = [thread EXCEPT ![t] = w]
        BY <2>1 DEF UpdaterInv, UpdaterTypes
    <2>3. stage[s] = Nil /\ (\A u \in Threads : thread[u].stage # s)
          /\ \A l \in Launchers : state[l].stage # s
        BY <2>2 DEF Free, Held
    <2>4. d \in Directory /\ d.new = {} /\ d # Nil
        <3>1. d \in Directory
            BY DEF Directory
        <3> QED
            BY <3>1, NoDirectoryAssumption
    <2> HIDE DEF d
    <2>5. /\ thread[t] \in Worker /\ Knows(thread[t]) /\ thread[t].stage = Nil
          /\ thread[t].entry = 0 /\ thread[t].what = "archive"
        BY <1>1, RunningThread DEF Knows, Fetching
    <2>6. /\ w \in Worker /\ w.of = thread[t].of /\ w.stage = s /\ w.pc = "own"
          /\ w.entry = 0 /\ w.what = "archive" /\ w.release = thread[t].release
          /\ w.manifest = thread[t].manifest
        <3>1. "own" \in Places
            BY DEF Places, Staging
        <3> QED
            BY <2>2, <2>5, <3>1, ZenonT(60) DEF Worker
    <2> HIDE DEF w
    <2>7. s # Nil
        BY <2>2, UpdaterAssumption
    <2>8. Knows(w)
        BY <1>1, <2>5, <2>6, <2>7 DEF Knows, Fetching, Staging, Leaving
    <2>9. /\ thread'[t] = w /\ \A u \in Threads \ {t} : thread'[u] = thread[u]
          /\ stage'[s] = d /\ \A x \in Stages \ {s} : stage'[x] = stage[x]
          /\ stage' \in [Stages -> Directory \cup {Nil}]
        BY <2>1, <2>2, <2>4 DEF UpdaterInv, UpdaterTypes
    <2>10. UNCHANGED <<life, state, latest, stopping, assets, changes>>
        BY <1>1, <2>1 DEF Outside, NoStore, updater, github
    <2>11. Existing' = Existing \cup {s}
        BY <2>2, <2>4, <2>9 DEF Existing
    <2>12. UpdaterTypes'
        BY <2>1, <2>6, <2>9, <2>10 DEF UpdaterInv, UpdaterTypes
    <2>13. OneWindow' /\ Settled'
        BY <2>10 DEF UpdaterInv, OneWindow, Settled, Offers
    <2>14. LatestRuns'
        BY <1>1, <2>6, <2>9, <2>10 DEF UpdaterInv, LatestRuns
    <2>15. Known'
        BY <2>8, <2>9 DEF UpdaterInv, Known
    <2>16. Exclusive'
        <3>1. \A u \in Threads \ {t} : thread'[u].stage = thread[u].stage /\ thread'[u].stage # s
            BY <2>3, <2>9
        <3>2. thread'[t].stage = s
            BY <2>6, <2>9
        <3> QED
            BY <2>3, <2>10, <3>1, <3>2 DEF UpdaterInv, Exclusive
    <2>17. Built'
        <3> SUFFICES ASSUME NEW u \in Threads, thread'[u].pc # "off",
                            life'[thread'[u].of] = "running"
                     PROVE  Reached(thread'[u], stage'[thread'[u].stage])
            BY DEF Built
        <3>1. CASE u = t
            BY <2>4, <2>6, <2>9, <3>1 DEF Reached, Leaving
        <3>2. CASE u # t
            BY <2>3, <2>9, <2>10, <3>2, ReachedStill
        <3> QED
            BY <3>1, <3>2
    <2>18. ReadyIsVerified'
        BY <2>3, <2>9, <2>10 DEF UpdaterInv, UpdaterTypes, Outcome, Settled, ReadyIsVerified
    <2>19. NothingLeftBehind'
        <3>1. \A x \in Stages \ {s} : Held(x) => Held(x)'
            BY <2>3, <2>5, <2>9, <2>10, UpdaterAssumption DEF Held
        <3>2. Held(s)'
            <4>1. thread'[t].stage = s
                BY <2>6, <2>9
            <4> QED
                BY <4>1 DEF Held
        <3>3. \A x \in Existing : x \in leftover \/ Held(x)
            BY DEF UpdaterInv, NothingLeftBehind
        <3>4. Existing \subseteq Stages
            BY DEF Existing
        <3> QED
            BY <2>1, <2>11, <3>1, <3>2, <3>3, <3>4 DEF NothingLeftBehind
    <2> QED
        BY <2>12, <2>13, <2>14, <2>15, <2>16, <2>17, <2>18, <2>19 DEF UpdaterInv
<1> QED
    BY <1>2, <1>3

\* A thread writes into its directory.
LEMMA WriteKeeps ==
    ASSUME UpdaterInv, NEW t \in Threads, thread[t].pc \in Staging,
           Dir(t) # Nil, NEW d \in Directory,
           NEW w \in Worker, w.of = thread[t].of, w.stage = thread[t].stage, w.pc \in Staging,
           Knows(w), life[w.of] = "running" => Reached(w, d),
           thread' = [thread EXCEPT ![t] = w], stage' = [stage EXCEPT ![thread[t].stage] = d],
           NoStore, Outside, leftover' = leftover
    PROVE  UpdaterInv'
<1>1. thread[t] \in Worker /\ thread[t].stage # Nil /\ thread[t].pc # "off" /\ w.pc # "off"
    BY RunningThread DEF Knows, Staging
<1>2. thread[t].stage \in Stages
    BY <1>1 DEF Worker
<1>3. /\ stage'[w.stage] = d /\ d # Nil /\ stage[w.stage] # Nil
      /\ stage' \in [Stages -> Directory \cup {Nil}]
      /\ \A s \in Stages : s # w.stage => stage'[s] = stage[s]
    BY <1>2, NoDirectoryAssumption DEF UpdaterInv, UpdaterTypes, Dir
<1>4. state' = state /\ UNCHANGED <<life, latest, stopping, leftover, github>>
    BY DEF NoStore, Outside, updater
<1> QED
    BY <1>1, <1>2, <1>3, <1>4, StepKeeps

\* Where it can write into it, it is a directory.
LEMMA StageOfThread ==
    ASSUME UpdaterInv, NEW t \in Threads, thread[t].pc \in Staging
    PROVE  /\ thread[t] \in Worker /\ Knows(thread[t]) /\ thread[t].pc # "off"
           /\ thread[t].stage \in Stages /\ thread[t].what = "archive"
           /\ thread[t].manifest \in Builds /\ thread[t].release \in Releases
           /\ Release(thread[t].manifest) = thread[t].release /\ Newer(thread[t].manifest)
           /\ Dir(t) # Nil => Dir(t) \in Directory
           /\ life[thread[t].of] = "running" => Reached(thread[t], Dir(t))
<1>1. /\ thread[t] \in Worker /\ Knows(thread[t]) /\ thread[t].pc # "off"
      /\ life[thread[t].of] = "running" => Reached(thread[t], Dir(t))
    BY RunningThread DEF Staging, Dir
<1>2. /\ thread[t].stage # Nil /\ thread[t].what = "archive"
      /\ thread[t].manifest \in Builds /\ thread[t].release \in Releases
      /\ Release(thread[t].manifest) = thread[t].release
      /\ thread[t].release.version > Installed
    BY <1>1 DEF Knows, Staging
<1>3. thread[t].stage \in Stages
    BY <1>1, <1>2 DEF Worker
<1>4. Newer(thread[t].manifest)
    BY <1>2, ReleasesHaveTypes DEF Newer
<1>5. Dir(t) # Nil => Dir(t) \in Directory
    BY <1>3 DEF Dir, UpdaterInv, UpdaterTypes
<1> QED
    BY <1>1, <1>2, <1>3, <1>4, <1>5

LEMMA MarkedDirectory ==
    ASSUME NEW dir \in Directory, NEW x \in BOOLEAN
    PROVE  /\ [dir EXCEPT !.owner = x] \in Directory
           /\ [dir EXCEPT !.owner = x].owner = x
           /\ [dir EXCEPT !.owner = x].new = dir.new
BY DEF Directory

LEMMA OwnStageKeeps ==
    ASSUME UpdaterInv, NEW t \in Threads, OwnStage(t)
    PROVE  UpdaterInv'
<1>1. thread[t].pc = "own" /\ thread[t].pc \in Staging /\ thread[t].pc # "off" /\ Outside
    BY DEF OwnStage, At, Staging
<1>2. CASE Fail(t)
    BY <1>1, <1>2, FailKeeps
<1>3. CASE ~Fail(t)
    <2> DEFINE d == [Dir(t) EXCEPT !.owner = TRUE]
               w == [thread[t] EXCEPT !.pc = "extract"]
    <2>1. /\ Dir(t) # Nil /\ stage' = [stage EXCEPT ![thread[t].stage] = d]
          /\ thread' = [thread EXCEPT ![t] = w] /\ NoStore /\ leftover' = leftover
        BY <1>3 DEF OwnStage, Write, Go
    <2>2. Dir(t) \in Directory
        BY <1>1, <2>1, StageOfThread
    <2>3. d \in Directory /\ d.owner /\ d.new = Dir(t).new
        <3>1. TRUE \in BOOLEAN
            OBVIOUS
        <3> QED
            BY <2>2, <3>1, MarkedDirectory, Zenon
    <2>4. /\ w \in Worker /\ w.of = thread[t].of /\ w.stage = thread[t].stage
          /\ w.pc = "extract" /\ w.pc \in Staging /\ w.entry = thread[t].entry
          /\ w.what = thread[t].what /\ w.release = thread[t].release
          /\ w.manifest = thread[t].manifest
        BY <1>1, StageOfThread DEF Worker, Places, Staging
    <2> HIDE DEF d, w
    <2>5. Knows(w)
        BY <1>1, <2>4, StageOfThread DEF Knows, Fetching, Staging, Leaving
    <2>6. life[w.of] = "running" => Reached(w, d)
        BY <1>1, <2>1, <2>3, <2>4, StageOfThread, NoDirectoryAssumption DEF Reached, Leaving
    <2> QED
        BY <1>1, <2>1, <2>3, <2>4, <2>5, <2>6, WriteKeeps
<1> QED
    BY <1>2, <1>3

LEMMA ExtractKeeps ==
    ASSUME UpdaterInv, NEW t \in Threads, Extract(t)
    PROVE  UpdaterInv'
<1>1. thread[t].pc = "extract" /\ thread[t].pc \in Staging /\ thread[t].pc # "off" /\ Outside
    BY DEF Extract, At, Staging
<1>2. CASE Fail(t)
    BY <1>1, <1>2, FailKeeps
<1>3. CASE ~Fail(t)
    <2> DEFINE i       == thread[t].entry + 1
               content == thread[t].body.packed[i]
               d       == [Dir(t) EXCEPT !.new = @ \cup {content}]
               pc      == IF i = 2 THEN "manifest" ELSE "extract"
               w       == [thread[t] EXCEPT !.entry = i, !.pc = pc]
    <2>1. /\ Dir(t) # Nil /\ EntryMatches(t, content) /\ NoStore /\ leftover' = leftover
          /\ thread' = [thread EXCEPT ![t].entry = i,
                                      ![t].pc = IF i = 2 THEN "manifest" ELSE @]
          /\ stage' = [stage EXCEPT ![thread[t].stage].new = @ \cup {content}]
        BY <1>3 DEF Extract, ExtractEntry
    <2>2. /\ thread[t] \in Worker /\ thread[t].stage \in Stages /\ thread[t].manifest \in Builds
          /\ Dir(t) \in Directory /\ thread[t].entry \in Nat
        BY <1>1, <2>1, StageOfThread DEF Worker
    <2>3. /\ thread' = [thread EXCEPT ![t] = w]
          /\ stage' = [stage EXCEPT ![thread[t].stage] = d]
        BY <1>1, <2>1, <2>2 DEF Worker, Dir, UpdaterInv, UpdaterTypes
    <2>4. /\ content.name \in Names \ {c.name : c \in Dir(t).new}
          /\ content = Content(content.name, thread[t].manifest)
        BY <2>1 DEF EntryMatches
    <2>5. PICK name \in Names : /\ content = Content(name, thread[t].manifest)
                                /\ name \notin {c.name : c \in Dir(t).new}
        BY <2>4
    <2> HIDE DEF content
    <2>6. d \in Directory /\ d.owner = Dir(t).owner /\ d.new = Dir(t).new \cup {content}
        <3>1. content \in {Content(n, b) : n \in Names, b \in Builds}
            BY <2>2, <2>5
        <3> QED
            BY <2>2, <3>1 DEF Directory
    <2>7. pc \in Places /\ pc \in {"manifest", "extract"} /\ i \in Nat
        BY <2>2 DEF Places, Staging
    <2> HIDE DEF pc, i
    <2>8. /\ w \in Worker /\ w.of = thread[t].of /\ w.stage = thread[t].stage
          /\ w.pc = pc /\ w.entry = i
          /\ w.what = thread[t].what /\ w.release = thread[t].release
          /\ w.manifest = thread[t].manifest
        BY <2>2, <2>7 DEF Worker
    <2> HIDE DEF d, w
    <2>9. Knows(w) /\ w.pc \in Staging
        BY <1>1, <2>7, <2>8, StageOfThread DEF Knows, Fetching, Staging, Leaving
    <2>10. ASSUME life[w.of] = "running" PROVE Reached(w, d)
        <3>1. d # Nil
            BY <2>6, NoDirectoryAssumption
        <3>2. Dir(t).owner /\ \/ thread[t].entry = 0 /\ Dir(t).new = {}
                              \/ thread[t].entry = 1 /\ \E n \in Names :
                                      Dir(t).new = {Content(n, thread[t].manifest)}
            BY <1>1, <2>8, <2>10, StageOfThread DEF Reached
        <3>3. CASE thread[t].entry = 0 /\ Dir(t).new = {}
            <4>1. pc = "extract" /\ i = 1
                BY <2>2, <3>3 DEF pc, i
            <4>2. d.new = {Content(name, w.manifest)}
                BY <2>5, <2>6, <2>8, <3>3
            <4> QED
                BY <2>6, <2>8, <3>1, <3>2, <4>1, <4>2 DEF Reached, Leaving
        <3>4. CASE thread[t].entry = 1 /\ \E n \in Names :
                       Dir(t).new = {Content(n, thread[t].manifest)}
            <4>1. pc = "manifest"
                BY <2>2, <3>4 DEF pc, i
            <4>2. PICK n \in Names : Dir(t).new = {Content(n, thread[t].manifest)}
                BY <3>4
            <4>3. n # name
                BY <2>5, <4>2 DEF Content
            <4>4. Names = {n, name}
                BY <4>3 DEF Names
            <4>5. d.new = {Content(x, w.manifest) : x \in Names}
                BY <2>5, <2>6, <2>8, <4>2, <4>4
            <4> QED
                BY <2>6, <2>8, <3>1, <3>2, <4>1, <4>5 DEF Reached, Leaving
        <3> QED
            BY <3>2, <3>3, <3>4
    <2> QED
        BY <1>1, <2>1, <2>3, <2>6, <2>8, <2>9, <2>10, WriteKeeps
<1> QED
    BY <1>2, <1>3

LEMMA WriteManifestKeeps ==
    ASSUME UpdaterInv, NEW t \in Threads, WriteManifest(t)
    PROVE  UpdaterInv'
<1>1. thread[t].pc = "manifest" /\ thread[t].pc \in Staging /\ thread[t].pc # "off" /\ Outside
    BY DEF WriteManifest, At, Staging
<1>2. CASE Fail(t)
    BY <1>1, <1>2, FailKeeps
<1>3. CASE ~Fail(t)
    <2> DEFINE d == [Dir(t) EXCEPT !.manifest = thread[t].manifest]
               w == [thread[t] EXCEPT !.pc = "persist"]
    <2>1. /\ Dir(t) # Nil /\ stage' = [stage EXCEPT ![thread[t].stage] = d]
          /\ thread' = [thread EXCEPT ![t] = w] /\ NoStore /\ leftover' = leftover
        BY <1>3 DEF WriteManifest, Write, Go
    <2>2. Dir(t) \in Directory /\ thread[t].manifest \in Builds /\ thread[t].manifest # Nil
        BY <1>1, <2>1, StageOfThread, UpdaterAssumption
    <2>3. /\ d \in Directory /\ d.owner = Dir(t).owner /\ d.new = Dir(t).new
          /\ d.manifest = thread[t].manifest
        BY <2>2 DEF Directory
    <2>4. /\ w \in Worker /\ w.of = thread[t].of /\ w.stage = thread[t].stage
          /\ w.pc = "persist" /\ w.pc \in Staging
          /\ w.what = thread[t].what /\ w.release = thread[t].release
          /\ w.manifest = thread[t].manifest
        BY <1>1, StageOfThread DEF Worker, Places, Staging
    <2> HIDE DEF d, w
    <2>5. Knows(w)
        BY <1>1, <2>4, StageOfThread DEF Knows, Fetching, Staging, Leaving
    <2>6. ASSUME life[w.of] = "running" PROVE Reached(w, d)
        <3>1. /\ Dir(t).owner
              /\ Dir(t).new = {Content(name, thread[t].manifest) : name \in Names}
            BY <1>1, <2>4, <2>6, StageOfThread DEF Reached
        <3>2. Verified(d, w.release)
            BY <1>1, <2>2, <2>3, <2>4, <3>1, StageOfThread, NoDirectoryAssumption DEF Verified
        <3> QED
            BY <2>4, <3>2 DEF Reached, Leaving
    <2> QED
        BY <1>1, <2>1, <2>3, <2>4, <2>5, <2>6, WriteKeeps
<1> QED
    BY <1>2, <1>3

LEMMA PersistKeeps ==
    ASSUME UpdaterInv, NEW t \in Threads, Persist(t)
    PROVE  UpdaterInv'
<1>1. thread[t].pc = "persist" /\ thread[t].pc \in Staging /\ thread[t].pc # "off" /\ Outside
    BY DEF Persist, At, Staging
<1>2. CASE Stopped(t)
    BY <1>1, <1>2, FailKeeps DEF Persist
<1>3. CASE ~Stopped(t)
    <2>1. Result(t, "Ready", thread[t].release) /\ NoStore /\ NoFile
        BY <1>3 DEF Persist
    <2>2. thread[t].stage # Nil /\ thread[t].release \in Releases
        BY <1>1, StageOfThread, UpdaterAssumption
    <2>3. life[thread[t].of] = "running" => Verified(stage[thread[t].stage], thread[t].release)
        BY <1>1, StageOfThread DEF Reached, Dir
    <2> QED
        BY <1>1, <2>1, <2>2, <2>3, ResultKeeps
<1> QED
    BY <1>2, <1>3

\* A directory is removed, or is known to be left.
LEMMA Removed ==
    ASSUME UpdaterInv, NEW s \in Stages, Remove(s)
    PROVE  /\ stage' \in [Stages -> Directory \cup {Nil}] /\ leftover' \subseteq Stages
           /\ \A x \in Stages : stage'[x] = stage[x] \/ (x = s /\ stage'[x] = Nil)
           /\ \A x \in Stages : stage'[x] # Nil =>
                  stage[x] # Nil /\ (x = s \/ x \in leftover => x \in leftover')
<1>1. stage \in [Stages -> Directory \cup {Nil}] /\ leftover \subseteq Stages
    BY DEF UpdaterInv, UpdaterTypes
<1>2. CASE /\ stage' = [x \in Stages |-> IF x = s THEN Nil ELSE stage[x]]
           /\ leftover' = leftover \ {s}
    BY <1>1, <1>2
<1>3. CASE leftover' = leftover \cup ({s} \cap Existing) /\ UNCHANGED stage
    BY <1>1, <1>3 DEF Existing
<1> QED
    BY <1>2, <1>3 DEF Remove

LEMMA UnwindKeeps ==
    ASSUME UpdaterInv, NEW t \in Threads, Unwind(t)
    PROVE  UpdaterInv'
<1> DEFINE w == [thread[t] EXCEPT !.pc = "finish", !.stage = Nil]
<1>1. /\ thread[t].pc = "unwind" /\ thread[t].pc # "off" /\ Remove(thread[t].stage)
      /\ thread' = [thread EXCEPT ![t] = w]
      /\ UNCHANGED <<life, state, latest, stopping, assets, changes>>
    BY DEF Unwind, At, Outside, NoStore, updater, github, UpdaterInv, UpdaterTypes
<1>2. /\ thread[t] \in Worker /\ Knows(thread[t])
      /\ thread[t].of \in Launchers /\ latest[thread[t].of] = t
      /\ state[thread[t].of].is \in {"Checking", "Downloading"}
      /\ life[thread[t].of] \in {"running", "closing"}
    BY <1>1, RunningThread
<1>3. thread[t].result = Plain("Error") /\ thread[t].stage # Nil
    BY <1>1, <1>2 DEF Knows
<1>4. PICK s \in Stages : thread[t].stage = s
    BY <1>2, <1>3 DEF Worker
<1>5. /\ stage' \in [Stages -> Directory \cup {Nil}] /\ leftover' \subseteq Stages
      /\ \A x \in Stages : stage'[x] = stage[x] \/ (x = s /\ stage'[x] = Nil)
      /\ \A x \in Stages : stage'[x] # Nil =>
             stage[x] # Nil /\ (x = s \/ x \in leftover => x \in leftover')
    BY <1>1, <1>4, Removed
<1>6. /\ w \in Worker /\ w.pc = "finish" /\ w.of = thread[t].of /\ w.stage = Nil
      /\ w.result = thread[t].result
    <2>1. "finish" \in Places
        BY DEF Places, Leaving
    <2> QED
        BY <1>2, <2>1 DEF Worker
<1> HIDE DEF w
<1>7. thread'[t] = w /\ \A u \in Threads \ {t} : thread'[u] = thread[u]
    BY <1>1 DEF UpdaterInv, UpdaterTypes
<1>8. Plain("Error") \in Outcome /\ Plain("Error").is = "Error" /\ Plain("Error").stage = Nil
    BY DEF Plain, State, Outcome
<1>9. Knows(w) /\ Reached(w, stage'[w.stage])
    BY <1>3, <1>6, <1>8 DEF Knows, Reached, Offers, Fetching, Staging, Leaving
<1>10. UpdaterTypes'
    BY <1>1, <1>5, <1>6 DEF UpdaterInv, UpdaterTypes
<1>11. OneWindow' /\ Settled'
    BY <1>1 DEF UpdaterInv, OneWindow, Settled, Offers
<1>12. LatestRuns'
    BY <1>1, <1>2, <1>6, <1>7 DEF UpdaterInv, LatestRuns
<1>13. Known'
    BY <1>7, <1>9 DEF UpdaterInv, Known
<1>14. Exclusive'
    <2>1. \A u \in Threads, x \in Stages : thread'[u].stage = x => thread[u].stage = x
        BY <1>6, <1>7, UpdaterAssumption
    <2> QED
        BY <1>1, <2>1 DEF UpdaterInv, Exclusive
<1>15. Built'
    <2> SUFFICES ASSUME NEW u \in Threads, thread'[u].pc # "off",
                        life'[thread'[u].of] = "running"
                 PROVE  Reached(thread'[u], stage'[thread'[u].stage])
        BY DEF Built
    <2>1. CASE u = t
        BY <1>7, <1>9, <2>1
    <2>2. CASE u # t
        <3>1. \A x \in Stages : thread[u].stage = x => stage'[x] = stage[x]
            BY <1>4, <1>5, <2>2 DEF UpdaterInv, Exclusive
        <3> QED
            BY <1>1, <1>7, <2>2, <3>1, ReachedStill
    <2> QED
        BY <2>1, <2>2
<1>16. ReadyIsVerified'
    <2> SUFFICES ASSUME NEW k \in Launchers, life[k] = "running",
                        state[k].is \in {"Ready", "Handoff"}
                 PROVE  Verified(stage'[state[k].stage], state[k].release)
        BY <1>1 DEF ReadyIsVerified, Verified
    <2>1. \A x \in Stages : state[k].stage = x => stage'[x] = stage[x]
        BY <1>4, <1>5 DEF UpdaterInv, Exclusive
    <2> QED
        BY <2>1, VerifiedStill
<1>17. NothingLeftBehind'
    <2> SUFFICES ASSUME NEW x \in Stages, stage'[x] # Nil
                 PROVE  x \in leftover' \/ Held(x)'
        BY DEF NothingLeftBehind, Existing
    <2>1. stage[x] # Nil /\ (x = s \/ x \in leftover => x \in leftover')
        BY <1>5
    <2>2. x \in leftover \/ Held(x)
        BY <2>1 DEF UpdaterInv, NothingLeftBehind, Existing
    <2>3. Held(x) => x = s \/ Held(x)'
        BY <1>1, <1>4, <1>7 DEF Held
    <2> QED
        BY <2>1, <2>2, <2>3
<1> QED
    BY <1>10, <1>11, <1>12, <1>13, <1>14, <1>15, <1>16, <1>17 DEF UpdaterInv

LEMMA FinishKeeps ==
    ASSUME UpdaterInv, NEW t \in Threads, Finish(t)
    PROVE  UpdaterInv'
<1> DEFINE pc == IF Stopped(t) THEN "discard" ELSE "store"
           w  == [thread[t] EXCEPT !.pc = pc]
<1>1. /\ thread[t].pc = "finish" /\ thread[t].pc # "off" /\ thread' = [thread EXCEPT ![t] = w]
      /\ UNCHANGED <<life, updater, stage, leftover, github>>
    BY DEF Finish, At, Go, Outside, NoStore, NoFile, UpdaterInv, UpdaterTypes
<1>2. /\ thread[t] \in Worker /\ Knows(thread[t])
      /\ life[thread[t].of] = "running" => Reached(thread[t], stage[thread[t].stage])
    BY <1>1, RunningThread
<1>3. pc \in Places /\ pc \in {"discard", "store"}
    BY DEF Places, Leaving
<1> HIDE DEF pc
<1>4. /\ w \in Worker /\ w.pc = pc /\ w.of = thread[t].of /\ w.stage = thread[t].stage
      /\ w.result = thread[t].result
    BY <1>2, <1>3 DEF Worker
<1> HIDE DEF w
<1>5. Knows(w) /\ w.pc # "off"
    BY <1>1, <1>2, <1>3, <1>4 DEF Knows, Fetching, Staging, Leaving
<1>6. life[w.of] = "running" => Reached(w, stage[w.stage])
    BY <1>1, <1>2, <1>3, <1>4 DEF Reached, Leaving
<1> QED
    BY <1>1, <1>4, <1>5, <1>6, MoveKeeps

-----------------------------------------------------------------------------
(* Threads of one launcher end, with what becomes of it.                    *)

LEMMA EndsKeep ==
    ASSUME UpdaterInv, NEW T \in SUBSET Threads, Off(T), NEW l \in Launchers,
           \A u \in Threads \ T : thread[u].pc # "off" => thread[u].of # l,
           \A u \in T : thread[u].of = l,
           life' \in [Launchers -> {"new", "created", "running", "closing", "gone"}], OneWindow',
           life'[l] = "running" => life[l] = "running",
           \A k \in Launchers \ {l} : life'[k] = life[k] /\ state'[k] = state[k],
           state' \in [Launchers -> Outcome],
           state'[l].stage # Nil <=> state'[l].is \in {"Ready", "Handoff"}, Offers(state'[l]),
           \A s \in Stages : state'[l].stage = s =>
               state[l].stage = s \/ \E t \in T : thread[t].stage = s,
           life'[l] = "running" /\ state'[l].is \in {"Ready", "Handoff"} =>
               Verified(stage'[state'[l].stage], state'[l].release),
           stage' \in [Stages -> Directory \cup {Nil}], leftover' \subseteq Stages,
           \A s \in Stages : \/ stage'[s] = stage[s]
                             \/ stage'[s] = Nil /\ \E t \in T : thread[t].stage = s,
           \A s \in Stages : stage'[s] # Nil =>
               /\ s \in leftover => s \in leftover'
               /\ state[l].stage = s \/ (\E t \in T : thread[t].stage = s) =>
                      s \in leftover' \/ state'[l].stage = s,
           UNCHANGED <<assets, changes>>
    PROVE  UpdaterInv'
<1>1. /\ \A t \in T : thread'[t] = NoThread
      /\ \A u \in Threads \ T : thread'[u] = thread[u]
      /\ thread' \in [Threads -> Worker]
    <2>1. NoThread \in Worker
        BY DEF NoThread, Worker, Places
    <2> QED
        BY <2>1 DEF Off, UpdaterInv, UpdaterTypes
<1>2. /\ \A k \in Launchers : latest'[k] = IF latest[k] \in T THEN Nil ELSE latest[k]
      /\ latest' \in [Launchers -> Threads \cup {Nil}] /\ stopping' \subseteq Threads
    BY DEF Off, UpdaterInv, UpdaterTypes
<1>3. NoThread.pc = "off" /\ NoThread.stage = Nil /\ Nil \notin Stages
    BY UpdaterAssumption DEF NoThread
<1>4. UpdaterTypes'
    BY <1>1, <1>2 DEF UpdaterInv, UpdaterTypes
<1>5. LatestRuns'
    <2> SUFFICES ASSUME NEW u \in Threads
                 PROVE  /\ thread'[u].pc = "off" => thread'[u] = NoThread
                        /\ thread'[u].pc # "off" =>
                               /\ thread'[u].of \in Launchers /\ latest'[thread'[u].of] = u
                               /\ state'[thread'[u].of].is \in {"Checking", "Downloading"}
                               /\ life'[thread'[u].of] \in {"running", "closing"}
        BY DEF LatestRuns
    <2>1. CASE u \in T
        BY <1>1, <1>3, <2>1
    <2>2. CASE u \notin T
        BY <1>1, <1>2, <2>2 DEF UpdaterInv, LatestRuns
    <2> QED
        BY <2>1, <2>2
<1>6. Settled'
    BY DEF UpdaterInv, Settled, Offers
<1>7. Known'
    <2>1. Knows(NoThread)
        BY <1>3 DEF Knows, Fetching, Staging, Leaving
    <2> QED
        BY <1>1, <2>1 DEF UpdaterInv, Known
<1>8. \A u \in Threads, s \in Stages :
          thread'[u].stage = s => u \notin T /\ thread[u].stage = s
    BY <1>1, <1>3
<1>9. Exclusive'
    <2>1. \A k \in Launchers, s \in Stages : state'[k].stage = s =>
              state[k].stage = s \/ (k = l /\ \E t \in T : thread[t].stage = s)
        OBVIOUS
    <2> SUFFICES ASSUME NEW s \in Stages
                 PROVE  /\ \A t, u \in Threads :
                               thread'[t].stage = s /\ thread'[u].stage = s => t = u
                        /\ \A k, m \in Launchers :
                               state'[k].stage = s /\ state'[m].stage = s => k = m
                        /\ \A t \in Threads, k \in Launchers :
                               ~(thread'[t].stage = s /\ state'[k].stage = s)
        BY DEF Exclusive
    <2> QED
        BY <1>8, <2>1 DEF UpdaterInv, Exclusive
<1>10. Built'
    <2> SUFFICES ASSUME NEW u \in Threads, thread'[u].pc # "off",
                        life'[thread'[u].of] = "running"
                 PROVE  Reached(thread'[u], stage'[thread'[u].stage])
        BY DEF Built
    <2>1. u \notin T /\ thread'[u] = thread[u] /\ thread[u].of # l
        BY <1>1, <1>3
    <2>2. life[thread[u].of] = "running"
        BY <2>1 DEF UpdaterInv, LatestRuns
    <2>3. \A s \in Stages : thread[u].stage = s => stage'[s] = stage[s]
        BY <2>1 DEF UpdaterInv, Exclusive
    <2> QED
        BY <2>1, <2>2, <2>3, ReachedStill
<1>11. ReadyIsVerified'
    <2> SUFFICES ASSUME NEW k \in Launchers, life'[k] = "running",
                        state'[k].is \in {"Ready", "Handoff"}, k # l
                 PROVE  Verified(stage'[state'[k].stage], state'[k].release)
        BY DEF ReadyIsVerified, Verified
    <2>1. \A s \in Stages : state[k].stage = s => stage'[s] = stage[s]
        BY DEF UpdaterInv, Exclusive
    <2> QED
        BY <2>1, VerifiedStill
<1>12. NothingLeftBehind'
    <2> SUFFICES ASSUME NEW s \in Stages, stage'[s] # Nil
                 PROVE  s \in leftover' \/ Held(s)'
        BY DEF NothingLeftBehind, Existing
    <2>1. stage[s] # Nil
        OBVIOUS
    <2>2. s \in leftover \/ Held(s)
        BY <2>1 DEF UpdaterInv, NothingLeftBehind, Existing
    <2>3. CASE \E u \in Threads \ T : thread[u].stage = s
        BY <1>1, <2>3 DEF Held
    <2>4. CASE \E k \in Launchers \ {l} : state[k].stage = s
        BY <2>4 DEF Held
    <2>5. CASE s \in leftover \/ state[l].stage = s \/ \E t \in T : thread[t].stage = s
        BY <2>5 DEF Held
    <2> QED
        BY <2>2, <2>3, <2>4, <2>5 DEF Held
<1> QED
    BY <1>4, <1>5, <1>6, <1>7, <1>9, <1>10, <1>11, <1>12 DEF UpdaterInv

\* Only the thread of a launcher's last request is left.
LEMMA OnlyThread ==
    ASSUME UpdaterInv, NEW t \in Threads, thread[t].pc # "off"
    PROVE  \A u \in Threads \ {t} : thread[u].pc # "off" => thread[u].of # thread[t].of
BY DEF UpdaterInv, LatestRuns

LEMMA StoreKeeps ==
    ASSUME UpdaterInv, NEW t \in Threads, Store(t)
    PROVE  UpdaterInv'
<1>1. /\ thread[t].pc = "store" /\ thread[t].pc # "off" /\ Off({t})
      /\ state' = [state EXCEPT ![thread[t].of] = thread[t].result]
      /\ UNCHANGED <<life, stage, leftover, assets, changes>>
    BY DEF Store, At, Outside, NoFile, github
<1>2. /\ thread[t] \in Worker /\ Knows(thread[t])
      /\ thread[t].of \in Launchers /\ state[thread[t].of].stage = Nil
      /\ life[thread[t].of] = "running" => Reached(thread[t], stage[thread[t].stage])
    BY <1>1, RunningThread
<1>3. PICK l \in Launchers : thread[t].of = l
    BY <1>2
<1>4. /\ thread[t].result \in Outcome
      /\ thread[t].result.is \in {"Idle", "Available", "Ready", "Error"}
      /\ thread[t].result.stage = thread[t].stage /\ Offers(thread[t].result)
      /\ thread[t].result.is = "Ready" <=> thread[t].stage # Nil
    BY <1>1, <1>2 DEF Knows, Leaving
<1>5. /\ state'[l] = thread[t].result /\ state' \in [Launchers -> Outcome]
      /\ \A k \in Launchers \ {l} : state'[k] = state[k]
    BY <1>1, <1>3, <1>4 DEF UpdaterInv, UpdaterTypes
<1>6. life[l] = "running" /\ thread[t].result.is = "Ready" =>
          Verified(stage[thread[t].stage], thread[t].result.release)
    BY <1>1, <1>2, <1>3 DEF Reached, Leaving
<1>7. \A u \in Threads \ {t} : thread[u].pc # "off" => thread[u].of # l
    BY <1>1, <1>3, OnlyThread
<1>8. {t} \in SUBSET Threads /\ \A u \in {t} : thread[u].of = l
    BY <1>3
<1>9. OneWindow'
    BY <1>1 DEF UpdaterInv, OneWindow
<1>10. /\ life' \in [Launchers -> {"new", "created", "running", "closing", "gone"}]
       /\ stage' \in [Stages -> Directory \cup {Nil}] /\ leftover' \subseteq Stages
       /\ life' = life /\ stage' = stage /\ leftover' = leftover
       /\ UNCHANGED <<assets, changes>>
    BY <1>1 DEF UpdaterInv, UpdaterTypes
<1>11. state'[l].stage # Nil <=> state'[l].is \in {"Ready", "Handoff"}
    BY <1>4, <1>5
<1>12. Offers(state'[l])
    BY <1>4, <1>5
<1>13. \A s \in Stages : state'[l].stage = s =>
           state[l].stage = s \/ \E u \in {t} : thread[u].stage = s
    BY <1>4, <1>5
<1>14. life'[l] = "running" /\ state'[l].is \in {"Ready", "Handoff"} =>
           Verified(stage'[state'[l].stage], state'[l].release)
    BY <1>4, <1>5, <1>6, <1>10
<1>15. \A s \in Stages : stage'[s] # Nil =>
               /\ s \in leftover => s \in leftover'
               /\ state[l].stage = s \/ (\E u \in {t} : thread[u].stage = s) =>
                      s \in leftover' \/ state'[l].stage = s
    BY <1>2, <1>3, <1>4, <1>5, <1>10, UpdaterAssumption
<1> QED
    BY <1>1, <1>5, <1>7, <1>8, <1>9, <1>10, <1>11, <1>12, <1>13, <1>14, <1>15, EndsKeep

LEMMA DiscardKeeps ==
    ASSUME UpdaterInv, NEW t \in Threads, Discard(t)
    PROVE  UpdaterInv'
<1>1. /\ thread[t].pc = "discard" /\ thread[t].pc # "off" /\ Off({t})
      /\ UNCHANGED <<life, state, assets, changes>>
      /\ IF thread[t].result.is = "Ready" THEN Remove(thread[t].stage) ELSE NoFile
    BY DEF Discard, At, Outside, github
<1>2. /\ thread[t] \in Worker /\ Knows(thread[t])
      /\ thread[t].of \in Launchers /\ state[thread[t].of].stage = Nil
      /\ state[thread[t].of].is \in {"Checking", "Downloading"}
    BY <1>1, RunningThread
<1>3. PICK l \in Launchers : thread[t].of = l
    BY <1>2
<1>4. thread[t].result.is = "Ready" <=> thread[t].stage # Nil
    BY <1>1, <1>2 DEF Knows, Leaving
<1>5. Nil \notin Stages
    BY UpdaterAssumption
<1>6. /\ stage' \in [Stages -> Directory \cup {Nil}] /\ leftover' \subseteq Stages
      /\ \A x \in Stages : \/ stage'[x] = stage[x]
                           \/ stage'[x] = Nil /\ \E u \in {t} : thread[u].stage = x
      /\ \A x \in Stages : stage'[x] # Nil =>
             (thread[t].stage = x \/ x \in leftover => x \in leftover')
    <2>1. CASE thread[t].stage = Nil
        BY <1>1, <1>4, <1>5, <2>1 DEF NoFile, UpdaterInv, UpdaterTypes
    <2>2. CASE thread[t].stage # Nil
        <3>1. PICK s \in Stages : thread[t].stage = s
            BY <1>2, <2>2 DEF Worker
        <3>2. Remove(s)
            BY <1>1, <1>4, <2>2, <3>1
        <3> QED
            BY <3>1, <3>2, Removed
    <2> QED
        BY <2>1, <2>2
<1>7. \A u \in Threads \ {t} : thread[u].pc # "off" => thread[u].of # l
    BY <1>1, <1>3, OnlyThread
<1>8. {t} \in SUBSET Threads /\ \A u \in {t} : thread[u].of = l
    BY <1>3
<1>9. OneWindow' /\ Settled
    BY <1>1 DEF UpdaterInv, OneWindow
<1>10. /\ life' \in [Launchers -> {"new", "created", "running", "closing", "gone"}]
       /\ state' \in [Launchers -> Outcome] /\ life' = life /\ state' = state
       /\ UNCHANGED <<assets, changes>>
    BY <1>1 DEF UpdaterInv, UpdaterTypes
<1>11. /\ state'[l].stage # Nil <=> state'[l].is \in {"Ready", "Handoff"}
       /\ Offers(state'[l]) /\ state'[l].is \notin {"Ready", "Handoff"}
    BY <1>2, <1>3, <1>9, <1>10 DEF Settled
<1>12. \A s \in Stages : stage'[s] # Nil =>
               /\ s \in leftover => s \in leftover'
               /\ state[l].stage = s \/ (\E u \in {t} : thread[u].stage = s) =>
                      s \in leftover' \/ state'[l].stage = s
    BY <1>6, <1>10
<1> QED
    BY <1>1, <1>6, <1>7, <1>8, <1>9, <1>10, <1>11, <1>12, EndsKeep

\* A process ends: what it held is left.
LEMMA EndKeeps ==
    ASSUME UpdaterInv, NEW l \in Launchers, End(l)
    PROVE  UpdaterInv'
<1> DEFINE T == Of(l)
<1>1. /\ life' = [life EXCEPT ![l] = "gone"] /\ Off(T)
      /\ state' = [state EXCEPT ![l] = Plain("Idle")]
      /\ leftover' = {s \in Existing : s \in leftover \/ state[l].stage = s
                                          \/ \E t \in Of(l) : thread[t].stage = s}
      /\ UNCHANGED <<stage, assets, changes>>
    BY DEF End, github
<1>2. /\ Plain("Idle") \in Outcome /\ Plain("Idle").stage = Nil /\ Plain("Idle").is = "Idle"
      /\ Nil \notin Stages
    BY UpdaterAssumption DEF Plain, State, Outcome
<1>3. T \in SUBSET Threads /\ (\A u \in T : thread[u].of = l)
      /\ \A u \in Threads \ T : thread[u].of # l
    BY DEF Of
<1>4. /\ life'[l] = "gone" /\ state'[l] = Plain("Idle")
      /\ \A k \in Launchers \ {l} : life'[k] = life[k] /\ state'[k] = state[k]
      /\ life' \in [Launchers -> {"new", "created", "running", "closing", "gone"}]
      /\ state' \in [Launchers -> Outcome]
    BY <1>1, <1>2 DEF UpdaterInv, UpdaterTypes
<1>5. OneWindow'
    <2>1. life[l] # "new"
        BY DEF End
    <2>2. Launchers = Launchers' /\ \A k \in Launchers : 1..k - 1 \subseteq Launchers
        BY UpdaterAssumption DEF Launchers
    <2> QED
        BY <1>4, <2>1, <2>2 DEF UpdaterInv, OneWindow
<1>6. /\ stage' \in [Stages -> Directory \cup {Nil}] /\ stage' = stage
      /\ leftover' \subseteq Stages
    BY <1>1 DEF UpdaterInv, UpdaterTypes, Existing
<1>7. \A s \in Stages : stage'[s] # Nil =>
               /\ s \in leftover => s \in leftover'
               /\ state[l].stage = s \/ (\E t \in T : thread[t].stage = s) =>
                      s \in leftover' \/ state'[l].stage = s
    BY <1>1, <1>6 DEF Existing
<1>8. /\ state'[l].stage # Nil <=> state'[l].is \in {"Ready", "Handoff"}
      /\ Offers(state'[l]) /\ state'[l].stage \notin Stages
    BY <1>2, <1>4 DEF Offers
<1> HIDE DEF T
<1> QED
    BY <1>1, <1>3, <1>4, <1>5, <1>6, <1>7, <1>8, EndsKeep

-----------------------------------------------------------------------------
(* The window.                                                              *)

\* A launcher that is not busy has no thread.
LEMMA IdleHasNoThread ==
    ASSUME UpdaterInv, NEW l \in Launchers, state[l].is \notin {"Checking", "Downloading"}
    PROVE  \A t \in Threads : thread[t].pc # "off" => thread[t].of # l
BY DEF UpdaterInv, LatestRuns

\* What starting a thread, or failing to, does to the rest.
LEMMA LaunchKeeps ==
    ASSUME UpdaterInv, NEW l \in Launchers,
           state[l].is \notin {"Checking", "Downloading", "Ready", "Handoff"},
           NEW is \in {"Checking", "Downloading"}, NEW what \in {"latest", "manifest"},
           NEW release \in Releases \cup {Nil},
           what = "manifest" => release \in Releases /\ release.version > Installed,
           Launch(l, is, what, release),
           life[l] \in {"created", "running"}, life' = [life EXCEPT ![l] = "running"],
           UNCHANGED <<stage, github, leftover>>
    PROVE  UpdaterInv'
<1>1. \A t \in Threads : thread[t].pc # "off" => thread[t].of # l
    BY IdleHasNoThread
<1>2. state[l].stage = Nil /\ Nil \notin Stages
    BY UpdaterAssumption DEF UpdaterInv, Settled
<1>3. /\ life' \in [Launchers -> {"new", "created", "running", "closing", "gone"}]
      /\ life'[l] = "running" /\ \A k \in Launchers \ {l} : life'[k] = life[k]
    BY DEF UpdaterInv, UpdaterTypes
<1>4. OneWindow'
    <2>1. \A k \in Launchers : 1..k - 1 \subseteq Launchers
        BY UpdaterAssumption DEF Launchers
    <2> QED
        BY <1>3, <2>1 DEF UpdaterInv, OneWindow
<1>5. PICK o \in Outcome :
          /\ o.stage = Nil /\ o.is \in {is, "Error"} /\ state' = [state EXCEPT ![l] = o]
          /\ stopping' = stopping \cup ({latest[l]} \ {Nil})
          /\ \/ /\ o.is = "Error" /\ latest' = [latest EXCEPT ![l] = Nil] /\ thread' = thread
             \/ /\ o.is = is
                /\ \E t \in Threads, w \in Worker :
                      /\ thread[t].pc = "off" /\ thread' = [thread EXCEPT ![t] = w]
                      /\ latest' = [latest EXCEPT ![l] = t]
                      /\ w.pc = "hop" /\ w.of = l /\ w.what = what /\ w.release = release
                      /\ w.stage = Nil /\ w.entry = 0
    <2>1. \A i \in {is, "Error"} : Plain(i) \in Outcome /\ Plain(i).is = i /\ Plain(i).stage = Nil
        BY DEF Plain, State, Outcome
    <2>2. CASE /\ state' = [state EXCEPT ![l] = Plain("Error")]
               /\ latest' = [latest EXCEPT ![l] = Nil]
               /\ stopping' = stopping \cup ({latest[l]} \ {Nil}) /\ UNCHANGED thread
        BY <2>1, <2>2
    <2>3. CASE ~(/\ state' = [state EXCEPT ![l] = Plain("Error")]
                 /\ latest' = [latest EXCEPT ![l] = Nil]
                 /\ stopping' = stopping \cup ({latest[l]} \ {Nil}) /\ UNCHANGED thread)
        <3> DEFINE t == CHOOSE t \in Threads : thread[t].pc = "off"
                   w == [NoThread EXCEPT !.pc = "hop", !.of = l, !.what = what,
                                         !.release = release]
        <3>1. /\ \E u \in Threads : thread[u].pc = "off"
              /\ thread' = [thread EXCEPT ![t] = w]
              /\ stopping' = stopping \cup ({latest[l]} \ {Nil})
              /\ latest' = [latest EXCEPT ![l] = t]
              /\ state' = [state EXCEPT ![l] = Plain(is)]
            BY <2>3 DEF Launch
        <3>2. t \in Threads /\ thread[t].pc = "off"
            BY <3>1
        <3> HIDE DEF t
        <3>3. "hop" \in Places
            BY DEF Places, Fetching
        <3>4. /\ w \in Worker /\ w.pc = "hop" /\ w.of = l /\ w.what = what
              /\ w.release = release /\ w.stage = Nil /\ w.entry = 0
            BY <3>3 DEF NoThread, Worker
        <3> HIDE DEF w
        <3> QED
            BY <2>1, <3>1, <3>2, <3>4
    <2> QED
        BY <2>2, <2>3
<1>6. /\ state'[l] = o /\ state' \in [Launchers -> Outcome]
      /\ \A k \in Launchers \ {l} : state'[k] = state[k]
    BY <1>5 DEF UpdaterInv, UpdaterTypes
<1>7. \A k \in Launchers : state'[k].stage = state[k].stage
    BY <1>2, <1>5, <1>6
<1>8. Settled'
    BY <1>5, <1>6 DEF UpdaterInv, Settled, Offers
<1>9. stopping' \subseteq Threads
    BY <1>5 DEF UpdaterInv, UpdaterTypes
<1>10. ReadyIsVerified'
    <2> SUFFICES ASSUME NEW k \in Launchers, life'[k] = "running",
                        state'[k].is \in {"Ready", "Handoff"}
                 PROVE  Verified(stage[state[k].stage], state[k].release) /\ state'[k] = state[k]
        BY DEF ReadyIsVerified, Verified
    <2> QED
        BY <1>3, <1>5, <1>6 DEF UpdaterInv, ReadyIsVerified, Verified
<1>11. \A t \in Threads : thread[t].pc # "off" /\ life'[thread[t].of] = "running" =>
           Reached(thread[t], stage[thread[t].stage])
    BY <1>1, <1>3 DEF UpdaterInv, LatestRuns, Built
<1>12. CASE latest' = [latest EXCEPT ![l] = Nil] /\ thread' = thread
    <2>1. UpdaterTypes'
        BY <1>3, <1>6, <1>9, <1>12 DEF UpdaterInv, UpdaterTypes, github
    <2>2. LatestRuns'
        BY <1>1, <1>3, <1>6, <1>12 DEF UpdaterInv, UpdaterTypes, LatestRuns
    <2>3. Known' /\ Exclusive' /\ Built'
        BY <1>7, <1>11, <1>12 DEF UpdaterInv, Known, Exclusive, Built
    <2>4. NothingLeftBehind'
        BY <1>7, <1>12 DEF UpdaterInv, NothingLeftBehind, Existing, Held
    <2> QED
        BY <1>4, <1>8, <1>10, <2>1, <2>2, <2>3, <2>4 DEF UpdaterInv
<1>13. ASSUME o.is = is, NEW t \in Threads, NEW w \in Worker,
              thread[t].pc = "off", thread' = [thread EXCEPT ![t] = w],
              latest' = [latest EXCEPT ![l] = t],
              w.pc = "hop", w.of = l, w.what = what, w.release = release,
              w.stage = Nil, w.entry = 0
       PROVE  UpdaterInv'
    <2>1. /\ thread'[t] = w /\ (\A u \in Threads \ {t} : thread'[u] = thread[u])
          /\ latest'[l] = t /\ (\A k \in Launchers \ {l} : latest'[k] = latest[k])
        BY <1>13 DEF UpdaterInv, UpdaterTypes
    <2>2. thread[t].stage = Nil
        BY <1>13 DEF UpdaterInv, LatestRuns, NoThread
    <2>3. \A u \in Threads : thread'[u].stage = thread[u].stage
        BY <1>13, <2>1, <2>2
    <2>4. UpdaterTypes'
        BY <1>3, <1>6, <1>9, <1>13 DEF UpdaterInv, UpdaterTypes, github
    <2>5. LatestRuns'
        BY <1>1, <1>3, <1>6, <1>13, <2>1 DEF UpdaterInv, LatestRuns
    <2>6. Knows(w) /\ \A d : Reached(w, d)
        BY <1>13 DEF Knows, Reached, Fetching, Staging, Leaving
    <2>7. Known'
        BY <2>1, <2>6 DEF UpdaterInv, Known
    <2>8. Exclusive'
        BY <1>7, <2>3 DEF UpdaterInv, Exclusive
    <2>9. Built'
        BY <1>11, <2>1, <2>6 DEF Built
    <2>10. NothingLeftBehind'
        <3>1. \A s \in Stages : Held(s) => Held(s)'
            BY <1>7, <2>3 DEF Held
        <3> QED
            BY <3>1 DEF UpdaterInv, NothingLeftBehind, Existing
    <2> QED
        BY <1>4, <1>8, <1>10, <2>4, <2>5, <2>7, <2>8, <2>9, <2>10 DEF UpdaterInv
<1> QED
    BY <1>5, <1>12, <1>13

LEMMA CheckKeeps ==
    ASSUME UpdaterInv, NEW l \in Launchers, Check(l)
    PROVE  UpdaterInv'
BY LaunchKeeps DEF Check, Busy

LEMMA DownloadKeeps ==
    ASSUME UpdaterInv, NEW l \in Launchers, Download(l)
    PROVE  UpdaterInv'
<1>1. life[l] = "running" /\ life' = [life EXCEPT ![l] = "running"]
    BY DEF Download, UpdaterInv, UpdaterTypes
<1>2. state[l].is = "Available" /\ Offers(state[l])
    BY DEF Download, UpdaterInv, Settled
<1>3. state[l].release \in Releases /\ state[l].release.version > Installed
    BY <1>2 DEF Offers
<1> QED
    BY <1>1, <1>2, <1>3, LaunchKeeps DEF Download

LEMMA HandOffKeeps ==
    ASSUME UpdaterInv, NEW l \in Launchers, HandOff(l)
    PROVE  UpdaterInv'
<1>1. /\ life[l] = "running" /\ state[l].is \in {"Ready", "Handoff"}
      /\ UNCHANGED <<life, latest, stopping, thread, stage, leftover, assets, changes>>
    BY DEF HandOff, github
<1>2. PICK is \in {"Ready", "Handoff"} : state' = [state EXCEPT ![l] = [state[l] EXCEPT !.is = is]]
    BY DEF HandOff, UpdaterInv, UpdaterTypes
<1> DEFINE o == [state[l] EXCEPT !.is = is]
<1>3. o \in Outcome /\ o.is = is /\ o.stage = state[l].stage /\ o.release = state[l].release
    BY DEF UpdaterInv, UpdaterTypes, Outcome
<1> HIDE DEF o
<1>4. /\ state'[l] = o /\ state' \in [Launchers -> Outcome]
      /\ \A k \in Launchers \ {l} : state'[k] = state[k]
    BY <1>2, <1>3 DEF UpdaterInv, UpdaterTypes, o
<1>5. \A k \in Launchers : state'[k].stage = state[k].stage
    BY <1>3, <1>4
<1>6. UpdaterTypes' /\ OneWindow' /\ Known'
    BY <1>1, <1>4 DEF UpdaterInv, UpdaterTypes, OneWindow, Known
<1>7. LatestRuns' /\ Settled'
    BY <1>1, <1>3, <1>4 DEF UpdaterInv, LatestRuns, Settled, Offers
<1>8. Exclusive' /\ Built' /\ NothingLeftBehind'
    BY <1>1, <1>5 DEF UpdaterInv, Exclusive, Built, NothingLeftBehind, Existing, Held
<1>9. ReadyIsVerified'
    BY <1>1, <1>3, <1>4 DEF UpdaterInv, ReadyIsVerified
<1> QED
    BY <1>6, <1>7, <1>8, <1>9 DEF UpdaterInv

\* Another launcher: there is no window whose update it could clean up.
LEMMA StartKeeps ==
    ASSUME UpdaterInv, NEW l \in Launchers, Start(l)
    PROVE  UpdaterInv'
<1>1. /\ life[l] = "new" /\ life' = [life EXCEPT ![l] = "created"]
      /\ \A k \in 1..l - 1 : life[k] \in {"closing", "gone"}
      /\ UNCHANGED <<state, latest, stopping, thread, assets, changes>>
    BY DEF Start, updater, github
<1>2. PICK gone \in SUBSET {s \in Existing : stage[s].owner} :
          /\ stage' = [s \in Stages |-> IF s \in gone THEN Nil ELSE stage[s]]
          /\ leftover' = Existing \ gone
    BY DEF Start
<1>3. /\ life' \in [Launchers -> {"new", "created", "running", "closing", "gone"}]
      /\ life'[l] = "created" /\ \A k \in Launchers \ {l} : life'[k] = life[k]
    BY <1>1 DEF UpdaterInv, UpdaterTypes
<1>4. \A k \in Launchers : k > l => life[k] = "new"
    <2> SUFFICES ASSUME NEW k \in Launchers, k > l, life[k] # "new" PROVE FALSE
        OBVIOUS
    <2>1. l \in 1..k - 1
        BY UpdaterAssumption DEF Launchers
    <2> QED
        BY <1>1, <2>1 DEF UpdaterInv, OneWindow
<1>5. \A k \in Launchers : life'[k] # "running"
    <2> SUFFICES ASSUME NEW k \in Launchers, k # l PROVE life[k] # "running"
        BY <1>3
    <2>1. k > l \/ k \in 1..l - 1
        BY UpdaterAssumption DEF Launchers
    <2> QED
        BY <1>1, <1>4, <2>1
<1>6. OneWindow'
    <2> SUFFICES ASSUME NEW k \in Launchers, life'[k] # "new", NEW j \in 1..k - 1
                 PROVE  life'[j] \in {"closing", "gone"}
        BY DEF OneWindow
    <2>1. j \in Launchers /\ j < k
        BY UpdaterAssumption DEF Launchers
    <2>2. CASE k = l
        BY <1>1, <1>3, <2>1, <2>2 DEF Launchers
    <2>3. CASE k # l
        <3>1. life[j] \in {"closing", "gone"}
            BY <1>3, <2>3 DEF UpdaterInv, OneWindow
        <3> QED
            BY <1>1, <1>3, <2>1, <3>1
    <2> QED
        BY <2>2, <2>3
<1>7. stage' \in [Stages -> Directory \cup {Nil}] /\ leftover' \subseteq Stages
    BY <1>2 DEF UpdaterInv, UpdaterTypes, Existing
<1>8. UpdaterTypes'
    BY <1>1, <1>3, <1>7 DEF UpdaterInv, UpdaterTypes
<1>9. LatestRuns'
    BY <1>1, <1>3 DEF UpdaterInv, LatestRuns
<1>10. Settled' /\ Known' /\ Exclusive'
    BY <1>1 DEF UpdaterInv, Settled, Known, Exclusive, Offers
<1>11. Built'
    BY <1>5, <1>9 DEF Built, LatestRuns
<1>12. ReadyIsVerified'
    BY <1>5 DEF ReadyIsVerified
<1>13. NothingLeftBehind'
    BY <1>2 DEF NothingLeftBehind, Existing
<1> QED
    BY <1>6, <1>8, <1>9, <1>10, <1>11, <1>12, <1>13 DEF UpdaterInv

LEMMA DropUpdaterKeeps ==
    ASSUME UpdaterInv, NEW l \in Launchers, DropUpdater(l)
    PROVE  UpdaterInv'
<1>1. /\ life[l] = "running" /\ life' = [life EXCEPT ![l] = "closing"]
      /\ stopping' = stopping \cup ({latest[l]} \ {Nil})
      /\ UNCHANGED <<state, latest, thread, stage, leftover, assets, changes>>
    BY DEF DropUpdater, github
<1>2. /\ life' \in [Launchers -> {"new", "created", "running", "closing", "gone"}]
      /\ life'[l] = "closing" /\ \A k \in Launchers \ {l} : life'[k] = life[k]
      /\ stopping' \subseteq Threads
    BY <1>1 DEF UpdaterInv, UpdaterTypes
<1>3. \A k \in Launchers : life'[k] = "running" => life[k] = "running"
    BY <1>1, <1>2
<1>4. UpdaterTypes'
    BY <1>1, <1>2 DEF UpdaterInv, UpdaterTypes
<1>5. OneWindow'
    <2>1. \A k \in Launchers : 1..k - 1 \subseteq Launchers
        BY UpdaterAssumption DEF Launchers
    <2> QED
        BY <1>1, <1>2, <2>1 DEF UpdaterInv, OneWindow
<1>6. LatestRuns'
    BY <1>1, <1>2 DEF UpdaterInv, LatestRuns
<1>7. Settled' /\ Known' /\ Exclusive' /\ NothingLeftBehind'
    BY <1>1 DEF UpdaterInv, Settled, Known, Exclusive, Offers, NothingLeftBehind, Existing, Held
<1>8. Built' /\ ReadyIsVerified'
    BY <1>1, <1>3, <1>6 DEF UpdaterInv, Built, ReadyIsVerified, LatestRuns
<1> QED
    BY <1>4, <1>5, <1>6, <1>7, <1>8 DEF UpdaterInv

LEMMA PublishKeeps ==
    ASSUME UpdaterInv, Publish
    PROVE  UpdaterInv'
<1>1. /\ UNCHANGED <<life, state, latest, stopping, thread, stage, leftover>>
      /\ changes' = changes + 1
      /\ \E b \in Builds : assets' = [assets EXCEPT ![b.version] = b]
    BY DEF Publish, updater
<1>2. assets' \in [Versions -> Builds \cup {Nil}]
    <2>1. PICK b \in Builds : assets' = [assets EXCEPT ![b.version] = b]
        BY <1>1
    <2>2. assets \in [Versions -> Builds \cup {Nil}]
        BY DEF UpdaterInv, UpdaterTypes
    <2>3. \A v \in Versions : assets'[v] \in Builds \cup {Nil}
        BY <2>1, <2>2
    <2> QED
        BY <2>1, <2>2, <2>3
<1>4. changes' \in Nat
    BY <1>1 DEF UpdaterInv, UpdaterTypes
<1>3. UpdaterTypes'
    BY <1>1, <1>2, <1>4 DEF UpdaterInv, UpdaterTypes
<1> QED
    BY <1>1, <1>3 DEF UpdaterInv, OneWindow, LatestRuns, Settled, Known, Exclusive, Built,
                      Offers, ReadyIsVerified, NothingLeftBehind, Existing, Held

LEMMA UpdaterStepKeeps == UpdaterInv /\ [UpdaterNext]_updaterVars => UpdaterInv'
<1> SUFFICES ASSUME UpdaterInv, [UpdaterNext]_updaterVars PROVE UpdaterInv'
    OBVIOUS
<1>1. CASE Publish
    BY <1>1, PublishKeeps
<1>2. ASSUME NEW l \in Launchers,
             Start(l) \/ Check(l) \/ Download(l) \/ HandOff(l) \/ DropUpdater(l) \/ End(l)
      PROVE  UpdaterInv'
    BY <1>2, StartKeeps, CheckKeeps, DownloadKeeps, HandOffKeeps, DropUpdaterKeeps, EndKeeps
<1>3. ASSUME NEW t \in Threads, ThreadStep(t) PROVE UpdaterInv'
    BY <1>3, RequestKeeps, ReceiveKeeps, ProgressKeeps, CreateStageKeeps, OwnStageKeeps,
       ExtractKeeps, WriteManifestKeeps, PersistKeeps, UnwindKeeps, FinishKeeps, StoreKeeps,
       DiscardKeeps DEF ThreadStep
<1>4. CASE UNCHANGED updaterVars
    <2>1. UNCHANGED <<life, state, latest, stopping, thread, stage, leftover, assets, changes>>
        BY <1>4 DEF updaterVars, updater, github
    <2>2. UpdaterTypes'
        BY <2>1 DEF UpdaterInv, UpdaterTypes
    <2>3. OneWindow' /\ LatestRuns' /\ Settled' /\ Known'
        BY <2>1 DEF UpdaterInv, OneWindow, LatestRuns, Settled, Offers, Known
    <2>4. Exclusive' /\ Built' /\ ReadyIsVerified' /\ NothingLeftBehind'
        BY <2>1 DEF UpdaterInv, Exclusive, Built, ReadyIsVerified, NothingLeftBehind,
                    Existing, Held
    <2> QED
        BY <2>2, <2>3, <2>4 DEF UpdaterInv
<1> QED
    BY <1>1, <1>2, <1>3, <1>4 DEF UpdaterNext

-----------------------------------------------------------------------------
(* Theorems about UpdaterWorker.                                            *)

\* The inductive invariant holds of every reachable state, whatever the builds,
\* the releases made and replaced, and the number of launchers and threads.
THEOREM UpdaterInvariant == UpdaterSpec => []UpdaterInv
<1>1. UpdaterInit => UpdaterInv
    BY UpdaterInitInv
<1>2. UpdaterInv /\ [UpdaterNext]_updaterVars => UpdaterInv'
    BY UpdaterStepKeeps
<1> QED
    BY <1>1, <1>2, PTL DEF UpdaterSpec

\* An update is offered for installation only when its directory holds one
\* build's manifest, of the release that was announced and newer than what is
\* installed, and exactly the files that it names (Installer::persist is reached
\* only through extract's checks; install.rs, package.rs).
THEOREM OfferedUpdatesAreVerified == UpdaterSpec => []ReadyIsVerified
<1>1. UpdaterInv => ReadyIsVerified
    BY DEF UpdaterInv
<1> QED
    BY <1>1, UpdaterInvariant, PTL

\* No staging directory is forgotten while its process lives, whatever fails and
\* whenever the thread is told to stop (StageGuard::drop and the discarded result).
THEOREM NoStageIsForgotten == UpdaterSpec => []NothingLeftBehind
<1>1. UpdaterInv => NothingLeftBehind
    BY DEF UpdaterInv
<1> QED
    BY <1>1, UpdaterInvariant, PTL

\* Only the thread of the last request changes what its window shows, even when
\* it stores a state after its flag was set: a request is not taken while there
\* is a thread that could still store (Updater::check and download look at busy).
THEOREM LastRequestHasTheWindow == UpdaterSpec => LastRequestWins
<1> DEFINE A == \A t \in Threads : thread'[t] # thread[t] /\ thread[t].of # Nil =>
                    LET l == thread[t].of IN
                    state'[l] # state[l] /\ life'[l] # "gone" => latest[l] = t
<1>1. UpdaterInv => A
    <2> SUFFICES ASSUME UpdaterInv, NEW t \in Threads, thread[t].of # Nil
                 PROVE  latest[thread[t].of] = t
        OBVIOUS
    <2>1. thread[t].pc # "off"
        BY DEF UpdaterInv, LatestRuns, NoThread
    <2> QED
        BY <2>1 DEF UpdaterInv, LatestRuns
<1>2. UpdaterInv /\ [UpdaterNext]_updaterVars => [A]_updaterVars
    BY <1>1
<1> HIDE DEF A
<1>3. UpdaterSpec => [][A]_updaterVars
    BY <1>2, UpdaterInvariant, PTL DEF UpdaterSpec
<1> QED
    BY <1>3 DEF A, LastRequestWins
=============================================================================
