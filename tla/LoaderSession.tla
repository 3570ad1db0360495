---------------------------- MODULE LoaderSession ----------------------------
(***************************************************************************)
(* How a launcher loads the DLL into a running game and follows it         *)
(* (src/launcher/process.rs: Session, RemoteCall, RemoteBuffer).  A call   *)
(* is a thread that the launcher creates inside the game, with an argument *)
(* buffer that it allocates there.  Three parties interleave: the launcher *)
(* that polls, the threads it left in the game, and the game itself, which *)
(* may exit at any time.  Launchers come and go: one that is closed drops  *)
(* its session, one that is killed does not.                               *)
(*                                                                         *)
(* The DLL is the abstract one of PatchStatus, which PatchLifecycle        *)
(* implements.                                                             *)
(***************************************************************************)
EXTENDS Naturals

CONSTANTS
    Calls,        \* remote calls; each may be used again once it is over
    Nil,          \* no call
    MaxLaunches,  \* bound: launchers started, one after the other
    MaxGames,     \* bound: game processes
    MaxFaults     \* bound: Windows calls of the launcher that fail

ASSUME NilAssumption == Nil \notin Calls
ASSUME BoundsAssumption == MaxLaunches \in Nat \ {0} /\ MaxGames \in Nat /\ MaxFaults \in Nat

VARIABLES
    (* The launcher's session. *)
    stage, current,   \* Stage, and the RemoteCall in it
    shown,            \* Session.active
    passive,          \* the DLL file exports T7PatchStatus
    launch, open,     \* launchers started, and whether the last one runs
    (* The game process. *)
    game, games,      \* it runs; number of processes so far
    own,              \* the session belongs to the process that runs now
    loaded, ready, supported,
    status, patched,  \* the DLL, as in PatchStatus
    (* The remote calls. *)
    call,
    faults,
    heard             \* ghost: what this session's last bootstrap call answered

session  == <<stage, current, shown, own, heard>>
launcher == <<session, launch, open>>
dll      == <<loaded, status, patched>>
process  == <<game, games, ready, supported, passive>>
vars     == <<launcher, process, dll, call, faults>>

DLL == INSTANCE PatchStatus

Answers == DLL!Statuses \cup {"unsupported"}
Verdicts == Answers \ {"waiting"}

Stages == {"none", "loading", "starting", "idle", "monitoring", "confirmed", "failed"}

\* A call that is over, or was never made.
Over == [kind |-> "none", thread |-> "ended", buffer |-> "freed", code |-> "none", by |-> 0]

Live(k) == call[k].thread \in {"running", "leaving"}

Init ==
    /\ stage = "none" /\ current = Nil /\ shown = FALSE /\ own = FALSE /\ heard = "none"
    /\ launch = 1 /\ open = TRUE
    /\ game = FALSE /\ games = 0 /\ ready = FALSE
    /\ supported \in BOOLEAN /\ passive \in BOOLEAN
    /\ loaded = FALSE /\ DLL!Init
    /\ call = [k \in Calls |-> Over]
    /\ faults = 0

-----------------------------------------------------------------------------
(* Remote calls.                                                           *)

Fault == faults < MaxFaults /\ faults' = faults + 1

Called(k, kind) == [call EXCEPT ![k] = [kind |-> kind, thread |-> "running",
                                        buffer |-> "held", code |-> "none", by |-> launch]]

\* A launcher may reuse the name of a call that is over.
Free(k) == ~Live(k) /\ k # current

\* Mutant: the argument is freed with the call, whatever its thread does.
FreeWithCall == IF current = Nil THEN call ELSE [call EXCEPT ![current].buffer = "freed"]

\* RemoteCall::drop, then RemoteBuffer::drop: the argument of a thread that
\* still runs is left behind, and so is the thread.
Dropped == IF current = Nil THEN call
           ELSE [call EXCEPT ![current].buffer = IF Live(current) THEN "left" ELSE "freed"]

\* LoadLibraryW runs in the game; DllMain does nothing that could fail, but
\* Windows may not find what the DLL needs.
RunLoad(k) ==
    /\ call[k].thread = "running" /\ call[k].kind = "load"
    /\ loaded' \in {loaded, TRUE}
    /\ call' = [call EXCEPT ![k].thread = "ended"]
    /\ UNCHANGED <<launcher, process, status, patched, faults>>

Starting(k) == call[k].thread = "running" /\ call[k].kind = "start" /\ loaded

\* T7PatchStart works on the game, ...
RunAttempt(k) ==
    /\ Starting(k) /\ supported /\ ready
    /\ DLL!Work
    /\ UNCHANGED <<launcher, process, loaded, call, faults>>

Answer(k, code) == call' = [call EXCEPT ![k].code = code, ![k].thread = "leaving"]

\* ... or knows the answer, which it writes to its argument ...
RunAnswer(k) ==
    /\ Starting(k)
    /\ \/ status # "waiting" /\ Answer(k, status) /\ UNCHANGED <<status, patched>>
       \/ status = "waiting" /\ ~supported /\ Answer(k, "unsupported")
          /\ UNCHANGED <<status, patched>>
       \/ status = "waiting" /\ supported /\ ~ready /\ Answer(k, "waiting")
          /\ UNCHANGED <<status, patched>>
       \/ supported /\ ready /\ DLL!Activate /\ Answer(k, "active")
       \/ supported /\ ready /\ DLL!Fail /\ Answer(k, "failed")
    /\ UNCHANGED <<launcher, process, loaded, faults>>

\* ... and the thread ends.
RunEnd(k) ==
    /\ call[k].thread = "leaving"
    /\ call' = [call EXCEPT ![k].thread = "ended"]
    /\ UNCHANGED <<launcher, process, dll, faults>>

-----------------------------------------------------------------------------
(* Session::attach and Session::poll, called in turn by the worker.        *)

SetStage(s, c) == stage' = s /\ current' = c

\* A new session; an error leaves the worker without one, and what it had
\* allocated is freed, since no thread uses it yet.
Attach ==
    /\ open /\ stage = "none" /\ game
    /\ \/ /\ loaded
          /\ SetStage("idle", Nil) /\ own' = TRUE
          /\ UNCHANGED <<call, faults>>
       \/ \E k \in Calls :
             /\ ~loaded /\ Free(k)
             /\ SetStage("loading", k) /\ own' = TRUE
             /\ call' = Called(k, "load")
             /\ UNCHANGED faults
       \/ Fault /\ UNCHANGED <<stage, current, own, call>>
    /\ UNCHANGED <<shown, heard, launch, open, process, dll>>

\* Mutant: what is shown outlives the session.
DropSessionOnly ==
    /\ open /\ stage # "none" /\ ~own
    /\ SetStage("none", Nil)
    /\ heard' = "none"
    /\ call' = Dropped
    /\ UNCHANGED <<shown, own, launch, open, process, dll, faults>>

\* The worker drops the session of a process that has ended.
DropSession ==
    /\ open /\ stage # "none" /\ ~own
    /\ SetStage("none", Nil)
    /\ shown' = FALSE /\ heard' = "none"
    /\ call' = Dropped
    /\ UNCHANGED <<own, launch, open, process, dll, faults>>

\* advance returns an error: the stage, and a call in it, is dropped.
Fail ==
    /\ SetStage("failed", Nil)
    /\ shown' = FALSE
    /\ call' = Dropped

\* WaitForSingleObject, ReadProcessMemory, CreateRemoteThread ... fail, or the
\* process ended after the worker saw it alive.
PollFails ==
    /\ open /\ stage \in {"loading", "starting", "idle", "monitoring"}
    /\ Fault /\ Fail
    /\ UNCHANGED <<own, heard, launch, open, process, dll>>

\* Mutant: a loader thread that takes long is given up for a new session.
PollLoadingGivesUp ==
    /\ open /\ stage = "loading" /\ own
    /\ SetStage("none", Nil) /\ call' = Dropped
    /\ UNCHANGED <<shown, own, heard, launch, open, process, dll, faults>>

\* Mutant: a DLL that Windows could not load is waited for.
PollLoadingWaits ==
    /\ open /\ stage = "loading" /\ own /\ ~Live(current) /\ loaded
    /\ SetStage("idle", Nil) /\ call' = Dropped
    /\ UNCHANGED <<shown, own, heard, launch, open, process, dll, faults>>

\* Stage::Loading, its thread has ended.
PollLoading ==
    /\ open /\ stage = "loading" /\ own /\ ~Live(current)
    /\ \/ loaded /\ SetStage("idle", Nil) /\ call' = Dropped /\ UNCHANGED shown
       \/ ~loaded /\ Fail
    /\ UNCHANGED <<own, heard, launch, open, process, dll, faults>>

\* Stage::Idle, two seconds are over.
PollIdle ==
    /\ open /\ stage = "idle" /\ own
    /\ \E k \in Calls : Free(k) /\ SetStage("starting", k) /\ call' = Called(k, "start")
    /\ UNCHANGED <<shown, own, heard, launch, open, process, dll, faults>>

\* Mutant: an active patch is asked again.
AskAgain(code) == IF code \in {"waiting", "active"} THEN "idle" ELSE "failed"

AfterBootstrap(code) ==
    CASE code = "waiting" -> "idle"
      [] code = "active" -> IF passive THEN "monitoring" ELSE "confirmed"
      [] OTHER -> "failed"

\* Stage::Starting, its thread has ended and the answer is read.
PollStarting ==
    /\ open /\ stage = "starting" /\ own /\ ~Live(current)
    /\ heard' = call[current].code
    /\ shown' = (call[current].code = "active")
    /\ SetStage(AfterBootstrap(call[current].code), Nil)
    /\ call' = Dropped
    /\ UNCHANGED <<own, launch, open, process, dll, faults>>

\* Mutant: the text changes, but not what is shown as active.
PollMonitoringText ==
    /\ open /\ stage = "monitoring" /\ own /\ status # "active"
    /\ SetStage("failed", Nil)
    /\ UNCHANGED <<shown, own, heard, launch, open, process, dll, call, faults>>

\* Stage::Monitoring reads the word of the DLL; ACTIVE changes nothing.
PollMonitoring ==
    /\ open /\ stage = "monitoring" /\ own /\ status # "active"
    /\ SetStage("failed", Nil)
    /\ shown' = FALSE
    /\ UNCHANGED <<own, heard, launch, open, process, dll, call, faults>>

-----------------------------------------------------------------------------
(* Launchers and games come and go.                                        *)

NoSession == SetStage("none", Nil) /\ shown' = FALSE /\ own' = FALSE /\ heard' = "none"

\* The window is closed: the worker ends and drops its session.
Close ==
    /\ open /\ open' = FALSE
    /\ NoSession /\ call' = Dropped
    /\ UNCHANGED <<launch, process, dll, faults>>

\* The launcher is killed: whatever it owned in the game stays.
Kill ==
    /\ open /\ open' = FALSE
    /\ NoSession
    /\ call' = IF current = Nil THEN call ELSE [call EXCEPT ![current].buffer = "left"]
    /\ UNCHANGED <<launch, process, dll, faults>>

Launch ==
    /\ ~open /\ launch < MaxLaunches
    /\ open' = TRUE /\ launch' = launch + 1
    /\ UNCHANGED <<session, process, dll, call, faults>>

GameStart ==
    /\ ~game /\ games < MaxGames
    /\ game' = TRUE /\ games' = games + 1 /\ ready' = FALSE
    /\ UNCHANGED <<launcher, supported, passive, dll, call, faults>>

GameReady ==
    /\ game /\ ~ready /\ ready' = TRUE
    /\ UNCHANGED <<launcher, game, games, supported, passive, dll, call, faults>>

\* With the process its threads, its memory and the DLL's state are gone.
GameExit ==
    /\ game /\ game' = FALSE /\ ready' = FALSE /\ own' = FALSE
    /\ loaded' = FALSE /\ status' = "waiting" /\ patched' = FALSE
    /\ call' = [k \in Calls |-> [call[k] EXCEPT !.thread = "ended", !.buffer = "freed"]]
    /\ UNCHANGED <<stage, current, shown, heard, launch, open, games, supported, passive, faults>>

\* Unload, called by someone inside the game.
Unload ==
    /\ DLL!Remove \/ DLL!Deactivate
    /\ UNCHANGED <<launcher, process, loaded, call, faults>>

-----------------------------------------------------------------------------
Poll == DropSession \/ Attach \/ PollLoading \/ PollIdle \/ PollStarting \/ PollMonitoring

Remote(k) == RunLoad(k) \/ RunAttempt(k) \/ RunAnswer(k) \/ RunEnd(k)

Next ==
    \/ Poll \/ PollFails
    \/ \E k \in Calls : Remote(k)
    \/ Close \/ Kill \/ Launch
    \/ GameStart \/ GameReady \/ GameExit \/ Unload

Spec == Init /\ [][Next]_vars

\* The worker polls for as long as the launcher runs, threads in the game are
\* scheduled, a call of T7PatchStart comes to an end (CallsReturn), and the
\* game gets ready; nobody has to start, close, exit or unload anything.
Fairness ==
    /\ WF_vars(Poll)
    /\ \A k \in Calls : WF_vars(RunLoad(k) \/ RunAnswer(k) \/ RunEnd(k))
    /\ WF_vars(GameReady)

FairSpec == Spec /\ Fairness

-----------------------------------------------------------------------------
(* Properties.                                                             *)

\* Every variable keeps its type (Session, Stage, RemoteCall).
TypeOK ==
    /\ stage \in Stages /\ current \in Calls \cup {Nil}
    /\ current # Nil <=> stage \in {"loading", "starting"}
    /\ {shown, open, game, own, loaded, ready, supported, passive, patched} \subseteq BOOLEAN
    /\ launch \in 1..MaxLaunches /\ games \in 0..MaxGames /\ faults \in 0..MaxFaults
    /\ status \in DLL!Statuses /\ heard \in Answers \cup {"none"}
    /\ call \in [Calls -> [kind : {"none", "load", "start"},
                           thread : {"running", "leaving", "ended"},
                           buffer : {"held", "left", "freed"},
                           code : Answers \cup {"none"}, by : 0..MaxLaunches]]

\* "Remote buffers remain allocated if the UI exits while a remote call is in
\* flight": no thread in the game ever runs on a freed argument.
BufferOutlivesCall == \A k \in Calls : Live(k) => call[k].buffer # "freed"

\* A launcher has at most one thread of its own in the game at a time, however
\* its calls fail, and so at most one blocked LoadLibrary is left behind.
OneThreadPerLauncher ==
    \A j, k \in Calls : Live(j) /\ Live(k) /\ call[j].by = call[k].by => j = k

\* The window never shows a patch as active that this game does not have: it
\* is, or was deactivated since the last poll.
ShownIsInstalled == shown /\ own => loaded /\ status \in {"active", "deactivated"}

\* A session that has a verdict does not create threads in the game again:
\* "instead of repeatedly creating game threads and running DLL/TLS callbacks".
AskedUntilAnswered ==
    [][stage' = "starting" /\ stage # "starting" => heard \notin Verdicts]_vars

\* A game that stays up, with a launcher that stays open, ends in a verdict.
VerdictReached ==
    game /\ open ~> ~game \/ ~open \/ stage \in {"monitoring", "confirmed", "failed"}

\* A deactivation is noticed where the DLL has the passive word.
DeactivationShown == passive /\ status = "deactivated" ~> ~shown
=============================================================================
