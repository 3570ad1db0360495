--------------------------- MODULE LauncherHandoff ---------------------------
(***************************************************************************)
(* Two threads of the launcher at the moment an update is handed to the    *)
(* helper: the detection worker (src/launcher/mod.rs, Worker) that loads   *)
(* the DLL into the game, and the window (src/launcher/ui.rs) that pauses  *)
(* it, waits until it reports to be quiescent, starts the helper and       *)
(* leaves.  Each load and store of an atomic flag is a step.               *)
(***************************************************************************)
EXTENDS Naturals

CONSTANT MaxFailures    \* bound: failed attempts to start the helper

ASSUME FailuresAssumption == MaxFailures \in Nat

VARIABLES
    (* Shared flags of the Worker. *)
    stop, paused, quiescent, configured,
    (* The worker thread. *)
    wpc, session,
    (* The window's thread. *)
    upc,         \* where the current message handler is
    update,      \* UpdateState, reduced to what the hand-off tells apart
    restarting,  \* the helper was started
    dirty,       \* edits that were not saved yet
    saveError,   \* the last save failed
    failures,
    (* The game process. *)
    game

flags   == <<stop, paused, quiescent, configured>>
worker  == <<wpc, session>>
edits   == <<dirty, saveError>>
handoff == <<update, restarting, failures>>
vars    == <<flags, worker, upc, edits, handoff, game>>

WorkerPC == {"stop?", "paused?", "mark", "clear", "work", "attach", "ended"}
WindowPC == {"idle", "save", "look", "starting", "resume", "unpause",
             "closed", "joining", "exited"}

Init ==
    /\ stop = FALSE /\ paused = FALSE /\ quiescent = FALSE
    /\ configured \in BOOLEAN /\ saveError = ~configured
    /\ wpc = "stop?" /\ session = "none"
    /\ upc = "idle" /\ update = "none" /\ restarting = FALSE
    /\ dirty = FALSE /\ failures = 0
    /\ game \in BOOLEAN

-----------------------------------------------------------------------------
(* The worker's loop.                                                      *)

WorkerGo(from, to) == wpc = from /\ wpc' = to

CheckStop == /\ WorkerGo("stop?", IF stop THEN "ended" ELSE "paused?")
             /\ UNCHANGED <<flags, session, upc, edits, handoff, game>>

LoadPaused == /\ WorkerGo("paused?", IF paused THEN "mark" ELSE "clear")
              /\ UNCHANGED <<flags, session, upc, edits, handoff, game>>

\* Report to be quiescent and sleep.
MarkQuiescent == /\ WorkerGo("mark", "stop?")
                 /\ quiescent' = TRUE
                 /\ UNCHANGED <<stop, paused, configured, session, upc, edits,
                                handoff, game>>

ClearQuiescent == /\ WorkerGo("clear", "work")
                  /\ quiescent' = FALSE
                  /\ UNCHANGED <<stop, paused, configured, session, upc, edits,
                                 handoff, game>>

\* A session of a game that ended is dropped; a live one is polled; without
\* one the game is looked for, unless the next scan is not due yet.
PollOrFind ==
    /\ \/ session = "live" /\ WorkerGo("work", "stop?")
       \/ session # "live" /\ game /\ configured /\ WorkerGo("work", "attach")
       \/ session # "live" /\ WorkerGo("work", "stop?")
    /\ session' = IF session = "dead" THEN "none" ELSE session
    /\ UNCHANGED <<flags, upc, edits, handoff, game>>

\* Session::attach succeeds on a game that still runs, or returns an error.
Attach == /\ WorkerGo("attach", "stop?")
          /\ session' \in IF game THEN {"none", "live"} ELSE {"none"}
          /\ UNCHANGED <<flags, upc, edits, handoff, game>>

-----------------------------------------------------------------------------
(* The window's message handlers.                                          *)

WindowGo(from, to) == upc = from /\ upc' = to

\* Mutant: the fields stay enabled during the hand-off.
EditAnytime == /\ upc = "idle"
               /\ dirty' = TRUE
               /\ UNCHANGED <<flags, worker, upc, saveError, handoff, game>>

\* WM_COMMAND from an edit field; the fields are disabled during the hand-off.
Edit == /\ upc = "idle" /\ update # "handoff"
        /\ dirty' = TRUE
        /\ UNCHANGED <<flags, worker, upc, saveError, handoff, game>>

\* save(): the file is written or an error is kept; either way nothing is
\* pending and the worker may patch only with settings that were saved.
Save == /\ dirty' = FALSE
        /\ saveError' \in BOOLEAN
        /\ configured' = ~saveError'

\* WM_TIMER, 400 ms after the last edit, or a click on the check box, which
\* is disabled during the hand-off.
SaveEdits == /\ upc = "idle" /\ (dirty \/ update # "handoff")
             /\ Save
             /\ UNCHANGED <<stop, paused, quiescent, worker, upc, handoff, game>>

\* The update worker ends with a verified stage.
UpdateReady == /\ upc = "idle" /\ update = "none"
               /\ update' = "ready"
               /\ UNCHANGED <<flags, worker, upc, edits, restarting, failures, game>>

\* update_action: first the game must be closed ...
ClickInstall == /\ WindowGo("idle", "save")
                /\ update = "ready" /\ ~game
                /\ UNCHANGED <<flags, worker, edits, handoff, game>>

\* ... then pending settings are saved, or the hand-off is refused ...
SaveAndPause ==
    /\ upc = "save"
    /\ IF dirty THEN Save ELSE UNCHANGED <<edits, configured>>
    /\ IF saveError' THEN /\ upc' = "idle"
                          /\ UNCHANGED <<paused, update>>
                     ELSE /\ upc' = "look"
                          /\ paused' = TRUE
                          /\ update' = "handoff"
    /\ UNCHANGED <<stop, quiescent, worker, restarting, failures, game>>

\* WM_TIMER brings the window back to refresh_update.
Timer == /\ WindowGo("idle", "look")
         /\ update = "handoff" /\ ~restarting
         /\ UNCHANGED <<flags, worker, edits, handoff, game>>

\* Mutant: the window does not wait for the worker.
LookAnyway == /\ WindowGo("look", "starting")
              /\ UNCHANGED <<flags, worker, edits, handoff, game>>

\* ... and refresh_update starts the helper once the worker is quiescent.
LookQuiescent == /\ WindowGo("look", IF quiescent THEN "starting" ELSE "idle")
                 /\ UNCHANGED <<flags, worker, edits, handoff, game>>

HelperStarted == /\ WindowGo("starting", "idle")
                 /\ restarting' = TRUE
                 /\ UNCHANGED <<flags, worker, edits, update, failures, game>>

HelperFails == /\ WindowGo("starting", "resume")
               /\ failures < MaxFailures
               /\ failures' = failures + 1
               /\ UNCHANGED <<flags, worker, edits, update, restarting, game>>

\* Worker::resume stores quiescent, then paused.
ResumeQuiescent == /\ WindowGo("resume", "unpause")
                   /\ quiescent' = FALSE
                   /\ UNCHANGED <<stop, paused, configured, worker, edits, handoff, game>>

\* Mutant: the worker stays paused after a failed hand-off.
StayPaused == /\ WindowGo("unpause", "idle")
              /\ update' = "ready"
              /\ UNCHANGED <<flags, worker, edits, restarting, failures, game>>

ResumePaused == /\ WindowGo("unpause", "idle")
                /\ paused' = FALSE
                /\ update' = "ready"
                /\ UNCHANGED <<stop, quiescent, configured, worker, edits,
                               restarting, failures, game>>

\* WM_CLOSE, from the user or posted after the helper was started.
Close == /\ WindowGo("idle", "closed")
         /\ IF dirty THEN Save ELSE UNCHANGED <<edits, configured>>
         /\ UNCHANGED <<stop, paused, quiescent, worker, handoff, game>>

\* Mutant: the window waits for the worker without telling it to stop.
JoinOnly == /\ WindowGo("closed", "joining")
            /\ UNCHANGED <<flags, worker, edits, handoff, game>>

\* Worker::drop tells the thread to stop and joins it.
StopWorker == /\ WindowGo("closed", "joining")
              /\ stop' = TRUE
              /\ UNCHANGED <<paused, quiescent, configured, worker, edits, handoff, game>>

Join == /\ WindowGo("joining", "exited")
        /\ wpc = "ended"
        /\ UNCHANGED <<flags, worker, edits, handoff, game>>

GameStart == ~game /\ game' = TRUE /\ UNCHANGED <<flags, worker, upc, edits, handoff>>
GameExit  == /\ game /\ game' = FALSE
             /\ session' = IF session = "live" THEN "dead" ELSE session
             /\ UNCHANGED <<flags, wpc, upc, edits, handoff>>

WorkerStep == CheckStop \/ LoadPaused \/ MarkQuiescent \/ ClearQuiescent
              \/ PollOrFind \/ Attach

\* What the window does on its own; the user's input is not among it.
WindowStep == SaveAndPause \/ Timer \/ LookQuiescent \/ HelperStarted \/ HelperFails
              \/ ResumeQuiescent \/ ResumePaused \/ StopWorker \/ Join

User == Edit \/ SaveEdits \/ UpdateReady \/ ClickInstall \/ Close

Next == WorkerStep \/ WindowStep \/ User \/ GameStart \/ GameExit

Spec == Init /\ [][Next]_vars

\* Both threads are scheduled, and the close message posted with the helper's
\* start is delivered.
FairSpec == Spec /\ WF_vars(WorkerStep) /\ WF_vars(WindowStep)
                 /\ WF_vars(restarting /\ Close)

-----------------------------------------------------------------------------
(* Properties.                                                             *)

\* The flags and program counters keep their types (Worker, App).
TypeOK ==
    /\ {stop, paused, quiescent, configured} \subseteq BOOLEAN
    /\ wpc \in WorkerPC /\ session \in {"none", "live", "dead"}
    /\ upc \in WindowPC /\ update \in {"none", "ready", "handoff"}
    /\ {restarting, dirty, saveError, game} \subseteq BOOLEAN
    /\ failures \in 0..MaxFailures

Active == wpc \in {"clear", "work", "attach"}

\* "The launcher saves pending settings, pauses injection, and starts a
\* temporary helper": once the helper is started the worker is not on its way
\* to the game (refresh_update, Worker's loop).
PausedBeforeHelper == restarting => ~Active

\* As long as no helper failed to start before, that is so.
FirstHandoffIsPaused == restarting /\ failures = 0 => ~Active

\* From the pause to the end of the process no edit is pending and the last
\* save succeeded, so that the next launcher finds the user's settings.
SettingsSettled == update = "handoff" => ~dirty /\ ~saveError

\* A hand-off settles: the window is usable again with the update still Ready,
\* or the launcher has ended, although it joins a worker that may be paused or in
\* the middle of a poll.  The helper waits for that for thirty seconds only.
HandoffSettles == update = "handoff" ~> update = "ready" \/ upc = "exited"

\* While an update only waits, after a failed hand-off as before the first,
\* the worker goes on to look for the game (Worker::resume).
DetectionResumes == update = "ready" ~>
                        wpc = "work" \/ update = "handoff" \/ upc \in {"closed", "joining", "exited"}
=============================================================================
