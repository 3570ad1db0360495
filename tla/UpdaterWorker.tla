--------------------------- MODULE UpdaterWorker ---------------------------
(***************************************************************************)
(* The updater up to a prepared update: the requests of the window (check, *)
(* download), the thread that each of them starts, the state they share    *)
(* (src/launcher/updater/mod.rs), the HTTP client (http.rs), the staging   *)
(* directory (install.rs) and the verification of what is unpacked into it *)
(* (package.rs).  What becomes of a prepared update is UpdateInstall's.    *)
(*                                                                         *)
(* A step is a test of the stop flag, a store of the state, a file         *)
(* operation, or the answer of the network.  Any operation may fail.       *)
(* GitHub is external: at any time it holds one build for each version, or *)
(* none, and a build may be replaced or packed wrongly.  A body comes in   *)
(* units and may end early; hashes are abstracted to the build's id.       *)
(***************************************************************************)
EXTENDS Naturals, Sequences

CONSTANTS
    MaxLaunches,\* bound: processes, one after the other
    Threads,    \* slots for threads "t7patch-updater"
    Stages,     \* slots for staging directories
    Builds,     \* [id, version, size of the archive, packed : sequence of contents]
    Installed,  \* CARGO_PKG_VERSION
    MaxHops,    \* 6: requests of one get
    MaxChanges, \* bound: changes of the releases
    Nil

Launchers == 1..MaxLaunches

ASSUME UpdaterAssumption ==
    /\ MaxLaunches \in Nat /\ MaxChanges \in Nat /\ Nil \notin Threads \cup Stages \cup Builds
    /\ Installed \in Nat /\ MaxHops \in Nat \ {0}
    /\ \A b \in Builds : b.version \in Nat /\ b.size \in Nat \ {0}

VARIABLES
    life,       \* per launcher: "new", "created", "running", "closing", "gone"
    state,      \* Updater.shared
    latest,     \* the thread that has Updater.stop, while it runs
    thread,     \* per thread: its place and locals
    stopping,   \* threads whose flag is set
    stage,      \* the directories .t7patch-update-*
    assets,     \* GitHub: per version, the build of its release
    changes,
    leftover    \* history: stages that could not be removed, or whose process is gone

updater     == <<state, latest, stopping>>
github      == <<assets, changes>>
updaterVars == <<life, updater, thread, stage, github, leftover>>

Names == {"exe", "dll"}
Content(name, b) == [name |-> name, of |-> b.id]
Versions == {b.version : b \in Builds}

Directory == [owner : BOOLEAN, new : SUBSET {Content(name, b) : name \in Names, b \in Builds},
              manifest : Builds \cup {Nil}]

ASSUME NoDirectoryAssumption == Nil \notin Directory

State(is, release, s) == [is |-> is, release |-> release, stage |-> s]
Plain(is) == State(is, Nil, Nil)

NoThread == [pc |-> "off", of |-> Nil, what |-> Nil, release |-> Nil, hops |-> 0,
             body |-> Nil, got |-> 0, manifest |-> Nil, stage |-> Nil, entry |-> 0,
             result |-> Nil]

UpdaterInit ==
    /\ life = [l \in Launchers |-> "new"] /\ state = [l \in Launchers |-> Plain("Idle")]
    /\ latest = [l \in Launchers |-> Nil] /\ thread = [t \in Threads |-> NoThread]
    /\ stopping = {} /\ stage = [s \in Stages |-> Nil] /\ leftover = {} /\ changes = 0
    /\ assets \in [Versions -> Builds \cup {Nil}]
    /\ \A v \in Versions : IF v = Installed THEN assets[v] \in Builds /\ assets[v].version = v
                                            ELSE assets[v] = Nil

-----------------------------------------------------------------------------
(* The window.                                                              *)

\* Mutant: only a check counts as busy.
BusyChecking(l) == state[l].is \in {"Checking", "Handoff"}

Busy(l) == state[l].is \in {"Checking", "Downloading", "Handoff"}

\* A thread ends; nobody looks at its flag any more.
Off(T) ==
    /\ thread' = [t \in Threads |-> IF t \in T THEN NoThread ELSE thread[t]]
    /\ latest' = [l \in Launchers |-> IF latest[l] \in T THEN Nil ELSE latest[l]]
    /\ stopping' = stopping \ T

\* launch: the flag of the thread before is set, and that thread is not awaited.
\* Error when no thread can be made, or for a download by an EXE of another name.
Launch(l, is, what, release) ==
    \/ LET t == CHOOSE t \in Threads : thread[t].pc = "off" IN
          /\ \E u \in Threads : thread[u].pc = "off"
          /\ thread' = [thread EXCEPT ![t] = [NoThread EXCEPT
                            !.pc = "hop", !.of = l, !.what = what, !.release = release]]
          /\ stopping' = stopping \cup ({latest[l]} \ {Nil}) /\ latest' = [latest EXCEPT ![l] = t]
          /\ state' = [state EXCEPT ![l] = Plain(is)]
    \/ /\ state' = [state EXCEPT ![l] = Plain("Error")] /\ latest' = [latest EXCEPT ![l] = Nil]
       /\ stopping' = stopping \cup ({latest[l]} \ {Nil}) /\ UNCHANGED thread

\* The window's creation checks, and so does the button.
Check(l) ==
    /\ life[l] \in {"created", "running"} /\ ~Busy(l) /\ state[l].is # "Ready"
    /\ Launch(l, "Checking", "latest", Nil) /\ life' = [life EXCEPT ![l] = "running"]
    /\ UNCHANGED <<stage, github, leftover>>

Download(l) ==
    /\ life[l] = "running" /\ state[l].is = "Available"
    /\ Launch(l, "Downloading", "manifest", state[l].release)
    /\ UNCHANGED <<life, stage, github, leftover>>

\* update_action of a Ready update, and a helper that could not be started.
HandOff(l) ==
    /\ life[l] = "running"
    /\ \/ state[l].is = "Ready" /\ state' = [state EXCEPT ![l].is = "Handoff"]
       \/ state[l].is = "Handoff" /\ state' = [state EXCEPT ![l].is = "Ready"]
    /\ UNCHANGED <<life, latest, stopping, thread, stage, github, leftover>>

Of(l) == {t \in Threads : thread[t].of = l}
Held(s) == \/ \E t \in Threads : thread[t].stage = s
           \/ \E l \in Launchers : state[l].stage = s
Free(s) == stage[s] = Nil /\ ~Held(s)
Existing == {s \in Stages : stage[s] # Nil}

\* The singleton is free; cleanup removes what it can and knows for the
\* updater's own, ignoring errors; a window exists.
Start(l) ==
    /\ life[l] = "new" /\ \A k \in 1..l - 1 : life[k] \in {"closing", "gone"}
    /\ life' = [life EXCEPT ![l] = "created"]
    /\ \E gone \in SUBSET {s \in Existing : stage[s].owner} :
          /\ stage' = [s \in Stages |-> IF s \in gone THEN Nil ELSE stage[s]]
          /\ leftover' = Existing \ gone
    /\ UNCHANGED <<updater, thread, github>>

\* Updater::drop: the flag is set, the thread is not awaited.  The singleton is released.
DropUpdater(l) ==
    /\ life[l] = "running" /\ life' = [life EXCEPT ![l] = "closing"]
    /\ stopping' = stopping \cup ({latest[l]} \ {Nil})
    /\ UNCHANGED <<state, latest, thread, stage, github, leftover>>

\* The process ends with its threads, wherever they are; a crash needs no drop.
End(l) ==
    /\ life[l] \notin {"new", "gone"} /\ life' = [life EXCEPT ![l] = "gone"]
    /\ Off(Of(l)) /\ state' = [state EXCEPT ![l] = Plain("Idle")]
    /\ leftover' = {s \in Existing : s \in leftover \/ state[l].stage = s
                                       \/ \E t \in Of(l) : thread[t].stage = s}
    /\ UNCHANGED <<stage, github>>

-----------------------------------------------------------------------------
(* A thread: http::get.                                                     *)

At(t, pc) == thread[t].pc = pc
Go(t, pc) == thread' = [thread EXCEPT ![t].pc = pc]
Stopped(t) == t \in stopping
Outside == UNCHANGED <<life, github>>
NoStore == UNCHANGED updater
NoFile  == UNCHANGED <<stage, leftover>>

\* The request's work returns.
Leaves(t, pc, result) ==
    thread' = [thread EXCEPT ![t] = [NoThread EXCEPT !.pc = pc, !.of = thread[t].of,
                                         !.stage = thread[t].stage, !.result = result]]

\* Err(..)?: what the thread holds is dropped on the way out.
Fail(t) ==
    /\ Leaves(t, IF thread[t].stage = Nil THEN "finish" ELSE "unwind", Plain("Error"))
    /\ NoStore /\ NoFile

Result(t, is, release) ==
    Leaves(t, "finish", State(is, release, thread[t].stage))

\* Mutant: redirects are followed for ever.
MayFollowAlways(t) == TRUE

MayFollow(t) == thread[t].hops < MaxHops - 1

Redirect(t) ==
    /\ thread' = [thread EXCEPT ![t].hops = (@ + 1) % MaxHops]
    /\ MayFollow(t)

\* 404 for the latest release: there is none yet.  Any other status is an error.
NoBody(t) == thread[t].what = "latest" /\ Result(t, "Idle", Nil)

\* The latest release is some release; an asset is that of the release's tag.
Body(t) ==
    \E v \in Versions :
        /\ assets[v] # Nil /\ (thread[t].what # "latest" => v = thread[t].release.version)
        /\ thread' = [thread EXCEPT ![t].pc = "body", ![t].body = assets[v],
                                    ![t].got = 0, ![t].hops = 0]

Request(t) ==
    /\ At(t, "hop") /\ Outside
    /\ \/ Fail(t)
       \/ ~Stopped(t) /\ (Redirect(t) \/ NoBody(t) \/ Body(t)) /\ NoStore /\ NoFile

Size(t) == IF thread[t].what = "archive" THEN thread[t].body.size ELSE 1
Maximum(t) == IF thread[t].what = "archive" THEN thread[t].manifest.size ELSE 1

Chunk(t) ==
    /\ thread[t].got < Size(t) /\ thread[t].got < Maximum(t)
    /\ thread' = [thread EXCEPT ![t].got = @ + 1,
                                ![t].pc = IF thread[t].what = "archive" THEN "progress" ELSE @]

Newer(b) == b.version > Installed
Release(b) == [version |-> b.version, size |-> b.size]

\* The stores of a download's progress do not look at the flag.
Downloading(t) ==
    state' = [state EXCEPT ![thread[t].of] = Plain("Downloading")] /\ UNCHANGED <<latest, stopping>>

\* What follows a body: a release, a manifest that agrees with it, or an archive.
Received(t) ==
    CASE thread[t].what = "latest" ->
             /\ NoStore /\ thread[t].got = Size(t)
             /\ IF Newer(thread[t].body) THEN Result(t, "Available", Release(thread[t].body))
                                         ELSE Result(t, "Idle", Nil)
      [] thread[t].what = "manifest" ->
             /\ NoStore /\ thread[t].got = Size(t) /\ Release(thread[t].body) = thread[t].release
             /\ thread' = [thread EXCEPT ![t].pc = "hop", ![t].what = "archive",
                                         ![t].manifest = thread[t].body, ![t].body = Nil,
                                         ![t].got = 0]
      [] OTHER -> Go(t, "create") /\ Downloading(t)

Receive(t) ==
    /\ At(t, "body") /\ Outside
    /\ \/ Fail(t)
       \/ ~Stopped(t) /\ NoFile /\ ((Chunk(t) /\ NoStore) \/ Received(t))

Progress(t) == At(t, "progress") /\ Go(t, "body") /\ Downloading(t) /\ Outside /\ NoFile

-----------------------------------------------------------------------------
(* The staging directory.                                                   *)

Dir(t) == stage[thread[t].stage]

\* A directory of a new name.
CreateStage(t) ==
    /\ At(t, "create") /\ Outside
    /\ \/ Fail(t)
       \/ LET s == CHOOSE s \in Stages : Free(s) IN
             /\ \E x \in Stages : Free(x)
             /\ stage' = [stage EXCEPT ![s] = [owner |-> FALSE, new |-> {}, manifest |-> Nil]]
             /\ thread' = [thread EXCEPT ![t].pc = "own", ![t].stage = s]
             /\ NoStore /\ UNCHANGED leftover

\* A file is written, unless the directory is gone.
Write(t, change, pc) ==
    /\ Dir(t) # Nil /\ stage' = [stage EXCEPT ![thread[t].stage] = change]
    /\ Go(t, pc) /\ NoStore /\ UNCHANGED leftover

OwnStage(t) ==
    /\ At(t, "own") /\ Outside
    /\ Fail(t) \/ Write(t, [Dir(t) EXCEPT !.owner = TRUE], "extract")

\* Mutant: an entry is looked up by its name only.
EntryNamed(t, content) == content.name \in Names \ {c.name : c \in Dir(t).new}

\* An entry of the manifest, not seen before, with its size and hash.
EntryMatches(t, content) ==
    /\ content.name \in Names \ {c.name : c \in Dir(t).new}
    /\ content = Content(content.name, thread[t].manifest)

\* extract: the archive's size and hash, its number of entries, and each entry.
ExtractEntry(t) ==
    LET archive == thread[t].body
        i       == thread[t].entry + 1
    IN  /\ ~Stopped(t) /\ Dir(t) # Nil
        /\ thread[t].got = archive.size /\ archive.id = thread[t].manifest.id
        /\ Len(archive.packed) = 2 /\ EntryMatches(t, archive.packed[i])
        /\ stage' = [stage EXCEPT ![thread[t].stage].new = @ \cup {archive.packed[i]}]
        /\ thread' = [thread EXCEPT ![t].entry = i,
                                    ![t].pc = IF i = 2 THEN "manifest" ELSE @]

Extract(t) ==
    /\ At(t, "extract") /\ Outside
    /\ \/ Fail(t)
       \/ ExtractEntry(t) /\ NoStore /\ UNCHANGED leftover

WriteManifest(t) ==
    /\ At(t, "manifest") /\ Outside
    /\ Fail(t) \/ Write(t, [Dir(t) EXCEPT !.manifest = thread[t].manifest], "persist")

\* The last look at the flag before the stage is kept.
Persist(t) ==
    /\ At(t, "persist") /\ Outside
    /\ IF Stopped(t) THEN Fail(t)
       ELSE Result(t, "Ready", thread[t].release) /\ NoStore /\ NoFile

\* remove_dir_all, whose errors are ignored.
Remove(s) ==
    \/ /\ stage' = [x \in Stages |-> IF x = s THEN Nil ELSE stage[x]]
       /\ leftover' = leftover \ {s}
    \/ /\ leftover' = leftover \cup ({s} \cap Existing) /\ UNCHANGED stage

\* StageGuard::drop.
Unwind(t) ==
    /\ At(t, "unwind") /\ Outside /\ Remove(thread[t].stage) /\ NoStore
    /\ thread' = [thread EXCEPT ![t].pc = "finish", ![t].stage = Nil]

-----------------------------------------------------------------------------
(* The end of a thread.                                                     *)

Finish(t) ==
    /\ At(t, "finish") /\ Go(t, IF Stopped(t) THEN "discard" ELSE "store")
    /\ Outside /\ NoStore /\ NoFile

\* The flag may be set by now.
Store(t) ==
    /\ At(t, "store") /\ state' = [state EXCEPT ![thread[t].of] = thread[t].result]
    /\ Off({t}) /\ Outside /\ NoFile

\* Mutant: a result that came too late is only dropped.
DiscardResult(t) == At(t, "discard") /\ Off({t}) /\ Outside /\ NoFile /\ UNCHANGED state

Discard(t) ==
    /\ At(t, "discard") /\ Off({t}) /\ Outside /\ UNCHANGED state
    /\ IF thread[t].result.is = "Ready" THEN Remove(thread[t].stage) ELSE NoFile

ThreadStep(t) ==
    \/ Request(t) \/ Receive(t) \/ Progress(t)
    \/ CreateStage(t) \/ OwnStage(t) \/ Extract(t) \/ WriteManifest(t) \/ Persist(t)
    \/ Unwind(t) \/ Finish(t) \/ Store(t) \/ Discard(t)

\* A release is made, or built again.
Publish ==
    /\ changes < MaxChanges /\ changes' = changes + 1
    /\ \E b \in Builds :
          assets[b.version] # b /\ assets' = [assets EXCEPT ![b.version] = b]
    /\ UNCHANGED <<life, updater, thread, stage, leftover>>

UpdaterNext ==
    \/ Publish
    \/ \E l \in Launchers :
          Start(l) \/ Check(l) \/ Download(l) \/ HandOff(l) \/ DropUpdater(l) \/ End(l)
    \/ \E t \in Threads : ThreadStep(t)

UpdaterSpec == UpdaterInit /\ [][UpdaterNext]_updaterVars

\* Threads run, and every call of WinHTTP returns: its timeouts are set.
FairUpdaterSpec == UpdaterSpec /\ \A t \in Threads : WF_updaterVars(ThreadStep(t))

-----------------------------------------------------------------------------
(* Properties.                                                              *)

\* What is offered for installation is one build of one release: although the
\* release, its manifest and its archive are three requests between which it
\* may be replaced, a body may end early and a package be wrong, the stage holds
\* that manifest and exactly the two files it names (README.md:71: "sizes,
\* SHA-256 hashes, platform ... are checked before installation").
ReadyIsVerified ==
    \A l \in Launchers : life[l] = "running" /\ state[l].is \in {"Ready", "Handoff"} =>
        LET dir == stage[state[l].stage] IN
        /\ dir # Nil /\ dir.owner /\ dir.manifest # Nil
        /\ Release(dir.manifest) = state[l].release /\ Newer(dir.manifest)
        /\ dir.new = {Content(name, dir.manifest) : name \in Names}

\* No directory is forgotten: one that could be removed belongs to a thread or
\* to an update on offer, for as long as the process lives.
NothingLeftBehind == \A s \in Existing : s \in leftover \/ Held(s)

\* What the window shows is written by the thread of its last request, although
\* progress and results are stored without a look at the flag, or after it.
LastRequestWins ==
    [][\A t \in Threads : thread'[t] # thread[t] /\ thread[t].of # Nil =>
           LET l == thread[t].of IN
           state'[l] # state[l] /\ life'[l] # "gone" => latest[l] = t]_updaterVars

\* A request has an end: a window that is busy with one is not so for ever,
\* whatever GitHub answers.
Requesting ==
    \E l \in Launchers : life[l] = "running" /\ state[l].is \in {"Checking", "Downloading"}

RequestsEnd == Requesting ~> ~Requesting
=============================================================================
