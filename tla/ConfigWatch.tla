---------------------------- MODULE ConfigWatch -----------------------------
(***************************************************************************)
(* Settings on their way into the game: the watched file and its worker    *)
(* (src/config.rs, src/settings.rs, src/runtime.rs), the exports that set  *)
(* the same values from any thread (src/lib.rs), and the checksum hook     *)
(* that accepts messages under the network password (src/hooks.rs).        *)
(*                                                                         *)
(* A file is what parse finds in it: a value or Nil for each key.  The     *)
(* launcher replaces the file as a whole; another editor may leave it      *)
(* with keys missing, or refuse to let it be read, for a while.  A change  *)
(* of the path is a change of the file.  Hashes and checksums are those of *)
(* distinct passwords, and differ.                                         *)
(***************************************************************************)
EXTENDS Integers

CONSTANTS
    Files,      \* contents the file may be given, Default among them
    Default,    \* what Watcher::start writes, and Config::default()
    Exports,    \* calls of the exports
    Copies,     \* where the game keeps the name: five places and one behind a pointer
    Readers,    \* messages in verify_checksum
    Worker, Nil,
    Grace,      \* 1500 ms
    MaxClock,   \* bound: GetTickCount64
    MaxWrites   \* bound: changes of the file

Names     == {f.name : f \in Files} \ {Nil}
Passwords == {f.password : f \in Files} \ {Nil}
Blank     == [name |-> Nil, only |-> Nil, password |-> Nil]
Complete  == {f \in Files : Nil \notin {f.name, f.only, f.password}}

ASSUME ConfigAssumption ==
    /\ Default \in Complete /\ Nil \notin Exports \cup {Worker} /\ Worker \notin Exports
    /\ Grace \in Nat /\ MaxClock \in Nat /\ MaxWrites \in Nat /\ Nil \notin Nat
    /\ \A f \in Files : DOMAIN f = {"name", "only", "password"}

VARIABLES
    file, writes,           \* the file, or Nil when there is none
    name, copies, held,     \* NAME, its copies in the game, who holds NAME_UPDATE
    missed,                 \* history: the places the last update did not reach
    ready,                  \* GAME_READY
    only, pass,             \* FRIENDS_ONLY; PASSWORD as previous, current, since
    config, contents,       \* of the Watcher
    pc, arg,                \* worker and exports: place, and what an export sets
    seen,                   \* per message: the password as copied, or Nil, and as
                            \* history when, and the last other password then
    clock,
    current, before,        \* history: when each password was last current, the
                            \* last one other than pass.cur
    exported                \* history: an export has set the password

shared    == <<name, copies, missed, held, ready, only, pass>>
watcher   == <<config, contents>>
past      == <<current, before, exported>>
watchVars == <<file, writes, shared, watcher, pc, arg, seen, clock, past>>

Actors == Exports \cup {Worker}

WatchInit ==
    /\ file \in Files \cup {Nil} /\ writes = 0
    /\ name = Default.name /\ held = Nil /\ ready = FALSE
    /\ copies = [c \in Copies |-> Nil] /\ missed = {}
    /\ only = FALSE
    /\ pass = [prev |-> Default.password, cur |-> Default.password, since |-> 0]
    /\ config = Default /\ contents = Blank
    /\ pc = [a \in Actors |-> IF a = Worker THEN "ready" ELSE "out"]
    /\ arg = [a \in Exports |-> Nil]
    /\ seen = [r \in Readers |-> Nil]
    /\ clock = 0
    /\ current = [p \in Passwords |-> IF p = pass.cur THEN 0 ELSE Nil]
    /\ before = Nil /\ exported = FALSE

Goto(a, place) == pc' = [pc EXCEPT ![a] = place]

-----------------------------------------------------------------------------
(* What both the worker and the exports call.                               *)

\* Mutant: set_name without NAME_UPDATE.
PublishUnlocked(a, n) == held' = a /\ name' = n

\* set_name: under NAME_UPDATE the name is published, then written to the game.
\* Names that are too long never get here: parse and the export bound them.
Publish(a, n) == held = Nil /\ held' = a /\ name' = n

\* A write that fails is logged, or ignored, and the last place is skipped while
\* its pointer cannot be followed; nobody repeats the write.
CopyName(n) ==
    /\ IF ready THEN missed' \in SUBSET Copies ELSE missed' = missed
    /\ copies' = [c \in Copies |-> IF ready /\ c \notin missed' THEN n ELSE copies[c]]
    /\ held' = Nil

\* Mutant: the previous password stays the first one.
SetPasswordKeepsPrevious(p) ==
    /\ pass' = [pass EXCEPT !.cur = p, !.since = clock]
    /\ current' = [current EXCEPT ![pass.cur] = clock, ![p] = clock]
    /\ before' = IF p = pass.cur THEN before ELSE pass.cur

\* set_password: one section under PASSWORD.
SetPassword(p) ==
    /\ pass' = [prev |-> pass.cur, cur |-> p, since |-> clock]
    /\ current' = [current EXCEPT ![pass.cur] = clock, ![p] = clock]
    /\ before' = IF p = pass.cur THEN before ELSE pass.cur

-----------------------------------------------------------------------------
(* The worker: Watcher::start, then Watcher::poll once a second.            *)

\* State::start publishes GAME_READY before it makes the watcher.
GameReady ==
    /\ pc[Worker] = "ready" /\ Goto(Worker, "start") /\ ready' = TRUE
    /\ UNCHANGED <<file, writes, name, copies, missed, held, only, pass, watcher, arg, seen, clock, past>>

Parsed(f) == [k \in DOMAIN f |-> IF f[k] = Nil THEN config[k] ELSE f[k]]

Load == /\ file # Nil /\ config' = Parsed(file) /\ contents' = file
        /\ Goto(Worker, "name") /\ UNCHANGED file

\* A file that is missing is created, but not taken as read; one that cannot be
\* read, or created, leaves the defaults.
Start ==
    /\ pc[Worker] = "start"
    /\ \/ Load
       \/ /\ file = Nil /\ file' \in {Nil, Default}
          /\ Goto(Worker, "name") /\ UNCHANGED watcher
       \/ file # Nil /\ Goto(Worker, "name") /\ UNCHANGED <<file, watcher>>
    /\ UNCHANGED <<writes, shared, arg, seen, clock, past>>

\* Mutant: the lengths of the file and of what was applied are compared.
PollLength ==
    /\ pc[Worker] = "sleep" /\ Load
    /\ [file EXCEPT !.only = Nil] # [contents EXCEPT !.only = Nil]
    /\ UNCHANGED <<writes, shared, arg, seen, clock, past>>

\* The file differs from what was applied last; a failed read is one that never
\* happened.
Poll ==
    /\ pc[Worker] = "sleep" /\ file # contents /\ Load
    /\ UNCHANGED <<writes, shared, arg, seen, clock, past>>

\* Config::apply.
ApplyName ==
    /\ pc[Worker] = "name" /\ Publish(Worker, config.name) /\ Goto(Worker, "copy")
    /\ UNCHANGED <<file, writes, copies, missed, ready, only, pass, watcher, arg, seen, clock, past>>

ApplyCopy ==
    /\ pc[Worker] = "copy" /\ CopyName(config.name) /\ Goto(Worker, "only")
    /\ UNCHANGED <<file, writes, name, ready, only, pass, watcher, arg, seen, clock, past>>

ApplyOnly ==
    /\ pc[Worker] = "only" /\ only' = config.only /\ Goto(Worker, "compare")
    /\ UNCHANGED <<file, writes, name, copies, missed, held, ready, pass, watcher, arg, seen, clock, past>>

\* Mutant: the password is set whatever it was.
CompareNothing ==
    /\ pc[Worker] = "compare" /\ Goto(Worker, "set")
    /\ UNCHANGED <<file, writes, shared, watcher, arg, seen, clock, past>>

\* The password is compared under one lock and set under another.
Compare ==
    /\ pc[Worker] = "compare"
    /\ Goto(Worker, IF pass.cur # config.password THEN "set" ELSE "sleep")
    /\ UNCHANGED <<file, writes, shared, watcher, arg, seen, clock, past>>

ApplyPassword ==
    /\ pc[Worker] = "set" /\ SetPassword(config.password) /\ Goto(Worker, "sleep")
    /\ UNCHANGED <<file, writes, name, copies, missed, held, ready, only, watcher, arg, seen, clock, exported>>

WorkerStep ==
    GameReady \/ Start \/ Poll \/ ApplyName \/ ApplyCopy \/ ApplyOnly \/ Compare \/ ApplyPassword

-----------------------------------------------------------------------------
(* The exports.                                                             *)

SetFriendsOnly(e) ==
    /\ pc[e] = "out" /\ Goto(e, "done") /\ only' \in BOOLEAN
    /\ UNCHANGED <<file, writes, name, copies, missed, held, ready, pass, watcher, arg, seen, clock, past>>

SetNetworkPassword(e) ==
    /\ pc[e] = "out" /\ Goto(e, "done") /\ exported' = TRUE
    /\ \E p \in Passwords : SetPassword(p)
    /\ UNCHANGED <<file, writes, name, copies, missed, held, ready, only, watcher, arg, seen, clock>>

SetPlayerName(e) ==
    /\ pc[e] = "out" /\ Goto(e, "copy")
    /\ \E n \in Names : Publish(e, n) /\ arg' = [arg EXCEPT ![e] = n]
    /\ UNCHANGED <<file, writes, copies, missed, ready, only, pass, watcher, seen, clock, past>>

PlayerNameCopied(e) ==
    /\ pc[e] = "copy" /\ CopyName(arg[e]) /\ Goto(e, "done")
    /\ arg' = [arg EXCEPT ![e] = Nil]
    /\ UNCHANGED <<file, writes, name, ready, only, pass, watcher, seen, clock, past>>

-----------------------------------------------------------------------------
(* verify_checksum: the password is copied, then the clock is read.         *)

Receive(r) ==
    /\ seen[r] = Nil
    /\ seen' = [seen EXCEPT ![r] = [pass |-> pass, at |-> clock, before |-> before,
                     ended |-> IF before = Nil THEN Nil ELSE current[before]]]
    /\ UNCHANGED <<file, writes, shared, watcher, pc, arg, clock, past>>

\* The passwords under which the message would be let through.
Accepted(r) ==
    LET p == seen[r].pass
    IN  {p.cur} \cup (IF clock - p.since <= Grace THEN {p.prev} ELSE {})

Verify(r) ==
    /\ seen[r] # Nil /\ seen' = [seen EXCEPT ![r] = Nil]
    /\ UNCHANGED <<file, writes, shared, watcher, pc, arg, clock, past>>

-----------------------------------------------------------------------------
(* The environment.                                                         *)

Write ==
    /\ writes < MaxWrites /\ writes' = writes + 1 /\ file' \in Files \ {file}
    /\ UNCHANGED <<shared, watcher, pc, arg, seen, clock, past>>

Tick ==
    /\ clock < MaxClock /\ clock' = clock + 1
    /\ UNCHANGED <<file, writes, shared, watcher, pc, arg, seen, past>>

WatchNext ==
    \/ WorkerStep \/ Write \/ Tick
    \/ \E e \in Exports : \/ SetFriendsOnly(e) \/ SetNetworkPassword(e)
                          \/ SetPlayerName(e) \/ PlayerNameCopied(e)
    \/ \E r \in Readers : Receive(r) \/ Verify(r)

WatchSpec == WatchInit /\ [][WatchNext]_watchVars

\* The worker runs on, NAME_UPDATE is handed to it in the end, and the file does
\* not stay unreadable.
FairSpec ==
    /\ WatchSpec /\ SF_watchVars(WorkerStep)
    /\ \A e \in Exports : WF_watchVars(PlayerNameCopied(e))

-----------------------------------------------------------------------------
(* Properties.                                                              *)

\* A message is accepted only under a password that was in force when it was
\* copied or later, or at some time since Grace before the verification,
\* although the password rotates between the copy and the clock's reading and
\* exports race the worker.
AcceptedWasCurrent ==
    [][\A r \in Readers : seen[r] # Nil /\ seen'[r] = Nil =>
           \A p \in Accepted(r) :
               \/ p = pass.cur
               \/ current[p] # Nil /\ (current[p] >= seen[r].at \/ current[p] >= clock - Grace)]_watchVars

\* While only the file changes the password, a message under the password before
\* the current one passes until Grace after the change (VALIDATION.md:291): other
\* edits of the file do not end that period.
GraceKept ==
    [][\A r \in Readers :
           (/\ seen[r] # Nil /\ seen'[r] = Nil /\ ~exported
            /\ seen[r].before # Nil /\ clock - seen[r].ended <= Grace)
           => seen[r].before \in Accepted(r)]_watchVars

\* Wherever the last update reached, the game shows the name that Steam's callers
\* get: two updates at once never leave one's name published and the other's
\* copied.  A place an update could not write keeps the older name.
Shows(n) == \A c \in Copies \ missed : copies[c] = n

NamesAgree ==
    held = Nil /\ pc[Worker] \in {"only", "compare", "set", "sleep"} => Shows(name)

\* A complete file that is left alone is what the patch ends up with, whatever
\* was in it when the worker looked at it before, and so does the game wherever
\* its name could be written: poll does not try the same contents again.
InForce(f) == name = f.name /\ Shows(f.name) /\ only = f.only /\ pass.cur = f.password

FileSettles ==
    \A f \in Complete :
        <>[](file = f /\ \A e \in Exports : pc[e] = "out") => <>[]InForce(f)
=============================================================================
