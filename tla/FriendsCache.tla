---------------------------- MODULE FriendsCache ----------------------------
(***************************************************************************)
(* The cache of the player's friends, src/protection.rs.  The detours of   *)
(* invitations, joins and peer-to-peer messages ask is_friend on whatever  *)
(* thread the game calls them; one of them refreshes the cache from Steam, *)
(* entry by entry and without the cache's mutex, while Steam may call back *)
(* into the patch on the same thread or wait for another thread of the     *)
(* game.                                                                   *)
(*                                                                         *)
(* Each section under the mutex is one step, as nothing in it blocks.  A   *)
(* call is abstracted from the XUID it asks about: it accepts exactly the  *)
(* members of friends.xuids at its answer.  Steam, external to the source, *)
(* is a list that changes at any time and an interface that may be         *)
(* unreadable.                                                             *)
(***************************************************************************)
EXTENDS Naturals, Sequences, SequencesExt

CONSTANTS
    Calls,      \* calls of is_friend in progress at once
    People, Nil,
    Fresh,      \* interval after a refresh, 30000 ms
    Base,       \* delay after a first failure, 1000 ms
    Longest,    \* longest delay, 30000 ms
    MaxClock,   \* bound: GetTickCount64
    MaxChanges  \* bound: changes of the list or of its readability

ASSUME FriendsAssumption ==
    /\ Nil \notin Calls /\ MaxClock \in Nat /\ MaxChanges \in Nat
    /\ Fresh \in Nat /\ Base \in Nat /\ Longest \in Nat
    /\ Base <= Longest /\ Longest <= Base * 2 ^ 5

VARIABLES
    friends,    \* the static FRIENDS
    clock,
    list, readable, changes,    \* Steam
    pc, now, can,   \* per call: its place, what it read before the mutex
    count, got, at, \* the fetch in progress: count, friends, next index
    ok, completed,  \* its result
    awaits,     \* per call: the call that Steam waits for in its query
    last,       \* history: the last query's end, and the failures in a row by then
    current     \* history: friends at some time of the running query, and
                \* those of the query the snapshot comes from

steam   == <<list, readable, changes>>
calls   == <<pc, now, can, awaits>>
fetched == <<count, got, at, ok, completed>>
vars    == <<friends, clock, steam, calls, fetched, last, current>>

Members(s) == {s[i] : i \in DOMAIN s}
Lists == {s \in BoundedSeq(People, 2) : IsInjective(s)}

Least(a, b) == IF a < b THEN a ELSE b
Most(a, b)  == IF a < b THEN b ELSE a

\* (1000 << failures.saturating_sub(1).min(5)).min(30000)
Delay(failures) ==
    Least(Base * 2 ^ Least(IF failures = 0 THEN 0 ELSE failures - 1, 5), Longest)

Init ==
    /\ friends = [next |-> 0, xuids |-> {}, refreshing |-> FALSE, failures |-> 0]
    /\ clock = 0 /\ list \in Lists /\ readable \in BOOLEAN /\ changes = 0
    /\ pc = [c \in Calls |-> "out"] /\ now = [c \in Calls |-> 0]
    /\ can = [c \in Calls |-> FALSE] /\ awaits = [c \in Calls |-> Nil]
    /\ count = 0 /\ got = {} /\ at = 0 /\ ok = FALSE /\ completed = 0
    /\ last = [end |-> Nil, failed |-> 0]
    /\ current = [query |-> {}, snapshot |-> {}]

Goto(c, place) == pc' = [pc EXCEPT ![c] = place]

-----------------------------------------------------------------------------
(* The environment: time and Steam.                                         *)

Tick ==
    /\ clock < MaxClock /\ clock' = clock + 1
    /\ UNCHANGED <<friends, steam, calls, fetched, last, current>>

\* A friend is added, removed or moved, or Steam's interface comes or goes.
SteamChanges ==
    /\ changes < MaxChanges /\ changes' = changes + 1
    /\ \/ list' \in Lists \ {list} /\ UNCHANGED readable
       \/ readable' = ~readable /\ UNCHANGED list
    /\ current' = [current EXCEPT !.query =
                       IF \E c \in Calls : pc[c] = "list" THEN @ \cup Members(list') ELSE @]
    /\ UNCHANGED <<friends, clock, calls, fetched, last>>

-----------------------------------------------------------------------------
(* One call of is_friend.                                                   *)

\* The clock is read before the mutex is taken, and the game's byte at
\* 0x1686E99E, external, that allows a refresh.
Called(c) ==
    /\ pc[c] = "out" /\ Goto(c, "called")
    /\ now' = [now EXCEPT ![c] = clock] /\ \E b \in BOOLEAN : can' = [can EXCEPT ![c] = b]
    /\ UNCHANGED <<friends, clock, steam, fetched, last, current>>

Call(c) == Called(c) /\ UNCHANGED awaits

Eligible(c) == can[c] /\ now[c] >= friends.next /\ ~friends.refreshing

\* A query that waited for the call no longer does.
Return(c) ==
    /\ Goto(c, "out") /\ now' = [now EXCEPT ![c] = 0] /\ can' = [can EXCEPT ![c] = FALSE]
    /\ awaits' = [d \in Calls |-> IF awaits[d] = c THEN Nil ELSE awaits[d]]

\* Mutant: a reader waits for the refresh in progress.
AnswerWaits(c) ==
    /\ pc[c] = "called" /\ ~Eligible(c) /\ ~friends.refreshing /\ Return(c)
    /\ UNCHANGED <<friends, clock, steam, fetched, last, current>>

Answer(c) ==
    /\ pc[c] = "called" /\ ~Eligible(c) /\ Return(c)
    /\ UNCHANGED <<friends, clock, steam, fetched, last, current>>

Refresh(c) ==
    /\ pc[c] = "called" /\ Eligible(c) /\ Goto(c, "query")
    /\ friends' = [friends EXCEPT !.refreshing = TRUE]
    /\ UNCHANGED <<clock, steam, now, can, awaits, fetched, last, current>>

\* fetch_friends up to its count: an interface that cannot be read, or a count
\* that makes no sense, fails the query.
Query(c) ==
    /\ pc[c] = "query" /\ awaits[c] = Nil
    /\ got' = {} /\ at' = 0
    /\ \/ readable /\ Goto(c, "list") /\ ok' = TRUE /\ count' = Len(list)
       \/ ~readable /\ Goto(c, "end") /\ ok' = FALSE /\ count' = 0
    /\ current' = [current EXCEPT !.query = Members(list)]
    /\ UNCHANGED <<friends, clock, steam, now, can, awaits, completed, last>>

\* One call of friend_fn.  The list may be shorter by now: then the XUID is 0.
Entry(c) ==
    /\ pc[c] = "list" /\ at < count /\ awaits[c] = Nil
    /\ got' = got \cup (IF at < Len(list) THEN {list[at + 1]} ELSE {}) /\ at' = at + 1
    /\ UNCHANGED <<friends, clock, steam, calls, count, ok, completed, last, current>>

\* While it answers, Steam calls the patch on the same thread, or waits for a
\* thread that is in the patch.
Asking(c) == pc[c] \in {"query", "list"} /\ awaits[c] = Nil

CalledBack(c, d) == Asking(c) /\ Called(d) /\ awaits' = [awaits EXCEPT ![c] = d]

SteamWaits(c, d) ==
    /\ Asking(c) /\ d # c /\ pc[d] # "out" /\ awaits' = [awaits EXCEPT ![c] = d]
    /\ UNCHANGED <<friends, clock, steam, pc, now, can, fetched, last, current>>

\* The clock is read again when the query has ended.
End(c) ==
    /\ pc[c] = "end" \/ (pc[c] = "list" /\ at = count /\ awaits[c] = Nil)
    /\ Goto(c, "store") /\ completed' = clock
    /\ last' = [end |-> clock, failed |-> IF ok THEN 0 ELSE last.failed + 1]
    /\ UNCHANGED <<friends, clock, steam, now, can, awaits,
                   count, got, at, ok, current>>

\* Mutant: the delay starts when the call did.
NextFromCall(c) == now[c] + (IF ok THEN Fresh ELSE Delay(friends.failures + 1))

NextQuery(c) ==
    IF ok THEN completed + Fresh ELSE Most(completed, now[c]) + Delay(friends.failures + 1)

\* Mutant: the entries of a query are added to those of the one before.
StoreAdds(c) ==
    /\ pc[c] = "store" /\ Goto(c, "release")
    /\ friends' = [friends EXCEPT !.xuids = @ \cup got, !.next = NextQuery(c),
                                  !.failures = IF ok THEN 0 ELSE @ + 1]
    /\ current' = [current EXCEPT !.snapshot = IF ok THEN current.query ELSE @]
    /\ UNCHANGED <<clock, steam, now, can, awaits, fetched, last>>

\* The snapshot is replaced as a whole, or kept by a failure; the mutex is
\* released before the guard Refresh takes it once more.
Store(c) ==
    /\ pc[c] = "store" /\ Goto(c, "release")
    /\ friends' = [friends EXCEPT !.xuids = IF ok THEN got ELSE @,
                                  !.next = NextQuery(c),
                                  !.failures = IF ok THEN 0 ELSE @ + 1]
    /\ current' = [current EXCEPT !.snapshot = IF ok THEN current.query ELSE @]
    /\ UNCHANGED <<clock, steam, now, can, awaits, fetched, last>>

Release(c) ==
    /\ pc[c] = "release" /\ friends' = [friends EXCEPT !.refreshing = FALSE] /\ Return(c)
    /\ count' = 0 /\ got' = {} /\ at' = 0 /\ ok' = FALSE /\ completed' = 0
    /\ current' = [current EXCEPT !.query = {}]
    /\ UNCHANGED <<clock, steam, last>>

Step(c) ==
    \/ Answer(c) \/ Refresh(c) \/ Query(c) \/ Entry(c)
    \/ End(c) \/ Store(c) \/ Release(c)

Next ==
    \/ Tick \/ SteamChanges
    \/ \E c \in Calls : Call(c) \/ Step(c)
    \/ \E c, d \in Calls : CalledBack(c, d) \/ SteamWaits(c, d)

Spec == Init /\ [][Next]_vars

\* Threads of the game run on, and Steam answers when what it waits for has.
\* It does not call back, or wait for others, for ever.
FairSpec == Spec /\ \A c \in Calls : SF_vars(Step(c))

-----------------------------------------------------------------------------
(* Properties.                                                              *)

\* Steam is asked by one call at a time, and not before the interval of the
\* last query is over: 30 seconds after a success, 1, 2, 4, 8, 16 and at most
\* 30 after failures in a row, counted from its end however long it took and
\* however old the caller's time stamp (docs/VALIDATION.md:208).
Due ==
    last.end + (IF last.failed = 0 THEN Fresh
                ELSE Least(Base * 2 ^ (last.failed - 1), Longest))

QueriesSpaced ==
    [][\A c \in Calls : pc[c] # "query" /\ pc'[c] = "query" =>
           /\ last.end # Nil => clock >= Due
           /\ \A d \in Calls \ {c} : pc[d] \in {"out", "called"}]_vars

\* Whoever is accepted was a friend during the query that the snapshot comes
\* from, although the list is read entry by entry while it changes, a failed
\* query keeps the old snapshot, and queries follow each other.
OnlyFriends == friends.xuids \subseteq current.snapshot

\* Every call returns, also one that Steam makes inside a query or that a query
\* waits for.
CallsReturn == \A c \in Calls : pc[c] # "out" ~> pc[c] = "out"
=============================================================================
