-------------------------- MODULE MessageInspection -------------------------
(***************************************************************************)
(* Messages of other players on their way to the game: the lobby messages  *)
(* that src/packets.rs reads on a copy before the game does (inspect), and *)
(* the instant messages that a hook lets through (src/hooks.rs,            *)
(* check_pending_info).                                                    *)
(*                                                                         *)
(* An inspector is a program for the game's readers, which are external    *)
(* and answer what the sender wrote: a plain field is there or fails, a    *)
(* number has any value, a list says before each element whether one       *)
(* follows.  When the message ends early the readers set a flag and give   *)
(* zeros, or fail.  Runs of fields that are only read are one instruction. *)
(* The original's cursor is not in the model, as only the copy is read.    *)
(***************************************************************************)
EXTENDS ReaderLayout, Sequences, SequencesExt

CONSTANTS
    Players,    \* 18: members, clients, nominees
    Votes,      \* 216
    Lobbies,    \* 2
    Settings,   \* 0xc000
    Buffer,     \* 2048
    Inputs      \* what arrives: see the fields of `input` below

ASSUME LimitsAssumption ==
    /\ Players \in Nat /\ Votes \in Nat /\ Settings \in Nat \ {0}
    /\ Lobbies \in 0..2        \* as SomeLobbies below is written out for two

Kinds == {"join", "lobby", "lobbyGame", "heartbeat", "info"}

ASSUME InputsAssumption ==
    \A i \in Inputs :
        /\ i.msg \in Msg /\ i.route \in {"lobby", "instant"}
        /\ i.route = "lobby" => i.kind \in Kinds \cup {"unseen", "refused", "other"}

VARIABLES
    input,      \* route, msg, readable, kind; for instant messages also sub,
                \* length, head, admitted, sender, friendsOnly, and
                \* word: 0x64 bytes follow, of which the first four are not zero
    place,      \* "start", "inspect", or what became of the message
    todo,       \* instructions left
    n, main, mode,          \* the last count, mainmode, lobbymode
    cut, overflowed, failed,\* the message has ended; the reader's flag; Err(())
    log         \* history: the numbers, list marks and faults read so far

\* In the log; a number that is read is at least -1.
Element == 1
End     == 0
Fault   == -2

inspector == <<todo, n, main, mode, cut, overflowed, failed, log>>
vars      == <<input, place, inspector>>

Init ==
    /\ input \in Inputs /\ place = "start"
    /\ todo = <<>> /\ n = 0 /\ main = 0 /\ mode = 0
    /\ cut = FALSE /\ overflowed = FALSE /\ failed = FALSE /\ log = <<>>

-----------------------------------------------------------------------------
(* The inspectors.                                                          *)

Op(op) == [op |-> op, max |-> 0, exact |-> FALSE, body |-> <<>>]
Fields == Op("fields")
Array  == Op("fields")      \* w.array, w.mutable_client: as a field
Count(max) == [Op("count") EXCEPT !.max = max]
Counted(body) == [Op("counted") EXCEPT !.exact = TRUE, !.body = body]
UpTo(max, body) == [Op("items") EXCEPT !.max = max, !.body = body]

Join == <<Fields, Count(Players), Array, Counted(<<Fields>>)>>

Nominees == <<Array, UpTo(Players, <<Fields>>)>>

Lobby ==
    <<Fields, Op("main"), Fields, Op("mode"), Fields, Count(Players), Fields,
      Array, Counted(<<Fields, Array>>), Fields>> \o Nominees

PreGame == <<Array, UpTo(Players, <<Fields>>)>>

\* What follows the lobby of a game, by its modes.
GameState ==
    (IF main = 0 THEN <<Fields>> ELSE <<>>) \o
    (CASE mode = 0 -> <<Array, UpTo(Players, <<Fields>>), Fields>>
       [] mode = 1 -> <<Count(Votes), Array, Counted(<<Fields>>)>> \o PreGame \o <<Op("size")>>
       [] mode = 3 -> <<Fields, Count(Votes), Counted(<<Fields>>)>> \o PreGame
       [] OTHER    -> <<>>)

LobbyGame == Lobby \o <<Fields, Op("game")>>

Heartbeat == <<Fields>> \o Nominees

InfoResponse ==
    <<Fields, Array, UpTo(Lobbies, <<Array, UpTo(Lobbies, <<Op("valid")>>)>>)>>

Program == [join |-> Join, lobby |-> Lobby, lobbyGame |-> LobbyGame,
            heartbeat |-> Heartbeat, info |-> InfoResponse]

-----------------------------------------------------------------------------
(* One call of a native reader per step.                                    *)

Running == place = "inspect" /\ todo # <<>> /\ ~failed
Next1 == Head(todo)
Continue(more) == todo' = more \o Tail(todo) /\ UNCHANGED failed
Fail == failed' = TRUE /\ UNCHANGED todo

\* What a number may be: the zeros of an exhausted message count as read.
Number(S) == IF cut THEN {0} ELSE S

Native(op) == Running /\ Next1.op = op /\ overflowed' = (overflowed \/ cut)
Keep == UNCHANGED <<input, place, cut>>

ReadFields ==
    /\ Native("fields") /\ Continue(<<>>)
    /\ Keep /\ UNCHANGED <<n, main, mode, log>>

\* A reader that fails ends the inspection, whatever it was to read.
ReadFault ==
    /\ \E op \in {"fields", "count", "main", "mode", "size", "valid"} : Native(op)
    /\ Fail /\ log' = Append(log, Fault)
    /\ Keep /\ UNCHANGED <<n, main, mode>>

\* count: an i32 that must be in 0..max.
ReadCount ==
    /\ Native("count")
    /\ \E v \in Number(-1..Next1.max + 1) :
          /\ log' = Append(log, v) /\ n' = v
          /\ IF v \in 0..Next1.max THEN Continue(<<>>) ELSE Fail
    /\ Keep /\ UNCHANGED <<main, mode>>

ReadModes ==
    /\ \/ Native("main") /\ main' \in Number({0, 1}) /\ UNCHANGED mode
       \/ Native("mode") /\ mode' \in Number(0..3) /\ UNCHANGED main
    /\ Continue(<<>>) /\ Keep /\ UNCHANGED <<n, log>>

BranchOnModes ==
    /\ Running /\ Next1.op = "game" /\ Continue(GameState)
    /\ Keep /\ UNCHANGED <<overflowed, n, main, mode, log>>

ReadSize ==
    /\ Native("size")
    /\ \E v \in Number({0, 1, Settings, Settings + 1}) :
          /\ log' = Append(log, v)
          /\ IF v \in 1..Settings THEN Continue(<<>>) ELSE Fail
    /\ Keep /\ UNCHANGED <<n, main, mode>>

\* An entry of an info response that is not valid has no more fields.
ReadValid ==
    /\ Native("valid") /\ \E v \in Number({0, 1}) : Continue(IF v = 0 THEN <<>> ELSE <<Fields>>)
    /\ Keep /\ UNCHANGED <<n, main, mode, log>>

Left == IF Next1.op = "counted" THEN n ELSE Next1.max
Rest == [Next1 EXCEPT !.op = "items", !.max = Left - 1]

\* Mutant: the loop ends at the limit, without a look for one more element.
ItemsUnclosed(another) ==
    IF Left = 0 THEN Continue(<<>>)
    ELSE IF another THEN Continue(Append(Next1.body, Rest))
    ELSE IF Next1.exact THEN Fail ELSE Continue(<<>>)

\* items: an element after the limit, or an end before it in an exact list, is
\* an error.
Items(another) ==
    IF another THEN IF Left > 0 THEN Continue(Append(Next1.body, Rest)) ELSE Fail
    ELSE IF Left > 0 /\ Next1.exact THEN Fail ELSE Continue(<<>>)

ReadElement ==
    /\ Native("items") \/ Native("counted")
    /\ \E another \in Number({0, 1}) :
          Items(another = 1) /\ log' = Append(log, IF another = 1 THEN Element ELSE End)
    /\ Keep /\ UNCHANGED <<n, main, mode>>

\* External: the bytes that the sender wrote are used up.
Exhaust ==
    /\ Running /\ ~cut /\ cut' = TRUE
    /\ UNCHANGED <<input, place, todo, n, main, mode, overflowed, failed, log>>

-----------------------------------------------------------------------------
(* What decides.                                                            *)

\* check_reader, valid_message.
Valid(m) == ~Faulty(m) /\ input.readable

Inspect(kind) == place' = "inspect" /\ todo' = Program[kind]
Becomes(fate) == place' = fate /\ UNCHANGED todo

\* inspect, up to the choice by the type.  A LobbyMsg that cannot be read is left
\* to the game; 0xf, 0x1e and the like are refused.
InspectLobby ==
    /\ place = "start" /\ input.route = "lobby"
    /\ IF input.kind = "unseen" THEN Becomes("unseen")
       ELSE IF ~Valid(input.msg) \/ input.kind = "refused" THEN Becomes("rejected")
       ELSE IF input.kind = "other" THEN Becomes("unchanged") ELSE Inspect(input.kind)
    /\ UNCHANGED <<input, n, main, mode, cut, overflowed, failed, log>>

\* The hook of instant messages up to check_pending_info: the message has a
\* header of two bytes and leaves less than the buffer.
Instant(i) ==
    /\ i.length \in 2..Buffer + 1 /\ i.admitted /\ i.readable
    /\ i.head = "1" /\ ~Faulty(i.msg) /\ Remaining(i.msg) < Buffer
    /\ i.sub \notin {"0x65", "0x6d"}
    /\ i.sub = "0x66" => i.word

InstantMessage ==
    /\ place = "start" /\ input.route = "instant"
    /\ Becomes(IF ~Instant(input) THEN "dropped"
               ELSE IF input.sub = "0x68" THEN "pending" ELSE "delivered")
    /\ UNCHANGED <<input, n, main, mode, cut, overflowed, failed, log>>

\* A player who is not known as a friend, where that matters.
Unwanted == input.sender = "stranger" /\ input.friendsOnly

\* check_pending_info: the payload is copied and prepared for reading, which is
\* external and may fail.  An info response never reaches the usual handler.
CheckPendingInfo ==
    /\ place = "pending"
    /\ \/ Becomes("dropped")
       \/ Valid(input.msg) /\ input.kind = "info" /\ Inspect("info")
       \/ /\ Valid(input.msg) /\ input.kind # "info"
          /\ Becomes(IF Unwanted THEN "dropped" ELSE "delivered")
    /\ UNCHANGED <<input, n, main, mode, cut, overflowed, failed, log>>

\* Mutant: the flag of an exhausted message is not looked at.
RefusesFailed == failed

Refuses == failed \/ overflowed

Finish ==
    /\ place = "inspect" /\ (todo = <<>> \/ failed)
    /\ place' = IF input.route = "lobby" THEN IF Refuses THEN "rejected" ELSE "accepted"
                ELSE IF Refuses THEN "dropped" ELSE "answered"
    /\ UNCHANGED <<input, inspector>>

Next ==
    \/ InspectLobby \/ InstantMessage \/ CheckPendingInfo \/ Finish \/ Exhaust
    \/ ReadFields \/ ReadFault \/ ReadCount \/ ReadModes \/ BranchOnModes \/ ReadSize
    \/ ReadValid \/ ReadElement

Spec == Init /\ [][Next]_vars

-----------------------------------------------------------------------------
(* The reference: the lists and numbers of the messages that are in order.  *)

Elements(k) == [i \in 1..k |-> Element] \o <<End>>
Open(max) == {Elements(k) : k \in 0..max}
Exact(max) == {<<k>> \o Elements(k) : k \in 0..max}
Then(A, B) == {a \o b : a \in A, b \in B}

InLobby == Then(Exact(Players), Open(Players))

InGame == CASE mode = 0 -> Open(Players)
            [] mode = 1 -> Then(Then(Exact(Votes), Open(Players)), {<<s>> : s \in 1..Settings})
            [] mode = 3 -> Then(Exact(Votes), Open(Players))
            [] OTHER    -> {<<>>}

OneLobby == {<<Element>> \o s : s \in Open(Lobbies)}
SomeLobbies == UNION {IF k = 0 THEN {<<>>} ELSE IF k = 1 THEN OneLobby ELSE Then(OneLobby, OneLobby)
                         : k \in 0..Lobbies}

InOrder == [join |-> Exact(Players), lobby |-> InLobby, lobbyGame |-> Then(InLobby, InGame),
            heartbeat |-> Open(Players), info |-> Then(SomeLobbies, {<<End>>})]

\* A message is let through exactly when its lists have the declared or allowed
\* length, its numbers are in their ranges, every field was there and nothing
\* was read past its end (docs/VALIDATION.md: "Array bounds reject negative
\* counts, extra elements, and truncated lists").
InspectionIsExact ==
    /\ place \in {"accepted", "answered"} =>
          log \in InOrder[input.kind] /\ todo = <<>> /\ ~overflowed
    /\ place \in {"rejected", "dropped"} /\ log # <<>> =>
          log \notin InOrder[input.kind] \/ overflowed

\* As long as an inspection goes on, what it has read, with zeros after the end
\* of the message, is the beginning of a message that is in order: the game's
\* readers are never sent past a fault.
StopsAtFault ==
    Running => \E s \in InOrder[input.kind] : IsPrefix(log, s)

\* No reader is given a descriptor from which it could leave the buffers, and
\* what is copied fits the buffer it is copied to.
ReadersStayInside ==
    /\ place \notin {"start", "unseen", "rejected", "dropped"} => Sound(input.msg)
    /\ place \in {"pending", "delivered", "answered"} => Remaining(input.msg) < Buffer
=============================================================================
