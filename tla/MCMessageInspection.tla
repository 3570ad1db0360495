------------------------ MODULE MCMessageInspection -------------------------
(* What arrives in TLC's instance of MessageInspection: every descriptor of a *)
(* small machine with a lobby message that is not inspected, every inspected  *)
(* kind with one good descriptor, and instant messages that differ in all     *)
(* that their hook looks at.                                                  *)
EXTENDS MessageInspection

Good == [overflowed |-> FALSE, max |-> 3, cur |-> 2, split |-> 1, read |-> 1, bit |-> 0,
         data |-> 1, splitData |-> 5]

Descriptors ==
    [overflowed : {FALSE}, max : {2, 3, 4}, cur : 0..4, split : 0..UMax, read : 0..UMax,
     bit : {-1, 0, IMax}, data : {0, 1, AddressMax - 2}, splitData : {0, 1, AddressMax - 1}]
    \cup {[Good EXCEPT !.overflowed = TRUE]}

LobbyMessage(m, kind, readable) ==
    [route |-> "lobby", msg |-> m, readable |-> readable, kind |-> kind]

InstantMessages ==
    [route : {"instant"}, msg : {Good, [Good EXCEPT !.read = 0], [Good EXCEPT !.read = 4]},
     readable : BOOLEAN, kind : {"info", "other"}, sub : {"0x65", "0x66", "0x68"},
     length : {1, 2, Buffer + 1, Buffer + 2}, head : {"1", "other"}, admitted : BOOLEAN,
     word : BOOLEAN, sender : {"friend", "stranger", "exempt"}, friendsOnly : BOOLEAN]

MCInputs ==
    {LobbyMessage(m, "other", TRUE) : m \in Descriptors}
    \cup {LobbyMessage(Good, kind, readable) : readable \in BOOLEAN,
             kind \in {"join", "lobby", "lobbyGame", "heartbeat", "refused", "unseen"}}
    \cup InstantMessages
=============================================================================
