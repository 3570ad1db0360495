---------------------------- MODULE ReaderLayout ----------------------------
(***************************************************************************)
(* The descriptor of a message that the game's readers go through, msg_t,  *)
(* and the arithmetic that src/packets.rs does on it before anything is    *)
(* read: a primary buffer and a split one, which follow each other in the  *)
(* message, a byte cursor and a bit cursor over both.  Sizes are unsigned  *)
(* 32-bit integers, addresses 64-bit ones; the game reads lengths as       *)
(* signed integers.  Which of several faults is reported is left out.      *)
(***************************************************************************)
EXTENDS Integers

CONSTANTS
    UMax,       \* 2^32 - 1
    IMax,       \* 2^31 - 1
    AddressMax  \* 2^64 - 1

ASSUME WidthAssumption ==
    /\ UMax \in Nat /\ IMax \in Nat /\ AddressMax \in Nat
    /\ IMax <= UMax /\ UMax <= AddressMax

Msg == [overflowed : BOOLEAN, max : 0..UMax, cur : 0..UMax, split : 0..UMax,
        read : 0..UMax, bit : (-IMax - 1)..IMax,
        data : 0..AddressMax, splitData : 0..AddressMax]

\* checked_add, and the addition without the check.
Overflows(a, b, top) == a + b > top
Added(a, b, top) == (a + b) % (top + 1)

Total(m) == Added(m.cur, m.split, UMax)

\* Mutant: the sizes are added without a check.
TotalWraps(m) == Total(m) > IMax

TotalTooLong(m) == Overflows(m.cur, m.split, UMax) \/ Total(m) > IMax

NoBuffer(size, address) == size # 0 /\ address = 0

\* reader_layout's errors.
Faulty(m) ==
    \/ m.overflowed
    \/ m.cur > m.max \/ m.max > IMax
    \/ TotalTooLong(m)
    \/ m.bit < 0 \/ m.bit > Total(m) * 8
    \/ NoBuffer(m.cur, m.data) \/ NoBuffer(m.split, m.splitData)
    \/ Overflows(m.data, m.cur, AddressMax) \/ Overflows(m.splitData, m.split, AddressMax)
    \/ m.read > Total(m)

\* What it returns otherwise, remaining_bytes.
Remaining(m) == Total(m) - m.read

-----------------------------------------------------------------------------
\* The reference: byte i of the message, counted over both buffers, has an
\* address, and the lengths that the game computes are exact and not negative.
Address(m, i) == IF i < m.cur THEN m.data + i ELSE m.splitData + (i - m.cur)

Sound(m) ==
    /\ m.cur + m.split <= IMax /\ m.read <= m.cur + m.split
    /\ Remaining(m) = (m.cur + m.split) - m.read
    /\ m.bit \in 0..8 * (m.cur + m.split)
    /\ \A i \in 0..(m.cur + m.split) - 1 : Address(m, i) \in 1..AddressMax
=============================================================================
