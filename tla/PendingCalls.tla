---------------------------- MODULE PendingCalls ----------------------------
(***************************************************************************)
(* The lock-free table of calls in progress, src/profiling.rs.  Threads of *)
(* the game enter a call in it from hooks and exception handlers, where    *)
(* nothing may block, and take it out when the call returns; the           *)
(* diagnostics worker reads it without stopping them, to report calls that *)
(* hang.                                                                   *)
(*                                                                         *)
(* A call is known by the token it publishes, and each field of a slot     *)
(* holds the token of the call that wrote it, so a report that combines    *)
(* two calls is one whose fields differ.  The Relaxed accesses to the      *)
(* fields come in any order between the accesses to the owner; that the    *)
(* loads stay before the second load of the owner is what x86-64 does with *)
(* them, Acquire alone would not ask for it.                               *)
(***************************************************************************)
EXTENDS Naturals

CONSTANTS
    Callers,    \* calls that may be in progress at once
    Slots,      \* length of the table
    Fields,     \* what a slot records of a call: metric, thread, since
    Home,       \* the slot at which each caller starts to look
    Wrap,       \* tokens are counted modulo Wrap (2^64)
    MaxTokens,  \* bound: tokens given out, none of them twice
    MaxLost     \* bound: calls without a slot

ASSUME TableAssumption ==
    /\ Slots \in Nat \ {0} /\ Home \in [Callers -> 0..Slots - 1]
    /\ MaxTokens \in Nat /\ MaxLost \in Nat
    /\ Wrap \in Nat \ {0} /\ 2 * MaxTokens <= Wrap

VARIABLES
    owner, field,   \* the slots: PendingSlot
    issued,         \* PendingCalls::next, as the number of tokens given out
    overflow,       \* PendingCalls::overflow
    pc, offset,     \* per caller: begin() and the call it tracks
    token, filled,  \* per caller: its token, and the fields it has stored
    rpc, at,        \* the report: its step and slot
    seen, copy,     \* the owner it read first, and the fields since
    lines, lost,    \* what this report says of calls, and all of them of overflow
    untracked       \* history: calls without a slot

slots   == <<owner, field, issued, overflow>>
callers == <<pc, offset, token, filled, untracked>>
report  == <<rpc, at, seen, copy, lines, lost>>
vars    == <<slots, callers, report>>

Table  == 0..Slots - 1
Tokens == 0..Wrap - 1

\* The k-th value of the counter, which starts at 2 and is added to by twos.
Token(k) == IF 2 + 2 * k < Wrap THEN 2 + 2 * k ELSE 2 + 2 * k - Wrap

Nothing == [f \in Fields |-> 0]

Init ==
    /\ owner = [i \in Table |-> 0] /\ field = [i \in Table |-> Nothing]
    /\ issued = 0 /\ overflow = 0
    /\ pc = [c \in Callers |-> "out"] /\ offset = [c \in Callers |-> 0]
    /\ token = [c \in Callers |-> 0] /\ filled = [c \in Callers |-> {}]
    /\ rpc = "idle" /\ at = 0 /\ seen = 0 /\ copy = Nothing
    /\ lines = {} /\ lost = 0
    /\ untracked = 0

-----------------------------------------------------------------------------
(* begin(), the call itself, and the drop of its Pending.                  *)

Go(c, from, to) == pc[c] = from /\ pc' = [pc EXCEPT ![c] = to]

\* (thread + offset) % N
Slot(c) == IF Home[c] + offset[c] < Slots THEN Home[c] + offset[c]
                                          ELSE Home[c] + offset[c] - Slots

Enter(c) ==
    /\ Go(c, "out", "scan")
    /\ UNCHANGED <<slots, offset, token, filled, untracked, report>>

\* Mutant: a slot that is being filled is taken for a free one.
ClaimHalfFilled(c) ==
    /\ offset[c] < Slots /\ owner[Slot(c)] < 2
    /\ Go(c, "scan", "token")
    /\ owner' = [owner EXCEPT ![Slot(c)] = 1]
    /\ UNCHANGED <<field, issued, overflow, offset, token, filled, untracked, report>>

\* compare_exchange(0, 1) takes a free slot, ...
Claim(c) ==
    /\ offset[c] < Slots /\ owner[Slot(c)] = 0
    /\ Go(c, "scan", "token")
    /\ owner' = [owner EXCEPT ![Slot(c)] = 1]
    /\ UNCHANGED <<field, issued, overflow, offset, token, filled, untracked, report>>

\* ... fails on any other, ...
Pass(c) ==
    /\ offset[c] < Slots /\ owner[Slot(c)] # 0
    /\ pc[c] = "scan" /\ UNCHANGED pc
    /\ offset' = [offset EXCEPT ![c] = @ + 1]
    /\ UNCHANGED <<slots, token, filled, untracked, report>>

\* ... and finds no free slot at all: the call is counted, and goes on.
Full(c) ==
    /\ offset[c] = Slots /\ untracked < MaxLost
    /\ Go(c, "scan", "untracked")
    /\ overflow' = overflow + 1 /\ untracked' = untracked + 1
    /\ UNCHANGED <<owner, field, issued, offset, token, filled, report>>

TakeToken(c) ==
    /\ issued < MaxTokens /\ Token(issued) >= 2
    /\ Go(c, "token", "fill")
    /\ issued' = issued + 1
    /\ token' = [token EXCEPT ![c] = Token(issued)]
    /\ UNCHANGED <<owner, field, overflow, offset, filled, untracked, report>>

\* The counter has wrapped: its value cannot be told from a free slot, which
\* the slot becomes again, and the search is over.
TokenWraps(c) ==
    /\ issued < MaxTokens /\ Token(issued) < 2
    /\ Go(c, "token", "scan")
    /\ issued' = issued + 1
    /\ owner' = [owner EXCEPT ![Slot(c)] = 0]
    /\ offset' = [offset EXCEPT ![c] = Slots]
    /\ UNCHANGED <<field, overflow, token, filled, untracked, report>>

Fill(c, f) ==
    /\ pc[c] = "fill" /\ f \notin filled[c]
    /\ filled' = [filled EXCEPT ![c] = @ \cup {f}]
    /\ field' = [field EXCEPT ![Slot(c)][f] = token[c]]
    /\ UNCHANGED <<owner, issued, overflow, pc, offset, token, untracked, report>>

Publish(c) ==
    /\ filled[c] = Fields
    /\ Go(c, "fill", "inside")
    /\ owner' = [owner EXCEPT ![Slot(c)] = token[c]]
    /\ UNCHANGED <<field, issued, overflow, offset, token, filled, untracked, report>>

Forget(c) == /\ offset' = [offset EXCEPT ![c] = 0]
             /\ token' = [token EXCEPT ![c] = 0]
             /\ filled' = [filled EXCEPT ![c] = {}]

\* The call returns, or unwinds: Pending::drop.
Leave(c) ==
    /\ Go(c, "inside", "out")
    /\ owner' = [owner EXCEPT ![Slot(c)] = 0]
    /\ Forget(c)
    /\ UNCHANGED <<field, issued, overflow, untracked, report>>

LeaveUntracked(c) ==
    /\ Go(c, "untracked", "out")
    /\ Forget(c)
    /\ UNCHANGED <<slots, untracked, report>>

-----------------------------------------------------------------------------
(* Reporter::poll and PendingCalls::append.                                *)

StartReport ==
    /\ rpc = "idle" /\ rpc' = "owner" /\ at' = 0 /\ lines' = {}
    /\ UNCHANGED <<slots, callers, seen, copy, lost>>

Advance == IF at + 1 < Slots THEN rpc' = "owner" /\ at' = at + 1
                             ELSE rpc' = "overflow" /\ UNCHANGED at

Discard == seen' = 0 /\ copy' = Nothing

\* Mutant: a free slot ends the report.
SkipTheRest ==
    /\ rpc = "owner" /\ owner[at] < 2 /\ rpc' = "overflow" /\ UNCHANGED at
    /\ UNCHANGED <<slots, callers, seen, copy, lines, lost>>

SkipFree ==
    /\ rpc = "owner" /\ owner[at] < 2 /\ Advance
    /\ UNCHANGED <<slots, callers, seen, copy, lines, lost>>

ReadOwner ==
    /\ rpc = "owner" /\ owner[at] >= 2
    /\ rpc' = "fields" /\ seen' = owner[at]
    /\ UNCHANGED <<slots, callers, at, copy, lines, lost>>

\* What a published slot holds is never 0, which stands for "not yet read".
ReadField(f) ==
    /\ rpc = "fields" /\ copy[f] = 0
    /\ copy' = [copy EXCEPT ![f] = field[at][f]]
    /\ UNCHANGED <<slots, callers, rpc, at, seen, lines, lost>>

\* Mutant: only a slot that is free by now is discarded.
RecheckOccupied ==
    /\ rpc = "fields" /\ \A f \in Fields : copy[f] # 0
    /\ lines' = IF owner[at] >= 2 THEN lines \cup {copy} ELSE lines
    /\ Advance /\ Discard
    /\ UNCHANGED <<slots, callers, lost>>

\* "A returned/reused slot must not combine two calls in one report."  The
\* report then leaves out calls that are less than two seconds old; reports
\* are five seconds apart, so this is a matter of the next one.
Recheck ==
    /\ rpc = "fields" /\ \A f \in Fields : copy[f] # 0
    /\ lines' = IF owner[at] = seen THEN lines \cup {copy} ELSE lines
    /\ Advance /\ Discard
    /\ UNCHANGED <<slots, callers, lost>>

ReportOverflow ==
    /\ rpc = "overflow" /\ rpc' = "idle"
    /\ lost' = lost + overflow /\ overflow' = 0
    /\ UNCHANGED <<owner, field, issued, callers, at, seen, copy, lines>>

-----------------------------------------------------------------------------
Begin(c) == \/ Claim(c) \/ Pass(c) \/ Full(c)
            \/ TakeToken(c) \/ TokenWraps(c)
            \/ (\E f \in Fields : Fill(c, f)) \/ Publish(c)

Report == \/ StartReport \/ SkipFree \/ ReadOwner
          \/ (\E f \in Fields : ReadField(f)) \/ Recheck
          \/ ReportOverflow

Next == \/ \E c \in Callers : \/ Enter(c) \/ Begin(c) \/ Leave(c) \/ LeaveUntracked(c)
        \/ Report

Spec == Init /\ [][Next]_vars

\* The worker reports again and again.  No call has to return, or even to get
\* through begin().
FairSpec == Spec /\ WF_vars(Report)

-----------------------------------------------------------------------------
(* Properties.                                                             *)

Holding == {"token", "fill", "inside"}

\* Every variable keeps its type (PendingSlot, PendingCalls, Pending).
TypeOK ==
    /\ owner \in [Table -> Tokens \cup {1}] /\ field \in [Table -> [Fields -> Tokens]]
    /\ issued \in 0..MaxTokens /\ overflow \in Nat
    /\ pc \in [Callers -> {"out", "scan", "untracked"} \cup Holding]
    /\ offset \in [Callers -> 0..Slots] /\ token \in [Callers -> Tokens]
    /\ filled \in [Callers -> SUBSET Fields]
    /\ rpc \in {"idle", "owner", "fields", "overflow"} /\ at \in Table
    /\ seen \in Tokens /\ copy \in [Fields -> Tokens]
    /\ lines \subseteq [Fields -> Tokens] /\ lost \in Nat
    /\ untracked \in Nat

\* Two calls never fill or free the same slot (compare_exchange in begin).
SlotHasOneOwner ==
    \A c, d \in Callers :
        pc[c] \in Holding /\ pc[d] \in Holding /\ Slot(c) = Slot(d) => c = d

\* A line of the report speaks of one call: the thread, the function and the
\* time in it belong together, although slots are reused while they are read.
ReportIsOneCall == \A l \in lines : \A f, g \in Fields : l[f] = l[g]

\* Every call that could not be tracked is in the total of some report or
\* still to be reported; none is forgotten or counted twice.
OverflowIsCounted == lost + overflow = untracked

\* A call that has got a slot and stays in its function is, from some time on,
\* in every report that has visited all slots, and reports go on being made: a
\* call that hangs is seen again and again, and so by those that find it two
\* seconds old.  A call without a slot is only in the overflow's number.
Visited   == rpc = "overflow"
Listed(c) == \E l \in lines : \A f \in Fields : l[f] = token[c]

HangIsReported ==
    \A c \in Callers :
        <>[](pc[c] = "inside") => []<>Visited /\ <>[](Visited => Listed(c))
=============================================================================
