---------------------------- MODULE NetworkGuard ----------------------------
(***************************************************************************)
(* Admission of control traffic, src/network_guard.rs: one Gate with its   *)
(* global token bucket and its bounded table of peers.  The four channels  *)
(* are four independent gates that differ only in their Policy.            *)
(*                                                                         *)
(* Any thread of the game may call allow(): it reads the tick count first  *)
(* and takes the gate's mutex afterwards, so calls reach the gate with     *)
(* time stamps that go backwards.                                          *)
(***************************************************************************)
EXTENDS Naturals

CONSTANTS Peers,        \* Steam ids or addresses
          Slots,        \* size of the peer table (PEERS)
          Callers,      \* game threads
          Sizes,        \* packet sizes in bytes
          Unit,         \* credit for one packet or byte (UNIT), ticks per second
          PeerIdle,     \* ticks after which an entry may be reused
          PeerRate, GlobalRate,   \* the channel's Policy: credit per tick
          MaxStall,     \* assumption: ticks between the clock read and the lock
          MaxClock,     \* bound: length of a behaviour
          Starts,       \* starts of the intervals in which traffic is counted
          None

\* A Budget, the credit of a Bucket and the cost of a packet have two parts.
Kinds == {"packets", "bytes"}

Entries(times) ==
    [peer : Peers, bucket : [credit : [Kinds -> Nat], updated : times], lastSeen : times]

ASSUME GuardAssumption ==
    /\ Slots \in Nat /\ Unit \in Nat /\ MaxStall \in Nat /\ MaxClock \in Nat
    /\ Sizes \subseteq Nat /\ Starts \subseteq Nat
    /\ PeerRate \in [Kinds -> Nat] /\ GlobalRate \in [Kinds -> Nat]
    /\ PeerIdle \in Nat /\ PeerIdle >= 2 * Unit + MaxStall
    /\ None \notin Peers \cup Entries(Nat)

VARIABLES clock,    \* GetTickCount64
          calls,    \* per thread: the call between its clock read and the lock
          global,   \* Gate::global
          table,    \* Gate::peers
          since,    \* history: start of an arbitrary observed interval
          charged,  \* history: cost of the calls that passed the global bucket
          admitted  \* history: per peer, cost of its admitted calls

vars == <<clock, calls, global, table, since, charged, admitted>>

Burst == 2 * Unit
Smaller(a, b) == IF a <= b THEN a ELSE b
Larger(a, b)  == IF a >= b THEN a ELSE b

NewBucket(rate, now) == [credit |-> [k \in Kinds |-> rate[k] * Burst], updated |-> now]

NoCost == [k \in Kinds |-> 0]
NoCall == [peer |-> None, size |-> 0, now |-> 0]

Init == /\ clock = 0
        /\ calls = [t \in Callers |-> NoCall]
        /\ global = NewBucket(GlobalRate, 0)
        /\ table = [i \in 1..Slots |-> None]
        /\ since \in Starts
        /\ charged = NoCost
        /\ admitted = [p \in Peers |-> NoCost]

-----------------------------------------------------------------------------
(* Bucket::take.                                                           *)

\* Mutant: a clock that went back moves the bucket's time back with it.
RefilledRollsBack(b, rate, now) ==
    LET elapsed == Smaller(IF now > b.updated THEN now - b.updated ELSE 0, Burst)
    IN  [credit |-> [k \in Kinds |->
                        Smaller(b.credit[k] + elapsed * rate[k], rate[k] * Burst)],
         updated |-> now]

Refilled(b, rate, now) ==
    LET elapsed == Smaller(IF now > b.updated THEN now - b.updated ELSE 0, Burst)
    IN  [credit |-> [k \in Kinds |->
                        Smaller(b.credit[k] + elapsed * rate[k], rate[k] * Burst)],
         updated |-> Larger(b.updated, now)]

\* A rate of zero bytes means that bytes are not metered.
Cost(rate, size) ==
    [k \in Kinds |-> IF k = "packets" THEN Unit
                     ELSE IF rate[k] # 0 THEN size * Unit ELSE 0]

Affords(b, cost) == \A k \in Kinds : b.credit[k] >= cost[k]

Spend(b, cost) == [b EXCEPT !.credit = [k \in Kinds |-> b.credit[k] - cost[k]]]

\* The bucket after the attempt; it is refilled even if the attempt fails.
Take(b, rate, size, now) ==
    LET full == Refilled(b, rate, now)  cost == Cost(rate, size)
    IN  IF Affords(full, cost) THEN Spend(full, cost) ELSE full

Takes(b, rate, size, now) == Affords(Refilled(b, rate, now), Cost(rate, size))

-----------------------------------------------------------------------------
(* Gate::allow.                                                            *)

Tick == /\ clock < MaxClock
        /\ \A t \in Callers : calls[t] # NoCall => clock < calls[t].now + MaxStall
        /\ clock' = clock + 1
        /\ UNCHANGED <<calls, global, table, since, charged, admitted>>

\* allow() reads the clock, then waits for the mutex.
Call(t) == /\ calls[t] = NoCall
           /\ \E p \in Peers, n \in Sizes :
                 calls' = [calls EXCEPT ![t] = [peer |-> p, size |-> n, now |-> clock]]
           /\ UNCHANGED <<clock, global, table, since, charged, admitted>>

Plus(total, cost, now) == IF now >= since THEN [k \in Kinds |-> total[k] + cost[k]]
                                          ELSE total

Finish(t) == /\ calls[t] # NoCall
             /\ calls' = [calls EXCEPT ![t] = NoCall]
             /\ UNCHANGED <<clock, since>>

ChargeGlobal(c) ==
    /\ Takes(global, GlobalRate, c.size, c.now)
    /\ global' = Take(global, GlobalRate, c.size, c.now)
    /\ charged' = Plus(charged, Cost(GlobalRate, c.size), c.now)

GlobalDenies(t) ==
    LET c == calls[t] IN
    /\ Finish(t)
    /\ ~Takes(global, GlobalRate, c.size, c.now)
    /\ global' = Take(global, GlobalRate, c.size, c.now)
    /\ UNCHANGED <<table, charged, admitted>>

\* What the peer's own bucket makes of the call.
Decide(b, c) ==
    admitted' = IF Takes(b, PeerRate, c.size, c.now)
                THEN [admitted EXCEPT ![c.peer] = Plus(@, Cost(PeerRate, c.size), c.now)]
                ELSE admitted

Holds(i, p) == table[i] # None /\ table[i].peer = p

\* The peer has an entry: any position of the table is looked at.
KnownPeer(t) ==
    LET c == calls[t] IN
    /\ Finish(t)
    /\ ChargeGlobal(c)
    /\ \E i \in 1..Slots :
          /\ Holds(i, c.peer)
          /\ table' = [table EXCEPT ![i] =
                         [peer |-> c.peer,
                          bucket |-> Take(table[i].bucket, PeerRate, c.size, c.now),
                          lastSeen |-> Larger(table[i].lastSeen, c.now)]]
          /\ Decide(table[i].bucket, c)

\* Mutant: the clock has gone back, and the difference wraps around.
VacantWraps(i, now) ==
    table[i] # None => now < table[i].lastSeen \/ now >= table[i].lastSeen + PeerIdle

Vacant(i, now) == table[i] # None => now >= table[i].lastSeen + PeerIdle

\* A new peer takes the first free or idle slot, with full credit.
NewPeer(t) ==
    LET c == calls[t]  fresh == NewBucket(PeerRate, c.now) IN
    /\ Finish(t)
    /\ ChargeGlobal(c)
    /\ \A i \in 1..Slots : ~Holds(i, c.peer)
    /\ \E i \in 1..Slots :
          /\ Vacant(i, c.now)
          /\ \A j \in 1..(i - 1) : ~Vacant(j, c.now)
          /\ table' = [table EXCEPT ![i] =
                         [peer |-> c.peer, bucket |-> Take(fresh, PeerRate, c.size, c.now),
                          lastSeen |-> c.now]]
    /\ Decide(fresh, c)

\* Never evict a live peer to give a rotating identity fresh burst credit.
TableFull(t) ==
    LET c == calls[t] IN
    /\ Finish(t)
    /\ ChargeGlobal(c)
    /\ \A i \in 1..Slots : ~Holds(i, c.peer) /\ ~Vacant(i, c.now)
    /\ UNCHANGED <<table, admitted>>

Next == \/ Tick
        \/ \E t \in Callers : \/ Call(t) \/ GlobalDenies(t) \/ KnownPeer(t)
                              \/ NewPeer(t) \/ TableFull(t)

Spec == Init /\ [][Next]_vars

-----------------------------------------------------------------------------
(* Properties.                                                             *)

Buckets == [credit : [Kinds -> Nat], updated : 0..clock]
Capped(b, rate) == \A k \in Kinds : b.credit[k] <= rate[k] * Burst

\* Every variable keeps its type, and no bucket holds more than its two
\* seconds of burst credit (Bucket::take).
TypeOK ==
    /\ clock \in 0..MaxClock /\ since \in Starts
    /\ calls \in [Callers -> [peer : Peers, size : Sizes, now : 0..clock] \cup {NoCall}]
    /\ \A t \in Callers : calls[t] # NoCall => clock <= calls[t].now + MaxStall
    /\ global \in Buckets /\ Capped(global, GlobalRate)
    /\ table \in [1..Slots -> Entries(0..clock) \cup {None}]
    /\ \A i \in 1..Slots : table[i] # None => Capped(table[i].bucket, PeerRate)
    /\ charged \in [Kinds -> Nat]
    /\ admitted \in [Peers -> [Kinds -> Nat]]

\* In any interval that starts at `since`, what got past the global bucket,
\* whoever asked and whatever the peers' own budgets decided, costs at most
\* the burst plus the rate times the length of the interval (Gate::allow).
GlobalBudget ==
    \A k \in Kinds :
        charged[k] <= GlobalRate[k] * (Burst + (IF clock > since THEN clock - since ELSE 0))

\* The same for every single peer, although its entry may be reused by others
\* and created again with full credit, and calls come with old time stamps.
PeerBudget ==
    \A p \in Peers, k \in Kinds :
        admitted[p][k] <= PeerRate[k] * (Burst + (IF clock > since THEN clock - since ELSE 0))

\* A peer never has two entries, that is two budgets (Gate::allow's scan).
OneEntryPerPeer ==
    \A i, j \in 1..Slots :
        table[i] # None /\ table[j] # None /\ table[i].peer = table[j].peer => i = j

\* An entry is given to another peer only when its owner was not seen, by any
\* thread, for PeerIdle ticks of real time.
LivePeerKeepsEntry ==
    [][\A i \in 1..Slots :
          table[i] # None /\ table'[i].peer # table[i].peer
              => clock >= table[i].lastSeen + PeerIdle]_vars
=============================================================================
