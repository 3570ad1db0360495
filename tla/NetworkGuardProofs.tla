------------------------- MODULE NetworkGuardProofs -------------------------
(***************************************************************************)
(* Proofs about NetworkGuard for any policy, table size, number of peers   *)
(* and threads, packet sizes and any observed interval.  The budgets are   *)
(* token-bucket potentials: what was admitted plus what is left never      *)
(* exceeds the burst plus the rate times the elapsed time.                 *)
(***************************************************************************)
EXTENDS NetworkGuard, TLAPS

LEMMA TimesGrows ==
  ASSUME NEW r \in Nat, NEW a \in Nat, NEW b \in Nat, a <= b
  PROVE  r * a <= r * b
<1>1. PICK d \in Nat : b = a + d
  <2>1. b - a \in Nat /\ b = a + (b - a)
    OBVIOUS
  <2> QED BY <2>1
<1>2. r * b = r * a + r * d
  BY <1>1
<1>3. r * d \in Nat /\ r * a \in Nat
  OBVIOUS
<1> QED BY <1>2, <1>3

LEMMA TimesSum ==
  ASSUME NEW r \in Nat, NEW a \in Nat, NEW b \in Nat
  PROVE  r * (a + b) = r * a + r * b /\ r * a \in Nat /\ r * b \in Nat
OBVIOUS

\* The potential of a bucket whose calls since `since` cost `total`.
Bounded(total, b, rate, k) ==
    IF b.updated >= since
    THEN total + b.credit[k] <= rate[k] * (Burst + (b.updated - since))
    ELSE total = 0

\* What a peer without an entry may have been admitted: so little that an
\* entry with full credit and an old time stamp does it no favour.
Retired(total, rate, k) ==
    \/ total = 0
    \/ /\ since + MaxStall <= clock
       /\ total <= rate[k] * (clock - (since + MaxStall))

WellFormed(b, rate) ==
    /\ b = [credit |-> b.credit, updated |-> b.updated]
    /\ b.credit \in [Kinds -> Nat]
    /\ \A k \in Kinds : b.credit[k] <= rate[k] * Burst
    /\ b.updated \in Nat

LEMMA RefilledShape ==
  ASSUME NEW b, NEW rate \in [Kinds -> Nat], WellFormed(b, rate), NEW now \in Nat
  PROVE  /\ WellFormed(Refilled(b, rate, now), rate)
         /\ Refilled(b, rate, now).updated = Larger(b.updated, now)
         /\ \A k \in Kinds :
              Refilled(b, rate, now).credit[k]
                 <= b.credit[k] + rate[k] * (Larger(b.updated, now) - b.updated)
<1> DEFINE gap == IF now > b.updated THEN now - b.updated ELSE 0
           elapsed == Smaller(gap, Burst)
<1>1. Burst \in Nat
  BY GuardAssumption DEF Burst
<1>2. /\ gap \in Nat /\ elapsed \in Nat /\ elapsed <= gap
      /\ gap = Larger(b.updated, now) - b.updated /\ Larger(b.updated, now) \in Nat
  BY <1>1 DEF Smaller, Larger, WellFormed
<1>3. /\ Refilled(b, rate, now).updated = Larger(b.updated, now)
      /\ \A k \in Kinds : Refilled(b, rate, now).credit[k] =
             Smaller(b.credit[k] + elapsed * rate[k], rate[k] * Burst)
      /\ DOMAIN Refilled(b, rate, now).credit = Kinds
  BY DEF Refilled
<1> HIDE DEF gap, elapsed
<1>4. ASSUME NEW k \in Kinds
      PROVE  /\ elapsed * rate[k] = rate[k] * elapsed
             /\ elapsed * rate[k] \in Nat /\ rate[k] * Burst \in Nat
             /\ rate[k] * elapsed <= rate[k] * gap /\ rate[k] * gap \in Nat
  <2>1. rate[k] \in Nat
    OBVIOUS
  <2>2. elapsed * rate[k] = rate[k] * elapsed
    BY <2>1, <1>2
  <2>3. rate[k] * Burst \in Nat /\ rate[k] * elapsed \in Nat /\ rate[k] * gap \in Nat
    BY <2>1, <1>1, <1>2
  <2>4. rate[k] * elapsed <= rate[k] * gap
    BY <2>1, <1>2, TimesGrows
  <2> QED BY <2>2, <2>3, <2>4
<1>5. ASSUME NEW k \in Kinds
      PROVE  /\ Refilled(b, rate, now).credit[k] \in Nat
             /\ Refilled(b, rate, now).credit[k] <= rate[k] * Burst
             /\ Refilled(b, rate, now).credit[k] <= b.credit[k] + rate[k] * gap
  <2>1. b.credit[k] \in Nat
    BY DEF WellFormed
  <2> QED BY <1>3, <1>4, <2>1 DEF Smaller
<1>6. Refilled(b, rate, now).credit \in [Kinds -> Nat]
  BY <1>5 DEF Refilled
<1>7. Refilled(b, rate, now) = [credit |-> Refilled(b, rate, now).credit,
                                updated |-> Refilled(b, rate, now).updated]
  BY DEF Refilled
<1> QED BY <1>2, <1>3, <1>5, <1>6, <1>7 DEF WellFormed

\* Bucket::take keeps the bucket well formed and refunds nothing: spending
\* lowers the credit by exactly the cost.
LEMMA TakeShape ==
  ASSUME NEW b, NEW rate \in [Kinds -> Nat], WellFormed(b, rate), NEW now \in Nat,
         NEW size \in Nat
  PROVE  /\ WellFormed(Take(b, rate, size, now), rate)
         /\ Take(b, rate, size, now).updated = Larger(b.updated, now)
         /\ Cost(rate, size) \in [Kinds -> Nat]
         /\ \A k \in Kinds :
              /\ Takes(b, rate, size, now)
                   => Take(b, rate, size, now).credit[k]
                        = Refilled(b, rate, now).credit[k] - Cost(rate, size)[k]
              /\ ~Takes(b, rate, size, now)
                   => Take(b, rate, size, now).credit[k] = Refilled(b, rate, now).credit[k]
<1> DEFINE full == Refilled(b, rate, now)
           cost == Cost(rate, size)
<1>1. WellFormed(full, rate) /\ full.updated = Larger(b.updated, now)
  BY RefilledShape
<1>2. cost \in [Kinds -> Nat]
  <2>1. size * Unit \in Nat /\ Unit \in Nat
    BY GuardAssumption
  <2> QED BY <2>1 DEF Cost
<1>3. Take(b, rate, size, now) = IF Affords(full, cost) THEN Spend(full, cost) ELSE full
  BY DEF Take
<1>4. Takes(b, rate, size, now) = Affords(full, cost)
  BY DEF Takes
<1> HIDE DEF full, cost
<1>5. CASE ~Affords(full, cost)
  BY <1>1, <1>2, <1>3, <1>4, <1>5 DEF full, cost
<1>6. CASE Affords(full, cost)
  <2>1. Spend(full, cost) = [credit |-> [k \in Kinds |-> full.credit[k] - cost[k]],
                             updated |-> full.updated]
    BY <1>1 DEF Spend, WellFormed
  <2>2. ASSUME NEW k \in Kinds
        PROVE  /\ full.credit[k] - cost[k] \in Nat
               /\ full.credit[k] - cost[k] <= rate[k] * Burst
    <3>1. full.credit[k] \in Nat /\ cost[k] \in Nat /\ full.credit[k] >= cost[k]
          /\ full.credit[k] <= rate[k] * Burst
      BY <1>1, <1>2, <1>6 DEF WellFormed, Affords
    <3>2. rate[k] * Burst \in Nat
      BY GuardAssumption DEF Burst
    <3> QED BY <3>1, <3>2
  <2>3. WellFormed(Spend(full, cost), rate)
    BY <1>1, <2>1, <2>2 DEF WellFormed
  <2> QED BY <1>1, <1>2, <1>3, <1>4, <1>6, <2>1, <2>3 DEF full, cost
<1> QED BY <1>5, <1>6

LEMMA TakeTime ==
  ASSUME NEW b, NEW rate \in [Kinds -> Nat], WellFormed(b, rate), NEW now \in Nat,
         NEW size \in Nat
  PROVE  Take(b, rate, size, now).updated = Larger(b.updated, now)
BY TakeShape

\* The accounting of one attempt against one bucket.
LEMMA TakeAccounts ==
  ASSUME NEW b, NEW rate \in [Kinds -> Nat], WellFormed(b, rate), NEW now \in Nat,
         NEW size \in Nat, NEW k \in Kinds, NEW total \in Nat, since \in Nat,
         Bounded(total, b, rate, k)
  PROVE  Bounded(IF Takes(b, rate, size, now) /\ now >= since
                 THEN total + Cost(rate, size)[k] ELSE total,
                 Take(b, rate, size, now), rate, k)
<1> DEFINE full == Refilled(b, rate, now)
           cost == Cost(rate, size)[k]
           after == Take(b, rate, size, now)
           spent == IF Takes(b, rate, size, now) THEN cost ELSE 0
           upd == Larger(b.updated, now)
<1>1. /\ after.updated = upd /\ cost \in Nat /\ spent \in Nat
      /\ after.credit[k] = full.credit[k] - spent
      /\ after.credit[k] \in Nat /\ full.credit[k] \in Nat
      /\ full.credit[k] <= b.credit[k] + rate[k] * (upd - b.updated)
      /\ full.credit[k] <= rate[k] * Burst
  <2>1. /\ WellFormed(after, rate) /\ after.updated = upd
        /\ Cost(rate, size) \in [Kinds -> Nat]
        /\ Takes(b, rate, size, now) => after.credit[k] = full.credit[k] - cost
        /\ ~Takes(b, rate, size, now) => after.credit[k] = full.credit[k]
    <3>1. WellFormed(after, rate)
      BY TakeShape
    <3>2. after.updated = upd
      BY TakeShape
    <3>3. Cost(rate, size) \in [Kinds -> Nat]
      BY TakeShape
    <3>4. /\ Takes(b, rate, size, now) => after.credit[k] = full.credit[k] - cost
          /\ ~Takes(b, rate, size, now) => after.credit[k] = full.credit[k]
      BY TakeShape
    <3> QED BY <3>1, <3>2, <3>3, <3>4
  <2>2. /\ WellFormed(full, rate)
        /\ full.credit[k] <= b.credit[k] + rate[k] * (upd - b.updated)
    BY RefilledShape
  <2> HIDE DEF full, after, upd
  <2>3. cost \in Nat /\ spent \in Nat
    BY <2>1
  <2>4. /\ after.credit[k] \in Nat /\ full.credit[k] \in Nat
        /\ full.credit[k] <= rate[k] * Burst
    BY <2>1, <2>2 DEF WellFormed
  <2> QED BY <2>1, <2>2, <2>3, <2>4
<1>2. /\ rate[k] \in Nat /\ Burst \in Nat /\ b.credit[k] \in Nat /\ b.updated \in Nat
      /\ upd \in Nat /\ upd >= b.updated /\ upd >= now /\ (upd = now \/ upd = b.updated)
  BY GuardAssumption DEF Burst, Larger, WellFormed
<1> HIDE DEF full, cost, after, spent, upd
<1>3. CASE b.updated >= since
  <2>1. total + b.credit[k] <= rate[k] * (Burst + (b.updated - since))
    BY <1>3 DEF Bounded
  <2>2. rate[k] * (Burst + (b.updated - since)) + rate[k] * (upd - b.updated)
          = rate[k] * (Burst + (upd - since))
    <3>1. Burst + (b.updated - since) \in Nat /\ upd - b.updated \in Nat
      BY <1>2, <1>3
    <3>2. (Burst + (b.updated - since)) + (upd - b.updated) = Burst + (upd - since)
      BY <1>2, <1>3
    <3> QED BY <1>2, <3>1, <3>2, TimesSum
  <2>3. /\ rate[k] * (Burst + (b.updated - since)) \in Nat
        /\ rate[k] * (upd - b.updated) \in Nat
        /\ rate[k] * (Burst + (upd - since)) \in Nat
    <3>1. /\ Burst + (b.updated - since) \in Nat /\ upd - b.updated \in Nat
          /\ Burst + (upd - since) \in Nat
      BY <1>2, <1>3
    <3> QED BY <1>2, <3>1
  <2>4. total + full.credit[k] <= rate[k] * (Burst + (upd - since))
    BY <1>1, <1>2, <2>1, <2>2, <2>3
  <2>5. after.updated >= since
    BY <1>1, <1>2, <1>3
  <2>6. (IF Takes(b, rate, size, now) /\ now >= since THEN total + cost ELSE total)
          + after.credit[k] <= rate[k] * (Burst + (after.updated - since))
    BY <1>1, <2>3, <2>4 DEF spent
  <2> QED BY <2>5, <2>6 DEF Bounded, after, cost
<1>4. CASE b.updated < since
  <2>1. total = 0
    BY <1>2, <1>4 DEF Bounded
  <2>2. CASE now >= since
    <3>1. upd = now /\ upd - since \in Nat
      BY <1>2, <1>4, <2>2
    <3>2. rate[k] * Burst <= rate[k] * (Burst + (upd - since))
      BY <1>2, <3>1, TimesGrows
    <3>3. rate[k] * Burst \in Nat /\ rate[k] * (Burst + (upd - since)) \in Nat
      BY <1>2, <3>1
    <3>4. (IF Takes(b, rate, size, now) /\ now >= since THEN total + cost ELSE total)
          + after.credit[k] <= rate[k] * (Burst + (after.updated - since))
      BY <1>1, <2>1, <2>2, <3>2, <3>3 DEF spent
    <3>5. after.updated >= since
      BY <1>1, <2>2, <3>1
    <3> QED BY <3>4, <3>5 DEF Bounded, after, cost
  <2>3. CASE now < since
    <3>1. after.updated < since
      BY <1>1, <1>2, <1>4, <2>3
    <3>2. ~(after.updated >= since) /\ ~(now >= since)
      BY <1>1, <1>2, <2>3, <3>1
    <3> QED BY <2>1, <3>2 DEF Bounded, after, cost
  <2> QED BY <2>2, <2>3
<1> QED BY <1>2, <1>3, <1>4

\* A peer whose entry is reused has been quiet long enough.
LEMMA ReuseRetires ==
  ASSUME NEW b, NEW rate \in [Kinds -> Nat], WellFormed(b, rate), NEW k \in Kinds,
         NEW total \in Nat, since \in Nat, clock \in Nat, NEW seen \in Nat,
         b.updated <= seen, clock >= seen + PeerIdle, Bounded(total, b, rate, k)
  PROVE  Retired(total, rate, k)
<1>1. /\ rate[k] \in Nat /\ Burst \in Nat /\ b.credit[k] \in Nat /\ b.updated \in Nat
      /\ PeerIdle \in Nat /\ MaxStall \in Nat /\ PeerIdle >= Burst + MaxStall
  BY GuardAssumption DEF Burst, WellFormed
<1>2. CASE b.updated >= since
  <2>1. /\ Burst + (b.updated - since) \in Nat /\ clock - (since + MaxStall) \in Nat
        /\ Burst + (b.updated - since) <= clock - (since + MaxStall)
    BY <1>1, <1>2
  <2>2. rate[k] * (Burst + (b.updated - since)) <= rate[k] * (clock - (since + MaxStall))
    BY <1>1, <2>1, TimesGrows
  <2>3. /\ rate[k] * (Burst + (b.updated - since)) \in Nat
        /\ rate[k] * (clock - (since + MaxStall)) \in Nat
    BY <1>1, <2>1
  <2>4. total + b.credit[k] <= rate[k] * (Burst + (b.updated - since))
    BY <1>2 DEF Bounded
  <2>5. total <= rate[k] * (clock - (since + MaxStall))
    BY <1>1, <2>2, <2>3, <2>4
  <2> QED BY <1>1, <2>1, <2>5 DEF Retired
<1>3. CASE ~(b.updated >= since)
  BY <1>3 DEF Bounded, Retired
<1> QED BY <1>2, <1>3

\* A new entry with full credit keeps the accounts of a retired peer.
LEMMA FreshBounded ==
  ASSUME NEW rate \in [Kinds -> Nat], NEW k \in Kinds, NEW total \in Nat, since \in Nat,
         clock \in Nat, NEW now \in Nat, now <= clock, clock <= now + MaxStall,
         Retired(total, rate, k)
  PROVE  Bounded(total, NewBucket(rate, now), rate, k)
<1>1. /\ rate[k] \in Nat /\ Burst \in Nat /\ MaxStall \in Nat
      /\ NewBucket(rate, now).updated = now /\ NewBucket(rate, now).credit[k] = rate[k] * Burst
  BY GuardAssumption DEF Burst, NewBucket
<1>2. CASE total = 0
  <2>1. CASE now >= since
    <3>1. rate[k] * Burst <= rate[k] * (Burst + (now - since))
      BY <1>1, <2>1, TimesGrows
    <3>2. rate[k] * Burst \in Nat
      BY <1>1
    <3> QED BY <1>1, <1>2, <2>1, <3>1, <3>2 DEF Bounded
  <2>2. CASE ~(now >= since)
    BY <1>1, <1>2, <2>2 DEF Bounded
  <2> QED BY <2>1, <2>2
<1>3. CASE total # 0
  <2>1. /\ since + MaxStall <= clock
        /\ total <= rate[k] * (clock - (since + MaxStall))
    BY <1>3 DEF Retired
  <2>2. /\ now >= since /\ now - since \in Nat /\ clock - (since + MaxStall) \in Nat
        /\ clock - (since + MaxStall) <= now - since
    BY <1>1, <2>1
  <2>3. rate[k] * (clock - (since + MaxStall)) <= rate[k] * (now - since)
    BY <1>1, <2>2, TimesGrows
  <2>4. /\ rate[k] * (Burst + (now - since)) = rate[k] * Burst + rate[k] * (now - since)
        /\ rate[k] * Burst \in Nat /\ rate[k] * (now - since) \in Nat
    BY <1>1, <2>2, TimesSum
  <2>5. rate[k] * (clock - (since + MaxStall)) \in Nat
    BY <1>1, <2>2
  <2>6. total + rate[k] * Burst <= rate[k] * (Burst + (now - since))
    BY <1>1, <2>1, <2>3, <2>4, <2>5
  <2> QED BY <1>1, <2>2, <2>6 DEF Bounded
<1> QED BY <1>2, <1>3

\* Time passes: a retired peer stays retired.
LEMMA RetiredLasts ==
  ASSUME NEW rate \in [Kinds -> Nat], NEW k \in Kinds, NEW total \in Nat, since \in Nat,
         clock \in Nat, clock' = clock + 1, since' = since, Retired(total, rate, k)
  PROVE  Retired(total, rate, k)'
<1>1. rate[k] \in Nat /\ MaxStall \in Nat
  BY GuardAssumption
<1>2. CASE total = 0
  BY <1>2 DEF Retired
<1>3. CASE total # 0
  <2>1. /\ since + MaxStall <= clock
        /\ total <= rate[k] * (clock - (since + MaxStall))
    BY <1>3 DEF Retired
  <2>2. /\ clock - (since + MaxStall) \in Nat /\ clock' - (since + MaxStall) \in Nat
        /\ clock - (since + MaxStall) <= clock' - (since + MaxStall)
    BY <1>1, <2>1
  <2>3. rate[k] * (clock - (since + MaxStall)) <= rate[k] * (clock' - (since + MaxStall))
    BY <1>1, <2>2, TimesGrows
  <2>4. /\ rate[k] * (clock - (since + MaxStall)) \in Nat
        /\ rate[k] * (clock' - (since + MaxStall)) \in Nat
    BY <1>1, <2>2
  <2>5. since + MaxStall <= clock' /\ total <= rate[k] * (clock' - (since + MaxStall))
    BY <1>1, <2>1, <2>3, <2>4
  <2> QED BY <2>5 DEF Retired
<1> QED BY <1>2, <1>3

-----------------------------------------------------------------------------
(* The inductive invariant.                                                *)

HasEntry(p) == \E i \in 1..Slots : Holds(i, p)

GlobalInv == \A k \in Kinds : Bounded(charged[k], global, GlobalRate, k)

\* An entry accounts for its peer, and knows when the peer was last seen.
EntryInv ==
    \A i \in 1..Slots : table[i] # None =>
        /\ table[i].bucket.updated <= table[i].lastSeen
        /\ \A k \in Kinds :
              Bounded(admitted[table[i].peer][k], table[i].bucket, PeerRate, k)

\* A peer without an entry was never admitted or is retired.
AbsentInv == \A p \in Peers : ~HasEntry(p) =>
                \A k \in Kinds : Retired(admitted[p][k], PeerRate, k)

GInv == TypeOK /\ OneEntryPerPeer /\ GlobalInv /\ EntryInv /\ AbsentInv

Clocks == /\ clock \in Nat /\ since \in Nat /\ MaxClock \in Nat /\ Slots \in Nat
          /\ PeerRate \in [Kinds -> Nat] /\ GlobalRate \in [Kinds -> Nat]

LEMMA TypeFacts ==
  ASSUME TypeOK
  PROVE  /\ Clocks /\ WellFormed(global, GlobalRate) /\ global.updated <= clock
         /\ \A i \in 1..Slots : table[i] # None =>
               /\ WellFormed(table[i].bucket, PeerRate) /\ table[i].bucket.updated <= clock
               /\ table[i].lastSeen \in Nat /\ table[i].lastSeen <= clock
               /\ table[i].peer \in Peers
<1>1. Clocks
  BY GuardAssumption DEF TypeOK, Clocks
<1>2. ASSUME NEW b, NEW rate, b \in Buckets, Capped(b, rate)
      PROVE  WellFormed(b, rate) /\ b.updated <= clock
  BY <1>1, <1>2 DEF Buckets, Capped, WellFormed, Clocks
<1>3. WellFormed(global, GlobalRate) /\ global.updated <= clock
  BY <1>2 DEF TypeOK
<1>4. ASSUME NEW i \in 1..Slots, table[i] # None
      PROVE  /\ WellFormed(table[i].bucket, PeerRate) /\ table[i].bucket.updated <= clock
             /\ table[i].lastSeen \in Nat /\ table[i].lastSeen <= clock
             /\ table[i].peer \in Peers
  <2>1. /\ table[i].bucket \in Buckets /\ Capped(table[i].bucket, PeerRate)
        /\ table[i].lastSeen \in 0..clock
        /\ table[i].peer \in Peers
    BY <1>4 DEF TypeOK, Entries, Buckets
  <2> QED BY <1>1, <1>2, <2>1 DEF Clocks
<1> QED BY <1>1, <1>3, <1>4

\* The call a thread is about to make.
LEMMA CallFacts ==
  ASSUME TypeOK, NEW t \in Callers, calls[t] # NoCall
  PROVE  /\ calls[t].peer \in Peers /\ calls[t].size \in Nat /\ calls[t].now \in Nat
         /\ calls[t].now <= clock /\ clock <= calls[t].now + MaxStall
<1>1. calls[t] \in [peer : Peers, size : Sizes, now : 0..clock]
  BY DEF TypeOK, NoCall
<1>2. clock <= calls[t].now + MaxStall /\ clock \in Nat
  BY GuardAssumption DEF TypeOK
<1>3. calls[t].peer \in Peers /\ calls[t].size \in Sizes /\ calls[t].now \in 0..clock
  BY <1>1
<1>4. calls[t].size \in Nat
  BY <1>3, GuardAssumption
<1>5. calls[t].now \in Nat /\ calls[t].now <= clock
  BY <1>2, <1>3
<1> QED BY <1>2, <1>3, <1>4, <1>5

LEMMA WellFormedBucket ==
  ASSUME NEW b, NEW rate, WellFormed(b, rate), clock \in Nat, b.updated <= clock
  PROVE  b \in Buckets /\ Capped(b, rate)
BY DEF WellFormed, Buckets, Capped

\* What the global bucket does with a call.
LEMMA GlobalStep ==
  ASSUME GInv, NEW t \in Callers, Finish(t),
         global' = Take(global, GlobalRate, calls[t].size, calls[t].now),
         charged' = IF Takes(global, GlobalRate, calls[t].size, calls[t].now)
                    THEN Plus(charged, Cost(GlobalRate, calls[t].size), calls[t].now)
                    ELSE charged
  PROVE  /\ GlobalInv' /\ (global \in Buckets /\ Capped(global, GlobalRate))' /\ charged' \in [Kinds -> Nat]
         /\ \A u \in Callers : calls'[u] # NoCall => u # t /\ calls'[u] = calls[u]
<1> DEFINE c == calls[t]
<1>1. /\ c.size \in Nat /\ c.now \in Nat /\ c.now <= clock
      /\ clock \in Nat /\ clock' = clock /\ since \in Nat /\ since' = since
      /\ WellFormed(global, GlobalRate) /\ global.updated <= clock
      /\ GlobalRate \in [Kinds -> Nat] /\ charged \in [Kinds -> Nat]
  BY CallFacts, TypeFacts DEF GInv, Finish, Clocks, TypeOK
<1>2. /\ WellFormed(global', GlobalRate) /\ global'.updated = Larger(global.updated, c.now)
      /\ Cost(GlobalRate, c.size) \in [Kinds -> Nat]
  <2>1. WellFormed(global', GlobalRate)
    BY <1>1, TakeShape
  <2>2. Take(global, GlobalRate, c.size, c.now).updated = Larger(global.updated, c.now)
    BY <1>1, TakeTime
  <2>3. Cost(GlobalRate, c.size) \in [Kinds -> Nat]
    BY <1>1, TakeShape
  <2> QED BY <2>1, <2>2, <2>3
<1>3. global'.updated <= clock'
  BY <1>1, <1>2 DEF Larger
<1>4. (global \in Buckets /\ Capped(global, GlobalRate))'
  BY <1>1, <1>2, <1>3 DEF WellFormed, Buckets, Capped
<1>5. charged' \in [Kinds -> Nat]
  BY <1>1, <1>2 DEF Plus
<1>6. ASSUME NEW k \in Kinds
      PROVE  Bounded(charged[k], global, GlobalRate, k)'
  <2>1. charged'[k] = IF Takes(global, GlobalRate, c.size, c.now) /\ c.now >= since
                      THEN charged[k] + Cost(GlobalRate, c.size)[k] ELSE charged[k]
    BY <1>1 DEF Plus
  <2>2. charged[k] \in Nat /\ Bounded(charged[k], global, GlobalRate, k)
    BY <1>1 DEF GInv, GlobalInv
  <2>3. Bounded(charged'[k], global', GlobalRate, k)
    BY <1>1, <2>1, <2>2, TakeAccounts
  <2> QED BY <1>1, <2>3 DEF Bounded
<1>7. \A u \in Callers : calls'[u] # NoCall => u # t /\ calls'[u] = calls[u]
  <2>1. calls' = [calls EXCEPT ![t] = NoCall]
    BY DEF Finish
  <2> QED BY <2>1 DEF GInv, TypeOK
<1> QED BY <1>4, <1>5, <1>6, <1>7 DEF GlobalInv

\* What a peer's bucket does with a call that passed the global bucket.
LEMMA PeerStep ==
  ASSUME GInv, NEW t \in Callers, calls[t] # NoCall, NEW b, WellFormed(b, PeerRate),
         b.updated <= clock, Decide(b, calls[t]),
         \A k \in Kinds : Bounded(admitted[calls[t].peer][k], b, PeerRate, k)
  PROVE  LET c == calls[t]  after == Take(b, PeerRate, c.size, c.now)
         IN  /\ after \in Buckets /\ Capped(after, PeerRate)
             /\ after.updated = Larger(b.updated, c.now)
             /\ admitted' \in [Peers -> [Kinds -> Nat]]
             /\ \A q \in Peers : q # c.peer => admitted'[q] = admitted[q]
             /\ \A k \in Kinds : Bounded(admitted'[c.peer][k], after, PeerRate, k)
<1> DEFINE c == calls[t]
           after == Take(b, PeerRate, c.size, c.now)
           cost == Cost(PeerRate, c.size)
           total == admitted[c.peer]
<1>1. /\ c.peer \in Peers /\ c.size \in Nat /\ c.now \in Nat /\ c.now <= clock
      /\ clock \in Nat /\ since \in Nat /\ PeerRate \in [Kinds -> Nat]
      /\ admitted \in [Peers -> [Kinds -> Nat]]
  BY CallFacts, TypeFacts DEF GInv, Clocks, TypeOK
<1>2. WellFormed(after, PeerRate)
  BY <1>1, TakeShape
<1>3. after.updated = Larger(b.updated, c.now)
  BY <1>1, TakeTime
<1>4. cost \in [Kinds -> Nat]
  BY <1>1, TakeShape
<1>5. after.updated <= clock
  BY <1>1, <1>3 DEF Larger
<1>6. after \in Buckets /\ Capped(after, PeerRate)
  BY <1>1, <1>2, <1>5, WellFormedBucket
<1>7. admitted' = IF Takes(b, PeerRate, c.size, c.now)
                  THEN [admitted EXCEPT ![c.peer] = Plus(total, cost, c.now)] ELSE admitted
  BY DEF Decide
<1>8. Plus(total, cost, c.now) \in [Kinds -> Nat]
  BY <1>1, <1>4 DEF Plus
<1>9. ASSUME NEW k \in Kinds
      PROVE  Bounded(admitted'[c.peer][k], after, PeerRate, k)
  <2>1. admitted'[c.peer][k] = IF Takes(b, PeerRate, c.size, c.now) /\ c.now >= since
                               THEN total[k] + cost[k] ELSE total[k]
    BY <1>1, <1>7 DEF Plus
  <2>2. total[k] \in Nat
    BY <1>1
  <2>3. Bounded(total[k], b, PeerRate, k)
    OBVIOUS
  <2>4. Bounded(IF Takes(b, PeerRate, c.size, c.now) /\ c.now >= since
                THEN total[k] + cost[k] ELSE total[k], after, PeerRate, k)
    BY <1>1, <2>2, <2>3, TakeAccounts
  <2> QED BY <2>1, <2>4
<1>10. /\ admitted' \in [Peers -> [Kinds -> Nat]]
       /\ \A q \in Peers : q # c.peer => admitted'[q] = admitted[q]
  <2> HIDE DEF cost, c, total
  <2> QED BY <1>1, <1>7, <1>8
<1> QED BY <1>3, <1>6, <1>9, <1>10

\* The table, after entry i was written for the calling peer.
LEMMA EntryStep ==
  ASSUME GInv, NEW t \in Callers, Finish(t), NEW i \in 1..Slots, NEW b, NEW seen \in Nat,
         WellFormed(b, PeerRate), b.updated <= seen, seen <= clock, Decide(b, calls[t]),
         \A k \in Kinds : Bounded(admitted[calls[t].peer][k], b, PeerRate, k),
         \A j \in 1..Slots : Holds(j, calls[t].peer) => j = i,
         table[i] # None /\ table[i].peer # calls[t].peer
            => clock >= table[i].lastSeen + PeerIdle,
         table' = [table EXCEPT ![i] =
                     [peer |-> calls[t].peer,
                      bucket |-> Take(b, PeerRate, calls[t].size, calls[t].now),
                      lastSeen |-> Larger(seen, calls[t].now)]],
         ChargeGlobal(calls[t])
  PROVE  GInv'
<1> DEFINE c == calls[t]
           after == Take(b, PeerRate, c.size, c.now)
<1>1. /\ c.peer \in Peers /\ c.size \in Nat /\ c.now \in Nat /\ c.now <= clock
      /\ clock \in Nat /\ since \in Nat /\ clock' = clock /\ since' = since
      /\ b.updated \in Nat /\ b.updated <= clock
  BY CallFacts, TypeFacts DEF GInv, Clocks, Finish, WellFormed
<1>2. /\ after \in Buckets /\ Capped(after, PeerRate)
      /\ after.updated = Larger(b.updated, c.now)
      /\ admitted' \in [Peers -> [Kinds -> Nat]]
      /\ \A q \in Peers : q # c.peer => admitted'[q] = admitted[q]
      /\ \A k \in Kinds : Bounded(admitted'[c.peer][k], after, PeerRate, k)
  BY <1>1, PeerStep DEF Finish
<1> HIDE DEF after
<1>3. Larger(seen, c.now) \in 0..clock /\ after.updated <= Larger(seen, c.now)
  BY <1>1, <1>2 DEF Larger
<1>4. /\ GlobalInv' /\ (global \in Buckets /\ Capped(global, GlobalRate))'
      /\ charged' \in [Kinds -> Nat]
      /\ \A u \in Callers : calls'[u] # NoCall => u # t /\ calls'[u] = calls[u]
  BY GlobalStep DEF ChargeGlobal
<1>5. /\ table'[i] = [peer |-> c.peer, bucket |-> after, lastSeen |-> Larger(seen, c.now)]
      /\ \A j \in 1..Slots : j # i => table'[j] = table[j]
      /\ c.peer # None /\ table'[i] # None
  <2>1. table'[i] = [peer |-> c.peer, bucket |-> after, lastSeen |-> Larger(seen, c.now)]
    BY DEF GInv, TypeOK, after
  <2>2. \A j \in 1..Slots : j # i => table'[j] = table[j]
    BY DEF GInv, TypeOK
  <2>3. c.peer # None
    BY <1>1, GuardAssumption
  <2>4. table'[i] # None
    <3>1. table'[i] \in Entries(Nat)
      BY <1>1, <1>2, <1>3, <2>1 DEF Entries, Buckets
    <3> QED BY <3>1, GuardAssumption
  <2> QED BY <2>1, <2>2, <2>3, <2>4
<1>6. TypeOK'
  <2>1. calls' \in [Callers -> [peer : Peers, size : Sizes, now : 0..clock'] \cup {NoCall}]
    BY <1>1 DEF GInv, TypeOK, Finish
  <2>2. table' \in [1..Slots -> Entries(0..clock') \cup {None}]
    <3>1. [peer |-> c.peer, bucket |-> after, lastSeen |-> Larger(seen, c.now)]
            \in Entries(0..clock)
      BY <1>1, <1>2, <1>3 DEF Entries, Buckets
    <3> QED BY <1>1, <3>1 DEF GInv, TypeOK, after
  <2>3. \A j \in 1..Slots : table'[j] # None => Capped(table'[j].bucket, PeerRate)
    BY <1>2, <1>5 DEF GInv, TypeOK
  <2> QED BY <1>1, <1>2, <1>4, <2>1, <2>2, <2>3 DEF GInv, TypeOK
<1>7. OneEntryPerPeer'
  BY <1>5 DEF GInv, OneEntryPerPeer, Holds
<1>8. EntryInv'
  <2> SUFFICES ASSUME NEW j \in 1..Slots, table'[j] # None
               PROVE  /\ table'[j].bucket.updated <= table'[j].lastSeen
                      /\ \A k \in Kinds :
                           Bounded(admitted[table[j].peer][k], table[j].bucket, PeerRate, k)'
    BY DEF EntryInv
  <2>1. CASE j = i
    BY <1>1, <1>2, <1>3, <1>5, <2>1 DEF Bounded
  <2>2. CASE j # i
    <3>1. table'[j] = table[j] /\ table[j] # None /\ table[j].peer \in Peers
      BY <1>5, <2>2, TypeFacts DEF GInv
    <3>2. table[j].peer # c.peer
      BY <2>2, <3>1 DEF Holds
    <3>3. admitted'[table[j].peer] = admitted[table[j].peer]
      BY <1>2, <3>1, <3>2
    <3> QED BY <1>1, <3>1, <3>3 DEF GInv, EntryInv, Bounded
  <2> QED BY <2>1, <2>2
<1>9. AbsentInv'
  <2> SUFFICES ASSUME NEW p \in Peers, ~HasEntry(p)', NEW k \in Kinds
               PROVE  Retired(admitted'[p][k], PeerRate, k)
    BY <1>1 DEF AbsentInv, Retired
  <2>1. p # c.peer
    BY <1>5 DEF HasEntry, Holds
  <2>2. admitted'[p] = admitted[p] /\ admitted[p][k] \in Nat
    BY <1>2, <2>1 DEF GInv, TypeOK
  <2>3. CASE ~HasEntry(p)
    BY <2>2, <2>3 DEF GInv, AbsentInv
  <2>4. CASE HasEntry(p)
    <3>1. PICK j \in 1..Slots : table[j] # None /\ table[j].peer = p
      BY <2>4 DEF HasEntry, Holds
    <3>2. j = i
      BY <1>5, <3>1 DEF HasEntry, Holds
    <3>3. clock >= table[i].lastSeen + PeerIdle
      BY <2>1, <3>1, <3>2
    <3>4. /\ WellFormed(table[i].bucket, PeerRate) /\ table[i].lastSeen \in Nat
          /\ table[i].bucket.updated <= table[i].lastSeen
          /\ Bounded(admitted[p][k], table[i].bucket, PeerRate, k)
      BY <3>1, <3>2, TypeFacts DEF GInv, EntryInv
    <3>5. PeerRate \in [Kinds -> Nat]
      BY GuardAssumption
    <3>6. Retired(admitted[p][k], PeerRate, k)
      BY <1>1, <2>2, <3>3, <3>4, <3>5, ReuseRetires
    <3> QED BY <2>2, <3>6
  <2> QED BY <2>3, <2>4
<1> QED BY <1>4, <1>6, <1>7, <1>8, <1>9 DEF GInv

LEMMA KnownPeerStep ==
  ASSUME GInv, NEW t \in Callers, KnownPeer(t)
  PROVE  GInv'
<1> DEFINE c == calls[t]
<1>1. PICK i \in 1..Slots :
          /\ Holds(i, c.peer)
          /\ table' = [table EXCEPT ![i] =
                         [peer |-> c.peer,
                          bucket |-> Take(table[i].bucket, PeerRate, c.size, c.now),
                          lastSeen |-> Larger(table[i].lastSeen, c.now)]]
          /\ Decide(table[i].bucket, c)
  BY DEF KnownPeer
<1>2. /\ WellFormed(table[i].bucket, PeerRate)
      /\ table[i].lastSeen \in Nat /\ table[i].lastSeen <= clock
      /\ table[i].bucket.updated <= table[i].lastSeen
      /\ \A k \in Kinds : Bounded(admitted[c.peer][k], table[i].bucket, PeerRate, k)
  BY <1>1, TypeFacts DEF GInv, EntryInv, Holds
<1>3. \A j \in 1..Slots : Holds(j, c.peer) => j = i
  BY <1>1 DEF GInv, OneEntryPerPeer, Holds
<1>4. table[i].peer = c.peer
  BY <1>1 DEF Holds
<1>5. Finish(t) /\ ChargeGlobal(calls[t])
  BY DEF KnownPeer
<1> QED BY <1>1, <1>2, <1>3, <1>4, <1>5, EntryStep

LEMMA NewPeerStep ==
  ASSUME GInv, NEW t \in Callers, NewPeer(t)
  PROVE  GInv'
<1> DEFINE c == calls[t]
           b == NewBucket(PeerRate, c.now)
<1>1. Finish(t) /\ ChargeGlobal(calls[t]) /\ calls[t] # NoCall
  BY DEF NewPeer, Finish
<1>2. /\ c.peer \in Peers /\ c.now \in Nat /\ c.now <= clock /\ clock <= c.now + MaxStall
      /\ clock \in Nat /\ since \in Nat /\ PeerRate \in [Kinds -> Nat]
  BY <1>1, CallFacts, TypeFacts DEF GInv, Clocks
<1>3. /\ \A j \in 1..Slots : ~Holds(j, c.peer)
      /\ Decide(b, c)
  BY DEF NewPeer
<1>4. PICK i \in 1..Slots :
          /\ Vacant(i, c.now)
          /\ table' = [table EXCEPT ![i] =
                         [peer |-> c.peer, bucket |-> Take(b, PeerRate, c.size, c.now),
                          lastSeen |-> c.now]]
  BY DEF NewPeer
<1>5. WellFormed(b, PeerRate) /\ b.updated = c.now
  <2>1. Burst \in Nat
    BY GuardAssumption DEF Burst
  <2>2. \A k \in Kinds : PeerRate[k] * Burst \in Nat
    BY <1>2, <2>1
  <2> QED BY <1>2, <2>2 DEF NewBucket, WellFormed
<1>6. ASSUME NEW k \in Kinds
      PROVE  Bounded(admitted[c.peer][k], b, PeerRate, k)
  <2>1. Retired(admitted[c.peer][k], PeerRate, k)
    BY <1>2, <1>3 DEF GInv, AbsentInv, HasEntry
  <2>2. admitted[c.peer][k] \in Nat
    BY <1>2 DEF GInv, TypeOK
  <2> QED BY <1>2, <2>1, <2>2, FreshBounded
<1>7. table[i] # None => clock >= table[i].lastSeen + PeerIdle
  <2>1. table[i] # None => c.now >= table[i].lastSeen + PeerIdle
    BY <1>4 DEF Vacant
  <2> QED BY <1>2, <2>1, TypeFacts, GuardAssumption DEF GInv
<1>8. Larger(c.now, c.now) = c.now
  BY <1>2 DEF Larger
<1>9. b.updated <= c.now
  BY <1>2, <1>5
<1> HIDE DEF b
<1> QED BY <1>1, <1>2, <1>3, <1>4, <1>5, <1>6, <1>7, <1>8, <1>9, EntryStep

\* A call that never reaches the table's entries, or is denied for want of one.
LEMMA DeniedStep ==
  ASSUME GInv, NEW t \in Callers, GlobalDenies(t) \/ TableFull(t)
  PROVE  GInv'
<1>1. /\ Finish(t) /\ UNCHANGED <<clock, since, table, admitted>>
      /\ clock \in Nat
  BY TypeFacts DEF GlobalDenies, TableFull, Finish, GInv, Clocks
<1>2. /\ global' = Take(global, GlobalRate, calls[t].size, calls[t].now)
      /\ charged' = IF Takes(global, GlobalRate, calls[t].size, calls[t].now)
                    THEN Plus(charged, Cost(GlobalRate, calls[t].size), calls[t].now)
                    ELSE charged
  BY DEF GlobalDenies, TableFull, ChargeGlobal
<1>3. /\ GlobalInv' /\ (global \in Buckets /\ Capped(global, GlobalRate))'
      /\ charged' \in [Kinds -> Nat]
      /\ \A u \in Callers : calls'[u] # NoCall => u # t /\ calls'[u] = calls[u]
  BY <1>1, <1>2, GlobalStep
<1>4. TypeOK'
  <2>1. calls' \in [Callers -> [peer : Peers, size : Sizes, now : 0..clock'] \cup {NoCall}]
    BY <1>1 DEF GInv, TypeOK, Finish
  <2> QED BY <1>1, <1>3, <2>1 DEF GInv, TypeOK
<1>5. OneEntryPerPeer' /\ EntryInv' /\ AbsentInv'
  BY <1>1 DEF GInv, OneEntryPerPeer, EntryInv, AbsentInv, HasEntry, Holds, Bounded, Retired
<1> QED BY <1>3, <1>4, <1>5 DEF GInv

LEMMA CallStep ==
  ASSUME GInv, NEW t \in Callers, Call(t)
  PROVE  GInv'
<1>1. PICK p \in Peers, n \in Sizes :
        calls' = [calls EXCEPT ![t] = [peer |-> p, size |-> n, now |-> clock]]
  BY DEF Call
<1>2. /\ UNCHANGED <<clock, global, table, since, charged, admitted>>
      /\ clock \in Nat /\ MaxStall \in Nat
  BY TypeFacts, GuardAssumption DEF Call, GInv, Clocks
<1>3. calls' \in [Callers -> [peer : Peers, size : Sizes, now : 0..clock'] \cup {NoCall}]
  BY <1>1, <1>2 DEF GInv, TypeOK
<1>4. \A u \in Callers : calls'[u] # NoCall => clock' <= calls'[u].now + MaxStall
  <2> SUFFICES ASSUME NEW u \in Callers, calls'[u] # NoCall
               PROVE  clock' <= calls'[u].now + MaxStall
    OBVIOUS
  <2>1. CASE u = t
    <3>1. calls'[u].now = clock
      BY <1>1, <2>1 DEF GInv, TypeOK
    <3> QED BY <1>2, <3>1
  <2>2. CASE u # t
    BY <1>1, <1>2, <2>2 DEF GInv, TypeOK
  <2> QED BY <2>1, <2>2
<1>5. TypeOK'
  BY <1>2, <1>3, <1>4 DEF GInv, TypeOK, Buckets, Capped
<1>6. OneEntryPerPeer' /\ GlobalInv' /\ EntryInv' /\ AbsentInv'
  BY <1>2 DEF GInv, OneEntryPerPeer, GlobalInv, EntryInv, AbsentInv, HasEntry, Holds,
              Bounded, Retired
<1> QED BY <1>5, <1>6 DEF GInv

LEMMA TickStep ==
  ASSUME GInv, Tick
  PROVE  GInv'
<1>1. /\ clock' = clock + 1 /\ UNCHANGED <<calls, global, table, since, charged, admitted>>
      /\ clock \in Nat /\ since \in Nat /\ MaxClock \in Nat /\ clock < MaxClock
      /\ PeerRate \in [Kinds -> Nat] /\ MaxStall \in Nat
  BY TypeFacts, GuardAssumption DEF Tick, GInv, Clocks
<1>2. 0..clock \subseteq 0..clock' /\ clock' \in 0..MaxClock
  BY <1>1
<1>3. TypeOK'
  <2>1. calls' \in [Callers -> [peer : Peers, size : Sizes, now : 0..clock'] \cup {NoCall}]
    BY <1>1, <1>2 DEF GInv, TypeOK
  <2>2. global' \in Buckets' /\ Capped(global, GlobalRate)'
    BY <1>1, <1>2 DEF GInv, TypeOK, Buckets, Capped
  <2>3. Entries(0..clock) \subseteq Entries(0..clock')
    BY <1>2 DEF Entries
  <2>4. table' \in [1..Slots -> Entries(0..clock') \cup {None}]
    BY <1>1, <2>3 DEF GInv, TypeOK
  <2>5. \A t \in Callers : calls[t] # NoCall => clock + 1 <= calls[t].now + MaxStall
    <3> SUFFICES ASSUME NEW t \in Callers, calls[t] # NoCall
                 PROVE  clock + 1 <= calls[t].now + MaxStall
      OBVIOUS
    <3>1. clock < calls[t].now + MaxStall
      BY DEF Tick
    <3>2. calls[t].now \in Nat
      BY CallFacts DEF GInv
    <3> QED BY <1>1, <3>1, <3>2
  <2> QED BY <1>1, <1>2, <2>1, <2>2, <2>4, <2>5 DEF GInv, TypeOK, Capped
<1>4. AbsentInv'
  <2> SUFFICES ASSUME NEW p \in Peers, ~HasEntry(p)', NEW k \in Kinds
               PROVE  Retired(admitted[p][k], PeerRate, k)'
    BY DEF AbsentInv
  <2>1. admitted[p][k] \in Nat /\ admitted'[p][k] = admitted[p][k]
    BY <1>1 DEF GInv, TypeOK
  <2>2. Retired(admitted[p][k], PeerRate, k)
    BY <1>1 DEF GInv, AbsentInv, HasEntry, Holds
  <2> DEFINE total == admitted[p][k]
  <2>3. Retired(total, PeerRate, k) /\ total \in Nat /\ total' = total
    BY <2>1, <2>2
  <2> QED BY <1>1, <2>3, RetiredLasts DEF Retired
<1>5. OneEntryPerPeer' /\ GlobalInv' /\ EntryInv'
  BY <1>1 DEF GInv, OneEntryPerPeer, GlobalInv, EntryInv, Bounded
<1> QED BY <1>3, <1>4, <1>5 DEF GInv

LEMMA InitGuard == Init => GInv
<1> SUFFICES ASSUME Init
             PROVE  GInv
  OBVIOUS
<1>1. /\ MaxClock \in Nat /\ Burst \in Nat /\ since \in Nat /\ clock = 0
      /\ GlobalRate \in [Kinds -> Nat]
  BY GuardAssumption DEF Init, Burst
<1>2. WellFormed(global, GlobalRate) /\ global.updated = 0
  <2>1. \A k \in Kinds : GlobalRate[k] * Burst \in Nat
    BY <1>1
  <2> QED BY <2>1 DEF Init, NewBucket, WellFormed
<1>3. global \in Buckets /\ Capped(global, GlobalRate)
  BY <1>1, <1>2, WellFormedBucket
<1>4. TypeOK
  BY <1>1, <1>3 DEF Init, TypeOK, NoCost
<1>5. GlobalInv
  <2> SUFFICES ASSUME NEW k \in Kinds
               PROVE  Bounded(charged[k], global, GlobalRate, k)
    BY DEF GlobalInv
  <2>1. charged[k] = 0 /\ global.credit[k] = GlobalRate[k] * Burst
    BY DEF Init, NoCost, NewBucket
  <2>2. CASE since = 0
    <3>1. GlobalRate[k] * (Burst + (0 - 0)) = GlobalRate[k] * Burst
      BY <1>1
    <3>2. GlobalRate[k] * Burst \in Nat
      BY <1>1
    <3> QED BY <1>2, <2>1, <2>2, <3>1, <3>2 DEF Bounded
  <2>3. CASE since # 0
    BY <1>1, <1>2, <2>1, <2>3 DEF Bounded
  <2> QED BY <2>2, <2>3
<1>6. OneEntryPerPeer /\ EntryInv
  BY DEF Init, OneEntryPerPeer, EntryInv
<1>7. AbsentInv
  BY DEF Init, AbsentInv, Retired, NoCost
<1> QED BY <1>4, <1>5, <1>6, <1>7 DEF GInv

LEMMA NextGuard == GInv /\ [Next]_vars => GInv'
<1> SUFFICES ASSUME GInv, [Next]_vars
             PROVE  GInv'
  OBVIOUS
<1>1. CASE Next
  BY <1>1, TickStep, CallStep, DeniedStep, KnownPeerStep, NewPeerStep DEF Next
<1>2. CASE UNCHANGED vars
  BY <1>2 DEF vars, GInv, TypeOK, OneEntryPerPeer, GlobalInv, EntryInv, AbsentInv,
              HasEntry, Holds, Bounded, Retired, Buckets, Capped
<1> QED BY <1>1, <1>2

\* The inductive invariant: the potentials and the table's uniqueness.
THEOREM GuardInvariant == Spec => []GInv
BY InitGuard, NextGuard, PTL DEF Spec

\* A bucket's potential bounds what it let through in the interval.
LEMMA BoundedBudget ==
  ASSUME NEW b, NEW rate \in [Kinds -> Nat], WellFormed(b, rate), NEW k \in Kinds,
         NEW total \in Nat, since \in Nat, clock \in Nat, b.updated <= clock,
         Bounded(total, b, rate, k)
  PROVE  total <= rate[k] * (Burst + (IF clock > since THEN clock - since ELSE 0))
<1> DEFINE span == IF clock > since THEN clock - since ELSE 0
<1>1. /\ rate[k] \in Nat /\ Burst \in Nat /\ b.credit[k] \in Nat /\ b.updated \in Nat
      /\ span \in Nat
  BY GuardAssumption DEF Burst, WellFormed
<1>2. CASE b.updated >= since
  <2>1. /\ Burst + (b.updated - since) \in Nat
        /\ Burst + (b.updated - since) <= Burst + span
    BY <1>1, <1>2
  <2> HIDE DEF span
  <2>2. rate[k] * (Burst + (b.updated - since)) <= rate[k] * (Burst + span)
    BY <1>1, <2>1, TimesGrows
  <2>3. /\ rate[k] * (Burst + (b.updated - since)) \in Nat
        /\ rate[k] * (Burst + span) \in Nat
    BY <1>1, <2>1
  <2>4. total + b.credit[k] <= rate[k] * (Burst + (b.updated - since))
    BY <1>2 DEF Bounded
  <2>5. total <= rate[k] * (Burst + span)
    BY <1>1, <2>2, <2>3, <2>4
  <2> QED BY <2>5 DEF span
<1>3. CASE ~(b.updated >= since)
  <2>1. total = 0
    BY <1>3 DEF Bounded
  <2> HIDE DEF span
  <2>2. rate[k] * (Burst + span) \in Nat
    BY <1>1
  <2> QED BY <2>1, <2>2 DEF span
<1> QED BY <1>2, <1>3

\* A retired peer's account is within its budget as well.
LEMMA RetiredBudget ==
  ASSUME NEW rate \in [Kinds -> Nat], NEW k \in Kinds, NEW total \in Nat,
         since \in Nat, clock \in Nat, Retired(total, rate, k)
  PROVE  total <= rate[k] * (Burst + (IF clock > since THEN clock - since ELSE 0))
<1> DEFINE span == IF clock > since THEN clock - since ELSE 0
<1>1. rate[k] \in Nat /\ Burst \in Nat /\ MaxStall \in Nat /\ span \in Nat
  BY GuardAssumption DEF Burst
<1>2. CASE total = 0
  <2> HIDE DEF span
  <2>1. rate[k] * (Burst + span) \in Nat
    BY <1>1
  <2> QED BY <1>2, <2>1 DEF span
<1>3. CASE total # 0
  <2>1. /\ since + MaxStall <= clock
        /\ total <= rate[k] * (clock - (since + MaxStall))
    BY <1>3 DEF Retired
  <2>2. clock - (since + MaxStall) \in Nat /\ clock - (since + MaxStall) <= Burst + span
    BY <1>1, <2>1
  <2> HIDE DEF span
  <2>3. rate[k] * (clock - (since + MaxStall)) <= rate[k] * (Burst + span)
    BY <1>1, <2>2, TimesGrows
  <2>4. rate[k] * (clock - (since + MaxStall)) \in Nat /\ rate[k] * (Burst + span) \in Nat
    BY <1>1, <2>2
  <2>5. total <= rate[k] * (Burst + span)
    BY <2>1, <2>3, <2>4
  <2> QED BY <2>5 DEF span
<1> QED BY <1>2, <1>3

\* Whatever the peers, the threads and the interval: what passes the global
\* bucket costs at most the burst plus the rate times the interval.
THEOREM GlobalBudgetHolds == Spec => []GlobalBudget
<1>1. GInv => GlobalBudget
  <2> SUFFICES ASSUME GInv, NEW k \in Kinds
               PROVE  charged[k] <=
                        GlobalRate[k] * (Burst + (IF clock > since THEN clock - since ELSE 0))
    BY DEF GlobalBudget
  <2>1. /\ WellFormed(global, GlobalRate) /\ global.updated <= clock
        /\ clock \in Nat /\ since \in Nat /\ GlobalRate \in [Kinds -> Nat]
    BY TypeFacts DEF GInv, Clocks
  <2>2. charged[k] \in Nat /\ Bounded(charged[k], global, GlobalRate, k)
    BY DEF GInv, TypeOK, GlobalInv
  <2> QED BY <2>1, <2>2, BoundedBudget
<1> QED BY <1>1, GuardInvariant, PTL

\* The same for each peer, across evictions, re-creations and late calls.
THEOREM PeerBudgetHolds == Spec => []PeerBudget
<1>1. GInv => PeerBudget
  <2> SUFFICES ASSUME GInv, NEW p \in Peers, NEW k \in Kinds
               PROVE  admitted[p][k] <=
                        PeerRate[k] * (Burst + (IF clock > since THEN clock - since ELSE 0))
    BY DEF PeerBudget
  <2>1. /\ clock \in Nat /\ since \in Nat /\ PeerRate \in [Kinds -> Nat]
        /\ admitted[p][k] \in Nat
    BY TypeFacts DEF GInv, Clocks, TypeOK
  <2>2. CASE HasEntry(p)
    <3>1. PICK i \in 1..Slots : table[i] # None /\ table[i].peer = p
      BY <2>2 DEF HasEntry, Holds
    <3>2. /\ WellFormed(table[i].bucket, PeerRate) /\ table[i].bucket.updated <= clock
          /\ Bounded(admitted[p][k], table[i].bucket, PeerRate, k)
      BY <3>1, TypeFacts DEF GInv, EntryInv
    <3> QED BY <2>1, <3>2, BoundedBudget
  <2>3. CASE ~HasEntry(p)
    <3>1. Retired(admitted[p][k], PeerRate, k)
      BY <2>3 DEF GInv, AbsentInv
    <3> QED BY <2>1, <3>1, RetiredBudget
  <2> QED BY <2>2, <2>3
<1> QED BY <1>1, GuardInvariant, PTL

\* No peer ever has two entries in the table (Gate::allow's scan).
THEOREM EntriesAreUnique == Spec => []OneEntryPerPeer
<1>1. GInv => OneEntryPerPeer
  BY DEF GInv
<1> QED BY <1>1, GuardInvariant, PTL

\* All state of the guard keeps its type, and no bucket exceeds its burst.
THEOREM GuardTypes == Spec => []TypeOK
<1>1. GInv => TypeOK
  BY DEF GInv
<1> QED BY <1>1, GuardInvariant, PTL

\* An entry passes to another peer only after PeerIdle ticks without a call of
\* its owner, whatever time stamps the calls bring along (Gate::allow).
THEOREM LivePeersStay == Spec => LivePeerKeepsEntry
<1>1. GInv /\ [Next]_vars =>
        [\A i \in 1..Slots :
            table[i] # None /\ table'[i].peer # table[i].peer
                => clock >= table[i].lastSeen + PeerIdle]_vars
  <2> SUFFICES ASSUME GInv, [Next]_vars, NEW i \in 1..Slots, table[i] # None,
                      table'[i].peer # table[i].peer
               PROVE  clock >= table[i].lastSeen + PeerIdle
    OBVIOUS
  <2>1. ASSUME NEW t \in Callers, KnownPeer(t)
        PROVE  FALSE
    BY <2>1 DEF KnownPeer, Holds, GInv, TypeOK
  <2>2. ASSUME NEW t \in Callers, NewPeer(t)
        PROVE  clock >= table[i].lastSeen + PeerIdle
    <3>1. /\ calls[t].now \in Nat /\ calls[t].now <= clock /\ clock \in Nat
          /\ table[i].lastSeen \in Nat /\ PeerIdle \in Nat
      BY <2>2, CallFacts, TypeFacts, GuardAssumption DEF NewPeer, Finish, GInv, Clocks
    <3>2. Vacant(i, calls[t].now)
      BY <2>2 DEF NewPeer, GInv, TypeOK
    <3> QED BY <3>1, <3>2 DEF Vacant
  <2>3. Tick \/ (\E t \in Callers : Call(t) \/ GlobalDenies(t) \/ TableFull(t))
          \/ UNCHANGED vars => FALSE
    BY DEF Tick, Call, GlobalDenies, TableFull, vars
  <2> QED BY <2>1, <2>2, <2>3 DEF Next
<1> QED BY <1>1, GuardInvariant, PTL DEF LivePeerKeepsEntry, Spec
=============================================================================
