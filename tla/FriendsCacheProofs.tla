-------------------------- MODULE FriendsCacheProofs --------------------------
(***************************************************************************)
(* Proofs about FriendsCache for any number of calls and of friends and    *)
(* for any delays whose longest is reached within five doublings.          *)
(***************************************************************************)
EXTENDS FriendsCache, TLAPS

Refreshing(c) == pc[c] \in {"query", "list", "end", "store", "release"}

TypeOK ==
    /\ friends \in [next : Int, xuids : SUBSET People, refreshing : BOOLEAN, failures : Nat]
    /\ clock \in Nat /\ list \in Lists /\ readable \in BOOLEAN /\ changes \in Nat
    /\ pc \in [Calls -> {"out", "called", "query", "list", "end", "store", "release"}]
    /\ now \in [Calls -> Nat] /\ can \in [Calls -> BOOLEAN]
    /\ awaits \in [Calls -> Calls \cup {Nil}]
    /\ count \in Nat /\ got \subseteq People /\ at \in Nat /\ ok \in BOOLEAN
    /\ completed \in Nat
    /\ last \in [end : Nat \cup {Nil}, failed : Nat]
    /\ current \in [query : SUBSET People, snapshot : SUBSET People]

\* The flag belongs to the one call that refreshes.
OneRefresh == \A c \in Calls : Refreshing(c) =>
                  friends.refreshing /\ \A d \in Calls : Refreshing(d) => d = c

\* Time stamps are old, never from the future.
Stamps == \A c \in Calls : now[c] <= clock

\* What a query has collected were friends while it ran, as is whoever it may
\* still collect.
Collected ==
    /\ \A c \in Calls : pc[c] = "list" => Members(list) \subseteq current.query
    /\ \A c \in Calls : pc[c] \in {"list", "end", "store"} => got \subseteq current.query

\* Between a query's end and its result the interval is not known to the cache;
\* otherwise the cache's next query is not before it.
Timed ==
    /\ \A c \in Calls : pc[c] = "store" =>
           /\ completed = last.end
           /\ ok => last.failed = 0
           /\ ~ok => last.failed = friends.failures + 1
    /\ (\A c \in Calls : pc[c] # "store") =>
           /\ last.failed = friends.failures
           /\ last.end # Nil => friends.next >= Due

IInv == TypeOK /\ OneRefresh /\ Stamps /\ Collected /\ Timed /\ OnlyFriends

-----------------------------------------------------------------------------
(* Lists and delays.                                                        *)

LEMMA ListsAreSequences == ASSUME NEW s \in Lists PROVE s \in Seq(People)
<1>1. s \in UNION {[1..n -> People] : n \in 0..2}
    BY DEF Lists, BoundedSeq, SeqOf
<1>2. PICK n \in 0..2 : s \in [1..n -> People]
    BY <1>1
<1> QED
    BY <1>2

LEMMA MembersArePeople ==
    ASSUME NEW s \in Lists
    PROVE  /\ Members(s) \subseteq People
           /\ \A i \in Nat : i < Len(s) => s[i + 1] \in Members(s)
<1>1. s \in Seq(People)
    BY ListsAreSequences
<1> QED
    BY <1>1 DEF Members

\* The delay that is used, whose exponent is bounded, is the one that doubles
\* with each failure.
LEMMA DelayIsLongEnough ==
    ASSUME NEW f \in Nat
    PROVE  /\ Delay(f + 1) \in Int
           /\ Delay(f + 1) >= Least(Base * 2 ^ f, Longest)
           /\ Least(Base * 2 ^ f, Longest) \in Int
<1>1. 2 ^ f \in Int /\ 2 ^ 5 \in Int
    OBVIOUS
<1>2. Base * 2 ^ f \in Int /\ Base * 2 ^ 5 \in Int
    BY <1>1, FriendsAssumption
<1>3. Least(Base * 2 ^ f, Longest) \in Int /\ Least(Base * 2 ^ f, Longest) <= Longest
    BY <1>2, FriendsAssumption DEF Least
<1>4. Delay(f + 1) = Least(Base * 2 ^ Least(f, 5), Longest)
    BY DEF Delay
<1>5. CASE f < 5
    BY <1>3, <1>4, <1>5 DEF Least
<1>6. CASE ~(f < 5)
    <2>1. Delay(f + 1) = Longest
        BY <1>2, <1>4, <1>6, FriendsAssumption DEF Least
    <2> QED
        BY <1>3, <2>1, FriendsAssumption
<1> QED
    BY <1>5, <1>6

-----------------------------------------------------------------------------
(* The initial states, and the types.                                       *)

LEMMA InvInit == Init => IInv
<1> SUFFICES ASSUME Init PROVE IInv
    OBVIOUS
<1> USE DEF Init
<1>1. TypeOK
    <2>1. friends \in [next : Int, xuids : SUBSET People, refreshing : BOOLEAN, failures : Nat]
        OBVIOUS
    <2>2. /\ pc \in [Calls -> {"out", "called", "query", "list", "end", "store", "release"}]
          /\ now \in [Calls -> Nat] /\ can \in [Calls -> BOOLEAN]
          /\ awaits \in [Calls -> Calls \cup {Nil}]
        OBVIOUS
    <2>3. /\ last \in [end : Nat \cup {Nil}, failed : Nat]
          /\ current \in [query : SUBSET People, snapshot : SUBSET People]
        OBVIOUS
    <2>4. ok \in BOOLEAN
        OBVIOUS
    <2> QED
        BY <2>1, <2>2, <2>3, <2>4 DEF TypeOK
<1>2. OneRefresh /\ Stamps /\ Collected /\ OnlyFriends
    BY DEF OneRefresh, Refreshing, Stamps, Collected, OnlyFriends
<1>3. Timed
    BY DEF Timed
<1> QED
    BY <1>1, <1>2, <1>3 DEF IInv

LEMMA TypeNext == TypeOK /\ [Next]_vars => TypeOK'
<1> SUFFICES ASSUME TypeOK, [Next]_vars PROVE TypeOK'
    OBVIOUS
<1> USE DEF TypeOK
<1>1. CASE Tick
    BY <1>1 DEF Tick, steam, calls, fetched
<1>2. CASE SteamChanges
    <2>1. list' \in Lists /\ readable' \in BOOLEAN /\ changes' \in Nat
        <3>1. CASE list' \in Lists \ {list} /\ UNCHANGED readable
            BY <1>2, <3>1 DEF SteamChanges
        <3>2. CASE readable' = ~readable /\ UNCHANGED list
            <4>1. readable' \in BOOLEAN
                BY <3>2
            <4> QED
                BY <1>2, <3>2, <4>1 DEF SteamChanges
        <3> QED
            BY <1>2, <3>1, <3>2 DEF SteamChanges
    <2>2. Members(list') \subseteq People
        BY <2>1, MembersArePeople
    <2>3. current' \in [query : SUBSET People, snapshot : SUBSET People]
        BY <1>2, <2>2 DEF SteamChanges
    <2> QED
        BY <1>2, <2>1, <2>3 DEF SteamChanges, calls, fetched
<1>3. ASSUME NEW c \in Calls, Called(c), UNCHANGED awaits PROVE TypeOK'
    BY <1>3 DEF Called, Goto, steam, fetched
<1>4. ASSUME NEW c \in Calls, NEW d \in Calls, CalledBack(c, d) PROVE TypeOK'
    BY <1>4 DEF CalledBack, Called, Goto, steam, fetched
<1>5. ASSUME NEW c \in Calls, NEW d \in Calls, SteamWaits(c, d) PROVE TypeOK'
    BY <1>5 DEF SteamWaits, steam, fetched
<1>6. ASSUME NEW c \in Calls, Step(c) PROVE TypeOK'
    <2>1. CASE Answer(c)
        BY <1>6, <2>1 DEF Answer, Return, Goto, steam, fetched
    <2>2. CASE Refresh(c)
        BY <1>6, <2>2 DEF Refresh, Goto, steam, fetched
    <2>3. CASE Query(c)
        <3>1. Members(list) \subseteq People /\ Len(list) \in Nat
            BY MembersArePeople, ListsAreSequences
        <3>2. count' \in Nat /\ got' = {} /\ at' = 0
            BY <2>3, <3>1 DEF Query
        <3>3. ok' \in BOOLEAN
            BY <2>3 DEF Query
        <3>4. pc' \in [Calls -> {"out", "called", "query", "list", "end", "store", "release"}]
            BY <2>3 DEF Query, Goto
        <3>5. current' \in [query : SUBSET People, snapshot : SUBSET People]
            BY <2>3, <3>1 DEF Query
        <3>6. UNCHANGED <<friends, clock, list, readable, changes, now, can, awaits,
                          completed, last>>
            BY <2>3 DEF Query, steam
        <3> QED
            BY <3>2, <3>3, <3>4, <3>5, <3>6
    <2>4. CASE Entry(c)
        <3>1. (IF at < Len(list) THEN {list[at + 1]} ELSE {}) \subseteq People
            BY MembersArePeople
        <3> QED
            BY <1>6, <2>4, <3>1 DEF Entry, steam, calls
    <2>5. CASE End(c)
        BY <1>6, <2>5 DEF End, Goto, steam
    <2>6. CASE Store(c)
        <3>1. NextQuery(c) \in Int
            BY <1>6, DelayIsLongEnough, FriendsAssumption, SMTT(20) DEF NextQuery, Most
        <3>2. friends' \in [next : Int, xuids : SUBSET People,
                            refreshing : BOOLEAN, failures : Nat]
            <4>1. (IF ok THEN got ELSE friends.xuids) \subseteq People
                OBVIOUS
            <4>2. (IF ok THEN 0 ELSE friends.failures + 1) \in Nat
                OBVIOUS
            <4> QED
                BY <2>6, <3>1, <4>1, <4>2 DEF Store
        <3>3. current' \in [query : SUBSET People, snapshot : SUBSET People]
            <4>1. (IF ok THEN current.query ELSE current.snapshot) \subseteq People
                OBVIOUS
            <4> QED
                BY <2>6, <4>1 DEF Store
        <3>4. pc' \in [Calls -> {"out", "called", "query", "list", "end", "store", "release"}]
            BY <2>6 DEF Store, Goto
        <3> QED
            BY <2>6, <3>2, <3>3, <3>4 DEF Store, steam, fetched
    <2>7. CASE Release(c)
        BY <1>6, <2>7 DEF Release, Return, Goto, steam
    <2> QED
        BY <1>6, <2>1, <2>2, <2>3, <2>4, <2>5, <2>6, <2>7 DEF Step
<1>7. CASE UNCHANGED vars
    BY <1>7 DEF vars, steam, calls, fetched
<1> QED
    BY <1>1, <1>2, <1>3, <1>4, <1>5, <1>6, <1>7 DEF Next, Call

-----------------------------------------------------------------------------
(* The other parts of the invariant.                                        *)

LEMMA OneRefreshNext == TypeOK /\ OneRefresh /\ [Next]_vars => OneRefresh'
<1> SUFFICES ASSUME TypeOK, OneRefresh, [Next]_vars PROVE OneRefresh'
    OBVIOUS
<1> USE DEF OneRefresh, Refreshing
<1>1. CASE UNCHANGED <<pc, friends>>
    BY <1>1
<1>2. ASSUME NEW c \in Calls, Called(c) PROVE OneRefresh'
    <2>1. /\ friends' = friends /\ pc' = [pc EXCEPT ![c] = "called"]
        BY <1>2 DEF Called, Goto
    <2> QED
        BY <2>1 DEF TypeOK
<1>3. ASSUME NEW c \in Calls, Step(c) PROVE OneRefresh'
    <2>1. CASE Answer(c)
        BY <1>3, <2>1 DEF Answer, Return, Goto, TypeOK
    <2>2. CASE Refresh(c)
        <3>1. \A d \in Calls : ~Refreshing(d)
            BY <2>2 DEF Refresh, Eligible
        <3>2. friends'.refreshing = TRUE /\ pc' = [pc EXCEPT ![c] = "query"]
            BY <2>2 DEF Refresh, Goto, TypeOK
        <3> QED
            BY <3>1, <3>2 DEF TypeOK
    <2>3. CASE Query(c) \/ End(c) \/ Store(c) \/ Entry(c)
        <3>1. Refreshing(c) /\ friends'.refreshing = friends.refreshing
            BY <2>3 DEF Query, End, Store, Entry, TypeOK
        <3>2. \A d \in Calls : d # c => pc'[d] = pc[d]
            BY <2>3 DEF Query, End, Store, Entry, Goto, calls, TypeOK
        <3> QED
            BY <3>1, <3>2
    <2>4. CASE Release(c)
        <3>1. Refreshing(c) /\ pc' = [pc EXCEPT ![c] = "out"]
            BY <2>4 DEF Release, Return, Goto
        <3> QED
            BY <3>1 DEF TypeOK
    <2> QED
        BY <1>3, <2>1, <2>2, <2>3, <2>4 DEF Step
<1> QED
    BY <1>1, <1>2, <1>3 DEF Next, Call, CalledBack, SteamWaits, Tick, SteamChanges, calls, vars

LEMMA StampsNext == TypeOK /\ Stamps /\ [Next]_vars => Stamps'
<1> SUFFICES ASSUME TypeOK, Stamps, [Next]_vars PROVE Stamps'
    OBVIOUS
<1> USE DEF Stamps, TypeOK
<1>1. CASE UNCHANGED <<now, clock>>
    BY <1>1
<1>2. CASE Tick
    BY <1>2 DEF Tick, calls
<1>3. ASSUME NEW c \in Calls, Called(c) PROVE Stamps'
    BY <1>3 DEF Called
<1>4. ASSUME NEW c \in Calls, Return(c), UNCHANGED clock PROVE Stamps'
    BY <1>4 DEF Return
<1> QED
    BY <1>1, <1>2, <1>3, <1>4 DEF Next, Call, CalledBack, SteamWaits, SteamChanges, Step, Answer,
       Refresh, Query, Entry, End, Store, Release, calls, vars

\* The list changes, and is read entry by entry, while the query lasts.
LEMMA CollectedNext ==
    TypeOK /\ OneRefresh /\ Collected /\ [Next]_vars => Collected'
<1> SUFFICES ASSUME TypeOK, OneRefresh, Collected, [Next]_vars PROVE Collected'
    OBVIOUS
<1> USE DEF Collected
<1>1. CASE UNCHANGED <<pc, list, got, current>>
    BY <1>1 DEF Members
<1>2. CASE SteamChanges
    <2>1. /\ pc' = pc /\ got' = got
          /\ current'.query = IF \E c \in Calls : pc[c] = "list"
                                THEN current.query \cup Members(list') ELSE current.query
        BY <1>2 DEF SteamChanges, calls, fetched, TypeOK
    <2>2. Members(list)' = Members(list')
        BY DEF Members
    <2> QED
        BY <2>1, <2>2
<1>3. ASSUME NEW c \in Calls, UNCHANGED <<list, got, current>>,
             \A d \in Calls : pc'[d] # pc[d] => pc'[d] \in {"out", "called", "query"}
      PROVE  Collected'
    BY <1>3 DEF Members
<1>4. ASSUME NEW c \in Calls, Called(c) PROVE Collected'
    <2>1. \A d \in Calls : pc'[d] # pc[d] => pc'[d] = "called"
        BY <1>4 DEF Called, Goto, TypeOK
    <2> QED
        BY <1>3, <1>4, <2>1 DEF Called, steam, fetched
<1>5. ASSUME NEW c \in Calls, Step(c) PROVE Collected'
    <2>1. CASE Answer(c) \/ Refresh(c)
        <3>1. \A d \in Calls : pc'[d] # pc[d] => pc'[d] \in {"out", "query"}
            BY <2>1 DEF Answer, Refresh, Return, Goto, TypeOK
        <3> QED
            BY <1>3, <2>1, <3>1 DEF Answer, Refresh, steam, fetched
    <2>2. CASE Query(c)
        <3>1. got' = {} /\ list' = list /\ current'.query = Members(list)
            BY <2>2 DEF Query, steam, TypeOK
        <3> QED
            BY <3>1 DEF Members
    <2>3. CASE Entry(c)
        <3>1. pc' = pc /\ list' = list /\ current' = current /\ pc[c] = "list"
            BY <2>3 DEF Entry, calls, steam
        <3>2. got' \subseteq current.query
            <4>1. (IF at < Len(list) THEN {list[at + 1]} ELSE {}) \subseteq Members(list)
                BY MembersArePeople DEF TypeOK
            <4>2. Members(list) \subseteq current.query /\ got \subseteq current.query
                BY <3>1
            <4> QED
                BY <2>3, <4>1, <4>2 DEF Entry
        <3> QED
            BY <3>1, <3>2 DEF Members
    <2>4. CASE End(c)
        <3>1. /\ pc' = [pc EXCEPT ![c] = "store"] /\ pc[c] \in {"list", "end"}
              /\ UNCHANGED <<list, got, current>>
            BY <2>4 DEF End, Goto, steam
        <3> QED
            BY <3>1 DEF Members, TypeOK
    <2>5. CASE Store(c)
        <3>1. /\ pc' = [pc EXCEPT ![c] = "release"] /\ UNCHANGED <<list, got>>
              /\ current'.query = current.query
            BY <2>5 DEF Store, Goto, steam, fetched, TypeOK
        <3> QED
            BY <3>1 DEF Members, TypeOK
    <2>6. CASE Release(c)
        <3>1. Refreshing(c) /\ pc' = [pc EXCEPT ![c] = "out"]
            BY <2>6 DEF Release, Return, Goto, Refreshing
        <3>2. \A d \in Calls : pc'[d] \notin {"list", "end", "store"}
            BY <3>1 DEF OneRefresh, Refreshing, TypeOK
        <3> QED
            BY <3>2
    <2> QED
        BY <1>5, <2>1, <2>2, <2>3, <2>4, <2>5, <2>6 DEF Step
<1> QED
    BY <1>1, <1>2, <1>4, <1>5
    DEF Next, Call, CalledBack, SteamWaits, Tick, calls, fetched, steam, vars

LEMMA TimedNext ==
    TypeOK /\ OneRefresh /\ Timed /\ [Next]_vars => Timed'
<1> SUFFICES ASSUME TypeOK, OneRefresh, Timed, [Next]_vars PROVE Timed'
    OBVIOUS
<1> USE DEF Timed
<1>1. ASSUME UNCHANGED <<completed, ok, last>>, friends'.next = friends.next,
             friends'.failures = friends.failures,
             \A d \in Calls : (pc'[d] = "store") <=> (pc[d] = "store")
      PROVE  Timed'
    BY <1>1 DEF Due
<1>2. CASE SteamChanges \/ Tick \/ UNCHANGED vars \/ \E c, d \in Calls : SteamWaits(c, d)
    BY <1>1, <1>2 DEF SteamChanges, Tick, SteamWaits, calls, fetched, vars
<1>3. ASSUME NEW c \in Calls, Called(c) PROVE Timed'
    <2>1. \A d \in Calls : (pc'[d] = "store") <=> (pc[d] = "store")
        BY <1>3 DEF Called, Goto, TypeOK
    <2> QED
        BY <1>1, <1>3, <2>1 DEF Called, fetched
<1>4. ASSUME NEW c \in Calls, Step(c) PROVE Timed'
    <2>1. CASE Answer(c) \/ Refresh(c)
        <3>1. \A d \in Calls : (pc'[d] = "store") <=> (pc[d] = "store")
            BY <2>1 DEF Answer, Refresh, Return, Goto, TypeOK
        <3>2. friends'.next = friends.next /\ friends'.failures = friends.failures
            BY <2>1 DEF Answer, Refresh, TypeOK
        <3> QED
            BY <1>1, <2>1, <3>1, <3>2 DEF Answer, Refresh, fetched
    <2>2. CASE Query(c)
        <3>1. \A d \in Calls : pc[d] # "store" /\ pc'[d] # "store"
            BY <2>2 DEF Query, Goto, OneRefresh, Refreshing, TypeOK
        <3> QED
            BY <2>2, <3>1 DEF Query, Due
    <2>3. CASE Entry(c)
        BY <1>1, <2>3 DEF Entry, calls
    <2>4. CASE End(c)
        <3>1. /\ Refreshing(c) /\ pc[c] # "store"
              /\ pc' = [pc EXCEPT ![c] = "store"]
              /\ completed' = clock /\ UNCHANGED <<friends, ok>>
              /\ last' = [end |-> clock, failed |-> IF ok THEN 0 ELSE last.failed + 1]
            BY <2>4 DEF End, Goto, Refreshing
        <3>2. last.failed = friends.failures
            BY <3>1 DEF OneRefresh, Refreshing
        <3>3. /\ completed' = last'.end
              /\ ok' => last'.failed = 0
              /\ ~ok' => last'.failed = friends'.failures + 1
            BY <3>1, <3>2
        <3>4. pc'[c] = "store"
            BY <3>1 DEF TypeOK
        <3> QED
            BY <3>3, <3>4
    <2>5. CASE Store(c)
        <3>1. /\ completed = last.end
              /\ ok => last.failed = 0
              /\ ~ok => last.failed = friends.failures + 1
            BY <2>5 DEF Store
        <3>2. /\ pc' = [pc EXCEPT ![c] = "release"] /\ last' = last
              /\ friends'.next = NextQuery(c)
              /\ friends'.failures = IF ok THEN 0 ELSE friends.failures + 1
            BY <2>5 DEF Store, Goto, TypeOK
        <3>3. \A d \in Calls : pc'[d] # "store"
            BY <2>5, <3>2 DEF Store, OneRefresh, Refreshing, TypeOK
        <3>4. Due' = Due
            BY <3>2 DEF Due
        <3>5. NextQuery(c) >= Due
            <4>1. CASE ok
                BY <3>1, <4>1, FriendsAssumption DEF NextQuery, Due, TypeOK
            <4>2. CASE ~ok
                <5>1. last.failed # 0 /\ last.failed - 1 = friends.failures
                    BY <3>1, <4>2 DEF TypeOK
                <5>2. Due = completed + Least(Base * 2 ^ friends.failures, Longest)
                    BY <3>1, <5>1 DEF Due
                <5>3. Most(completed, now[c]) \in Nat /\ Most(completed, now[c]) >= completed
                    BY DEF Most, TypeOK
                <5>4. NextQuery(c) = Most(completed, now[c]) + Delay(friends.failures + 1)
                    BY <4>2 DEF NextQuery
                <5>5. /\ Delay(friends.failures + 1) \in Int
                      /\ Least(Base * 2 ^ friends.failures, Longest) \in Int
                      /\ Delay(friends.failures + 1) >= Least(Base * 2 ^ friends.failures, Longest)
                    BY DelayIsLongEnough DEF TypeOK
                <5>6. completed \in Nat
                    BY DEF TypeOK
                <5> QED
                    BY <5>2, <5>3, <5>4, <5>5, <5>6
            <4> QED
                BY <4>1, <4>2
        <3> QED
            BY <3>1, <3>2, <3>3, <3>4, <3>5
    <2>6. CASE Release(c)
        <3>1. /\ pc[c] = "release" /\ pc' = [pc EXCEPT ![c] = "out"] /\ last' = last
              /\ friends'.next = friends.next /\ friends'.failures = friends.failures
            BY <2>6 DEF Release, Return, Goto, TypeOK
        <3>2. \A d \in Calls : pc[d] # "store" /\ pc'[d] # "store"
            BY <3>1 DEF OneRefresh, Refreshing, TypeOK
        <3> QED
            BY <3>1, <3>2 DEF Due
    <2> QED
        BY <1>4, <2>1, <2>2, <2>3, <2>4, <2>5, <2>6 DEF Step
<1> QED
    BY <1>2, <1>3, <1>4 DEF Next, Call, CalledBack

LEMMA OnlyFriendsNext ==
    TypeOK /\ Collected /\ OnlyFriends /\ [Next]_vars => OnlyFriends'
<1> SUFFICES ASSUME TypeOK, Collected, OnlyFriends, [Next]_vars PROVE OnlyFriends'
    OBVIOUS
<1> USE DEF OnlyFriends
<1>1. ASSUME friends'.xuids = friends.xuids, current'.snapshot = current.snapshot
      PROVE  OnlyFriends'
    BY <1>1
<1>2. ASSUME NEW c \in Calls, Store(c) PROVE OnlyFriends'
    <2>1. /\ friends'.xuids = (IF ok THEN got ELSE friends.xuids)
          /\ current'.snapshot = (IF ok THEN current.query ELSE current.snapshot)
        BY <1>2 DEF Store, TypeOK
    <2>2. got \subseteq current.query
        BY <1>2 DEF Store, Collected
    <2> QED
        BY <2>1, <2>2
<1>3. ASSUME NEW c \in Calls, Step(c), ~Store(c) PROVE OnlyFriends'
    <2>1. friends'.xuids = friends.xuids
        BY <1>3 DEF Step, Answer, Refresh, Query, Entry, End, Release, TypeOK
    <2>2. current'.snapshot = current.snapshot
        BY <1>3 DEF Step, Answer, Refresh, Query, Entry, End, Release, TypeOK
    <2> QED
        BY <1>1, <2>1, <2>2
<1>4. CASE SteamChanges
    BY <1>1, <1>4 DEF SteamChanges, TypeOK
<1>5. CASE Tick \/ UNCHANGED vars
    BY <1>1, <1>5 DEF Tick, vars
<1>6. ASSUME NEW c \in Calls, NEW d \in Calls, Call(c) \/ CalledBack(c, d) \/ SteamWaits(c, d)
      PROVE  OnlyFriends'
    BY <1>1, <1>6 DEF Call, CalledBack, SteamWaits, Called
<1> QED
    BY <1>2, <1>3, <1>4, <1>5, <1>6 DEF Next

-----------------------------------------------------------------------------
(* The theorems.                                                            *)

\* At most one call refreshes, with the flag set; what it collects were friends
\* while it ran; the cache's next query is never before the interval is over.
THEOREM FriendsInvariant == Spec => []IInv
<1>1. IInv /\ [Next]_vars => IInv'
    BY TypeNext, OneRefreshNext, StampsNext, CollectedNext, TimedNext, OnlyFriendsNext DEF IInv
<1> QED
    BY InvInit, <1>1, PTL DEF Spec

\* Every variable of the cache keeps its type (protection.rs:23-39).
THEOREM FriendsTypes == Spec => []TypeOK
<1>1. IInv => TypeOK
    BY DEF IInv
<1> QED
    BY <1>1, FriendsInvariant, PTL

\* Whoever is accepted was a friend during the query of the snapshot, for any
\* list that changes during any queries of any number of calls.
THEOREM AcceptedAreFriends == Spec => []OnlyFriends
<1>1. IInv => OnlyFriends
    BY DEF IInv
<1> QED
    BY <1>1, FriendsInvariant, PTL

\* Steam is asked by one call at a time, and never before the interval of the
\* last query's end and outcome is over.
THEOREM SteamIsSpared == Spec => QueriesSpaced
<1> DEFINE Spaced == \A c \in Calls : pc[c] # "query" /\ pc'[c] = "query" =>
                         /\ last.end # Nil => clock >= Due
                         /\ \A d \in Calls \ {c} : pc[d] \in {"out", "called"}
<1>1. IInv /\ [Next]_vars => Spaced
    <2> SUFFICES ASSUME IInv, [Next]_vars, NEW c \in Calls, pc[c] # "query", pc'[c] = "query"
                 PROVE  /\ last.end # Nil => clock >= Due
                        /\ \A d \in Calls \ {c} : pc[d] \in {"out", "called"}
        OBVIOUS
    <2>1. TypeOK /\ OneRefresh /\ Stamps /\ Timed
        BY DEF IInv
    <2>2. \E d \in Calls : Refresh(d) /\ pc'[d] = "query" /\ d = c
        <3>1. PICK d \in Calls : Called(d) \/ Step(d)
            BY <2>1 DEF Next, Call, CalledBack, SteamWaits, Tick, SteamChanges, calls, vars
        <3>2. ~Called(d)
            BY <2>1 DEF Called, Goto, TypeOK
        <3>3. Refresh(d) /\ d = c
            BY <2>1, <3>1, <3>2 DEF Step, Answer, Refresh, Query, Entry, End, Store, Release,
               Return, Goto, calls, TypeOK
        <3> QED
            BY <3>3
    <2>3. ~friends.refreshing /\ now[c] >= friends.next
        BY <2>2 DEF Refresh, Eligible
    <2>4. \A d \in Calls : pc[d] \in {"out", "called"}
        BY <2>1, <2>3 DEF OneRefresh, Refreshing, TypeOK
    <2>5. last.end # Nil => friends.next >= Due
        BY <2>1, <2>4 DEF Timed
    <2>6. ASSUME last.end # Nil PROVE clock >= Due
        <3>1. Due \in Int
            <4>1. last.end \in Nat /\ last.failed \in Nat
                BY <2>1, <2>6 DEF TypeOK
            <4>2. CASE last.failed = 0
                BY <4>1, <4>2, FriendsAssumption DEF Due
            <4>3. CASE last.failed # 0
                <5>1. last.failed - 1 \in Nat
                    BY <4>1, <4>3
                <5>2. Least(Base * 2 ^ (last.failed - 1), Longest) \in Int
                    BY <5>1, DelayIsLongEnough
                <5> QED
                    BY <4>1, <4>3, <5>2 DEF Due
            <4> QED
                BY <4>2, <4>3
        <3>2. clock >= now[c] /\ clock \in Nat /\ now[c] \in Nat /\ friends.next \in Int
            BY <2>1 DEF Stamps, TypeOK
        <3> QED
            BY <2>3, <2>5, <2>6, <3>1, <3>2
    <2> QED
        BY <2>4, <2>6
<1>2. QueriesSpaced <=> [][Spaced]_vars
    BY DEF QueriesSpaced
<1> QED
    BY FriendsInvariant, <1>1, <1>2, PTL DEF Spec
=============================================================================
