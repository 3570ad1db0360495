--------------------------- MODULE MessageProofs ----------------------------
(***************************************************************************)
(* Proofs about two of the DLL's modules that share no state:              *)
(* MessageInspection (with ReaderLayout) and ConfigWatch.                  *)
(*                                                                         *)
(* MessageInspection: for integers of any width, any descriptors and any   *)
(* inspectors, what passes the arithmetic of reader_layout is what the     *)
(* exact arithmetic calls sound, and nothing else reaches the game's       *)
(* readers.  What is let through is exactly what is in order: the          *)
(* instructions that an inspector has left read, in every state, what      *)
(* after the log makes the message one that is in order (InspectionInv).   *)
(*                                                                         *)
(* ConfigWatch: the name and its copies change under one lock, the two     *)
(* passwords and their time under another; what a message has copied was   *)
(* current when it did, or when it was replaced.                           *)
(***************************************************************************)
EXTENDS MessageInspection, ConfigWatch, SequenceTheorems, TLAPS

\* A sum that does not overflow is exact.
LEMMA AddedIsExact ==
    ASSUME NEW a \in Nat, NEW b \in Nat, NEW top \in Nat, ~Overflows(a, b, top)
    PROVE  Added(a, b, top) = a + b
<1>1. a + b < top + 1
    BY DEF Overflows
<1>2. ASSUME NEW x \in Nat, NEW y \in Nat, x < y PROVE x % y = x
    BY <1>2
<1> QED
    BY <1>1, <1>2 DEF Added

LEMMA TotalIsExact ==
    ASSUME NEW m \in Msg, ~Faulty(m)
    PROVE  Total(m) = m.cur + m.split /\ Total(m) <= IMax
<1>1. m.cur \in Nat /\ m.split \in Nat /\ ~Overflows(m.cur, m.split, UMax)
    BY WidthAssumption DEF Msg, Faulty, TotalTooLong
<1>2. Total(m) = m.cur + m.split
    BY <1>1, AddedIsExact, WidthAssumption DEF Total
<1>3. Total(m) \in Nat /\ ~(Total(m) > IMax)
    BY <1>1, <1>2 DEF Faulty, TotalTooLong
<1> QED
    BY <1>2, <1>3, WidthAssumption

\* What reader_layout (packets.rs:16) lets through is sound: every byte of the
\* message has an address, and no length the game computes wraps or is negative.
THEOREM LayoutIsSound ==
    ASSUME NEW m \in Msg, ~Faulty(m)
    PROVE  Sound(m)
<1> DEFINE total == m.cur + m.split
<1>1. /\ m.cur \in Nat /\ m.split \in Nat /\ m.read \in Nat /\ m.bit \in Int
      /\ m.data \in Nat /\ m.splitData \in Nat
    BY WidthAssumption DEF Msg
<1>2. Total(m) = total /\ total <= IMax
    BY TotalIsExact
<1>3. /\ m.read <= total /\ m.bit >= 0 /\ m.bit <= total * 8
      /\ m.data + m.cur <= AddressMax /\ m.splitData + m.split <= AddressMax
      /\ m.cur # 0 => m.data # 0
      /\ m.split # 0 => m.splitData # 0
    <2>1. m.read <= total
        BY <1>1, <1>2 DEF Faulty
    <2>2. m.bit >= 0 /\ m.bit <= total * 8
        BY <1>1, <1>2 DEF Faulty
    <2>3. m.data + m.cur <= AddressMax /\ m.splitData + m.split <= AddressMax
        BY <1>1, WidthAssumption DEF Faulty, Overflows
    <2>4. (m.cur # 0 => m.data # 0) /\ (m.split # 0 => m.splitData # 0)
        BY DEF Faulty, NoBuffer
    <2> QED
        BY <2>1, <2>2, <2>3, <2>4
<1>4. Remaining(m) = total - m.read
    BY <1>2 DEF Remaining
<1>5. m.bit \in 0..8 * total
    BY <1>1, <1>3
<1>6. ASSUME NEW i \in 0..total - 1
      PROVE  Address(m, i) \in 1..AddressMax
    <2>1. CASE i < m.cur
        <3>0. i \in Nat
            BY <1>1, <1>6
        <3>1. m.cur # 0 /\ m.data >= 1
            BY <1>1, <1>3, <2>1, <3>0
        <3>2. m.data + i <= AddressMax
            BY <1>1, <1>3, <2>1, <3>0, WidthAssumption
        <3> QED
            BY <1>1, <2>1, <3>0, <3>1, <3>2, WidthAssumption DEF Address
    <2>2. CASE ~(i < m.cur)
        <3>0. i \in Nat /\ i - m.cur \in 0..m.split - 1
            BY <1>1, <1>6, <2>2
        <3>1. m.split # 0 /\ m.splitData >= 1
            BY <1>1, <1>3, <3>0
        <3>2. m.splitData + (i - m.cur) <= AddressMax
            BY <1>1, <1>3, <3>0, WidthAssumption
        <3> QED
            BY <1>1, <2>2, <3>0, <3>1, <3>2, WidthAssumption DEF Address
    <2> QED
        BY <2>1, <2>2
<1> QED
    BY <1>2, <1>3, <1>4, <1>5, <1>6 DEF Sound

-----------------------------------------------------------------------------

\* Where a message is, its descriptor has passed the checks of that route.
Passed ==
    /\ input \in Inputs
    /\ place \notin {"start", "unseen", "rejected", "dropped"} => ~Faulty(input.msg)
    /\ \/ place \in {"pending", "delivered", "answered"}
       \/ place = "inspect" /\ input.route = "instant"
       => Remaining(input.msg) < Buffer

LEMMA PassedInit == Init => Passed
    BY DEF Init, Passed

LEMMA PassedNext == Passed /\ [Next]_vars => Passed'
<1> SUFFICES ASSUME Passed, [Next]_vars PROVE Passed'
    OBVIOUS
<1> USE DEF Passed
<1>0. ASSUME UNCHANGED <<input, place>> PROVE Passed'
    BY <1>0
<1>1. CASE InspectLobby
    <2>1. input' = input /\ input.route = "lobby"
        BY <1>1 DEF InspectLobby
    <2>2. \/ place' \in {"unseen", "rejected"}
          \/ place' \in {"inspect", "unchanged"} /\ ~Faulty(input.msg)
        BY <1>1 DEF InspectLobby, Becomes, Inspect, Valid
    <2> QED
        BY <2>1, <2>2
<1>2. CASE InstantMessage
    <2>1. input' = input
        BY <1>2 DEF InstantMessage
    <2>2. \/ place' = "dropped"
          \/ place' \in {"pending", "delivered"} /\ Instant(input)
        BY <1>2 DEF InstantMessage, Becomes
    <2>3. Instant(input) => ~Faulty(input.msg) /\ Remaining(input.msg) < Buffer
        BY DEF Instant
    <2> QED
        BY <2>1, <2>2, <2>3
<1>3. CASE CheckPendingInfo
    <2>1. input' = input /\ place = "pending" /\ place' \in {"dropped", "inspect", "delivered"}
        BY <1>3 DEF CheckPendingInfo, Becomes, Inspect
    <2> QED
        BY <2>1
<1>4. CASE Finish
    <2>1. input' = input /\ place = "inspect"
        BY <1>4 DEF Finish
    <2>2. \/ place' \in {"rejected", "dropped"}
          \/ place' = "accepted"
          \/ place' = "answered" /\ input.route = "instant"
        BY <1>4, InputsAssumption DEF Finish
    <2> QED
        BY <2>1, <2>2
<1>5. CASE Exhaust
    BY <1>0, <1>5 DEF Exhaust
<1>6. CASE \/ ReadFields \/ ReadFault \/ ReadCount \/ ReadModes \/ BranchOnModes
           \/ ReadSize \/ ReadValid \/ ReadElement
    <2>1. Keep
        BY <1>6 DEF ReadFields, ReadFault, ReadCount, ReadModes, BranchOnModes, ReadSize,
                    ReadValid, ReadElement
    <2> QED
        BY <1>0, <2>1 DEF Keep
<1>7. CASE UNCHANGED vars
    BY <1>0, <1>7 DEF vars
<1> QED
    BY <1>1, <1>2, <1>3, <1>4, <1>5, <1>6, <1>7 DEF Next

\* The game's readers get only descriptors from which they cannot leave the
\* buffers, and only what fits the buffer it is copied to, whatever a message
\* contains and wherever it ends.
THEOREM ReadersAreInside == Spec => []ReadersStayInside
<1>1. Passed => ReadersStayInside
    <2> SUFFICES ASSUME Passed PROVE ReadersStayInside
        OBVIOUS
    <2>1. input.msg \in Msg
        BY InputsAssumption DEF Passed
    <2>2. ~Faulty(input.msg) => Sound(input.msg)
        BY <2>1, LayoutIsSound
    <2> QED
        BY <2>2 DEF Passed, ReadersStayInside
<1> QED
    BY <1>1, PassedInit, PassedNext, PTL DEF Spec

-----------------------------------------------------------------------------
(* The inspections are exact.  A log is a sequence of numbers: an inspector  *)
(* reads no fault and nothing negative as long as it goes on.                *)

Logs == Seq(Nat)

LEMMA ConsIsInjective ==
    ASSUME NEW S, NEW x \in S, NEW y \in S, NEW s \in Seq(S), NEW t \in Seq(S),
           <<x>> \o s = <<y>> \o t
    PROVE  x = y /\ s = t
<1>1. <<x>> \in Seq(S) /\ <<y>> \in Seq(S) /\ Len(<<x>>) = 1 /\ Len(<<y>>) = 1
    OBVIOUS
<1>2. Len(s) = Len(t)
    <2>1. Len(<<x>> \o s) = 1 + Len(s)
        BY <1>1, ConcatProperties
    <2>2. Len(<<y>> \o t) = 1 + Len(t)
        BY <1>1, ConcatProperties
    <2>3. Len(s) \in Nat /\ Len(t) \in Nat
        BY LenProperties
    <2> QED
        BY <2>1, <2>2, <2>3
<1>3. Len(s) \in Nat /\ Len(t) \in Nat
    BY LenProperties
<1>4. \A i \in 1..1 + Len(s) : (<<x>> \o s)[i] = IF i <= 1 THEN x ELSE s[i - 1]
    BY <1>1, ConcatProperties
<1>5. \A i \in 1..1 + Len(t) : (<<y>> \o t)[i] = IF i <= 1 THEN y ELSE t[i - 1]
    BY <1>1, ConcatProperties
<1>6. x = y
    BY <1>2, <1>3, <1>4, <1>5
<1>7. ASSUME NEW i \in 1..Len(s) PROVE s[i] = t[i]
    <2>1. i + 1 \in 1..1 + Len(s) /\ ~(i + 1 <= 1) /\ (i + 1) - 1 = i
        BY <1>3
    <2> QED
        BY <1>2, <1>4, <1>5, <2>1
<1> QED
    BY <1>2, <1>6, <1>7, SeqEqual

\* Concatenation and its facts that are needed, for logs.
Cat(a, b)  == a \o b

LEMMA CatType ==
    ASSUME NEW a \in Logs, NEW b \in Logs
    PROVE  Cat(a, b) \in Logs
BY ConcatProperties DEF Cat, Logs

LEMMA CatAgain ==
    ASSUME NEW a \in Logs, NEW b \in Logs, NEW c \in Logs
    PROVE  Cat(Cat(a, b), c) = Cat(a, Cat(b, c))
BY ConcatAssociative, SMTT(30) DEF Cat, Logs

LEMMA CatNothing ==
    ASSUME NEW a \in Logs
    PROVE  Cat(a, <<>>) = a /\ Cat(<<>>, a) = a
BY ConcatEmptySeq DEF Cat, Logs

LEMMA Singles ==
    ASSUME NEW x \in Nat
    PROVE  <<x>> \in Logs
BY DEF Logs

LEMMA ConsIsCat ==
    ASSUME NEW x, NEW t
    PROVE  Cons(x, t) = Cat(<<x>>, t)
BY DEF Cons, Cat

LEMMA ConsType ==
    ASSUME NEW x \in Nat, NEW t \in Logs
    PROVE  Cons(x, t) \in Logs
<1>1. <<x>> \in Logs
    BY Singles
<1> QED
    BY <1>1, CatType, ConsIsCat

LEMMA ConsEqual ==
    ASSUME NEW x \in Nat, NEW y \in Nat, NEW s \in Logs, NEW t \in Logs,
           Cons(x, s) = Cons(y, t)
    PROVE  x = y /\ s = t
BY ConsIsInjective DEF Logs, Cons

LEMMA ConsCat ==
    ASSUME NEW x \in Nat, NEW s \in Logs, NEW t \in Logs
    PROVE  Cat(Cons(x, s), t) = Cons(x, Cat(s, t))
<1>1. <<x>> \in Logs
    BY Singles
<1>2. Cat(Cat(<<x>>, s), t) = Cat(<<x>>, Cat(s, t))
    BY <1>1, CatAgain
<1> QED
    BY <1>2, ConsIsCat

LEMMA ElementsAreNumbers ==
    ASSUME NEW k \in Nat
    PROVE  Elements(k) \in Logs
<1>1. Element \in Nat /\ <<End>> \in Logs
    BY DEF Element, End, Logs
<1>2. [i \in 1..k |-> Element] \in Logs
    BY <1>1 DEF Logs
<1> QED
    BY <1>1, <1>2, ConcatProperties DEF Elements, Logs

LEMMA NoElements == Elements(0) = <<End>>
<1>1. <<End>> \in Logs
    BY DEF End, Logs
<1>2. [i \in 1..0 |-> Element] = <<>>
    OBVIOUS
<1> QED
    BY <1>1, <1>2, ConcatEmptySeq DEF Elements, Logs

LEMMA OneMoreElement ==
    ASSUME NEW k \in Nat, k > 0
    PROVE  Elements(k) = Cons(Element, Elements(k - 1))
<1> DEFINE few  == [i \in 1..k - 1 |-> Element]
           many == [i \in 1..k |-> Element]
<1>1. Element \in Nat /\ <<End>> \in Logs /\ <<Element>> \in Logs /\ Len(<<Element>>) = 1
    BY DEF Element, End, Logs
<1>2. few \in Logs /\ many \in Logs /\ Len(few) = k - 1 /\ Len(many) = k
    BY <1>1 DEF Logs
<1>3. many = <<Element>> \o few
    <2>1. <<Element>> \o few \in Logs /\ Len(<<Element>> \o few) = 1 + (k - 1)
        BY <1>1, <1>2, ConcatProperties DEF Logs
    <2>2. \A i \in 1..k : (<<Element>> \o few)[i] = IF i <= 1 THEN <<Element>>[i] ELSE few[i - 1]
        BY <1>1, <1>2, ConcatProperties DEF Logs
    <2>3. ASSUME NEW i \in 1..k PROVE (<<Element>> \o few)[i] = many[i]
        BY <2>2
    <2> HIDE DEF few, many
    <2> QED
        BY <1>2, <2>1, <2>3, SeqEqual DEF Logs
<1> HIDE DEF few, many
<1> DEFINE last == <<End>>
<1>4. Elements(k) = Cat(Cons(Element, few), last)
    BY <1>3 DEF Elements, many, Cons, Cat
<1>5. Elements(k - 1) = Cat(few, last)
    BY DEF Elements, few, Cat
<1> HIDE DEF last
<1>6. Cat(Cons(Element, few), last) = Cons(Element, Cat(few, last))
    BY <1>1, <1>2, ConsCat DEF last
<1> QED
    BY <1>4, <1>5, <1>6

\* What a list of k elements leaves to read, after an element and at its end.
LEMMA ElementsAfter ==
    ASSUME NEW k \in Nat, NEW b \in Logs, NEW t \in Logs
    PROVE  /\ Cons(Element, t) = Cat(Elements(k), b) <=> k > 0 /\ t = Cat(Elements(k - 1), b)
           /\ Cons(End, t) = Cat(Elements(k), b) <=> k = 0 /\ t = b
<1>1. Element \in Nat /\ End \in Nat /\ Element # End
    BY DEF Element, End
<1>2. CASE k = 0
    <2>1. Cat(Elements(k), b) = Cons(End, b)
        BY <1>2, NoElements, ConsIsCat
    <2>2. Cons(Element, t) # Cons(End, b)
        BY <1>1, ConsEqual
    <2>3. Cons(End, t) = Cons(End, b) => t = b
        BY <1>1, ConsEqual
    <2>4. ~(k > 0)
        BY <1>2
    <2> QED
        BY <1>2, <2>1, <2>2, <2>3, <2>4
<1>3. CASE k > 0
    <2> DEFINE more == Cat(Elements(k - 1), b)
    <2>1. Elements(k - 1) \in Logs
        BY <1>3, ElementsAreNumbers
    <2>2. more \in Logs
        BY <2>1, CatType
    <2>3. Cat(Elements(k), b) = Cons(Element, more)
        <3>1. Elements(k) = Cons(Element, Elements(k - 1))
            BY <1>3, OneMoreElement
        <3>2. Cat(Cons(Element, Elements(k - 1)), b) = Cons(Element, Cat(Elements(k - 1), b))
            BY <1>1, <2>1, ConsCat
        <3> QED
            BY <3>1, <3>2
    <2> HIDE DEF more
    <2>4. Cons(Element, t) = Cons(Element, more) => t = more
        BY <1>1, <2>2, ConsEqual
    <2>5. Cons(End, t) # Cons(Element, more)
        BY <1>1, <2>2, ConsEqual
    <2>6. Cons(Element, t) = Cons(Element, more) <=> t = more
        BY <2>4
    <2>7. t = more <=> k > 0 /\ t = Cat(Elements(k - 1), b)
        BY <1>3 DEF more
    <2>8. k # 0
        BY <1>3
    <2> QED
        BY <2>3, <2>5, <2>6, <2>7, <2>8
<1> QED
    BY <1>2, <1>3

-----------------------------------------------------------------------------
(* The languages: what may still be read.                                   *)

Languages == (SUBSET Logs) \ {{}}

\* What may follow x in a language.
After(x, A) == {t \in Logs : Cons(x, t) \in A}

LEMMA InThen ==
    ASSUME NEW A, NEW B, NEW s
    PROVE  s \in Then(A, B) <=> \E a \in A, b \in B : s = Cat(a, b)
BY DEF Then, Cat

LEMMA ThenType ==
    ASSUME NEW A \in Languages, NEW B \in Languages
    PROVE  Then(A, B) \in Languages
<1>1. PICK a \in A, b \in B : TRUE
    BY DEF Languages
<1>2. Cat(a, b) \in Then(A, B)
    BY InThen
<1>3. ASSUME NEW s \in Then(A, B) PROVE s \in Logs
    <2>1. PICK p \in A, q \in B : s = Cat(p, q)
        BY InThen
    <2>2. p \in Logs /\ q \in Logs
        BY DEF Languages
    <2> QED
        BY <2>1, <2>2, CatType
<1> QED
    BY <1>2, <1>3 DEF Languages

LEMMA ThenNothing ==
    ASSUME NEW A \in Languages
    PROVE  Then(A, {<<>>}) = A
<1>1. ASSUME NEW a \in A PROVE Cat(a, <<>>) = a
    BY CatNothing DEF Languages
<1>2. ASSUME NEW s PROVE s \in Then(A, {<<>>}) <=> \E a \in A : s = Cat(a, <<>>)
    BY InThen
<1>3. \A s : s \in Then(A, {<<>>}) <=> s \in A
    BY <1>1, <1>2
<1> QED
    BY <1>3

LEMMA ThenAgain ==
    ASSUME NEW A \in Languages, NEW B \in Languages, NEW C \in Languages
    PROVE  Then(Then(A, B), C) = Then(A, Then(B, C))
<1>1. ASSUME NEW a \in A, NEW b \in B, NEW c \in C PROVE Cat(Cat(a, b), c) = Cat(a, Cat(b, c))
    BY CatAgain DEF Languages
<1>2. ASSUME NEW s \in Then(Then(A, B), C) PROVE s \in Then(A, Then(B, C))
    <2>1. PICK p \in Then(A, B), c \in C : s = Cat(p, c)
        BY InThen
    <2>2. PICK a \in A, b \in B : p = Cat(a, b)
        BY InThen
    <2>3. s = Cat(a, Cat(b, c)) /\ Cat(b, c) \in Then(B, C)
        BY <1>1, <2>1, <2>2, InThen
    <2> QED
        BY <2>3, InThen
<1>3. ASSUME NEW s \in Then(A, Then(B, C)) PROVE s \in Then(Then(A, B), C)
    <2>1. PICK a \in A, q \in Then(B, C) : s = Cat(a, q)
        BY InThen
    <2>2. PICK b \in B, c \in C : q = Cat(b, c)
        BY InThen
    <2>3. s = Cat(Cat(a, b), c) /\ Cat(a, b) \in Then(A, B)
        BY <1>1, <2>1, <2>2, InThen
    <2> QED
        BY <2>3, InThen
<1> QED
    BY <1>2, <1>3

LEMMA ListTypes ==
    ASSUME NEW k \in Nat
    PROVE  {Elements(k)} \in Languages /\ Open(k) \in Languages
<1>1. \A j \in 0..k : Elements(j) \in Logs
    BY ElementsAreNumbers
<1>2. Elements(k) \in Logs /\ Elements(k) \in Open(k)
    BY ElementsAreNumbers DEF Open
<1> QED
    BY <1>1, <1>2 DEF Open, Languages

LEMMA NumberAfter ==
    ASSUME NEW x \in Nat, NEW y \in Nat, NEW B \in Languages
    PROVE  After(x, Then({<<y>>}, B)) = IF x = y THEN B ELSE {}
<1>1. ASSUME NEW s PROVE s \in Then({<<y>>}, B) <=> \E b \in B : s = Cons(y, b)
    <2> DEFINE one == <<y>>
    <2>1. Then({<<y>>}, B) = Then({one}, B) /\ \A b \in B : Cons(y, b) = Cat(one, b)
        BY ConsIsCat
    <2> HIDE DEF one
    <2>2. s \in Then({one}, B) <=> \E a \in {one}, b \in B : s = Cat(a, b)
        BY InThen
    <2> QED
        BY <2>1, <2>2
<1>2. ASSUME NEW t \in Logs PROVE Cons(x, t) \in Then({<<y>>}, B) <=> x = y /\ t \in B
    <2>1. ASSUME NEW b \in B, Cons(x, t) = Cons(y, b) PROVE x = y /\ t = b
        BY <2>1, ConsEqual DEF Languages
    <2> QED
        BY <1>1, <2>1
<1>3. B \subseteq Logs
    BY DEF Languages
<1> QED
    BY <1>2, <1>3 DEF After

LEMMA ExactAfter ==
    ASSUME NEW k \in Nat, NEW B \in Languages
    PROVE  /\ After(Element, Then({Elements(k)}, B)) =
                 IF k > 0 THEN Then({Elements(k - 1)}, B) ELSE {}
           /\ After(End, Then({Elements(k)}, B)) = IF k = 0 THEN B ELSE {}
<1>1. ASSUME NEW j, NEW s
      PROVE  s \in Then({Elements(j)}, B) <=> \E b \in B : s = Cat(Elements(j), b)
    BY InThen
<1>2. B \subseteq Logs
    BY DEF Languages
<1>3. ASSUME NEW t \in Logs
      PROVE  /\ Cons(Element, t) \in Then({Elements(k)}, B)
                  <=> k > 0 /\ t \in Then({Elements(k - 1)}, B)
             /\ Cons(End, t) \in Then({Elements(k)}, B) <=> k = 0 /\ t \in B
    BY <1>1, <1>2, ElementsAfter
<1>4. k > 0 => Then({Elements(k - 1)}, B) \subseteq Logs
    <2>1. k > 0 => {Elements(k - 1)} \in Languages
        BY ListTypes
    <2> QED
        BY <2>1, ThenType DEF Languages
<1> QED
    BY <1>2, <1>3, <1>4 DEF After

LEMMA OpenAfter ==
    ASSUME NEW k \in Nat, NEW B \in Languages
    PROVE  /\ After(Element, Then(Open(k), B)) = IF k > 0 THEN Then(Open(k - 1), B) ELSE {}
           /\ After(End, Then(Open(k), B)) = B
<1>1. ASSUME NEW m \in Nat, NEW s
      PROVE  s \in Then(Open(m), B) <=> \E j \in 0..m, b \in B : s = Cat(Elements(j), b)
    BY InThen DEF Open
<1>2. B \subseteq Logs
    BY DEF Languages
<1>3. ASSUME NEW t \in Logs
      PROVE  Cons(Element, t) \in Then(Open(k), B) <=> k > 0 /\ t \in Then(Open(k - 1), B)
    <2>1. Cons(Element, t) \in Then(Open(k), B)
             <=> \E j \in 0..k, b \in B : j > 0 /\ t = Cat(Elements(j - 1), b)
        BY <1>1, <1>2, ElementsAfter
    <2>2. ASSUME k > 0
          PROVE  t \in Then(Open(k - 1), B)
                   <=> \E j \in 0..k, b \in B : j > 0 /\ t = Cat(Elements(j - 1), b)
        <3>1. k - 1 \in Nat
            BY <2>2
        <3>2. ASSUME NEW j \in 0..k - 1, NEW b \in B, t = Cat(Elements(j), b)
              PROVE  \E i \in 0..k : i > 0 /\ t = Cat(Elements(i - 1), b)
            <4>1. j + 1 \in 0..k /\ j + 1 > 0 /\ (j + 1) - 1 = j
                BY <3>1
            <4> QED
                BY <3>2, <4>1
        <3>3. ASSUME NEW j \in 0..k, j > 0
              PROVE  j - 1 \in 0..k - 1
            BY <3>3
        <3> QED
            BY <1>1, <3>1, <3>2, <3>3
    <2>3. ~(k > 0) => ~\E j \in 0..k : j > 0
        OBVIOUS
    <2> QED
        BY <2>1, <2>2, <2>3
<1>4. ASSUME NEW t \in Logs
      PROVE  Cons(End, t) \in Then(Open(k), B) <=> t \in B
    <2>1. Cons(End, t) \in Then(Open(k), B) <=> \E j \in 0..k, b \in B : j = 0 /\ t = b
        BY <1>1, <1>2, ElementsAfter
    <2> QED
        BY <2>1
<1>5. k > 0 => Then(Open(k - 1), B) \subseteq Logs
    <2>1. ASSUME k > 0 PROVE Open(k - 1) \in Languages
        <3>1. k - 1 \in Nat
            BY <2>1
        <3> QED
            BY <3>1, ListTypes
    <2> QED
        BY <2>1, ThenType DEF Languages
<1> QED
    BY <1>2, <1>3, <1>4, <1>5 DEF After

-----------------------------------------------------------------------------
(* What the instructions that are left may still read.  For each place in   *)
(* them the languages of what follows, one for each value of n: a function, *)
(* as an instruction's language depends on those after it.                  *)

Nested == <<Array, UpTo(Lobbies, <<Op("valid")>>)>>
Bodies == {<<Fields>>, <<Fields, Array>>, <<Op("valid")>>}

Quiet  == {"fields", "main", "mode", "valid"}
Instrs == [op   : Quiet \cup {"count", "counted", "items", "size", "game"}, max : Int,
           exact : BOOLEAN, body : Bodies \cup {Nested, <<>>}]

Families == [Nat -> Languages]
Done     == [i \in Nat |-> {<<>>}]
Sizes    == {<<s>> : s \in 1..Settings}

InGameOf(md) == CASE md = 0 -> Open(Players)
                  [] md = 1 -> Then(Then(Exact(Votes), Open(Players)), Sizes)
                  [] md = 3 -> Then(Exact(Votes), Open(Players))
                  [] OTHER  -> {<<>>}

SomeLobbiesOf(k) ==
    UNION {IF i = 0 THEN {<<>>} ELSE IF i = 1 THEN OneLobby ELSE Then(OneLobby, OneLobby)
              : i \in 0..k}

\* An instruction, the languages from it on, and those after it.
Link(c, last, md, G, H) ==
    /\ c \in Instrs /\ G \in Families /\ H \in Families
    /\ \/ c.op \in Quiet /\ G = H
       \/ /\ c.op = "count" /\ c.max \in Nat
          /\ \A i \in Nat : G[i] = UNION {Then({<<v>>}, H[v]) : v \in 0..c.max}
       \/ /\ c.op = "counted" /\ c.exact /\ c.body \in Bodies
          /\ \A i \in Nat : G[i] = Then({Elements(i)}, H[i])
       \/ /\ c.op = "items" /\ c.max \in Nat /\ c.exact /\ c.body \in Bodies
          /\ \A i \in Nat : G[i] = Then({Elements(c.max)}, H[i])
       \/ /\ c.op = "items" /\ c.max \in Nat /\ ~c.exact /\ c.body \in Bodies
          /\ \A i \in Nat : G[i] = Then(Open(c.max), H[i])
       \/ /\ c.op = "items" /\ c.max \in 0..2 /\ ~c.exact /\ c.body = Nested
          /\ \A i \in Nat : H[i] = {<<>>} /\ G[i] = Then(SomeLobbiesOf(c.max), {<<End>>})
       \/ c.op = "size" /\ \A i \in Nat : G[i] = Then(Sizes, H[i])
       \/ /\ c.op = "game" /\ last
          /\ \A i \in Nat : H[i] = {<<>>} /\ G[i] = InGameOf(md)

Reads(s, md, G) ==
    /\ s \in Seq(Instrs)
    /\ \E F \in [1..Len(s) + 1 -> Families] :
          /\ F[1] = G /\ F[Len(s) + 1] = Done
          /\ \A i \in 1..Len(s) : Link(s[i], i = Len(s), md, F[i], F[i + 1])

Before(c, s) == <<c>> \o s

LEMMA DoneType == Done \in Families
<1>1. {<<>>} \in Languages
    BY EmptySeq DEF Languages, Logs
<1> QED
    BY <1>1 DEF Done, Families

LEMMA ReadsNothing ==
    ASSUME NEW md
    PROVE  Reads(<<>>, md, Done)
<1> DEFINE F == [i \in 1..1 |-> Done]
<1>1. <<>> \in Seq(Instrs) /\ Len(<<>>) = 0
    OBVIOUS
<1>2. F \in [1..0 + 1 -> Families] /\ F[1] = Done /\ F[0 + 1] = Done
    BY DoneType
<1> HIDE DEF F
<1> QED
    BY <1>1, <1>2 DEF Reads

LEMMA NothingReads ==
    ASSUME NEW md, NEW G, Reads(<<>>, md, G)
    PROVE  G = Done
BY DEF Reads

LEMMA ReadsFamily ==
    ASSUME NEW s, NEW md, NEW G, Reads(s, md, G)
    PROVE  G \in Families
<1>1. Len(s) \in Nat
    BY LenProperties DEF Reads
<1> QED
    BY <1>1 DEF Reads

LEMMA ReadsTail ==
    ASSUME NEW s, NEW md, NEW G, Reads(s, md, G), s # <<>>
    PROVE  \E H : Reads(Tail(s), md, H) /\ Link(Head(s), Tail(s) = <<>>, md, G, H)
<1>1. s \in Seq(Instrs) /\ Len(s) \in Nat \ {0}
    BY EmptySeq DEF Reads
<1>2. PICK F \in [1..Len(s) + 1 -> Families] :
          /\ F[1] = G /\ F[Len(s) + 1] = Done
          /\ \A i \in 1..Len(s) : Link(s[i], i = Len(s), md, F[i], F[i + 1])
    BY DEF Reads
<1> DEFINE t == Tail(s)
<1>3. /\ t \in Seq(Instrs) /\ Len(t) = Len(s) - 1 /\ Len(t) \in Nat
      /\ \A i \in 1..Len(t) : t[i] = s[i + 1]
      /\ Head(s) = s[1]
    BY <1>1, HeadTailProperties
<1> HIDE DEF t
<1> DEFINE E == [i \in 1..Len(t) + 1 |-> F[i + 1]]
<1>4. E \in [1..Len(t) + 1 -> Families] /\ E[1] = F[2] /\ E[Len(t) + 1] = Done
    BY <1>1, <1>2, <1>3
<1>5. ASSUME NEW i \in 1..Len(t)
      PROVE  Link(t[i], i = Len(t), md, E[i], E[i + 1])
    <2>1. i + 1 \in 1..Len(s) /\ (i + 1 = Len(s) <=> i = Len(t)) /\ t[i] = s[i + 1]
        BY <1>1, <1>3
    <2>2. E[i] = F[i + 1] /\ E[i + 1] = F[(i + 1) + 1]
        BY <1>3
    <2>3. (i + 1 = Len(s)) = (i = Len(t))
        BY <2>1
    <2>4. Link(s[i + 1], i + 1 = Len(s), md, F[i + 1], F[(i + 1) + 1])
        BY <1>2, <2>1
    <2> QED
        BY <2>1, <2>2, <2>3, <2>4
<1>6. Reads(t, md, F[2])
    BY <1>3, <1>4, <1>5 DEF Reads
<1>7. t = <<>> <=> 1 = Len(s)
    BY <1>1, <1>3, EmptySeq
<1>8. Link(s[1], 1 = Len(s), md, F[1], F[2])
    <2>1. 1 \in 1..Len(s) /\ 1 + 1 = 2
        BY <1>1
    <2>2. Link(s[1], 1 = Len(s), md, F[1], F[1 + 1])
        BY <1>2, <2>1
    <2> QED
        BY <2>1, <2>2
<1>9. (t = <<>>) = (1 = Len(s))
    BY <1>7
<1>10. Link(Head(s), t = <<>>, md, G, F[2])
    BY <1>2, <1>3, <1>8, <1>9
<1> QED
    BY <1>6, <1>10 DEF t

LEMMA ReadsBefore ==
    ASSUME NEW s, NEW md, NEW H, Reads(s, md, H),
           NEW c, NEW G, Link(c, s = <<>>, md, G, H)
    PROVE  Reads(Before(c, s), md, G)
<1>1. s \in Seq(Instrs) /\ Len(s) \in Nat /\ c \in Instrs /\ G \in Families
    BY LenProperties DEF Reads, Link
<1>2. PICK F \in [1..Len(s) + 1 -> Families] :
          /\ F[1] = H /\ F[Len(s) + 1] = Done
          /\ \A i \in 1..Len(s) : Link(s[i], i = Len(s), md, F[i], F[i + 1])
    BY DEF Reads
<1> DEFINE t == Before(c, s)
<1>3. /\ t \in Seq(Instrs) /\ Len(t) = Len(s) + 1 /\ t[1] = c
      /\ \A i \in 1..Len(s) : t[i + 1] = s[i]
    <2> DEFINE one == <<c>>
    <2>1. one \in Seq(Instrs) /\ Len(one) = 1 /\ one[1] = c
        BY <1>1
    <2> HIDE DEF one
    <2>2. /\ one \o s \in Seq(Instrs) /\ Len(one \o s) = 1 + Len(s)
          /\ \A i \in 1..1 + Len(s) : (one \o s)[i] = IF i <= 1 THEN one[i] ELSE s[i - 1]
        <3>1. one \o s \in Seq(Instrs)
            BY <1>1, <2>1, ConcatProperties
        <3>2. Len(one \o s) = 1 + Len(s)
            BY <1>1, <2>1, ConcatProperties
        <3>3. \A i \in 1..Len(one) + Len(s) :
                 (one \o s)[i] = IF i <= Len(one) THEN one[i] ELSE s[i - Len(one)]
            BY <1>1, <2>1, ConcatProperties
        <3> QED
            BY <2>1, <3>1, <3>2, <3>3
    <2>3. t = one \o s
        BY DEF one, Before
    <2> HIDE DEF t
    <2>4. ASSUME NEW i \in 1..Len(s) PROVE t[i + 1] = s[i]
        <3>1. i + 1 \in 1..1 + Len(s) /\ ~(i + 1 <= 1) /\ (i + 1) - 1 = i
            BY <1>1
        <3> QED
            BY <2>2, <2>3, <3>1
    <2>5. t[1] = c
        BY <1>1, <2>1, <2>2, <2>3
    <2> QED
        BY <1>1, <2>2, <2>3, <2>4, <2>5
<1> HIDE DEF t
<1> DEFINE E == [i \in 1..Len(t) + 1 |-> IF i = 1 THEN G ELSE F[i - 1]]
<1>4. E \in [1..Len(t) + 1 -> Families] /\ E[1] = G /\ E[Len(t) + 1] = Done
    BY <1>1, <1>2, <1>3
<1>5. ASSUME NEW i \in 1..Len(t)
      PROVE  Link(t[i], i = Len(t), md, E[i], E[i + 1])
    <2>1. CASE i = 1
        <3>1. E[i] = G /\ E[i + 1] = H /\ t[i] = c
            BY <1>1, <1>2, <1>3, <2>1
        <3>2. s = <<>> <=> i = Len(t)
            BY <1>1, <1>3, <2>1, EmptySeq
        <3>3. (s = <<>>) = (i = Len(t))
            BY <3>2
        <3> QED
            BY <3>1, <3>3
    <2>2. CASE i # 1
        <3>1. /\ i - 1 \in 1..Len(s) /\ (i - 1) + 1 = i
              /\ i - 1 = Len(s) <=> i = Len(t)
            BY <1>1, <1>3, <2>2
        <3>2. t[i] = s[i - 1]
            BY <1>3, <3>1
        <3>3. E[i] = F[i - 1] /\ E[i + 1] = F[(i - 1) + 1]
            BY <1>1, <1>3, <2>2
        <3>4. (i - 1 = Len(s)) = (i = Len(t))
            BY <3>1
        <3>5. Link(s[i - 1], i - 1 = Len(s), md, F[i - 1], F[(i - 1) + 1])
            BY <1>2, <3>1
        <3> QED
            BY <3>2, <3>3, <3>4, <3>5
    <2> QED
        BY <2>1, <2>2
<1> HIDE DEF E
<1>6. Reads(t, md, G)
    BY <1>3, <1>4, <1>5 DEF Reads
<1> QED
    BY <1>6 DEF t

-----------------------------------------------------------------------------
(* The inspectors read the messages that are in order.                      *)

Always(B)   == [i \in Nat |-> B]
Counting(B) == [i \in Nat |-> Then({Elements(i)}, B)]

LEMMA DoneIsAlways == Done = Always({<<>>})
BY DEF Done, Always

LEMMA AlwaysType ==
    ASSUME NEW B \in Languages
    PROVE  Always(B) \in Families /\ \A i \in Nat : Always(B)[i] = B
BY DEF Always, Families

LEMMA CountingType ==
    ASSUME NEW B \in Languages
    PROVE  Counting(B) \in Families /\ \A i \in Nat : Counting(B)[i] = Then({Elements(i)}, B)
<1>1. \A i \in Nat : Then({Elements(i)}, B) \in Languages
    BY ListTypes, ThenType
<1> QED
    BY <1>1 DEF Counting, Families

LEMMA AlwaysIsLanguage ==
    ASSUME NEW s, NEW md, NEW B, Reads(s, md, Always(B))
    PROVE  B \in Languages
<1>1. Always(B) \in Families /\ Always(B)[0] = B
    BY ReadsFamily DEF Always
<1> QED
    BY <1>1 DEF Families

LEMMA NothingIsLanguage == {<<>>} \in Languages
BY EmptySeq DEF Languages, Logs

LEMMA SinglesAreLanguages ==
    ASSUME NEW x \in Nat
    PROVE  {<<x>>} \in Languages
BY Singles DEF Languages

LEMMA InstrTypes ==
    /\ Fields \in Instrs /\ Fields.op = "fields"
    /\ Array \in Instrs /\ Array.op = "fields"
    /\ \A op \in Quiet \cup {"size", "game"} : Op(op) \in Instrs /\ Op(op).op = op
BY DEF Fields, Array, Op, Instrs, Quiet

LEMMA CountTypes ==
    ASSUME NEW max \in Nat
    PROVE  Count(max) \in Instrs /\ Count(max).op = "count" /\ Count(max).max = max
<1>1. Count(max).op = "count" /\ Count(max).max = max
    BY DEF Count, Op
<1>2. ASSUME NEW T, <<>> \in T
      PROVE  Count(max) \in [op : {"count"}, max : Nat, exact : BOOLEAN, body : T]
    BY <1>2 DEF Count, Op
<1>3. Count(max) \in [op : {"count"}, max : Nat, exact : BOOLEAN, body : {<<>>}]
    BY <1>2
<1> QED
    BY <1>1, <1>3 DEF Instrs

LEMMA CountedTypes ==
    ASSUME NEW body \in Bodies
    PROVE  /\ Counted(body) \in Instrs /\ Counted(body).op = "counted"
           /\ Counted(body).exact = TRUE /\ Counted(body).body = body
<1>1. /\ Counted(body).op = "counted" /\ Counted(body).exact = TRUE
      /\ Counted(body).body = body
    BY DEF Counted, Op
<1>2. ASSUME NEW T, body \in T
      PROVE  Counted(body) \in [op : {"counted"}, max : Nat, exact : BOOLEAN, body : T]
    BY <1>2 DEF Counted, Op
<1>3. Counted(body) \in [op : {"counted"}, max : Nat, exact : BOOLEAN, body : Bodies]
    BY <1>2
<1> QED
    BY <1>1, <1>3 DEF Instrs

LEMMA UpToTypes ==
    ASSUME NEW max \in Nat, NEW body \in Bodies \cup {Nested}
    PROVE  /\ UpTo(max, body) \in Instrs /\ UpTo(max, body).op = "items"
           /\ UpTo(max, body).max = max /\ UpTo(max, body).exact = FALSE
           /\ UpTo(max, body).body = body
<1>1. /\ UpTo(max, body).op = "items" /\ UpTo(max, body).max = max
      /\ UpTo(max, body).exact = FALSE /\ UpTo(max, body).body = body
    BY DEF UpTo, Op
<1>2. ASSUME NEW S, NEW T, max \in S, body \in T
      PROVE  UpTo(max, body) \in [op : {"items"}, max : S, exact : BOOLEAN, body : T]
    BY <1>2 DEF UpTo, Op
<1>3. UpTo(max, body) \in [op : {"items"}, max : Nat, exact : BOOLEAN, body : Bodies \cup {Nested}]
    BY <1>2
<1> QED
    BY <1>1, <1>3 DEF Instrs

LEMMA QuietBefore ==
    ASSUME NEW s, NEW md, NEW G, Reads(s, md, G), NEW c \in Instrs, c.op \in Quiet
    PROVE  Reads(Before(c, s), md, G)
<1>1. Link(c, s = <<>>, md, G, G)
    BY ReadsFamily DEF Link
<1> QED
    BY <1>1, ReadsBefore

LEMMA ListBefore ==
    ASSUME NEW s, NEW md, NEW B, Reads(s, md, Always(B)),
           NEW max \in Nat, NEW body \in Bodies
    PROVE  Reads(Before(UpTo(max, body), s), md, Always(Then(Open(max), B)))
<1> DEFINE c == UpTo(max, body)
           A == Then(Open(max), B)
<1>1. B \in Languages
    BY AlwaysIsLanguage
<1>2. A \in Languages
    BY <1>1, ListTypes, ThenType
<1>3. /\ c \in Instrs /\ c.op = "items" /\ c.max = max /\ c.exact = FALSE
      /\ c.body = body
    <2>1. body \in Bodies \cup {Nested}
        OBVIOUS
    <2> QED
        BY <2>1, UpToTypes
<1>3a. A = Then(Open(c.max), B)
    BY <1>3
<1> HIDE DEF c, A
<1>4. /\ Always(A) \in Families /\ Always(B) \in Families
      /\ \A i \in Nat : Always(A)[i] = Then(Open(c.max), Always(B)[i])
    BY <1>1, <1>2, <1>3a, AlwaysType
<1>5. Link(c, s = <<>>, md, Always(A), Always(B))
    BY <1>3, <1>4 DEF Link
<1>6. Reads(Before(c, s), md, Always(A))
    BY <1>5, ReadsBefore
<1> QED
    BY <1>6 DEF c, A

LEMMA CountedBefore ==
    ASSUME NEW s, NEW md, NEW B, Reads(s, md, Always(B)), NEW body \in Bodies
    PROVE  Reads(Before(Counted(body), s), md, Counting(B))
<1> DEFINE c == Counted(body)
<1>1. B \in Languages
    BY AlwaysIsLanguage
<1>2. c \in Instrs /\ c.op = "counted" /\ c.exact = TRUE /\ c.body \in Bodies
    BY CountedTypes
<1> HIDE DEF c
<1>3. /\ Counting(B) \in Families /\ Always(B) \in Families
      /\ \A i \in Nat : Counting(B)[i] = Then({Elements(i)}, Always(B)[i])
    BY <1>1, AlwaysType, CountingType
<1>4. Link(c, s = <<>>, md, Counting(B), Always(B))
    BY <1>2, <1>3 DEF Link
<1>5. Reads(Before(c, s), md, Counting(B))
    BY <1>4, ReadsBefore
<1> QED
    BY <1>5 DEF c

LEMMA ExactIsUnion ==
    ASSUME NEW max \in Nat, NEW B \in Languages
    PROVE  /\ Then(Exact(max), B) =
                 UNION {Then({<<v>>}, Then({Elements(v)}, B)) : v \in 0..max}
           /\ Exact(max) \in Languages
<1>1. ASSUME NEW v \in 0..max
      PROVE  /\ Then({<<v>>}, {Elements(v)}) = {Cat(<<v>>, Elements(v))}
             /\ Cat(<<v>>, Elements(v)) \in Logs
             /\ Then({<<v>>}, Then({Elements(v)}, B)) = Then({Cat(<<v>>, Elements(v))}, B)
    <2> DEFINE one == <<v>>
               list == Elements(v)
    <2>1. one \in Logs /\ list \in Logs /\ {one} \in Languages /\ {list} \in Languages
        BY Singles, ElementsAreNumbers DEF Languages
    <2> HIDE DEF one, list
    <2>2. Then({one}, {list}) = {Cat(one, list)}
        <3>1. \A s : s \in Then({one}, {list}) <=> \E a \in {one}, b \in {list} : s = Cat(a, b)
            BY InThen
        <3> QED
            BY <3>1
    <2>3. Then({one}, Then({list}, B)) = Then({Cat(one, list)}, B)
        <3>1. Then(Then({one}, {list}), B) = Then({one}, Then({list}, B))
            BY <2>1, ThenAgain
        <3> QED
            BY <2>2, <3>1
    <2>4. Cat(one, list) \in Logs
        BY <2>1, CatType
    <2> QED
        BY <2>2, <2>3, <2>4 DEF one, list
<1>2. Exact(max) = {Cat(<<v>>, Elements(v)) : v \in 0..max}
    BY DEF Exact, Cat
<1>3. \A s : s \in Then(Exact(max), B) <=> \E a \in Exact(max), b \in B : s = Cat(a, b)
    BY InThen
<1>4. ASSUME NEW a
      PROVE  \A s : s \in Then({a}, B) <=> \E b \in B : s = Cat(a, b)
    <2>1. \A s : s \in Then({a}, B) <=> \E p \in {a}, b \in B : s = Cat(p, b)
        BY InThen
    <2> QED
        BY <2>1
<1> DEFINE x(v) == Cat(<<v>>, Elements(v))
<1>5. \A s : s \in Then(Exact(max), B) <=> \E v \in 0..max : \E b \in B : s = Cat(x(v), b)
    <2>1. Exact(max) = {x(v) : v \in 0..max}
        BY <1>2
    <2> HIDE DEF x
    <2> QED
        BY <1>3, <2>1
<1>6. ASSUME NEW v \in 0..max, NEW s
      PROVE  s \in Then({<<v>>}, Then({Elements(v)}, B)) <=> \E b \in B : s = Cat(x(v), b)
    BY <1>1, <1>4
<1>7. \A v \in 0..max : x(v) \in Logs
    BY <1>1
<1>8. Exact(max) = {x(v) : v \in 0..max} /\ 0 \in 0..max
    BY <1>2
<1> HIDE DEF x
<1>9. Exact(max) \in Languages
    BY <1>7, <1>8 DEF Languages
<1>10. \A s : s \in Then(Exact(max), B)
                <=> s \in UNION {Then({<<v>>}, Then({Elements(v)}, B)) : v \in 0..max}
    <2> DEFINE L(v) == Then({<<v>>}, Then({Elements(v)}, B))
    <2>1. \A v \in 0..max : \A s : s \in L(v) <=> \E b \in B : s = Cat(x(v), b)
        BY <1>6
    <2> HIDE DEF L
    <2>2. \A s : s \in Then(Exact(max), B) <=> s \in UNION {L(v) : v \in 0..max}
        BY <1>5, <2>1
    <2> QED
        BY <2>2 DEF L
<1> QED
    BY <1>9, <1>10

LEMMA CountBefore ==
    ASSUME NEW s, NEW md, NEW B \in Languages, Reads(s, md, Counting(B)), NEW max \in Nat
    PROVE  Reads(Before(Count(max), s), md, Always(Then(Exact(max), B)))
<1> DEFINE c == Count(max)
           A == Then(Exact(max), B)
<1>1. A = UNION {Then({<<v>>}, Then({Elements(v)}, B)) : v \in 0..max} /\ A \in Languages
    BY ExactIsUnion, ThenType
<1>2. c \in Instrs /\ c.op = "count" /\ c.max = max
    BY CountTypes
<1> HIDE DEF c, A
<1>3. /\ Always(A) \in Families /\ Counting(B) \in Families
      /\ \A i \in Nat : Always(A)[i] = A
      /\ \A i \in Nat : Counting(B)[i] = Then({Elements(i)}, B)
    BY <1>1, AlwaysType, CountingType
<1>4. A = UNION {Then({<<v>>}, Counting(B)[v]) : v \in 0..max}
    <2>1. \A v \in 0..max : Counting(B)[v] = Then({Elements(v)}, B)
        BY <1>3
    <2> QED
        BY <1>1, <2>1
<1>5. Link(c, s = <<>>, md, Always(A), Counting(B))
    BY <1>2, <1>3, <1>4 DEF Link
<1>6. Reads(Before(c, s), md, Always(A))
    BY <1>5, ReadsBefore
<1> QED
    BY <1>6 DEF c, A

\* Sequences written out, one instruction at a time.
LEMMA One == ASSUME NEW a PROVE <<a>> = Before(a, <<>>)
BY DEF Before

LEMMA Two == ASSUME NEW a, NEW b PROVE <<a, b>> = Before(a, <<b>>)
<1> DEFINE S == {a, b}
           s == <<a>>
           t == <<b>>
           u == <<a, b>>
<1>1. /\ s \in Seq(S) /\ Len(s) = 1 /\ s[1] = a
      /\ t \in Seq(S) /\ Len(t) = 1 /\ t[1] = b
    OBVIOUS
<1>2. u \in Seq(S) /\ Len(u) = 2 /\ u[1] = a /\ u[2] = b
    OBVIOUS
<1> HIDE DEF S, s, t, u
<1>3. s \o t \in Seq(S)
    BY <1>1, ConcatProperties
<1>4. Len(s \o t) = Len(s) + Len(t)
    BY <1>1, ConcatProperties
<1>5. \A i \in 1..Len(s) + Len(t) :
          (s \o t)[i] = IF i <= Len(s) THEN s[i] ELSE t[i - Len(s)]
    BY <1>1, ConcatProperties
<1>6. (s \o t)[1] = a /\ (s \o t)[2] = b
    <2>1. 1 \in 1..Len(s) + Len(t) /\ 2 \in 1..Len(s) + Len(t)
        BY <1>1
    <2>2. 1 <= Len(s) /\ ~(2 <= Len(s)) /\ 2 - Len(s) = 1
        BY <1>1
    <2>3. (s \o t)[1] = s[1]
        BY <1>5, <2>1, <2>2
    <2>4. (s \o t)[2] = t[2 - Len(s)]
        BY <1>5, <2>1, <2>2
    <2> QED
        BY <1>1, <2>2, <2>3, <2>4
<1>7. Len(s \o t) = 2
    BY <1>1, <1>4
<1>8. ASSUME NEW i \in 1..Len(u) PROVE u[i] = (s \o t)[i]
    <2>1. i = 1 \/ i = 2
        BY <1>2
    <2> QED
        BY <1>2, <1>6, <2>1
<1>9. u = s \o t
    BY <1>2, <1>3, <1>7, <1>8, SeqEqual
<1> QED
    BY <1>9 DEF u, s, t, Before

LEMMA BeforeType ==
    ASSUME NEW c \in Instrs, NEW s \in Seq(Instrs)
    PROVE  Before(c, s) \in Seq(Instrs)
<1> DEFINE one == <<c>>
<1>1. one \in Seq(Instrs)
    OBVIOUS
<1> HIDE DEF one
<1>2. one \o s \in Seq(Instrs)
    BY <1>1, ConcatProperties
<1> QED
    BY <1>2 DEF one, Before

LEMMA BeforeCat ==
    ASSUME NEW c \in Instrs, NEW s \in Seq(Instrs), NEW t \in Seq(Instrs)
    PROVE  Cat(Before(c, s), t) = Before(c, Cat(s, t))
<1> DEFINE one == <<c>>
<1>1. one \in Seq(Instrs)
    OBVIOUS
<1> HIDE DEF one
<1>2. (one \o s) \o t = one \o (s \o t)
    BY <1>1, ConcatAssociative
<1> QED
    BY <1>2 DEF one, Before, Cat

LEMMA NothingCat ==
    ASSUME NEW t \in Seq(Instrs)
    PROVE  Cat(<<>>, t) = t /\ Cat(t, <<>>) = t
BY ConcatEmptySeq DEF Cat

LEMMA OneCat ==
    ASSUME NEW c, NEW t
    PROVE  Cat(<<c>>, t) = Before(c, t)
BY DEF Cat, Before

LEMMA TwoCat ==
    ASSUME NEW c \in Instrs, NEW d \in Instrs, NEW t \in Seq(Instrs)
    PROVE  Cat(<<c, d>>, t) = Before(c, Before(d, t))
<1>1. <<d>> \in Seq(Instrs)
    OBVIOUS
<1>2. Cat(Before(c, <<d>>), t) = Before(c, Cat(<<d>>, t))
    BY <1>1, BeforeCat
<1> QED
    BY <1>2, Two, OneCat

LEMMA ThreeCat ==
    ASSUME NEW c \in Instrs, NEW d \in Instrs, NEW e \in Instrs, NEW t \in Seq(Instrs)
    PROVE  Cat(<<c, d, e>>, t) = Before(c, Before(d, Before(e, t)))
<1>1. <<c, d, e>> = Before(c, <<d, e>>)
    BY DEF Before
<1>2. <<d, e>> \in Seq(Instrs)
    OBVIOUS
<1>3. Cat(Before(c, <<d, e>>), t) = Before(c, Cat(<<d, e>>, t))
    BY <1>2, BeforeCat
<1> QED
    BY <1>1, <1>3, TwoCat

LEMMA FourCat ==
    ASSUME NEW c \in Instrs, NEW d \in Instrs, NEW e \in Instrs, NEW f \in Instrs,
           NEW t \in Seq(Instrs)
    PROVE  Cat(<<c, d, e, f>>, t) = Before(c, Before(d, Before(e, Before(f, t))))
<1>1. <<c, d, e, f>> = Before(c, <<d, e, f>>)
    BY DEF Before
<1>2. <<d, e, f>> \in Seq(Instrs)
    OBVIOUS
<1>3. Cat(Before(c, <<d, e, f>>), t) = Before(c, Cat(<<d, e, f>>, t))
    BY <1>2, BeforeCat
<1> QED
    BY <1>1, <1>3, ThreeCat

LEMMA CatTwice ==
    ASSUME NEW r \in Seq(Instrs), NEW s \in Seq(Instrs), NEW t \in Seq(Instrs)
    PROVE  Cat(r \o s, t) = Cat(r, Cat(s, t))
BY ConcatAssociative DEF Cat

LEMMA BodyTypes ==
    /\ <<Fields>> \in Bodies /\ <<Fields, Array>> \in Bodies /\ <<Op("valid")>> \in Bodies
BY DEF Bodies

\* What ends with nominees, clients or players, and what has them before it.
LEMMA PeopleBefore ==
    ASSUME NEW s \in Seq(Instrs), NEW md, NEW B, Reads(s, md, Always(B))
    PROVE  /\ Reads(Cat(Nominees, s), md, Always(Then(Open(Players), B)))
           /\ Reads(Cat(PreGame, s), md, Always(Then(Open(Players), B)))
           /\ Nominees \in Seq(Instrs) /\ PreGame = Nominees
<1> DEFINE c == UpTo(Players, <<Fields>>)
<1>1. c \in Instrs /\ Players \in Nat /\ <<Fields>> \in Bodies
    <2>1. Players \in Nat /\ <<Fields>> \in Bodies
        BY LimitsAssumption, BodyTypes
    <2>2. <<Fields>> \in Bodies \cup {Nested}
        BY <2>1
    <2> QED
        BY <2>1, <2>2, UpToTypes
<1>2. Reads(Before(c, s), md, Always(Then(Open(Players), B)))
    BY <1>1, ListBefore
<1>3. Array \in Instrs /\ Array.op \in Quiet
    BY InstrTypes DEF Quiet
<1>4. Reads(Before(Array, Before(c, s)), md, Always(Then(Open(Players), B)))
    BY <1>2, <1>3, QuietBefore
<1> HIDE DEF c
<1>5. Nominees = <<Array, c>> /\ PreGame = <<Array, c>>
    BY DEF Nominees, PreGame, c
<1>6. <<Array, c>> \in Seq(Instrs)
    BY <1>1, <1>3
<1>7. Cat(<<Array, c>>, s) = Before(Array, Before(c, s))
    BY <1>1, <1>3, TwoCat
<1> QED
    BY <1>4, <1>5, <1>6, <1>7

\* A count, fields of any number, and the list it announces.
LEMMA MembersBefore ==
    ASSUME NEW s, NEW md, NEW B, Reads(s, md, Always(B)),
           NEW max \in Nat, NEW body \in Bodies
    PROVE  /\ Reads(Before(Count(max), Before(Counted(body), s)),
                    md, Always(Then(Exact(max), B)))
           /\ Reads(Before(Count(max), Before(Array, Before(Counted(body), s))),
                    md, Always(Then(Exact(max), B)))
           /\ Reads(Before(Count(max), Before(Fields, Before(Array, Before(Counted(body), s)))),
                    md, Always(Then(Exact(max), B)))
<1>1. B \in Languages
    BY AlwaysIsLanguage
<1>2. Reads(Before(Counted(body), s), md, Counting(B))
    BY CountedBefore
<1>3. Fields \in Instrs /\ Fields.op \in Quiet /\ Array \in Instrs /\ Array.op \in Quiet
    BY InstrTypes DEF Quiet
<1>4. Reads(Before(Array, Before(Counted(body), s)), md, Counting(B))
    BY <1>2, <1>3, QuietBefore
<1>5. Reads(Before(Fields, Before(Array, Before(Counted(body), s))), md, Counting(B))
    BY <1>3, <1>4, QuietBefore
<1>6. Reads(Before(Count(max), Before(Counted(body), s)), md, Always(Then(Exact(max), B)))
    BY <1>1, <1>2, CountBefore
<1>7. Reads(Before(Count(max), Before(Array, Before(Counted(body), s))),
            md, Always(Then(Exact(max), B)))
    BY <1>1, <1>4, CountBefore
<1>8. Reads(Before(Count(max), Before(Fields, Before(Array, Before(Counted(body), s)))),
            md, Always(Then(Exact(max), B)))
    BY <1>1, <1>5, CountBefore
<1> QED
    BY <1>6, <1>7, <1>8

InOrderOf(md) ==
    [join |-> Exact(Players), lobby |-> InLobby,
     lobbyGame |-> Then(InLobby, InGameOf(md)), heartbeat |-> Open(Players),
     info |-> Then(SomeLobbiesOf(Lobbies), {<<End>>})]

LEMMA InOrderIs == InOrder = InOrderOf(mode)
<1>1. SomeLobbies = SomeLobbiesOf(Lobbies)
    BY DEF SomeLobbies, SomeLobbiesOf
<1>2. InGame = InGameOf(mode)
    BY DEF InGame, InGameOf, Sizes
<1> QED
    BY <1>1, <1>2 DEF InOrder, InOrderOf

LEMMA LanguageTypes ==
    /\ Exact(Players) \in Languages /\ Exact(Votes) \in Languages /\ Open(Players) \in Languages
    /\ InLobby \in Languages /\ Sizes \in Languages
    /\ \A md : InGameOf(md) \in Languages
<1>1. Exact(Players) \in Languages /\ Exact(Votes) \in Languages /\ Open(Players) \in Languages
    BY LimitsAssumption, NothingIsLanguage, ExactIsUnion, ListTypes
<1>2. InLobby \in Languages
    BY <1>1, ThenType DEF InLobby
<1>3. Sizes \in Languages
    <2>1. \A s \in 1..Settings : <<s>> \in Logs
        <3>1. \A s \in 1..Settings : s \in Nat
            BY LimitsAssumption
        <3> QED
            BY <3>1, Singles
    <2>2. 1 \in 1..Settings
        BY LimitsAssumption
    <2>3. <<1>> \in Sizes /\ Sizes \subseteq Logs
        BY <2>1, <2>2 DEF Sizes
    <2> QED
        BY <2>3 DEF Languages
<1>4. ASSUME NEW md PROVE InGameOf(md) \in Languages
    <2>1. Then(Exact(Votes), Open(Players)) \in Languages
        BY <1>1, ThenType
    <2>2. Then(Then(Exact(Votes), Open(Players)), Sizes) \in Languages
        BY <1>3, <2>1, ThenType
    <2> QED
        BY <1>1, <2>1, <2>2, NothingIsLanguage DEF InGameOf
<1> QED
    BY <1>1, <1>2, <1>3, <1>4

LEMMA ReadsDone ==
    ASSUME NEW md
    PROVE  Reads(<<>>, md, Always({<<>>}))
BY ReadsNothing, DoneIsAlways

LEMMA JoinReads ==
    ASSUME NEW md
    PROVE  Reads(Join, md, Always(Exact(Players)))
<1> DEFINE c == Count(Players)
           d == Counted(<<Fields>>)
<1>1. /\ Players \in Nat /\ <<Fields>> \in Bodies
      /\ Fields \in Instrs /\ Fields.op \in Quiet /\ Array \in Instrs
    BY LimitsAssumption, BodyTypes, InstrTypes DEF Quiet
<1>2. c \in Instrs /\ d \in Instrs
    BY <1>1, CountTypes, CountedTypes
<1>3. Reads(<<>>, md, Always({<<>>}))
    BY ReadsDone
<1>4. Reads(Before(c, Before(Array, Before(d, <<>>))),
            md, Always(Then(Exact(Players), {<<>>})))
    BY <1>1, <1>3, MembersBefore
<1>5. Then(Exact(Players), {<<>>}) = Exact(Players)
    BY LanguageTypes, ThenNothing
<1>6. Reads(Before(Fields, Before(c, Before(Array, Before(d, <<>>)))),
            md, Always(Exact(Players)))
    BY <1>1, <1>4, <1>5, QuietBefore
<1> HIDE DEF c, d
<1>7. Join = <<Fields, c, Array, d>>
    BY DEF Join, c, d
<1> DEFINE z == <<>>
<1>8. z \in Seq(Instrs) /\ <<Fields, c, Array, d>> \in Seq(Instrs)
    BY <1>1, <1>2
<1>9. Cat(<<Fields, c, Array, d>>, z) = <<Fields, c, Array, d>>
    BY <1>8, NothingCat
<1>10. Reads(Before(Fields, Before(c, Before(Array, Before(d, z)))),
             md, Always(Exact(Players)))
    BY <1>6
<1> HIDE DEF z
<1>11. Cat(<<Fields, c, Array, d>>, z)
          = Before(Fields, Before(c, Before(Array, Before(d, z))))
    BY <1>1, <1>2, <1>8, FourCat
<1> QED
    BY <1>7, <1>9, <1>10, <1>11

LEMMA LobbyBefore ==
    ASSUME NEW s \in Seq(Instrs), NEW md, NEW B, Reads(s, md, Always(B))
    PROVE  Reads(Cat(Lobby, s), md, Always(Then(InLobby, B)))
<1> DEFINE c == Count(Players)
           d == Counted(<<Fields, Array>>)
           m == Op("main")
           o == Op("mode")
           r == Cat(Nominees, s)
           A == Then(Exact(Players), Then(Open(Players), B))
<1>1. /\ Players \in Nat /\ <<Fields, Array>> \in Bodies
      /\ Fields \in Instrs /\ Fields.op \in Quiet /\ Array \in Instrs
      /\ m \in Instrs /\ m.op \in Quiet /\ o \in Instrs /\ o.op \in Quiet
    BY LimitsAssumption, BodyTypes, InstrTypes DEF Quiet
<1>2. c \in Instrs /\ d \in Instrs
    BY <1>1, CountTypes, CountedTypes
<1>3. Reads(r, md, Always(Then(Open(Players), B))) /\ Nominees \in Seq(Instrs)
    BY PeopleBefore
<1>4. r \in Seq(Instrs)
    BY <1>3 DEF Reads
<1> HIDE DEF r
<1>5. Reads(Before(Fields, r), md, Always(Then(Open(Players), B)))
    BY <1>1, <1>3, QuietBefore
<1>6. Reads(Before(c, Before(Fields, Before(Array, Before(d, Before(Fields, r))))), md, Always(A))
    BY <1>1, <1>5, MembersBefore
<1> DEFINE u == Before(c, Before(Fields, Before(Array, Before(d, Before(Fields, r)))))
<1> HIDE DEF c, d, m, o, A
<1>7. Reads(Before(Fields, Before(m, Before(Fields, Before(o, Before(Fields, u))))), md, Always(A))
    <2>1. Reads(Before(Fields, u), md, Always(A))
        BY <1>1, <1>6, QuietBefore
    <2>2. Reads(Before(o, Before(Fields, u)), md, Always(A))
        BY <1>1, <2>1, QuietBefore
    <2>3. Reads(Before(Fields, Before(o, Before(Fields, u))), md, Always(A))
        BY <1>1, <2>2, QuietBefore
    <2>4. Reads(Before(m, Before(Fields, Before(o, Before(Fields, u)))), md, Always(A))
        BY <1>1, <2>3, QuietBefore
    <2> QED
        BY <1>1, <2>4, QuietBefore
<1> DEFINE v == <<Fields, m, Fields, o, Fields, c, Fields, Array, d, Fields>>
           w == <<Fields, c, Fields, Array, d, Fields>>
           x == <<Array, d, Fields>>
<1>8. Lobby = v \o Nominees /\ v \in Seq(Instrs)
    BY <1>1, <1>2 DEF Lobby, c, d, m, o
<1>9. Cat(Lobby, s) = Cat(v, r)
    BY <1>3, <1>8, CatTwice DEF r
<1>10. Cat(v, r) = Before(Fields, Before(m, Before(Fields, Before(o, Before(Fields, u)))))
    <2>1. Cat(x, r) = Before(Array, Before(d, Before(Fields, r)))
        BY <1>1, <1>2, <1>4, ThreeCat
    <2>2. Cat(w, r) = Before(Fields, u)
        <3>1. /\ w = Before(Fields, <<c, Fields, Array, d, Fields>>)
              /\ <<c, Fields, Array, d, Fields>> = Before(c, <<Fields, Array, d, Fields>>)
              /\ <<Fields, Array, d, Fields>> = Before(Fields, x)
            BY DEF Before
        <3>2. /\ <<c, Fields, Array, d, Fields>> \in Seq(Instrs)
              /\ <<Fields, Array, d, Fields>> \in Seq(Instrs) /\ x \in Seq(Instrs)
            BY <1>1, <1>2
        <3> HIDE DEF w, x
        <3> DEFINE p == <<Fields, Array, d, Fields>>
                   q == <<c, Fields, Array, d, Fields>>
        <3> HIDE DEF p, q
        <3>3. Cat(p, r) = Before(Fields, Cat(x, r))
            <4>1. Cat(Before(Fields, x), r) = Before(Fields, Cat(x, r))
                BY <1>1, <1>4, <3>2, BeforeCat
            <4> QED
                BY <3>1, <4>1 DEF p
        <3>4. Cat(q, r) = Before(c, Cat(p, r))
            <4>1. q = Before(c, p) /\ p \in Seq(Instrs)
                BY <3>1, <3>2 DEF p, q
            <4> QED
                BY <1>2, <1>4, <4>1, BeforeCat
        <3>5. Cat(w, r) = Before(Fields, Cat(q, r))
            <4>1. w = Before(Fields, q) /\ q \in Seq(Instrs)
                BY <3>1, <3>2 DEF q
            <4> QED
                BY <1>1, <1>4, <4>1, BeforeCat
        <3> QED
            BY <2>1, <3>3, <3>4, <3>5
    <2> DEFINE y == <<Fields, m, Fields, o>>
    <2>3. v = y \o w /\ y \in Seq(Instrs) /\ w \in Seq(Instrs)
        BY <1>1, <1>2
    <2> HIDE DEF v, w, x, u
    <2>4. Cat(v, r) = Cat(y, Cat(w, r))
        BY <1>4, <2>3, CatTwice
    <2>5. Before(Fields, u) \in Seq(Instrs)
        BY <1>1, <1>6, BeforeType DEF Reads, u
    <2>6. Cat(y, Before(Fields, u))
             = Before(Fields, Before(m, Before(Fields, Before(o, Before(Fields, u)))))
        BY <1>1, <2>5, FourCat
    <2> QED
        BY <2>2, <2>4, <2>6
<1>11. B \in Languages
    BY AlwaysIsLanguage
<1>12. A = Then(InLobby, B)
    BY <1>11, LanguageTypes, ThenAgain DEF A, InLobby
<1> QED
    BY <1>7, <1>9, <1>10, <1>12

LEMMA LobbyReads ==
    ASSUME NEW md
    PROVE  Reads(Lobby, md, Always(InLobby))
<1> DEFINE z == <<>>
<1>1. z \in Seq(Instrs) /\ Reads(z, md, Always({<<>>}))
    BY ReadsDone
<1> HIDE DEF z
<1>2. Reads(Cat(Lobby, z), md, Always(Then(InLobby, {<<>>})))
    BY <1>1, LobbyBefore
<1>3. Then(InLobby, {<<>>}) = InLobby
    BY LanguageTypes, ThenNothing
<1>4. Lobby \in Seq(Instrs)
    <2> DEFINE a == <<Fields, Op("main"), Fields, Op("mode"), Fields, Count(Players), Fields,
                      Array, Counted(<<Fields, Array>>), Fields>>
    <2>1. /\ Fields \in Instrs /\ Op("main") \in Instrs /\ Op("mode") \in Instrs
          /\ Array \in Instrs
        BY InstrTypes DEF Quiet
    <2>2. Count(Players) \in Instrs /\ Counted(<<Fields, Array>>) \in Instrs
        BY LimitsAssumption, BodyTypes, CountTypes, CountedTypes
    <2>3. a \in Seq(Instrs)
        BY <2>1, <2>2
    <2>4. Nominees \in Seq(Instrs)
        BY <1>1, PeopleBefore
    <2> HIDE DEF a
    <2>5. a \o Nominees \in Seq(Instrs)
        BY <2>3, <2>4, ConcatProperties
    <2> QED
        BY <2>5 DEF Lobby, a
<1>5. Cat(Lobby, z) = Lobby
    BY <1>4, NothingCat DEF z
<1> QED
    BY <1>2, <1>3, <1>5

LEMMA LobbyGameReads ==
    ASSUME NEW md
    PROVE  Reads(LobbyGame, md, Always(Then(InLobby, InGameOf(md))))
<1> DEFINE g == Op("game")
           z == <<>>
           A == InGameOf(md)
<1>1. g \in Instrs /\ g.op = "game" /\ Fields \in Instrs /\ Fields.op \in Quiet
    BY InstrTypes DEF Quiet
<1>2. A \in Languages
    BY LanguageTypes
<1> HIDE DEF g
<1>3. Reads(z, md, Always({<<>>})) /\ z = <<>> /\ z \in Seq(Instrs)
    BY ReadsDone
<1>4. /\ Always(A) \in Families /\ Always({<<>>}) \in Families
      /\ \A i \in Nat : Always(A)[i] = A /\ Always({<<>>})[i] = {<<>>}
    BY <1>2, AlwaysType, NothingIsLanguage
<1>5. Link(g, z = <<>>, md, Always(A), Always({<<>>}))
    BY <1>1, <1>3, <1>4 DEF Link
<1>6. Reads(Before(g, z), md, Always(A))
    BY <1>3, <1>5, ReadsBefore
<1>7. Reads(Before(Fields, Before(g, z)), md, Always(A))
    BY <1>1, <1>6, QuietBefore
<1>8. Before(Fields, Before(g, z)) \in Seq(Instrs)
    BY <1>7 DEF Reads
<1>9. Reads(Cat(Lobby, Before(Fields, Before(g, z))), md, Always(Then(InLobby, A)))
    BY <1>7, <1>8, LobbyBefore
<1>10. Before(Fields, Before(g, z)) = <<Fields, g>>
    BY Two, One
<1>11. LobbyGame = Cat(Lobby, <<Fields, g>>)
    BY DEF LobbyGame, Cat, g
<1> QED
    BY <1>9, <1>10, <1>11

LEMMA HeartbeatReads ==
    ASSUME NEW md
    PROVE  Reads(Heartbeat, md, Always(Open(Players)))
<1> DEFINE z == <<>>
<1>1. z \in Seq(Instrs) /\ Reads(z, md, Always({<<>>}))
    BY ReadsDone
<1> HIDE DEF z
<1>2. Reads(Cat(Nominees, z), md, Always(Then(Open(Players), {<<>>}))) /\ Nominees \in Seq(Instrs)
    BY <1>1, PeopleBefore
<1>3. Cat(Nominees, z) = Nominees /\ Then(Open(Players), {<<>>}) = Open(Players)
    BY <1>2, LanguageTypes, ThenNothing, NothingCat DEF z
<1>4. Fields \in Instrs /\ Fields.op \in Quiet
    BY InstrTypes DEF Quiet
<1>5. Reads(Before(Fields, Nominees), md, Always(Open(Players)))
    BY <1>2, <1>3, <1>4, QuietBefore
<1> QED
    BY <1>5 DEF Heartbeat, Before

LEMMA SomeLobbiesType ==
    ASSUME NEW k \in Nat
    PROVE  /\ SomeLobbiesOf(k) \in Languages
           /\ Then(SomeLobbiesOf(k), {<<End>>}) \in Languages
           /\ OneLobby = Then({<<Element>>}, Open(Lobbies)) /\ OneLobby \in Languages
<1>1. Open(Lobbies) \in Languages /\ {<<Element>>} \in Languages /\ {<<End>>} \in Languages
    <2>1. Lobbies \in Nat
        BY LimitsAssumption
    <2>2. 1 \in Nat /\ 0 \in Nat
        OBVIOUS
    <2> QED
        BY <2>1, <2>2, ListTypes, SinglesAreLanguages DEF Element, End
<1>2. OneLobby = Then({<<Element>>}, Open(Lobbies))
    BY DEF OneLobby, Then
<1>3. OneLobby \in Languages
    BY <1>1, <1>2, ThenType
<1>4. Then(OneLobby, OneLobby) \in Languages
    BY <1>3, ThenType
<1> DEFINE L(i) == IF i = 0 THEN {<<>>} ELSE IF i = 1 THEN OneLobby ELSE Then(OneLobby, OneLobby)
<1>5. \A i \in 0..k : L(i) \in Languages
    BY <1>3, <1>4, NothingIsLanguage
<1>6. SomeLobbiesOf(k) = UNION {L(i) : i \in 0..k} /\ 0 \in 0..k
    BY DEF SomeLobbiesOf
<1> HIDE DEF L
<1>7. SomeLobbiesOf(k) \in Languages
    BY <1>5, <1>6 DEF Languages
<1>8. Then(SomeLobbiesOf(k), {<<End>>}) \in Languages
    BY <1>1, <1>7, ThenType
<1> QED
    BY <1>2, <1>3, <1>7, <1>8

\* A list of lobbies, each with a list in it.
LEMMA NestedBefore ==
    ASSUME NEW c \in Instrs, c.op = "items", c.max \in 0..2, c.exact = FALSE, c.body = Nested,
           NEW md
    PROVE  Reads(Before(c, <<>>), md, Always(Then(SomeLobbiesOf(c.max), {<<End>>})))
<1> DEFINE A == Then(SomeLobbiesOf(c.max), {<<End>>})
           z == <<>>
<1>1. A \in Languages
    BY SomeLobbiesType
<1>2. /\ Always(A) \in Families /\ Always({<<>>}) \in Families
      /\ \A i \in Nat : Always(A)[i] = A /\ Always({<<>>})[i] = {<<>>}
    BY <1>1, AlwaysType, NothingIsLanguage
<1>3. Link(c, z = <<>>, md, Always(A), Always({<<>>}))
    BY <1>2 DEF Link
<1> QED
    BY <1>3, ReadsDone, ReadsBefore

LEMMA InfoReads ==
    ASSUME NEW md
    PROVE  Reads(InfoResponse, md, Always(Then(SomeLobbiesOf(Lobbies), {<<End>>})))
<1> DEFINE c == UpTo(Lobbies, Nested)
           z == <<>>
<1>1. Lobbies \in Nat /\ Lobbies \in 0..2 /\ Nested \in Bodies \cup {Nested}
    BY LimitsAssumption
<1>2. /\ c \in Instrs /\ c.op = "items" /\ c.max = Lobbies /\ c.exact = FALSE
      /\ c.body = Nested
    BY <1>1, UpToTypes
<1>3. /\ Fields \in Instrs /\ Fields.op \in Quiet /\ Array \in Instrs /\ Array.op \in Quiet
    BY InstrTypes DEF Quiet
<1> HIDE DEF c
<1>4. Reads(Before(c, z), md, Always(Then(SomeLobbiesOf(Lobbies), {<<End>>})))
    BY <1>1, <1>2, NestedBefore
<1>5. Reads(Before(Array, Before(c, z)), md, Always(Then(SomeLobbiesOf(Lobbies), {<<End>>})))
    BY <1>3, <1>4, QuietBefore
<1>6. Reads(Before(Fields, Before(Array, Before(c, z))), md,
            Always(Then(SomeLobbiesOf(Lobbies), {<<End>>})))
    BY <1>3, <1>5, QuietBefore
<1>7. InfoResponse = <<Fields, Array, c>>
    BY DEF InfoResponse, c, Nested
<1>8. <<Fields, Array, c>> = Before(Fields, <<Array, c>>)
    BY DEF Before
<1>9. <<Array, c>> = Before(Array, Before(c, z))
    BY Two, One
<1> QED
    BY <1>6, <1>7, <1>8, <1>9

LEMMA ProgramReads ==
    ASSUME NEW kind \in Kinds, NEW md
    PROVE  Reads(Program[kind], md, Always(InOrderOf(md)[kind]))
<1>1. CASE kind = "join"
    BY <1>1, JoinReads DEF Program, InOrderOf
<1>2. CASE kind = "lobby"
    BY <1>2, LobbyReads DEF Program, InOrderOf
<1>3. CASE kind = "lobbyGame"
    BY <1>3, LobbyGameReads DEF Program, InOrderOf
<1>4. CASE kind = "heartbeat"
    BY <1>4, HeartbeatReads DEF Program, InOrderOf
<1>5. CASE kind = "info"
    BY <1>5, InfoReads DEF Program, InOrderOf
<1> QED
    BY <1>1, <1>2, <1>3, <1>4, <1>5 DEF Kinds

\* What BranchOnModes leaves to read.
LEMMA GameReads == Reads(GameState, mode, Always(InGameOf(mode)))
<1> DEFINE z == <<>>
           p == UpTo(Players, <<Fields>>)
           c == Count(Votes)
           d == Counted(<<Fields>>)
           e == Op("size")
           A == InGameOf(mode)
           rest == CASE mode = 0 -> <<Array, p, Fields>>
                     [] mode = 1 -> <<c, Array, d>> \o PreGame \o <<e>>
                     [] mode = 3 -> <<Fields, c, d>> \o PreGame
                     [] OTHER    -> <<>>
<1>1. /\ Fields \in Instrs /\ Fields.op \in Quiet /\ Array \in Instrs /\ Array.op \in Quiet
      /\ e \in Instrs /\ e.op = "size"
    BY InstrTypes DEF Quiet
<1>2. /\ Players \in Nat /\ Votes \in Nat /\ <<Fields>> \in Bodies
      /\ <<Fields>> \in Bodies \cup {Nested}
    BY LimitsAssumption, BodyTypes
<1>3. c \in Instrs /\ d \in Instrs /\ p \in Instrs
    BY <1>2, CountTypes, CountedTypes, UpToTypes
<1>4. z \in Seq(Instrs) /\ Reads(z, mode, Always({<<>>}))
    BY ReadsDone
<1>5. /\ Open(Players) \in Languages /\ Sizes \in Languages /\ Exact(Votes) \in Languages
      /\ Then(Open(Players), {<<>>}) = Open(Players) /\ Then(Sizes, {<<>>}) = Sizes
    BY LanguageTypes, ThenNothing
<1>6. Reads(Cat(PreGame, z), mode, Always(Open(Players))) /\ PreGame \in Seq(Instrs)
    BY <1>4, <1>5, PeopleBefore
<1>7. Cat(PreGame, z) = PreGame
    BY <1>6, NothingCat
<1>8. Reads(rest, mode, Always(A))
    <2>1. CASE mode = 0
        <3>1. Reads(Before(Fields, z), mode, Always({<<>>}))
            BY <1>1, <1>4, QuietBefore
        <3>2. Reads(Before(p, Before(Fields, z)), mode, Always(Open(Players)))
            BY <1>2, <1>5, <3>1, ListBefore
        <3>3. Reads(Before(Array, Before(p, Before(Fields, z))), mode, Always(Open(Players)))
            BY <1>1, <3>2, QuietBefore
        <3> HIDE DEF p
        <3>4. <<Array, p, Fields>> = Before(Array, <<p, Fields>>)
            BY DEF Before
        <3>5. <<p, Fields>> = Before(p, Before(Fields, z))
            BY Two, One
        <3>6. rest = <<Array, p, Fields>> /\ A = Open(Players)
            BY <2>1 DEF InGameOf
        <3> HIDE DEF rest, A
        <3> QED
            BY <3>3, <3>4, <3>5, <3>6
    <2>2. CASE mode = 1
        <3> DEFINE s == Before(e, z)
        <3>1. Reads(s, mode, Always(Sizes))
            <4>1. /\ Always(Sizes) \in Families /\ Always({<<>>}) \in Families
                  /\ \A i \in Nat : Always(Sizes)[i] = Sizes /\ Always({<<>>})[i] = {<<>>}
                BY <1>5, AlwaysType, NothingIsLanguage
            <4>2. Link(e, z = <<>>, mode, Always(Sizes), Always({<<>>}))
                BY <1>1, <1>5, <4>1 DEF Link
            <4> QED
                BY <1>4, <4>2, ReadsBefore
        <3>2. s \in Seq(Instrs) /\ s = <<e>>
            BY <3>1, One DEF Reads
        <3> HIDE DEF s
        <3>3. Reads(Cat(PreGame, s), mode, Always(Then(Open(Players), Sizes)))
            BY <3>1, <3>2, PeopleBefore
        <3> DEFINE r == Cat(PreGame, s)
        <3>4. r \in Seq(Instrs)
            BY <3>3 DEF Reads
        <3>5. Reads(Before(c, Before(Array, Before(d, r))), mode,
                    Always(Then(Exact(Votes), Then(Open(Players), Sizes))))
            BY <1>2, <3>3, MembersBefore
        <3>6. Then(Exact(Votes), Then(Open(Players), Sizes))
                 = Then(Then(Exact(Votes), Open(Players)), Sizes)
            BY <1>5, ThenAgain
        <3> DEFINE v == <<c, Array, d>>
        <3> HIDE DEF c, d, e
        <3>7. Cat(v, r) = Before(c, Before(Array, Before(d, r)))
            BY <1>1, <1>3, <3>4, ThreeCat
        <3>8. v \in Seq(Instrs)
            BY <1>1, <1>3
        <3>9. rest = (v \o PreGame) \o s /\ A = Then(Then(Exact(Votes), Open(Players)), Sizes)
            BY <2>2, <3>2 DEF InGameOf
        <3> HIDE DEF v, rest, A
        <3>10. (v \o PreGame) \o s = Cat(v, r)
            BY <1>6, <3>2, <3>8, CatTwice DEF Cat
        <3> QED
            BY <3>5, <3>6, <3>7, <3>9, <3>10
    <2>3. CASE mode = 3
        <3>1. Reads(PreGame, mode, Always(Open(Players)))
            BY <1>6, <1>7
        <3>2. Reads(Before(c, Before(d, PreGame)), mode,
                    Always(Then(Exact(Votes), Open(Players))))
            BY <1>2, <3>1, MembersBefore
        <3>3. Reads(Before(Fields, Before(c, Before(d, PreGame))), mode,
                    Always(Then(Exact(Votes), Open(Players))))
            BY <1>1, <3>2, QuietBefore
        <3> HIDE DEF c, d
        <3>4. Cat(<<Fields, c, d>>, PreGame) = Before(Fields, Before(c, Before(d, PreGame)))
            BY <1>1, <1>3, <1>6, ThreeCat
        <3>5. rest = Cat(<<Fields, c, d>>, PreGame) /\ A = Then(Exact(Votes), Open(Players))
            BY <2>3 DEF InGameOf, Cat
        <3> HIDE DEF rest, A
        <3> QED
            BY <3>3, <3>4, <3>5
    <2>4. CASE mode # 0 /\ mode # 1 /\ mode # 3
        <3>1. rest = z /\ A = {<<>>}
            BY <2>4 DEF InGameOf
        <3> HIDE DEF rest, A
        <3> QED
            BY <1>4, <3>1
    <2> QED
        BY <2>1, <2>2, <2>3, <2>4
<1>9. GameState = (IF main = 0 THEN <<Fields>> ELSE <<>>) \o rest
    BY DEF GameState
<1> HIDE DEF rest, A
<1>10. rest \in Seq(Instrs)
    BY <1>8 DEF Reads
<1>11. CASE main = 0
    <2>1. GameState = Before(Fields, rest)
        BY <1>9, <1>11 DEF Before
    <2>2. Reads(Before(Fields, rest), mode, Always(A))
        BY <1>1, <1>8, QuietBefore
    <2> QED
        BY <2>1, <2>2 DEF A
<1>12. CASE main # 0
    <2>1. GameState = Cat(<<>>, rest)
        BY <1>9, <1>12 DEF Cat
    <2>2. GameState = rest
        BY <1>10, <2>1, NothingCat
    <2> QED
        BY <1>8, <2>2 DEF A
<1> QED
    BY <1>11, <1>12

\* It reads no modes.
Modeless == {c \in Instrs : c.op # "mode"}

LEMMA GameStateIsModeless == GameState \in Seq(Modeless)
<1> DEFINE p == UpTo(Players, <<Fields>>)
           c == Count(Votes)
           d == Counted(<<Fields>>)
           e == Op("size")
           S == Modeless
<1>1. Fields \in S /\ Array \in S /\ e \in S
    BY InstrTypes DEF Quiet, Modeless
<1>2. p \in S /\ c \in S /\ d \in S
    <2>1. /\ Players \in Nat /\ Votes \in Nat /\ <<Fields>> \in Bodies
          /\ <<Fields>> \in Bodies \cup {Nested}
        BY LimitsAssumption, BodyTypes
    <2>2. c \in S
        BY <2>1, CountTypes DEF Modeless
    <2>3. d \in S
        BY <2>1, CountedTypes DEF Modeless
    <2>4. p \in S
        BY <2>1, UpToTypes DEF Modeless
    <2> QED
        BY <2>2, <2>3, <2>4
<1> DEFINE v == <<c, Array, d>>
           w == <<Fields, c, d>>
           s == <<e>>
           f == <<Fields>>
           g == <<Array, p, Fields>>
           z == <<>>
<1>3. PreGame = <<Array, p>>
    BY DEF PreGame
<1> HIDE DEF p, c, d, e, S
<1>4. /\ v \in Seq(S) /\ w \in Seq(S) /\ s \in Seq(S) /\ f \in Seq(S)
      /\ g \in Seq(S) /\ z \in Seq(S) /\ PreGame \in Seq(S)
    BY <1>1, <1>2, <1>3
<1> DEFINE rest == CASE mode = 0 -> g
                     [] mode = 1 -> v \o PreGame \o s
                     [] mode = 3 -> w \o PreGame
                     [] OTHER    -> z
<1>5. GameState = (IF main = 0 THEN f ELSE z) \o rest
    BY DEF GameState, c, d, e, p
<1> HIDE DEF v, w, s, f, g, z
<1>6. v \o PreGame \in Seq(S) /\ w \o PreGame \in Seq(S)
    BY <1>4, ConcatProperties
<1>7. (v \o PreGame) \o s \in Seq(S)
    BY <1>4, <1>6, ConcatProperties
<1>8. rest \in Seq(S)
    BY <1>4, <1>6, <1>7
<1> HIDE DEF rest
<1>9. f \o rest \in Seq(S) /\ z \o rest \in Seq(S)
    BY <1>4, <1>8, ConcatProperties
<1> QED
    BY <1>5, <1>9 DEF S

-----------------------------------------------------------------------------
(* What is left after a number, an element or the end of a list.            *)

LEMMA CountAfter ==
    ASSUME NEW max \in Nat, NEW H \in Families, NEW x \in Nat
    PROVE  After(x, UNION {Then({<<v>>}, H[v]) : v \in 0..max})
              = IF x \in 0..max THEN H[x] ELSE {}
<1> DEFINE L(v) == Then({<<v>>}, H[v])
<1>1. ASSUME NEW v \in 0..max
      PROVE  After(x, L(v)) = IF x = v THEN H[v] ELSE {}
    <2>1. v \in Nat /\ H[v] \in Languages
        BY DEF Families
    <2> QED
        BY <2>1, NumberAfter
<1> HIDE DEF L
<1>2. ASSUME NEW t
      PROVE  t \in After(x, UNION {L(v) : v \in 0..max}) <=> \E v \in 0..max : t \in After(x, L(v))
    BY DEF After
<1>3. \A t : t \in After(x, UNION {L(v) : v \in 0..max}) <=> x \in 0..max /\ t \in H[x]
    BY <1>1, <1>2
<1>4. After(x, UNION {L(v) : v \in 0..max}) = IF x \in 0..max THEN H[x] ELSE {}
    BY <1>3
<1> QED
    BY <1>4 DEF L

LEMMA SizeAfter ==
    ASSUME NEW B \in Languages, NEW x \in Nat
    PROVE  After(x, Then(Sizes, B)) = IF x \in 1..Settings THEN B ELSE {}
<1>1. \A s : s \in Then(Sizes, B) <=> \E a \in Sizes, b \in B : s = Cat(a, b)
    BY InThen
<1>2. ASSUME NEW v \in 1..Settings PROVE v \in Nat
    BY LimitsAssumption
<1>3. ASSUME NEW v, NEW s
      PROVE  s \in Then({<<v>>}, B) <=> \E b \in B : s = Cat(<<v>>, b)
    <2> DEFINE one == <<v>>
    <2> HIDE DEF one
    <2>1. s \in Then({one}, B) <=> \E a \in {one}, b \in B : s = Cat(a, b)
        BY InThen
    <2>2. s \in Then({one}, B) <=> \E b \in B : s = Cat(one, b)
        BY <2>1
    <2> QED
        BY <2>2 DEF one
<1> DEFINE L(v) == Then({<<v>>}, B)
           y(v) == <<v>>
<1>4. \A s : s \in Then(Sizes, B) <=> \E v \in 1..Settings : \E b \in B : s = Cat(y(v), b)
    <2>1. Sizes = {y(v) : v \in 1..Settings}
        BY DEF Sizes
    <2> HIDE DEF y
    <2> QED
        BY <1>1, <2>1
<1>5. \A v, s : s \in L(v) <=> \E b \in B : s = Cat(y(v), b)
    BY <1>3
<1>6. ASSUME NEW v \in 1..Settings
      PROVE  After(x, L(v)) = IF x = v THEN B ELSE {}
    BY <1>2, NumberAfter
<1> HIDE DEF L, y
<1>7. \A s : s \in Then(Sizes, B) <=> \E v \in 1..Settings : s \in L(v)
    BY <1>4, <1>5
<1>8. \A t : t \in After(x, Then(Sizes, B)) <=> \E v \in 1..Settings : t \in After(x, L(v))
    BY <1>7 DEF After
<1> QED
    BY <1>6, <1>8

LEMMA ThenUnion ==
    ASSUME NEW A, NEW B, NEW C
    PROVE  Then(A \cup B, C) = Then(A, C) \cup Then(B, C)
<1>1. \A s : /\ s \in Then(A \cup B, C) <=> \E a \in A \cup B, c \in C : s = Cat(a, c)
             /\ s \in Then(A, C) <=> \E a \in A, c \in C : s = Cat(a, c)
             /\ s \in Then(B, C) <=> \E a \in B, c \in C : s = Cat(a, c)
    BY InThen
<1>2. \A s : s \in Then(A \cup B, C) <=> s \in Then(A, C) \cup Then(B, C)
    BY <1>1
<1> QED
    BY <1>2

LEMMA NothingThen ==
    ASSUME NEW B \in Languages
    PROVE  Then({<<>>}, B) = B
<1> DEFINE z == <<>>
<1>1. \A b \in B : Cat(z, b) = b
    BY CatNothing DEF Languages
<1> HIDE DEF z
<1>2. \A s : s \in Then({z}, B) <=> \E a \in {z}, b \in B : s = Cat(a, b)
    BY InThen
<1>3. \A s : s \in Then({z}, B) <=> s \in B
    BY <1>1, <1>2
<1>4. Then({z}, B) = B
    BY <1>3
<1> QED
    BY <1>4 DEF z

LEMMA UnionAfter ==
    ASSUME NEW x, NEW A, NEW B
    PROVE  After(x, A \cup B) = After(x, A) \cup After(x, B)
BY DEF After

\* A list of lobbies is at its end, or has a lobby and some more.
LEMMA LobbiesAfter ==
    ASSUME NEW k \in 0..2
    PROVE  LET A == Then(SomeLobbiesOf(k), {<<End>>})
           IN  /\ After(End, A) = {<<>>}
               /\ After(Element, A) =
                     IF k > 0 THEN Then(Open(Lobbies), Then(SomeLobbiesOf(k - 1), {<<End>>}))
                     ELSE {}
<1> DEFINE last == {<<End>>}
           L    == Open(Lobbies)
           one  == {<<Element>>}
           A(i) == Then(SomeLobbiesOf(i), last)
<1>1. last \in Languages /\ L \in Languages /\ one \in Languages
    <2>1. Lobbies \in Nat
        BY LimitsAssumption
    <2>2. 1 \in Nat /\ 0 \in Nat
        OBVIOUS
    <2> QED
        BY <2>1, <2>2, ListTypes, SinglesAreLanguages DEF Element, End
<1>2. OneLobby = Then(one, L) /\ OneLobby \in Languages
    <2>1. 0 \in Nat
        OBVIOUS
    <2> QED
        BY <2>1, SomeLobbiesType
<1>3. SomeLobbiesOf(0) = {<<>>}
    <2>1. 0..0 = {0}
        OBVIOUS
    <2> QED
        BY <2>1 DEF SomeLobbiesOf
<1>4. SomeLobbiesOf(1) = {<<>>} \cup OneLobby
    <2>1. 0..1 = {0, 1}
        OBVIOUS
    <2> QED
        BY <2>1 DEF SomeLobbiesOf
<1>5. SomeLobbiesOf(2) = {<<>>} \cup Then(OneLobby, SomeLobbiesOf(1))
    <2>1. SomeLobbiesOf(2) = {<<>>} \cup OneLobby \cup Then(OneLobby, OneLobby)
        <3>1. 0..2 = {0, 1, 2}
            OBVIOUS
        <3> QED
            BY <3>1 DEF SomeLobbiesOf
    <2>2. Then(OneLobby, {<<>>} \cup OneLobby) = OneLobby \cup Then(OneLobby, OneLobby)
        <3>1. \A s : /\ s \in Then(OneLobby, {<<>>} \cup OneLobby)
                           <=> \E a \in OneLobby, b \in {<<>>} \cup OneLobby : s = Cat(a, b)
                     /\ s \in Then(OneLobby, OneLobby)
                           <=> \E a \in OneLobby, b \in OneLobby : s = Cat(a, b)
            BY InThen
        <3>2. \A a \in OneLobby : Cat(a, <<>>) = a
            BY <1>2, CatNothing DEF Languages
        <3>3. \A s : s \in Then(OneLobby, {<<>>} \cup OneLobby)
                        <=> s \in OneLobby \cup Then(OneLobby, OneLobby)
            BY <3>1, <3>2
        <3> QED
            BY <3>3
    <2> QED
        BY <1>4, <2>1, <2>2
<1>6. /\ \A i \in 0..2 : A(i) \in Languages
      /\ Then({<<>>}, last) = last
    <2>1. \A i \in 0..2 : i \in Nat
        OBVIOUS
    <2>2. \A i \in Nat : A(i) \in Languages
        BY SomeLobbiesType
    <2>3. Then({<<>>}, last) = last
        BY <1>1, NothingThen
    <2> QED
        BY <2>1, <2>2, <2>3
<1>7. A(0) = last
    BY <1>3, <1>6
<1>8. A(1) = last \cup Then(one, Then(L, A(0)))
    <2>1. A(1) = Then({<<>>}, last) \cup Then(OneLobby, last)
        BY <1>4, ThenUnion
    <2>2. Then(OneLobby, last) = Then(one, Then(L, last))
        BY <1>1, <1>2, ThenAgain
    <2> QED
        BY <1>6, <1>7, <2>1, <2>2
<1>9. A(2) = last \cup Then(one, Then(L, A(1)))
    <2>1. A(2) = Then({<<>>}, last) \cup Then(Then(OneLobby, SomeLobbiesOf(1)), last)
        BY <1>5, ThenUnion
    <2>2. SomeLobbiesOf(1) \in Languages
        BY SomeLobbiesType
    <2>3. Then(Then(OneLobby, SomeLobbiesOf(1)), last) = Then(OneLobby, A(1))
        BY <1>1, <1>2, <2>2, ThenAgain
    <2>4. A(1) \in Languages
        BY <1>6
    <2>5. Then(OneLobby, A(1)) = Then(one, Then(L, A(1)))
        BY <1>1, <1>2, <2>4, ThenAgain
    <2> QED
        BY <1>6, <2>1, <2>3, <2>5
<1> HIDE DEF A
<1>10. /\ After(End, last) = {<<>>} /\ After(Element, last) = {}
    <2>1. last = Then(last, {<<>>})
        BY <1>1, ThenNothing
    <2>2. /\ After(End, Then({<<End>>}, {<<>>})) = {<<>>}
          /\ After(Element, Then({<<End>>}, {<<>>})) = {}
        BY NumberAfter, NothingIsLanguage DEF Element, End
    <2> QED
        BY <2>1, <2>2
<1>11. ASSUME NEW B \in Languages
       PROVE  After(End, Then(one, B)) = {} /\ After(Element, Then(one, B)) = B
    BY NumberAfter DEF Element, End
<1>12. ASSUME NEW B \in Languages
       PROVE  /\ After(End, last \cup Then(one, Then(L, B))) = {<<>>}
              /\ After(Element, last \cup Then(one, Then(L, B))) = Then(L, B)
    <2>1. Then(L, B) \in Languages
        BY <1>1, ThenType
    <2> QED
        <3> DEFINE Y == Then(one, Then(L, B))
        <3>2. After(End, Y) = {} /\ After(Element, Y) = Then(L, B)
            BY <1>11, <2>1
        <3> HIDE DEF Y, last
        <3>1. \A x : After(x, last \cup Y) = After(x, last) \cup After(x, Y)
            BY UnionAfter
        <3> QED
            BY <1>10, <3>1, <3>2 DEF Y
<1>13. /\ After(End, A(k)) = {<<>>}
       /\ After(Element, A(k)) = IF k > 0 THEN Then(L, A(k - 1)) ELSE {}
    <2>1. A(0) \in Languages /\ A(1) \in Languages
        BY <1>6
    <2>2. CASE k = 0
        <3>1. A(k) = last /\ ~(k > 0)
            BY <1>7, <2>2
        <3> QED
            BY <1>10, <3>1
    <2>3. CASE k = 1
        <3>1. After(End, A(1)) = {<<>>} /\ After(Element, A(1)) = Then(L, A(0))
            BY <1>8, <1>12, <2>1
        <3>2. k > 0 /\ k - 1 = 0
            BY <2>3
        <3> QED
            BY <2>3, <3>1, <3>2
    <2>4. CASE k = 2
        <3>1. After(End, A(2)) = {<<>>} /\ After(Element, A(2)) = Then(L, A(1))
            BY <1>9, <1>12, <2>1
        <3>2. k > 0 /\ k - 1 = 1
            BY <2>4
        <3> QED
            BY <2>4, <3>1, <3>2
    <2>5. k = 0 \/ k = 1 \/ k = 2
        OBVIOUS
    <2> QED
        BY <2>2, <2>3, <2>4, <2>5
<1> QED
    BY <1>13 DEF A

-----------------------------------------------------------------------------
(* The inductive invariant of an inspection: the instructions that are left *)
(* read exactly what, after the log, makes a message that is in order.  As  *)
(* long as the modes are not read, that is so for each of them.             *)

Wanted(md)  == {t \in Logs : Cat(log, t) \in InOrderOf(md)[input.kind]}
Reading(md) == \E G : Reads(todo, md, G) /\ G[n] = Wanted(md)
Going ==
    /\ log \in Logs /\ n \in Nat
    /\ \A md : md = mode \/ todo \notin Seq(Modeless) => Reading(md)

InspectionInv ==
    /\ place \in {"start", "pending"} => n = 0 /\ ~failed
    /\ place \notin {"inspect", "accepted", "answered", "rejected", "dropped"} => log = <<>>
    /\ place = "inspect" =>
          /\ input.kind \in Kinds
          /\ failed => log \notin InOrder[input.kind]
          /\ ~failed => Going
    /\ InspectionIsExact

LEMMA InOrderTypes ==
    ASSUME NEW kind \in Kinds, NEW md
    PROVE  InOrderOf(md)[kind] \in Languages
<1>1. Then(InLobby, InGameOf(md)) \in Languages
    BY LanguageTypes, ThenType
<1>2. Then(SomeLobbiesOf(Lobbies), {<<End>>}) \in Languages
    BY LimitsAssumption, SomeLobbiesType
<1> QED
    BY <1>1, <1>2, LanguageTypes DEF InOrderOf, Kinds

LEMMA AppendCat ==
    ASSUME NEW s \in Logs, NEW x \in Nat, NEW t \in Logs
    PROVE  /\ Append(s, x) \in Logs
           /\ Cat(Append(s, x), t) = Cat(s, Cons(x, t))
<1> DEFINE one == <<x>>
<1>1. one \in Logs
    BY Singles
<1>2. Append(s, x) = Cat(s, one)
    BY AppendIsConcat DEF Cat, Logs
<1> HIDE DEF one
<1>3. Cat(s, one) \in Logs /\ Cat(Cat(s, one), t) = Cat(s, Cat(one, t))
    BY <1>1, CatType, CatAgain
<1>4. Cons(x, t) = Cat(one, t)
    BY ConsIsCat DEF one
<1> QED
    BY <1>2, <1>3, <1>4

LEMMA ReadingStays ==
    ASSUME NEW md, NEW G, NEW K, Reads(todo', md, K), G[n] = Wanted(md), K[n'] = G[n],
           log' = log, input' = input
    PROVE  Reading(md)'
<1>1. Wanted(md)' = Wanted(md)
    BY DEF Wanted
<1> QED
    BY <1>1 DEF Reading

LEMMA ReadingGoesOn ==
    ASSUME log \in Logs, NEW x \in Nat, log' = Append(log, x), input' = input,
           NEW md, NEW G, NEW K, Reads(todo', md, K), G[n] = Wanted(md),
           K[n'] = After(x, G[n])
    PROVE  Reading(md)'
<1>1. ASSUME NEW t \in Logs
      PROVE  Cat(log', t) \in InOrderOf(md)[input'.kind] <=> Cons(x, t) \in Wanted(md)
    <2>1. Cat(log', t) = Cat(log, Cons(x, t))
        BY AppendCat
    <2>2. Cons(x, t) \in Logs
        BY ConsType
    <2> QED
        BY <2>1, <2>2 DEF Wanted
<1>2. Wanted(md)' = After(x, G[n])
    BY <1>1 DEF Wanted, After
<1> QED
    BY <1>2 DEF Reading

LEMMA Refuted ==
    ASSUME log \in Logs, NEW x \in Int, log' = Append(log, x), UNCHANGED <<input, mode>>,
           input.kind \in Kinds, NEW G, G[n] = Wanted(mode), x \in Nat => After(x, G[n]) = {}
    PROVE  log' \notin InOrder'[input'.kind]
<1> SUFFICES ASSUME log' \in InOrderOf(mode)[input.kind] PROVE FALSE
    <2>1. InOrder' = InOrderOf(mode)
        <3>1. InOrder' = InOrder
            BY DEF InOrder, InGame
        <3> QED
            BY <3>1, InOrderIs
    <2> QED
        BY <2>1
<1>1. log' \in Logs
    BY InOrderTypes DEF Languages
<1>2. x \in Nat
    <2>1. log \in Seq(Int)
        BY SeqMonotonic DEF Logs
    <2>2. Len(log') = Len(log) + 1 /\ log'[Len(log) + 1] = x /\ Len(log) \in Nat
        BY <2>1, AppendProperties, LenProperties
    <2>3. Len(log) + 1 \in 1..Len(log')
        BY <2>2
    <2> QED
        BY <1>1, <2>2, <2>3, ElementOfSeq DEF Logs
<1>3. <<>> \in Logs /\ Cons(x, <<>>) \in Logs
    BY <1>2, EmptySeq, ConsType DEF Logs
<1>4. Cat(log', <<>>) = log' /\ Cat(log', <<>>) = Cat(log, Cons(x, <<>>))
    BY <1>1, <1>2, <1>3, AppendCat, CatNothing
<1>5. Cons(x, <<>>) \in Wanted(mode)
    BY <1>3, <1>4 DEF Wanted
<1>6. <<>> \in After(x, G[n])
    BY <1>3, <1>5 DEF After
<1> QED
    BY <1>2, <1>6

LEMMA MoreModeless ==
    ASSUME todo \in Seq(Instrs), todo # <<>>, NEW more \in Seq(Modeless),
           todo' = more \o Tail(todo), todo' \notin Seq(Modeless)
    PROVE  todo \notin Seq(Modeless)
<1> SUFFICES ASSUME todo \in Seq(Modeless) PROVE FALSE
    OBVIOUS
<1>1. Tail(todo) \in Seq(Modeless)
    BY HeadTailProperties
<1>2. more \o Tail(todo) \in Seq(Modeless)
    BY <1>1, ConcatProperties
<1> QED
    BY <1>2

\* The first instruction that is left, and the languages before and after it.
LEMMA Opened ==
    ASSUME Running, NEW md, Reading(md)
    PROVE  \E G, H :
              /\ Reads(todo, md, G) /\ G[n] = Wanted(md) /\ todo \in Seq(Instrs)
              /\ G \in Families /\ H \in Families /\ Next1 \in Instrs
              /\ Reads(Tail(todo), md, H) /\ Link(Next1, Tail(todo) = <<>>, md, G, H)
<1>1. PICK G : Reads(todo, md, G) /\ G[n] = Wanted(md)
    BY DEF Reading
<1>2. PICK H : Reads(Tail(todo), md, H) /\ Link(Head(todo), Tail(todo) = <<>>, md, G, H)
    BY <1>1, ReadsTail DEF Running
<1>3. todo \in Seq(Instrs)
    BY <1>1 DEF Reads
<1>4. G \in Families /\ H \in Families /\ Head(todo) \in Instrs
    BY <1>2 DEF Link
<1> QED
    BY <1>1, <1>2, <1>3, <1>4 DEF Next1

LEMMA StillInspecting ==
    ASSUME InspectionInv, place = "inspect", UNCHANGED <<input, place>>,
           failed' => log' \notin InOrder'[input'.kind],
           ~failed' => Going'
    PROVE  InspectionInv'
<1>1. InspectionIsExact'
    BY DEF InspectionIsExact
<1> QED
    BY <1>1 DEF InspectionInv

\* A step that takes the first instruction, reads nothing that is logged, and
\* puts instructions without a mode in its place.
LEMMA SilentStep ==
    ASSUME InspectionInv, Running, UNCHANGED <<input, place, n, mode, failed, log>>,
           NEW more \in Seq(Modeless), todo' = more \o Tail(todo),
           \A md, G, H :
              /\ Reads(Tail(todo), md, H) /\ Link(Next1, Tail(todo) = <<>>, md, G, H)
              => \E K : Reads(todo', md, K) /\ K[n] = G[n]
    PROVE  InspectionInv'
<1>1. place = "inspect" /\ ~failed /\ todo # <<>> /\ Going
    BY DEF Running, InspectionInv
<1>2. ASSUME NEW md, md = mode' \/ todo' \notin Seq(Modeless)
      PROVE  Reading(md)'
    <2>1. md = mode \/ todo \notin Seq(Modeless)
        <3>1. Reading(mode)
            BY <1>1 DEF Going
        <3>2. todo \in Seq(Instrs)
            BY <3>1 DEF Reading, Reads
        <3> QED
            BY <1>1, <1>2, <3>2, MoreModeless
    <2>2. Reading(md)
        BY <1>1, <2>1 DEF Going
    <2>3. PICK G, H :
              /\ Reads(todo, md, G) /\ G[n] = Wanted(md)
              /\ Reads(Tail(todo), md, H) /\ Link(Next1, Tail(todo) = <<>>, md, G, H)
        BY <2>2, Opened
    <2>4. PICK K : Reads(todo', md, K) /\ K[n] = G[n]
        BY <2>1, <2>3
    <2> QED
        BY <2>3, <2>4, ReadingStays
<1>3. Going'
    BY <1>1, <1>2 DEF Going
<1> QED
    BY <1>1, <1>3, StillInspecting

\* One that logs a number, an element, an end or a fault.
LEMMA LoggedStep ==
    ASSUME InspectionInv, Running, UNCHANGED <<input, place, mode>>,
           NEW x \in Int, log' = Append(log, x), NEW more \in Seq(Modeless),
           ~failed' => todo' = more \o Tail(todo) /\ n' \in Nat /\ x \in Nat,
           \A md, G, H :
              /\ Reads(Tail(todo), md, H) /\ Link(Next1, Tail(todo) = <<>>, md, G, H)
              => IF failed' THEN x \in Nat => After(x, G[n]) = {}
                 ELSE \E K : Reads(todo', md, K) /\ K[n'] = After(x, G[n])
    PROVE  InspectionInv'
<1>1. /\ place = "inspect" /\ ~failed /\ todo # <<>> /\ Going /\ input.kind \in Kinds
      /\ log \in Logs
    BY DEF Running, InspectionInv, Going
<1>2. Reading(mode)
    BY <1>1 DEF Going
<1>3. ASSUME failed' PROVE log' \notin InOrder'[input'.kind]
    <2>1. PICK G, H :
              /\ Reads(todo, mode, G) /\ G[n] = Wanted(mode)
              /\ Reads(Tail(todo), mode, H) /\ Link(Next1, Tail(todo) = <<>>, mode, G, H)
        BY <1>2, Opened
    <2>2. x \in Nat => After(x, G[n]) = {}
        BY <1>3, <2>1
    <2> QED
        BY <1>1, <2>1, <2>2, Refuted
<1>4. ASSUME ~failed', NEW md, md = mode' \/ todo' \notin Seq(Modeless)
      PROVE  Reading(md)'
    <2>1. md = mode \/ todo \notin Seq(Modeless)
        <3>1. todo \in Seq(Instrs)
            BY <1>2 DEF Reading, Reads
        <3>2. todo' = more \o Tail(todo)
            BY <1>4
        <3>3. todo' \notin Seq(Modeless) => todo \notin Seq(Modeless)
            BY <1>1, <3>1, <3>2, MoreModeless
        <3> QED
            BY <1>4, <3>3
    <2>2. Reading(md)
        BY <1>1, <2>1 DEF Going
    <2>3. PICK G, H :
              /\ Reads(todo, md, G) /\ G[n] = Wanted(md)
              /\ Reads(Tail(todo), md, H) /\ Link(Next1, Tail(todo) = <<>>, md, G, H)
        BY <2>2, Opened
    <2>4. PICK K : Reads(todo', md, K) /\ K[n'] = After(x, G[n])
        BY <1>4, <2>3
    <2>5. x \in Nat
        BY <1>4
    <2> QED
        BY <1>1, <2>3, <2>4, <2>5, ReadingGoesOn
<1>5. ~failed' => Going'
    <2>1. ASSUME ~failed' PROVE log' \in Logs
        <3>1. x \in Nat
            BY <2>1
        <3> QED
            BY <1>1, <3>1, AppendProperties DEF Logs
    <2> QED
        BY <1>4, <2>1 DEF Going
<1> QED
    BY <1>1, <1>3, <1>5, StillInspecting

-----------------------------------------------------------------------------
(* Each step of an inspection keeps the invariant.                          *)

LEMMA NothingMore ==
    /\ <<>> \in Seq(Modeless)
    /\ \A s \in Seq(Instrs) : s # <<>> => <<>> \o Tail(s) = Tail(s)
<1>1. ASSUME NEW s \in Seq(Instrs), s # <<>> PROVE <<>> \o Tail(s) = Tail(s)
    <2> DEFINE t == Tail(s)
    <2>1. t \in Seq(Instrs)
        BY <1>1, HeadTailProperties
    <2> HIDE DEF t
    <2>2. Cat(<<>>, t) = t
        BY <2>1, NothingCat
    <2> QED
        BY <2>2 DEF Cat, t
<1> QED
    BY <1>1, EmptySeq

\* What a step that reads may rely on.
LEMMA AtInstruction ==
    ASSUME InspectionInv, Running
    PROVE  /\ todo \in Seq(Instrs) /\ <<>> \o Tail(todo) = Tail(todo)
           /\ Tail(todo) \in Seq(Instrs) /\ Next1 \in Instrs /\ n \in Nat /\ log \in Logs
           /\ place = "inspect" /\ ~failed
<1>1. todo # <<>> /\ Going
    BY DEF Running, InspectionInv
<1>2. Reading(mode)
    BY <1>1 DEF Going
<1>3. todo \in Seq(Instrs) /\ Next1 \in Instrs
    BY <1>2, Opened
<1>4. <<>> \o Tail(todo) = Tail(todo)
    BY <1>1, <1>3, NothingMore
<1>5. Tail(todo) \in Seq(Instrs)
    BY <1>1, <1>3, HeadTailProperties
<1>6. n \in Nat /\ log \in Logs
    BY <1>1 DEF Going
<1> QED
    BY <1>3, <1>4, <1>5, <1>6 DEF Running

LEMMA InspectionReadFields ==
    ASSUME InspectionInv, ReadFields
    PROVE  InspectionInv'
<1>1. Running /\ Next1.op = "fields" /\ UNCHANGED <<input, place, n, mode, failed, log>>
    BY DEF ReadFields, Native, Continue, Keep
<1>2. todo' = <<>> \o Tail(todo)
    BY DEF ReadFields, Continue
<1>3. <<>> \o Tail(todo) = Tail(todo)
    BY <1>1, AtInstruction
<1>4. ASSUME NEW md, NEW G, NEW H, Reads(Tail(todo), md, H),
             Link(Next1, Tail(todo) = <<>>, md, G, H)
      PROVE  Reads(todo', md, H) /\ H[n] = G[n]
    <2>1. todo' = Tail(todo)
        BY <1>2, <1>3
    <2>2. G = H
        BY <1>1, <1>4 DEF Link, Quiet
    <2> QED
        BY <1>4, <2>1, <2>2
<1>5. <<>> \in Seq(Modeless)
    BY NothingMore
<1> DEFINE z == <<>>
<1>6. todo' = z \o Tail(todo) /\ z \in Seq(Modeless)
    BY <1>2, <1>5
<1> HIDE DEF z
<1>7. \A md, G, H :
         /\ Reads(Tail(todo), md, H) /\ Link(Next1, Tail(todo) = <<>>, md, G, H)
         => \E K : Reads(todo', md, K) /\ K[n] = G[n]
    BY <1>4
<1> QED
    BY <1>1, <1>6, <1>7, SilentStep

LEMMA InspectionReadFault ==
    ASSUME InspectionInv, ReadFault
    PROVE  InspectionInv'
<1>1. /\ Running /\ UNCHANGED <<input, place, mode>> /\ failed'
      /\ log' = Append(log, Fault)
    BY DEF ReadFault, Native, Fail, Keep
<1>2. Fault \in Int /\ Fault \notin Nat
    BY DEF Fault
<1> DEFINE z == <<>>
<1>3. z \in Seq(Modeless)
    BY NothingMore
<1> HIDE DEF z
<1>4. \A md, G, H :
         /\ Reads(Tail(todo), md, H) /\ Link(Next1, Tail(todo) = <<>>, md, G, H)
         => IF failed' THEN Fault \in Nat => After(Fault, G[n]) = {}
            ELSE \E K : Reads(todo', md, K) /\ K[n'] = After(Fault, G[n])
    BY <1>1, <1>2
<1>5. ~failed' => todo' = z \o Tail(todo) /\ n' \in Nat /\ Fault \in Nat
    BY <1>1
<1> HIDE DEF Fault
<1> QED
    BY <1>1, <1>2, <1>3, <1>4, <1>5, LoggedStep

LEMMA InspectionReadCount ==
    ASSUME InspectionInv, ReadCount
    PROVE  InspectionInv'
<1>1. Running /\ Next1.op = "count" /\ UNCHANGED <<input, place, mode>>
    BY DEF ReadCount, Native, Keep
<1>2. /\ todo \in Seq(Instrs) /\ <<>> \o Tail(todo) = Tail(todo) /\ Next1 \in Instrs
      /\ ~failed
    BY <1>1, AtInstruction
<1>3. PICK v \in Number(-1..Next1.max + 1) :
          /\ log' = Append(log, v) /\ n' = v
          /\ IF v \in 0..Next1.max THEN Continue(<<>>) ELSE Fail
    BY DEF ReadCount
<1>4. v \in Int
    BY DEF Number, Instrs
<1> DEFINE z == <<>>
<1>5. z \in Seq(Modeless)
    BY NothingMore
<1>6. v \in 0..Next1.max => todo' = z \o Tail(todo) /\ todo' = Tail(todo) /\ ~failed' /\ v \in Nat
    <2>1. Next1.max \in Int
        BY <1>2 DEF Instrs
    <2> QED
        BY <1>2, <1>3, <2>1 DEF Continue
<1>7. v \notin 0..Next1.max => failed'
    BY <1>3 DEF Fail
<1> HIDE DEF z
<1>8. ASSUME NEW md, NEW G, NEW H, Reads(Tail(todo), md, H),
             Link(Next1, Tail(todo) = <<>>, md, G, H)
      PROVE  IF failed' THEN v \in Nat => After(v, G[n]) = {}
             ELSE Reads(todo', md, H) /\ H[n'] = After(v, G[n])
    <2>1. /\ Next1.max \in Nat /\ H \in Families
          /\ \A i \in Nat : G[i] = UNION {Then({<<w>>}, H[w]) : w \in 0..Next1.max}
        BY <1>1, <1>8 DEF Link, Quiet
    <2>2. n \in Nat
        BY <1>1, AtInstruction
    <2>3. G[n] = UNION {Then({<<w>>}, H[w]) : w \in 0..Next1.max}
        BY <2>1, <2>2
    <2>4. v \in Nat => After(v, G[n]) = IF v \in 0..Next1.max THEN H[v] ELSE {}
        BY <2>1, <2>3, CountAfter
    <2> QED
        BY <1>3, <1>6, <1>7, <1>8, <2>4
<1>9. \A md, G, H :
         /\ Reads(Tail(todo), md, H) /\ Link(Next1, Tail(todo) = <<>>, md, G, H)
         => IF failed' THEN v \in Nat => After(v, G[n]) = {}
            ELSE \E K : Reads(todo', md, K) /\ K[n'] = After(v, G[n])
    BY <1>8
<1>10. ~failed' => todo' = z \o Tail(todo) /\ n' \in Nat /\ v \in Nat
    BY <1>3, <1>6, <1>7
<1> QED
    BY <1>1, <1>3, <1>4, <1>5, <1>9, <1>10, LoggedStep

LEMMA InspectionReadSize ==
    ASSUME InspectionInv, ReadSize
    PROVE  InspectionInv'
<1>1. Running /\ Next1.op = "size" /\ UNCHANGED <<input, place, n, mode>>
    BY DEF ReadSize, Native, Keep
<1>2. <<>> \o Tail(todo) = Tail(todo) /\ ~failed /\ n \in Nat
    BY <1>1, AtInstruction
<1>3. PICK v \in Number({0, 1, Settings, Settings + 1}) :
          /\ log' = Append(log, v)
          /\ IF v \in 1..Settings THEN Continue(<<>>) ELSE Fail
    BY DEF ReadSize
<1>4. v \in Nat
    BY LimitsAssumption DEF Number
<1> DEFINE z == <<>>
<1>5. z \in Seq(Modeless)
    BY NothingMore
<1>6. v \in 1..Settings => todo' = z \o Tail(todo) /\ todo' = Tail(todo) /\ ~failed'
    BY <1>2, <1>3 DEF Continue
<1>7. v \notin 1..Settings => failed'
    BY <1>3 DEF Fail
<1> HIDE DEF z
<1>8. ASSUME NEW md, NEW G, NEW H, Reads(Tail(todo), md, H),
             Link(Next1, Tail(todo) = <<>>, md, G, H)
      PROVE  IF failed' THEN After(v, G[n]) = {}
             ELSE Reads(todo', md, H) /\ H[n'] = After(v, G[n])
    <2>1. H \in Families /\ \A i \in Nat : G[i] = Then(Sizes, H[i])
        BY <1>1, <1>8 DEF Link, Quiet
    <2>2. G[n] = Then(Sizes, H[n]) /\ H[n] \in Languages
        BY <1>2, <2>1 DEF Families
    <2>3. After(v, G[n]) = IF v \in 1..Settings THEN H[n] ELSE {}
        BY <1>4, <2>2, SizeAfter
    <2>4. n' = n
        BY <1>1
    <2> QED
        BY <1>6, <1>7, <1>8, <2>3, <2>4
<1>9. \A md, G, H :
         /\ Reads(Tail(todo), md, H) /\ Link(Next1, Tail(todo) = <<>>, md, G, H)
         => IF failed' THEN v \in Nat => After(v, G[n]) = {}
            ELSE \E K : Reads(todo', md, K) /\ K[n'] = After(v, G[n])
    BY <1>8
<1>10. ~failed' => todo' = z \o Tail(todo) /\ n' \in Nat /\ v \in Nat
    BY <1>1, <1>2, <1>4, <1>6, <1>7
<1>11. v \in Int
    BY <1>4
<1> QED
    BY <1>1, <1>3, <1>5, <1>9, <1>10, <1>11, LoggedStep

\* A body of plain instructions does not change what is read after it.
LEMMA BodyBefore ==
    ASSUME NEW body \in Bodies, NEW s, NEW md, NEW G, Reads(s, md, G)
    PROVE  Reads(Cat(body, s), md, G) /\ body \in Seq(Modeless)
<1>1. /\ Fields \in Instrs /\ Fields.op \in Quiet /\ Array \in Instrs /\ Array.op \in Quiet
      /\ Op("valid") \in Instrs /\ Op("valid").op \in Quiet
    BY InstrTypes DEF Quiet
<1>2. Fields \in Modeless /\ Array \in Modeless /\ Op("valid") \in Modeless
    BY <1>1, InstrTypes DEF Modeless, Quiet
<1>3. s \in Seq(Instrs)
    BY DEF Reads
<1>4. Reads(Before(Fields, s), md, G) /\ Reads(Before(Op("valid"), s), md, G)
    BY <1>1, QuietBefore
<1>5. Reads(Before(Array, s), md, G)
    BY <1>1, QuietBefore
<1>6. Reads(Before(Fields, Before(Array, s)), md, G)
    BY <1>1, <1>5, QuietBefore
<1> DEFINE v == Op("valid")
<1>7. v \in Modeless /\ Reads(Before(v, s), md, G)
    BY <1>2, <1>4
<1> HIDE DEF v
<1>8. /\ Cat(<<Fields>>, s) = Before(Fields, s) /\ Cat(<<v>>, s) = Before(v, s)
    BY OneCat
<1>9. Cat(<<Fields, Array>>, s) = Before(Fields, Before(Array, s))
    BY <1>1, <1>3, TwoCat
<1>10. CASE body = <<Fields>>
    <2>1. body \in Seq(Modeless)
        BY <1>2, <1>10
    <2> QED
        BY <1>4, <1>8, <1>10, <2>1
<1>11. CASE body = <<Fields, Array>>
    <2>1. body \in Seq(Modeless)
        BY <1>2, <1>11
    <2> QED
        BY <1>6, <1>9, <1>11, <2>1
<1>12. CASE body = <<v>>
    <2>1. body \in Seq(Modeless)
        BY <1>7, <1>12
    <2> QED
        BY <1>7, <1>8, <1>12, <2>1
<1> QED
    BY <1>10, <1>11, <1>12 DEF Bodies, v

LEMMA InspectionReadValid ==
    ASSUME InspectionInv, ReadValid
    PROVE  InspectionInv'
<1>1. /\ Running /\ Next1.op = "valid" /\ UNCHANGED <<input, place, n, mode, failed, log>>
    BY DEF ReadValid, Native, Continue, Keep
<1> DEFINE z == <<>>
           f == <<Fields>>
<1>2. PICK more \in {z, f} : todo' = more \o Tail(todo)
    BY DEF ReadValid, Continue
<1>3. z \in Seq(Modeless) /\ f \in Bodies /\ z \o Tail(todo) = Tail(todo)
    BY <1>1, NothingMore, BodyTypes, AtInstruction
<1> HIDE DEF z, f
<1>4. ASSUME NEW md, NEW G, Reads(Tail(todo), md, G)
      PROVE  Reads(todo', md, G) /\ more \in Seq(Modeless)
    <2>1. Reads(Cat(f, Tail(todo)), md, G) /\ f \in Seq(Modeless)
        BY <1>3, <1>4, BodyBefore
    <2> QED
        BY <1>2, <1>3, <1>4, <2>1 DEF Cat
<1>5. more \in Seq(Modeless)
    <2>1. Reads(z, mode, Always({<<>>}))
        BY ReadsDone DEF z
    <2>2. f \in Seq(Modeless)
        BY <1>3, <2>1, BodyBefore
    <2> QED
        BY <1>2, <1>3, <2>2
<1>6. ASSUME NEW md, NEW G, NEW H, Reads(Tail(todo), md, H),
             Link(Next1, Tail(todo) = <<>>, md, G, H)
      PROVE  Reads(todo', md, H) /\ H[n] = G[n]
    <2>1. G = H
        BY <1>1, <1>6 DEF Link, Quiet
    <2> QED
        BY <1>4, <1>6, <2>1
<1>7. \A md, G, H :
         /\ Reads(Tail(todo), md, H) /\ Link(Next1, Tail(todo) = <<>>, md, G, H)
         => \E K : Reads(todo', md, K) /\ K[n] = G[n]
    BY <1>6
<1> QED
    BY <1>1, <1>2, <1>5, <1>7, SilentStep

LEMMA InspectionReadModes ==
    ASSUME InspectionInv, ReadModes
    PROVE  InspectionInv'
<1>1. /\ Running /\ UNCHANGED <<input, place, n, failed, log>>
      /\ todo' = <<>> \o Tail(todo)
      /\ \/ Next1.op = "main" /\ UNCHANGED mode
         \/ Next1.op = "mode"
    BY DEF ReadModes, Native, Continue, Keep
<1>2. todo' = Tail(todo) /\ todo \in Seq(Instrs) /\ Next1 \in Instrs
    BY <1>1, AtInstruction
<1>3. ASSUME NEW md, NEW G, NEW H, Reads(Tail(todo), md, H),
             Link(Next1, Tail(todo) = <<>>, md, G, H)
      PROVE  Reads(todo', md, H) /\ H[n] = G[n]
    <2>1. G = H
        BY <1>1, <1>3 DEF Link, Quiet
    <2> QED
        BY <1>2, <1>3, <2>1
<1>4. CASE Next1.op = "main" /\ UNCHANGED mode
    <2> DEFINE z == <<>>
    <2>1. todo' = z \o Tail(todo) /\ z \in Seq(Modeless)
        BY <1>1, NothingMore
    <2> HIDE DEF z
    <2>2. \A md, G, H :
             /\ Reads(Tail(todo), md, H) /\ Link(Next1, Tail(todo) = <<>>, md, G, H)
             => \E K : Reads(todo', md, K) /\ K[n] = G[n]
        BY <1>3
    <2> QED
        BY <1>1, <1>4, <2>1, <2>2, SilentStep
<1>5. CASE Next1.op = "mode"
    <2>1. Going /\ place = "inspect" /\ todo # <<>>
        BY <1>1 DEF InspectionInv, Running
    <2>2. todo \notin Seq(Modeless)
        <3> SUFFICES ASSUME todo \in Seq(Modeless) PROVE FALSE
            OBVIOUS
        <3>1. Head(todo) \in Modeless
            BY <2>1, HeadTailProperties
        <3> QED
            BY <1>5, <3>1 DEF Modeless, Next1
    <2>3. ASSUME NEW md PROVE Reading(md)'
        <3>1. Reading(md)
            BY <2>1, <2>2 DEF Going
        <3>2. PICK G, H :
                  /\ Reads(todo, md, G) /\ G[n] = Wanted(md)
                  /\ Reads(Tail(todo), md, H) /\ Link(Next1, Tail(todo) = <<>>, md, G, H)
            BY <1>1, <3>1, Opened
        <3>3. Reads(todo', md, H) /\ H[n] = G[n]
            BY <1>3, <3>2
        <3>4. H[n'] = G[n] /\ log' = log /\ input' = input
            BY <1>1, <3>3
        <3> QED
            BY <3>2, <3>3, <3>4, ReadingStays
    <2>4. Going'
        BY <1>1, <2>1, <2>3 DEF Going
    <2>5. UNCHANGED <<input, place>> /\ ~failed'
        BY <1>1 DEF Running
    <2> QED
        BY <2>1, <2>4, <2>5, StillInspecting
<1> QED
    BY <1>1, <1>4, <1>5

LEMMA InspectionBranchOnModes ==
    ASSUME InspectionInv, BranchOnModes
    PROVE  InspectionInv'
<1>1. /\ Running /\ Next1.op = "game" /\ UNCHANGED <<input, place, n, mode, failed, log>>
      /\ todo' = GameState \o Tail(todo)
    BY DEF BranchOnModes, Continue, Keep
<1>2. Going /\ place = "inspect" /\ Reading(mode)
    BY <1>1 DEF InspectionInv, Running, Going
<1>3. PICK G, H :
          /\ Reads(todo, mode, G) /\ G[n] = Wanted(mode)
          /\ Reads(Tail(todo), mode, H) /\ Link(Next1, Tail(todo) = <<>>, mode, G, H)
    BY <1>1, <1>2, Opened
<1>4. Tail(todo) = <<>> /\ \A i \in Nat : G[i] = InGameOf(mode)
    BY <1>1, <1>3 DEF Link, Quiet
<1>5. n \in Nat /\ G[n] = InGameOf(mode) /\ InGameOf(mode) \in Languages
    BY <1>2, <1>4, LanguageTypes DEF Going
<1>6. GameState \in Seq(Instrs) /\ Reads(GameState, mode, Always(InGameOf(mode)))
    BY GameReads DEF Reads
<1>7. todo' = GameState
    <2>1. todo' = Cat(GameState, <<>>)
        BY <1>1, <1>4 DEF Cat
    <2> QED
        BY <1>6, <2>1, NothingCat
<1>8. Always(InGameOf(mode))[n] = InGameOf(mode)
    BY <1>5, AlwaysType
<1>9. Reading(mode)'
    <2>1. Reads(todo', mode, Always(InGameOf(mode)))
        BY <1>6, <1>7
    <2>2. Always(InGameOf(mode))[n'] = G[n] /\ log' = log /\ input' = input
        BY <1>1, <1>5, <1>8
    <2>3. Wanted(mode)' = Wanted(mode)
        BY <1>1, <2>2 DEF Wanted
    <2>4. \E K : Reads(todo', mode', K) /\ K[n'] = Wanted(mode)'
        BY <1>1, <1>3, <2>1, <2>2, <2>3
    <2> QED
        BY <2>4 DEF Reading
<1>10. todo' \in Seq(Modeless)
    BY <1>7, GameStateIsModeless
<1>11. ASSUME NEW md, md = mode' \/ todo' \notin Seq(Modeless)
       PROVE  Reading(md)'
    <2>1. md = mode'
        BY <1>10, <1>11
    <2>2. Reading(md)' <=> \E K : Reads(todo', md, K) /\ K[n'] = Wanted(md)'
        BY DEF Reading
    <2>3. Reading(mode)' <=> \E K : Reads(todo', mode', K) /\ K[n'] = Wanted(mode)'
        BY DEF Reading
    <2> QED
        BY <1>9, <2>1, <2>2, <2>3 DEF Wanted
<1>12. Going'
    BY <1>1, <1>2, <1>11 DEF Going
<1>13. UNCHANGED <<input, place>> /\ ~failed'
    BY <1>1 DEF Running
<1> QED
    BY <1>2, <1>12, <1>13, StillInspecting

\* What is left of a list after an element: its body once more, then the rest.
LEMMA LoopAgain ==
    ASSUME NEW body \in Seq(Instrs), NEW c \in Instrs, NEW t \in Seq(Instrs)
    PROVE  Append(body, c) \o t = Cat(body, Before(c, t))
<1> DEFINE one == <<c>>
<1>1. one \in Seq(Instrs) /\ Append(body, c) = body \o one
    BY AppendIsConcat
<1> HIDE DEF one
<1>2. (body \o one) \o t = body \o (one \o t)
    BY <1>1, ConcatAssociative
<1> QED
    BY <1>1, <1>2 DEF Cat, Before, one

LEMMA RestTypes ==
    ASSUME Next1 \in Instrs, Left \in Int
    PROVE  /\ Rest \in Instrs /\ Rest \in Modeless /\ Rest.op = "items"
           /\ Rest.max = Left - 1 /\ Rest.exact = Next1.exact /\ Rest.body = Next1.body
<1> DEFINE c == Next1
           k == Left - 1
<1>1. c \in Instrs /\ k \in Int
    OBVIOUS
<1>2. Rest = [c EXCEPT !.op = "items", !.max = k]
    BY DEF Rest
<1> HIDE DEF c, k
<1> DEFINE B == Bodies \cup {Nested, <<>>}
           O == Quiet \cup {"count", "counted", "items", "size", "game"}
<1>3. c \in [op : O, max : Int, exact : BOOLEAN, body : B] /\ "items" \in O
    BY <1>1 DEF Instrs
<1> HIDE DEF B, O
<1>4. /\ Rest \in [op : O, max : Int, exact : BOOLEAN, body : B] /\ Rest.op = "items"
      /\ Rest.max = k /\ Rest.exact = c.exact /\ Rest.body = c.body
    BY <1>1, <1>2, <1>3
<1>5. Rest \in Instrs
    BY <1>4 DEF Instrs, B, O
<1>6. Rest \in Modeless
    BY <1>4, <1>5 DEF Modeless
<1> QED
    BY <1>4, <1>5, <1>6 DEF c, k

LEMMA NestedIsModeless == Nested \in Seq(Modeless)
<1> DEFINE p == UpTo(Lobbies, <<Op("valid")>>)
<1>1. p \in Modeless
    <2>1. Lobbies \in Nat
        BY LimitsAssumption
    <2>2. <<Op("valid")>> \in Bodies \cup {Nested}
        BY BodyTypes
    <2>3. p \in Instrs /\ p.op = "items"
        BY <2>1, <2>2, UpToTypes
    <2> QED
        BY <2>3 DEF Modeless
<1>2. Array \in Modeless
    BY InstrTypes DEF Modeless
<1> HIDE DEF p
<1>3. Nested = <<Array, p>>
    BY DEF Nested, p
<1> QED
    BY <1>1, <1>2, <1>3

\* The three lists: of exactly, of up to so many, and the list of lobbies.
ExactList(G, H) == Next1.exact /\ Next1.body \in Bodies /\ G[n] = Then({Elements(Left)}, H[n])
OpenList(G, H)  == ~Next1.exact /\ Next1.body \in Bodies /\ G[n] = Then(Open(Left), H[n])
LobbyList(G, H) ==
    /\ ~Next1.exact /\ Next1.body = Nested /\ Left \in 0..2
    /\ \A i \in Nat : H[i] = {<<>>}
    /\ G[n] = Then(SomeLobbiesOf(Left), {<<End>>})

LEMMA ListLink ==
    ASSUME Next1.op \in {"items", "counted"}, n \in Nat,
           NEW last, NEW md, NEW G, NEW H, Link(Next1, last, md, G, H)
    PROVE  /\ Left \in Nat /\ H \in Families /\ H[n] \in Languages
           /\ ExactList(G, H) \/ OpenList(G, H) \/ LobbyList(G, H)
<1>1. H \in Families /\ H[n] \in Languages
    BY DEF Link, Families
<1>2. CASE Next1.op = "counted"
    <2>1. /\ Next1.exact /\ Next1.body \in Bodies
          /\ \A i \in Nat : G[i] = Then({Elements(i)}, H[i])
        BY <1>2 DEF Link, Quiet
    <2>2. Left = n
        BY <1>2 DEF Left
    <2> QED
        BY <1>1, <2>1, <2>2 DEF ExactList
<1>3. CASE Next1.op = "items"
    <2>1. Left = Next1.max
        BY <1>3 DEF Left
    <2>2. CASE /\ Next1.max \in Nat /\ Next1.exact /\ Next1.body \in Bodies
               /\ \A i \in Nat : G[i] = Then({Elements(Next1.max)}, H[i])
        BY <1>1, <2>1, <2>2 DEF ExactList
    <2>3. CASE /\ Next1.max \in Nat /\ ~Next1.exact /\ Next1.body \in Bodies
               /\ \A i \in Nat : G[i] = Then(Open(Next1.max), H[i])
        BY <1>1, <2>1, <2>3 DEF OpenList
    <2>4. CASE /\ Next1.max \in 0..2 /\ ~Next1.exact /\ Next1.body = Nested
               /\ \A i \in Nat : H[i] = {<<>>} /\ G[i] = Then(SomeLobbiesOf(Next1.max), {<<End>>})
        <3>1. Left \in 0..2 /\ Left \in Nat
            BY <2>1, <2>4
        <3> QED
            BY <1>1, <2>1, <2>4, <3>1 DEF LobbyList
    <2> QED
        BY <1>3, <2>2, <2>3, <2>4 DEF Link, Quiet
<1> QED
    BY <1>2, <1>3

\* After an element of a list that may have one.
LEMMA ElementRead ==
    ASSUME NEW t, NEW md, NEW G, NEW H, Reads(t, md, H), H \in Families, n \in Nat,
           Next1 \in Instrs, Left \in Nat, Left > 0,
           ExactList(G, H) \/ OpenList(G, H) \/ LobbyList(G, H)
    PROVE  \E K : Reads(Cat(Next1.body, Before(Rest, t)), md, K) /\ K[n] = After(Element, G[n])
<1> DEFINE k == Left - 1
<1>1. /\ Rest \in Instrs /\ Rest.op = "items" /\ Rest.max = k /\ k \in Nat
      /\ Rest.exact = Next1.exact /\ Rest.body = Next1.body
    BY RestTypes
<1>2. \A i \in Nat : H[i] \in Languages
    BY DEF Families
<1>3. {Elements(k)} \in Languages /\ Open(k) \in Languages
    BY <1>1, ListTypes
<1> HIDE DEF k
<1>4. CASE ExactList(G, H)
    <2> DEFINE K == [i \in Nat |-> Then({Elements(k)}, H[i])]
    <2>1. K \in Families
        <3>1. \A i \in Nat : Then({Elements(k)}, H[i]) \in Languages
            BY <1>2, <1>3, ThenType
        <3> QED
            BY <3>1 DEF Families
    <2>2. \A i \in Nat : K[i] = Then({Elements(k)}, H[i])
        OBVIOUS
    <2> HIDE DEF K
    <2>3. Next1.exact /\ Next1.body \in Bodies
        BY <1>4 DEF ExactList
    <2>4. Link(Rest, t = <<>>, md, K, H)
        <3>1. \A i \in Nat : K[i] = Then({Elements(Rest.max)}, H[i])
            BY <1>1, <2>2
        <3> QED
            BY <1>1, <2>1, <2>3, <3>1 DEF Link
    <2>5. Reads(Before(Rest, t), md, K)
        BY <2>4, ReadsBefore
    <2>6. Reads(Cat(Next1.body, Before(Rest, t)), md, K)
        BY <2>3, <2>5, BodyBefore
    <2>7. K[n] = After(Element, G[n])
        <3>1. G[n] = Then({Elements(Left)}, H[n])
            BY <1>4 DEF ExactList
        <3>2. After(Element, Then({Elements(Left)}, H[n]))
                 = IF Left > 0 THEN Then({Elements(Left - 1)}, H[n]) ELSE {}
            BY <1>2, ExactAfter
        <3> QED
            BY <2>2, <3>1, <3>2 DEF k
    <2> QED
        BY <2>6, <2>7
<1>5. CASE OpenList(G, H)
    <2> DEFINE K == [i \in Nat |-> Then(Open(k), H[i])]
    <2>1. K \in Families
        <3>1. \A i \in Nat : Then(Open(k), H[i]) \in Languages
            BY <1>2, <1>3, ThenType
        <3> QED
            BY <3>1 DEF Families
    <2>2. \A i \in Nat : K[i] = Then(Open(k), H[i])
        OBVIOUS
    <2> HIDE DEF K
    <2>3. ~Next1.exact /\ Next1.body \in Bodies
        BY <1>5 DEF OpenList
    <2>4. Link(Rest, t = <<>>, md, K, H)
        <3>1. \A i \in Nat : K[i] = Then(Open(Rest.max), H[i])
            BY <1>1, <2>2
        <3> QED
            BY <1>1, <2>1, <2>3, <3>1 DEF Link
    <2>5. Reads(Before(Rest, t), md, K)
        BY <2>4, ReadsBefore
    <2>6. Reads(Cat(Next1.body, Before(Rest, t)), md, K)
        BY <2>3, <2>5, BodyBefore
    <2>7. K[n] = After(Element, G[n])
        <3>1. G[n] = Then(Open(Left), H[n])
            BY <1>5 DEF OpenList
        <3>2. After(Element, Then(Open(Left), H[n]))
                 = IF Left > 0 THEN Then(Open(Left - 1), H[n]) ELSE {}
            BY <1>2, OpenAfter
        <3> QED
            BY <2>2, <3>1, <3>2 DEF k
    <2> QED
        BY <2>6, <2>7
<1>6. CASE LobbyList(G, H)
    <2> DEFINE A == Then(SomeLobbiesOf(k), {<<End>>})
               L == Then(Open(Lobbies), A)
    <2>1. /\ ~Next1.exact /\ Next1.body = Nested /\ Left \in 0..2
          /\ \A i \in Nat : H[i] = {<<>>}
          /\ G[n] = Then(SomeLobbiesOf(Left), {<<End>>})
        BY <1>6 DEF LobbyList
    <2>2. A \in Languages /\ Lobbies \in Nat
        BY <1>1, SomeLobbiesType, LimitsAssumption
    <2>3. Always(A) \in Families /\ \A i \in Nat : Always(A)[i] = A
        BY <2>2, AlwaysType
    <2>4. Rest.max \in 0..2
        BY <1>1, <2>1 DEF k
    <2>5. Link(Rest, t = <<>>, md, Always(A), H)
        <3>1. \A i \in Nat : Always(A)[i] = Then(SomeLobbiesOf(Rest.max), {<<End>>})
            BY <1>1, <2>3
        <3> QED
            BY <1>1, <2>1, <2>3, <2>4, <3>1 DEF Link
    <2>6. Reads(Before(Rest, t), md, Always(A))
        BY <2>5, ReadsBefore
    <2> DEFINE p == UpTo(Lobbies, <<Op("valid")>>)
               r == Before(Rest, t)
    <2>7. Reads(Before(p, r), md, Always(L))
        BY <2>2, <2>6, BodyTypes, ListBefore
    <2>8. Array \in Instrs /\ Array.op \in Quiet
        BY InstrTypes DEF Quiet
    <2>9. Reads(Before(Array, Before(p, r)), md, Always(L))
        BY <2>7, <2>8, QuietBefore
    <2>10. p \in Instrs /\ r \in Seq(Instrs)
        <3>1. <<Op("valid")>> \in Bodies \cup {Nested}
            BY BodyTypes
        <3>2. p \in Instrs
            BY <2>2, <3>1, UpToTypes
        <3>3. r \in Seq(Instrs)
            BY <2>6 DEF Reads
        <3> QED
            BY <3>2, <3>3
    <2>11. Nested = <<Array, p>>
        BY DEF Nested
    <2> HIDE DEF p, r, A, L
    <2>12. Cat(Nested, r) = Before(Array, Before(p, r))
        BY <2>8, <2>10, <2>11, TwoCat
    <2>13. Reads(Cat(Next1.body, r), md, Always(L))
        BY <2>1, <2>9, <2>12
    <2>14. L = After(Element, G[n])
        <3>1. After(Element, Then(SomeLobbiesOf(Left), {<<End>>}))
                 = IF Left > 0 THEN Then(Open(Lobbies), Then(SomeLobbiesOf(Left - 1), {<<End>>}))
                   ELSE {}
            BY <2>1, LobbiesAfter
        <3> QED
            BY <2>1, <3>1 DEF L, A, k
    <2>15. Always(L)[n] = L
        BY DEF Always
    <2> QED
        BY <2>13, <2>14, <2>15 DEF r
<1> QED
    BY <1>4, <1>5, <1>6

\* An element after the limit, the end of a list, and an end that is too early.
LEMMA EndRead ==
    ASSUME NEW G, NEW H, H \in Families, n \in Nat, Left \in Nat,
           ExactList(G, H) \/ OpenList(G, H) \/ LobbyList(G, H)
    PROVE  /\ Left = 0 => After(Element, G[n]) = {}
           /\ Left > 0 /\ Next1.exact => After(End, G[n]) = {}
           /\ ~(Left > 0 /\ Next1.exact) => After(End, G[n]) = H[n]
<1>1. H[n] \in Languages
    BY DEF Families
<1>2. CASE ExactList(G, H)
    <2>1. G[n] = Then({Elements(Left)}, H[n]) /\ Next1.exact
        BY <1>2 DEF ExactList
    <2>2. /\ After(Element, Then({Elements(Left)}, H[n])) =
                IF Left > 0 THEN Then({Elements(Left - 1)}, H[n]) ELSE {}
          /\ After(End, Then({Elements(Left)}, H[n])) = IF Left = 0 THEN H[n] ELSE {}
        BY <1>1, ExactAfter
    <2> QED
        BY <2>1, <2>2
<1>3. CASE OpenList(G, H)
    <2>1. G[n] = Then(Open(Left), H[n]) /\ ~Next1.exact
        BY <1>3 DEF OpenList
    <2>2. /\ After(Element, Then(Open(Left), H[n])) =
                IF Left > 0 THEN Then(Open(Left - 1), H[n]) ELSE {}
          /\ After(End, Then(Open(Left), H[n])) = H[n]
        BY <1>1, OpenAfter
    <2> QED
        BY <2>1, <2>2
<1>4. CASE LobbyList(G, H)
    <2>1. /\ G[n] = Then(SomeLobbiesOf(Left), {<<End>>}) /\ ~Next1.exact /\ Left \in 0..2
          /\ H[n] = {<<>>}
        BY <1>4 DEF LobbyList
    <2> DEFINE A == Then(SomeLobbiesOf(Left), {<<End>>})
               B == Then(Open(Lobbies), Then(SomeLobbiesOf(Left - 1), {<<End>>}))
    <2>2. After(End, A) = {<<>>} /\ After(Element, A) = IF Left > 0 THEN B ELSE {}
        BY <2>1, LobbiesAfter
    <2>3. G[n] = A
        BY <2>1
    <2> DEFINE single == {<<>>}
    <2>4. After(End, A) = single /\ H[n] = single
        BY <2>1, <2>2
    <2> HIDE DEF A, B, single
    <2>5. After(End, G[n]) = H[n]
        BY <2>3, <2>4
    <2>6. Left = 0 => After(Element, G[n]) = {}
        <3>1. After(Element, A) = IF Left > 0 THEN B ELSE {}
            BY <2>2
        <3> QED
            BY <2>3, <3>1
    <2>7. ~Next1.exact
        BY <2>1
    <2> QED
        BY <2>5, <2>6, <2>7
<1> QED
    BY <1>2, <1>3, <1>4

LEMMA InspectionReadElement ==
    ASSUME InspectionInv, ReadElement
    PROVE  InspectionInv'
<1>1. Running /\ Next1.op \in {"items", "counted"} /\ UNCHANGED <<input, place, n, mode>>
    BY DEF ReadElement, Native, Keep
<1>2. /\ todo \in Seq(Instrs) /\ <<>> \o Tail(todo) = Tail(todo) /\ Tail(todo) \in Seq(Instrs)
      /\ Next1 \in Instrs /\ n \in Nat /\ ~failed
    BY <1>1, AtInstruction
<1>3. PICK another \in BOOLEAN :
          Items(another) /\ log' = Append(log, IF another THEN Element ELSE End)
    <2>1. PICK v \in Number({0, 1}) :
              Items(v = 1) /\ log' = Append(log, IF v = 1 THEN Element ELSE End)
        BY DEF ReadElement
    <2>2. (v = 1) \in BOOLEAN
        OBVIOUS
    <2> QED
        BY <2>1, <2>2
<1> DEFINE x == IF another THEN Element ELSE End
<1>4. x \in Nat /\ x \in Int /\ log' = Append(log, x)
    BY <1>3 DEF Element, End
<1>5. PICK md0, G0, H0 : Link(Next1, Tail(todo) = <<>>, md0, G0, H0)
    <2>1. Reading(mode)
        BY <1>1 DEF InspectionInv, Running, Going
    <2> QED
        BY <1>1, <2>1, Opened
<1>6. /\ Left \in Nat
      /\ ExactList(G0, H0) \/ OpenList(G0, H0) \/ LobbyList(G0, H0)
    BY <1>1, <1>2, <1>5, ListLink
<1>7. Next1.body \in Seq(Modeless) /\ Next1.body \in Seq(Instrs)
    <2>1. Next1.body \in Bodies \/ Next1.body = Nested
        BY <1>6 DEF ExactList, OpenList, LobbyList
    <2>2. Next1.body \in Bodies => Next1.body \in Seq(Modeless)
        BY ReadsDone, BodyBefore
    <2>3. Next1.body \in Seq(Modeless)
        BY <2>1, <2>2, NestedIsModeless
    <2>4. Next1.body \in Seq(Instrs)
        BY <2>3, SeqMonotonic DEF Modeless
    <2> QED
        BY <2>3, <2>4
<1>8. Rest \in Instrs /\ Rest \in Modeless
    BY <1>2, <1>6, RestTypes
<1>9. CASE another /\ Left > 0
    <2> DEFINE more == Append(Next1.body, Rest)
    <2>1. todo' = more \o Tail(todo) /\ ~failed'
        BY <1>2, <1>3, <1>9 DEF Items, Continue
    <2>2. more \in Seq(Modeless)
        BY <1>7, <1>8, AppendProperties
    <2>3. todo' = Cat(Next1.body, Before(Rest, Tail(todo)))
        BY <1>2, <1>7, <1>8, <2>1, LoopAgain
    <2> HIDE DEF more
    <2>4. ASSUME NEW md, NEW G, NEW H, Reads(Tail(todo), md, H),
                 Link(Next1, Tail(todo) = <<>>, md, G, H)
          PROVE  \E K : Reads(todo', md, K) /\ K[n'] = After(x, G[n])
        <3>1. /\ H \in Families
              /\ ExactList(G, H) \/ OpenList(G, H) \/ LobbyList(G, H)
            BY <1>1, <1>2, <2>4, ListLink
        <3>2. PICK K : /\ Reads(Cat(Next1.body, Before(Rest, Tail(todo))), md, K)
                       /\ K[n] = After(Element, G[n])
            BY <1>2, <1>6, <1>9, <2>4, <3>1, ElementRead
        <3>3. x = Element /\ n' = n
            BY <1>1, <1>9
        <3> QED
            BY <2>3, <3>2, <3>3
    <2>5. ~failed' => todo' = more \o Tail(todo) /\ n' \in Nat /\ x \in Nat
        BY <1>1, <1>2, <1>4, <2>1
    <2>6. \A md, G, H :
             /\ Reads(Tail(todo), md, H) /\ Link(Next1, Tail(todo) = <<>>, md, G, H)
             => IF failed' THEN x \in Nat => After(x, G[n]) = {}
                ELSE \E K : Reads(todo', md, K) /\ K[n'] = After(x, G[n])
        BY <2>1, <2>4
    <2> HIDE DEF x
    <2> QED
        BY <1>1, <1>4, <2>2, <2>5, <2>6, LoggedStep
<1>10. CASE ~(another /\ Left > 0)
    <2> DEFINE z == <<>>
               wrong == (another /\ Left = 0) \/ (~another /\ Left > 0 /\ Next1.exact)
    <2>1. z \in Seq(Modeless) /\ z \o Tail(todo) = Tail(todo)
        BY <1>2, NothingMore
    <2>2. IF wrong THEN failed' ELSE todo' = z \o Tail(todo) /\ ~failed' /\ ~another
        BY <1>2, <1>3, <1>6, <1>10 DEF Items, Continue, Fail
    <2> HIDE DEF z
    <2>3. ASSUME NEW md, NEW G, NEW H, Reads(Tail(todo), md, H),
                 Link(Next1, Tail(todo) = <<>>, md, G, H)
          PROVE  IF failed' THEN After(x, G[n]) = {}
                 ELSE Reads(todo', md, H) /\ H[n'] = After(x, G[n])
        <3>1. /\ H \in Families
              /\ ExactList(G, H) \/ OpenList(G, H) \/ LobbyList(G, H)
            BY <1>1, <1>2, <2>3, ListLink
        <3>2. /\ Left = 0 => After(Element, G[n]) = {}
              /\ Left > 0 /\ Next1.exact => After(End, G[n]) = {}
              /\ ~(Left > 0 /\ Next1.exact) => After(End, G[n]) = H[n]
            BY <1>2, <1>6, <3>1, EndRead
        <3>3. n' = n
            BY <1>1
        <3> QED
            BY <1>10, <2>1, <2>2, <2>3, <3>2, <3>3
    <2>4. ~failed' => todo' = z \o Tail(todo) /\ n' \in Nat /\ x \in Nat
        BY <1>1, <1>2, <1>4, <2>2
    <2>5. \A md, G, H :
             /\ Reads(Tail(todo), md, H) /\ Link(Next1, Tail(todo) = <<>>, md, G, H)
             => IF failed' THEN x \in Nat => After(x, G[n]) = {}
                ELSE \E K : Reads(todo', md, K) /\ K[n'] = After(x, G[n])
        BY <2>3
    <2> HIDE DEF x
    <2> QED
        BY <1>1, <1>4, <2>1, <2>4, <2>5, LoggedStep
<1> QED
    BY <1>9, <1>10

LEMMA InspectionExhaust ==
    ASSUME InspectionInv, Exhaust
    PROVE  InspectionInv'
<1>1. UNCHANGED <<input, place, todo, n, main, mode, overflowed, failed, log>>
    BY DEF Exhaust
<1>2. place = "inspect" /\ ~failed /\ Going
    BY DEF Exhaust, Running, InspectionInv
<1>3. Going'
    BY <1>1, <1>2 DEF Going, Reading, Wanted
<1> QED
    BY <1>1, <1>2, <1>3, StillInspecting

\* At its end an inspection that has not failed has read a message in order.
LEMMA NothingLeft ==
    ASSUME Going, todo = <<>>, input.kind \in Kinds
    PROVE  log \in InOrder[input.kind]
<1>1. Reading(mode) /\ n \in Nat /\ log \in Logs
    BY DEF Going
<1>2. PICK G : Reads(todo, mode, G) /\ G[n] = Wanted(mode)
    BY <1>1 DEF Reading
<1>3. G = Done
    BY <1>2, NothingReads
<1>4. <<>> \in Wanted(mode)
    BY <1>1, <1>2, <1>3 DEF Done
<1>5. Cat(log, <<>>) = log
    BY <1>1, CatNothing
<1> QED
    BY <1>4, <1>5, InOrderIs DEF Wanted

LEMMA InspectionFinish ==
    ASSUME InspectionInv, Finish
    PROVE  InspectionInv'
<1>1. /\ UNCHANGED <<input, todo, n, mode, overflowed, failed, log>>
      /\ place = "inspect" /\ (todo = <<>> \/ failed)
      /\ \/ Refuses /\ place' \in {"rejected", "dropped"}
         \/ ~Refuses /\ place' \in {"accepted", "answered"}
    BY DEF Finish, inspector
<1>2. /\ input.kind \in Kinds
      /\ failed => log \notin InOrder[input.kind]
      /\ ~failed => Going
    BY <1>1 DEF InspectionInv
<1>3. InOrder' = InOrder
    BY <1>1 DEF InOrder, InGame
<1>4. CASE Refuses
    <2>1. log \notin InOrder[input.kind] \/ overflowed
        BY <1>2, <1>4 DEF Refuses
    <2>2. place' \in {"rejected", "dropped"}
        BY <1>1, <1>4
    <2>3. InspectionIsExact'
        BY <1>1, <1>3, <2>1, <2>2 DEF InspectionIsExact
    <2> QED
        BY <2>2, <2>3 DEF InspectionInv
<1>5. CASE ~Refuses
    <2>1. ~failed /\ ~overflowed /\ todo = <<>> /\ Going
        BY <1>1, <1>2, <1>5 DEF Refuses
    <2>2. log \in InOrder[input.kind]
        BY <1>2, <2>1, NothingLeft
    <2>3. place' \in {"accepted", "answered"}
        BY <1>1, <1>5
    <2>4. InspectionIsExact'
        BY <1>1, <1>3, <2>1, <2>2, <2>3 DEF InspectionIsExact
    <2> QED
        BY <2>3, <2>4 DEF InspectionInv
<1> QED
    BY <1>4, <1>5

\* A message whose place is decided without an inspection.
LEMMA Decided ==
    ASSUME InspectionInv, place \in {"start", "pending"}, UNCHANGED <<n, failed, log>>,
           place' \in {"pending", "unseen", "rejected", "unchanged", "dropped", "delivered"}
    PROVE  InspectionInv'
<1>1. log = <<>> /\ n = 0 /\ ~failed
    BY DEF InspectionInv
<1>2. InspectionIsExact'
    BY <1>1 DEF InspectionIsExact
<1> QED
    BY <1>1, <1>2 DEF InspectionInv

\* One whose inspection begins.
LEMMA Begun ==
    ASSUME InspectionInv, place \in {"start", "pending"}, UNCHANGED <<input, n, failed, log>>,
           input.kind \in Kinds, Inspect(input.kind)
    PROVE  InspectionInv'
<1>1. log = <<>> /\ n = 0 /\ ~failed
    BY DEF InspectionInv
<1>2. place' = "inspect" /\ todo' = Program[input.kind]
    BY DEF Inspect
<1>3. InspectionIsExact'
    BY <1>2 DEF InspectionIsExact
<1>4. ASSUME NEW md PROVE Reading(md)'
    <2> DEFINE A == InOrderOf(md)[input.kind]
    <2>1. A \in Languages
        BY InOrderTypes
    <2>2. Reads(todo', md, Always(A))
        BY <1>2, ProgramReads
    <2>3. Always(A)[n'] = A
        BY <1>1 DEF Always
    <2>4. Wanted(md)' = A
        <3>1. \A t \in Logs : Cat(log', t) = t
            BY <1>1, CatNothing
        <3>2. Wanted(md)' = {t \in Logs : Cat(log', t) \in A}
            BY DEF Wanted, InOrderOf, InGameOf, SomeLobbiesOf, OneLobby, InLobby, Sizes,
                   Then, Open, Exact, Elements
        <3>3. A \subseteq Logs
            BY <2>1 DEF Languages
        <3> HIDE DEF A
        <3> QED
            BY <3>1, <3>2, <3>3
    <2> QED
        BY <2>2, <2>3, <2>4 DEF Reading
<1>5. log' \in Logs
    BY <1>1, EmptySeq DEF Logs
<1>6. Going'
    BY <1>1, <1>4, <1>5 DEF Going
<1> QED
    BY <1>1, <1>2, <1>3, <1>6 DEF InspectionInv

LEMMA InspectionInspectLobby ==
    ASSUME InspectionInv, input \in Inputs, InspectLobby
    PROVE  InspectionInv'
<1>1. /\ place = "start" /\ UNCHANGED <<input, n, failed, log>>
      /\ input.kind \in Kinds \cup {"unseen", "refused", "other"}
    BY InputsAssumption DEF InspectLobby
<1>2. \/ place' \in {"unseen", "rejected", "unchanged"}
      \/ input.kind \in Kinds /\ Inspect(input.kind)
    BY <1>1 DEF InspectLobby, Becomes
<1> QED
    BY <1>1, <1>2, Decided, Begun

LEMMA InspectionInstantMessage ==
    ASSUME InspectionInv, InstantMessage
    PROVE  InspectionInv'
<1>1. place = "start" /\ UNCHANGED <<n, failed, log>> /\ place' \in {"dropped", "pending", "delivered"}
    BY DEF InstantMessage, Becomes
<1> QED
    BY <1>1, Decided

LEMMA InspectionCheckPendingInfo ==
    ASSUME InspectionInv, CheckPendingInfo
    PROVE  InspectionInv'
<1>1. place = "pending" /\ UNCHANGED <<input, n, failed, log>>
    BY DEF CheckPendingInfo
<1>2. \/ place' \in {"dropped", "delivered"}
      \/ input.kind = "info" /\ Inspect("info")
    BY DEF CheckPendingInfo, Becomes
<1>3. "info" \in Kinds
    BY DEF Kinds
<1> QED
    BY <1>1, <1>2, <1>3, Decided, Begun

LEMMA InspectionInit == Init => InspectionInv
    BY DEF Init, InspectionInv, InspectionIsExact

LEMMA InspectionNext == InspectionInv /\ input \in Inputs /\ [Next]_vars => InspectionInv'
<1> SUFFICES ASSUME InspectionInv, input \in Inputs, [Next]_vars PROVE InspectionInv'
    OBVIOUS
<1>1. CASE UNCHANGED vars
    <2>1. UNCHANGED <<input, place, todo, n, main, mode, overflowed, failed, log>>
        BY <1>1 DEF vars, inspector
    <2>2. InOrder' = InOrder /\ (Going' <=> Going)
        BY <2>1 DEF InOrder, InGame, Going, Reading, Wanted
    <2>3. InspectionIsExact'
        BY <2>1, <2>2 DEF InspectionInv, InspectionIsExact
    <2> QED
        BY <2>1, <2>2, <2>3 DEF InspectionInv
<1> QED
    BY <1>1, InspectionInspectLobby, InspectionInstantMessage, InspectionCheckPendingInfo,
       InspectionFinish, InspectionExhaust, InspectionReadFields, InspectionReadFault,
       InspectionReadCount, InspectionReadModes, InspectionBranchOnModes, InspectionReadSize,
       InspectionReadValid, InspectionReadElement DEF Next

-----------------------------------------------------------------------------

LEMMA IsBeginning ==
    ASSUME NEW s \in Logs, NEW t \in Logs
    PROVE  IsPrefix(s, Cat(s, t))
<1> DEFINE u == s \o t
<1>1. u \in Logs /\ Len(u) = Len(s) + Len(t) /\ Len(s) \in Nat /\ Len(t) \in Nat
    BY ConcatProperties, LenProperties DEF Logs
<1>2. \A i \in 1..Len(s) : u[i] = s[i]
    <2>1. \A i \in 1..Len(s) + Len(t) : u[i] = IF i <= Len(s) THEN s[i] ELSE t[i - Len(s)]
        BY ConcatProperties DEF Logs
    <2> QED
        BY <1>1, <2>1
<1> HIDE DEF u
<1>3. Len(s) <= Len(u)
    BY <1>1
<1>4. SubSeq(u, 1, Len(s)) = s
    <2> DEFINE k == Len(s)
               v == SubSeq(u, 1, k)
    <2>1. k \in Nat /\ \A i \in 1..k : u[i] \in Nat
        <3>1. \A i \in 1..k : s[i] \in Nat
            BY ElementOfSeq DEF Logs
        <3>2. k \in Nat /\ \A i \in 1..k : u[i] = s[i]
            BY <1>1, <1>2
        <3> QED
            BY <3>1, <3>2
    <2> HIDE DEF k
    <2>2. /\ v \in Seq(Nat) /\ Len(v) = IF 1 <= k THEN k - 1 + 1 ELSE 0
          /\ \A i \in 1..k - 1 + 1 : v[i] = u[1 + i - 1]
        BY <2>1, SubSeqProperties
    <2> HIDE DEF v
    <2>3. Len(v) = k /\ \A i \in 1..k : v[i] = u[i]
        BY <2>1, <2>2
    <2>4. v = s
        BY <1>2, <2>2, <2>3, SeqEqual DEF k, Logs
    <2> QED
        BY <2>4 DEF v, k
<1> QED
    BY <1>3, <1>4 DEF IsPrefix, Cat, u

LEMMA GoingStops ==
    ASSUME InspectionInv
    PROVE  StopsAtFault
<1> SUFFICES ASSUME Running PROVE \E s \in InOrder[input.kind] : IsPrefix(log, s)
    BY DEF StopsAtFault
<1>1. Going /\ Reading(mode) /\ n \in Nat /\ log \in Logs
    BY DEF InspectionInv, Running, Going
<1>2. PICK G : Reads(todo, mode, G) /\ G[n] = Wanted(mode)
    BY <1>1 DEF Reading
<1>3. G[n] \in Languages
    BY <1>1, <1>2, ReadsFamily DEF Families
<1>4. PICK t \in Logs : Cat(log, t) \in InOrderOf(mode)[input.kind]
    BY <1>2, <1>3 DEF Languages, Wanted
<1>5. IsPrefix(log, Cat(log, t))
    BY <1>1, IsBeginning
<1> QED
    BY <1>4, <1>5, InOrderIs

\* The instructions that are left read what makes the message one in order, in
\* every state of an inspection (packets.rs, inspect and what it calls).
InspectedInv == input \in Inputs /\ InspectionInv

THEOREM InspectionInvariant == Spec => []InspectedInv
<1>1. Init => InspectedInv
    BY InspectionInit DEF Init, InspectedInv
<1>2. InspectedInv /\ [Next]_vars => InspectedInv'
    <2>1. input \in Inputs /\ [Next]_vars => input' \in Inputs
        BY DEF Next, vars, InspectLobby, InstantMessage, CheckPendingInfo, Finish, Exhaust, Keep,
           ReadFields, ReadFault, ReadCount, ReadModes, BranchOnModes, ReadSize, ReadValid,
           ReadElement
    <2> QED
        BY <2>1, InspectionNext DEF InspectedInv
<1> QED
    BY <1>1, <1>2, PTL DEF Spec

\* Whatever a sender writes and wherever the message ends, what inspect and
\* check_pending_info let through is exactly what is in order.
THEOREM InspectionsAreExact == Spec => []InspectionIsExact
<1>1. InspectedInv => InspectionIsExact
    BY DEF InspectedInv, InspectionInv
<1> QED
    BY <1>1, InspectionInvariant, PTL

\* None of the game's readers is called for a message that can no longer be in
\* order, not even once the message has ended and zeros are read.
THEOREM NoReaderPastAFault == Spec => []StopsAtFault
<1>1. InspectedInv => StopsAtFault
    BY GoingStops DEF InspectedInv
<1> QED
    BY <1>1, InspectionInvariant, PTL

-----------------------------------------------------------------------------
(* The inductive invariant of ConfigWatch.                                  *)

WorkerPlaces == {"ready", "start", "name", "copy", "only", "compare", "set", "sleep"}

Copied == [pass : [prev : Passwords, cur : Passwords, since : Nat], at : Nat,
           before : Passwords \cup {Nil}, ended : Nat \cup {Nil}]

WatchTypes ==
    /\ file \in Files \cup {Nil} /\ writes \in Nat /\ clock \in Nat
    /\ name \in Names /\ held \in Actors \cup {Nil}
    /\ copies \in [Copies -> Names \cup {Nil}] /\ missed \subseteq Copies
    /\ ready \in BOOLEAN /\ exported \in BOOLEAN
    /\ pass \in [prev : Passwords, cur : Passwords, since : Nat]
    /\ config.name \in Names /\ config.password \in Passwords
    /\ pc \in [Actors -> WorkerPlaces \cup {"out", "done"}] /\ pc[Worker] \in WorkerPlaces
    /\ \A e \in Exports : pc[e] \in {"out", "copy", "done"}
    /\ arg \in [Exports -> Names \cup {Nil}]
    /\ seen \in [Readers -> Copied \cup {Nil}]
    /\ current \in [Passwords -> Nat \cup {Nil}] /\ before \in Passwords \cup {Nil}

\* Who has NAME_UPDATE is about to copy the name that it published.
Publishing ==
    /\ \A a \in Actors : held = a <=> pc[a] = "copy"
    /\ pc[Worker] = "copy" => name = config.name
    /\ \A e \in Exports : pc[e] = "copy" => name = arg[e]
    /\ ready <=> pc[Worker] # "ready"

\* Both passwords were current when the second was set, or later.
Rotated ==
    /\ pass.since <= clock
    /\ \A p \in {pass.cur, pass.prev} : current[p] # Nil /\ current[p] >= pass.since
    /\ \A p \in Passwords : current[p] # Nil => current[p] <= clock

\* What a message has copied was current then, or when it was replaced.
CopiesAreRecent ==
    \A r \in Readers : seen[r] # Nil =>
        LET s == seen[r] IN
        /\ s.at <= clock
        /\ s.pass.cur = pass.cur \/ (current[s.pass.cur] # Nil /\ current[s.pass.cur] >= s.at)
        /\ current[s.pass.prev] # Nil /\ current[s.pass.prev] >= s.pass.since

\* While only the worker sets the password, it sets another one, so that the
\* previous password is the last other one.
FileRotates ==
    ~exported =>
        /\ pc[Worker] = "set" => pass.cur # config.password
        /\ before # Nil => before = pass.prev /\ current[before] = pass.since
        /\ \A r \in Readers : seen[r] # Nil /\ seen[r].before # Nil =>
               seen[r].before = seen[r].pass.prev /\ seen[r].ended = seen[r].pass.since

WatchInv ==
    /\ WatchTypes /\ Publishing /\ NamesAgree
    /\ Rotated /\ CopiesAreRecent /\ FileRotates

LEMMA WatchInitInv == WatchInit => WatchInv
<1> SUFFICES ASSUME WatchInit PROVE WatchInv
    OBVIOUS
<1>1. /\ Default \in Files /\ Default.name \in Names /\ Default.password \in Passwords
      /\ Worker \in Actors /\ Worker \notin Exports /\ Exports \subseteq Actors
    BY ConfigAssumption DEF Complete, Names, Passwords, Actors
<1>2. /\ pc[Worker] = "ready" /\ \A e \in Exports : pc[e] = "out"
      /\ pc \in [Actors -> WorkerPlaces \cup {"out", "done"}]
    BY <1>1 DEF WatchInit, WorkerPlaces
<1>3. current \in [Passwords -> Nat \cup {Nil}] /\ current[Default.password] = 0
    BY <1>1 DEF WatchInit
<1>4. WatchTypes
    BY <1>1, <1>2, <1>3 DEF WatchInit, WatchTypes, WorkerPlaces
<1>5. Publishing /\ NamesAgree
    BY <1>1, <1>2, ConfigAssumption DEF WatchInit, Publishing, NamesAgree, Shows, Actors
<1>6. Rotated
    BY <1>3, ConfigAssumption DEF WatchInit, Rotated
<1>7. CopiesAreRecent /\ FileRotates
    BY <1>2 DEF WatchInit, CopiesAreRecent, FileRotates
<1> QED
    BY <1>4, <1>5, <1>6, <1>7 DEF WatchInv

-----------------------------------------------------------------------------
(* Names.                                                                   *)

LEMMA ParsedIsComplete ==
    ASSUME WatchTypes, file # Nil
    PROVE  Parsed(file).name \in Names /\ Parsed(file).password \in Passwords
<1>1. file \in Files /\ DOMAIN file = {"name", "only", "password"}
    BY ConfigAssumption DEF WatchTypes
<1>2. /\ Parsed(file).name = IF file.name = Nil THEN config.name ELSE file.name
      /\ Parsed(file).password = IF file.password = Nil THEN config.password ELSE file.password
    BY <1>1 DEF Parsed
<1> QED
    BY <1>1, <1>2 DEF WatchTypes, Names, Passwords

\* NamesAgree is about what these variables hold.
LEMMA NamesUnchanged ==
    ASSUME WatchInv, UNCHANGED <<name, copies, missed, held, ready, pc, arg, config>>
    PROVE  Publishing' /\ NamesAgree'
BY DEF WatchInv, Publishing, NamesAgree, Shows

\* One update of the copies: where it reached, they show what it copied.
LEMMA CopyReaches ==
    ASSUME NEW copied, CopyName(copied)
    PROVE  /\ held' = Nil
           /\ ready => \A c \in Copies \ missed' : copies'[c] = copied
BY DEF CopyName

LEMMA CopyTypes ==
    ASSUME WatchTypes, NEW copied \in Names, CopyName(copied)
    PROVE  copies' \in [Copies -> Names \cup {Nil}] /\ missed' \subseteq Copies
BY DEF WatchTypes, CopyName

\* The worker's places after it has copied the name.
Later == {"only", "compare", "set", "sleep"}

LEMMA NamesLater ==
    ASSUME WatchInv, UNCHANGED <<name, copies, missed, held, ready, arg>>,
           pc[Worker] \in Later, NEW next \in Later \cup {"name"}, Goto(Worker, next),
           next # "name" => config' = config
    PROVE  Publishing' /\ NamesAgree'
<1>1. Worker \in Actors /\ \A e \in Exports : e # Worker
    BY ConfigAssumption DEF Actors
<1>2. /\ \A e \in Exports : pc'[e] = pc[e]
      /\ pc'[Worker] = next
    BY <1>1 DEF Goto, WatchInv, WatchTypes, Actors
<1>3. Publishing'
    BY <1>1, <1>2 DEF WatchInv, Publishing, Later, Actors
<1>4. NamesAgree'
    BY <1>2 DEF WatchInv, NamesAgree, Shows, Later
<1> QED
    BY <1>3, <1>4

LEMMA NamesNext ==
    ASSUME WatchInv, [WatchNext]_watchVars, WatchTypes'
    PROVE  Publishing' /\ NamesAgree'
<1> USE DEF shared, watcher, past
<1>0. /\ Worker \in Actors /\ Exports \subseteq Actors
      /\ \A e \in Exports : e \in Actors /\ e # Worker /\ e # Nil
      /\ Worker # Nil /\ \A a \in Actors : a = Worker \/ a \in Exports
    BY ConfigAssumption DEF Actors
<1>1. CASE GameReady
    <2>1. pc' = [pc EXCEPT ![Worker] = "start"] /\ pc[Worker] = "ready"
        BY <1>1 DEF GameReady, Goto
    <2>2. pc'[Worker] = "start" /\ \A e \in Exports : pc'[e] = pc[e]
        BY <2>1, <1>0 DEF WatchInv, WatchTypes
    <2>3. Publishing'
        BY <2>1, <2>2, <1>0, <1>1 DEF GameReady, WatchInv, Publishing
    <2> QED
        BY <2>2, <2>3 DEF NamesAgree
<1>2. CASE Start
    <2>1. /\ pc' = [pc EXCEPT ![Worker] = "name"] /\ pc[Worker] = "start"
          /\ UNCHANGED <<name, copies, missed, held, ready, arg>>
        BY <1>2 DEF Start, Goto, Load
    <2>2. pc'[Worker] = "name" /\ \A e \in Exports : pc'[e] = pc[e]
        BY <2>1, <1>0 DEF WatchInv, WatchTypes
    <2>3. Publishing'
        BY <2>1, <2>2, <1>0 DEF WatchInv, Publishing
    <2> QED
        BY <2>2, <2>3 DEF NamesAgree
<1>3. CASE Poll
    <2>1. /\ pc[Worker] \in Later /\ Goto(Worker, "name")
          /\ UNCHANGED <<name, copies, missed, held, ready, arg>>
        BY <1>3 DEF Poll, Load, Later
    <2> QED
        BY <2>1, NamesLater
<1>4. CASE ApplyName
    <2>1. /\ pc' = [pc EXCEPT ![Worker] = "copy"] /\ pc[Worker] = "name"
          /\ held = Nil /\ held' = Worker /\ name' = config.name
          /\ UNCHANGED <<copies, missed, ready, arg, config>>
        BY <1>4 DEF ApplyName, Publish, Goto
    <2>2. pc'[Worker] = "copy" /\ \A e \in Exports : pc'[e] = pc[e]
        BY <2>1, <1>0 DEF WatchInv, WatchTypes
    <2>3. \A e \in Exports : pc[e] # "copy"
        BY <2>1, <1>0 DEF WatchInv, Publishing
    <2>4. Publishing'
        BY <2>1, <2>2, <2>3, <1>0 DEF WatchInv, Publishing
    <2> QED
        BY <2>2, <2>4 DEF NamesAgree
<1>5. CASE ApplyCopy
    <2>1. /\ pc' = [pc EXCEPT ![Worker] = "only"] /\ pc[Worker] = "copy"
          /\ CopyName(config.name) /\ held' = Nil /\ UNCHANGED <<name, ready, arg, config>>
        BY <1>5, CopyReaches DEF ApplyCopy, Goto
    <2>2. pc'[Worker] = "only" /\ \A e \in Exports : pc'[e] = pc[e]
        BY <2>1, <1>0 DEF WatchInv, WatchTypes
    <2>3. held = Worker /\ name = config.name /\ ready
        BY <2>1, <1>0 DEF WatchInv, Publishing
    <2>4. \A e \in Exports : pc[e] # "copy"
        BY <2>3, <1>0 DEF WatchInv, Publishing
    <2>5. Publishing'
        BY <2>1, <2>2, <2>3, <2>4, <1>0 DEF WatchInv, Publishing
    <2>6. \A c \in Copies \ missed' : copies'[c] = config.name
        BY <2>1, <2>3, CopyReaches
    <2>7. \A c \in Copies \ missed' : copies'[c] = name'
        BY <2>1, <2>3, <2>6
    <2> QED
        BY <2>5, <2>7 DEF NamesAgree, Shows
<1>6. CASE ApplyOnly
    <2>1. /\ pc[Worker] \in Later /\ "compare" \in Later /\ Goto(Worker, "compare")
          /\ UNCHANGED <<name, copies, missed, held, ready, arg, config>>
        BY <1>6 DEF ApplyOnly, Later
    <2> QED
        BY <2>1, NamesLater
<1>7. CASE Compare
    <2>1. PICK next \in {"set", "sleep"} : Goto(Worker, next)
        BY <1>7 DEF Compare
    <2>2. /\ pc[Worker] \in Later /\ next \in Later
          /\ UNCHANGED <<name, copies, missed, held, ready, arg, config>>
        BY <1>7 DEF Compare, Later
    <2> QED
        BY <2>1, <2>2, NamesLater
<1>8. CASE ApplyPassword
    <2>1. /\ pc[Worker] \in Later /\ "sleep" \in Later /\ Goto(Worker, "sleep")
          /\ UNCHANGED <<name, copies, missed, held, ready, arg, config>>
        BY <1>8 DEF ApplyPassword, Later
    <2> QED
        BY <2>1, NamesLater
<1>9. ASSUME NEW e \in Exports, SetFriendsOnly(e) \/ SetNetworkPassword(e)
      PROVE  Publishing' /\ NamesAgree'
    <2>1. /\ pc' = [pc EXCEPT ![e] = "done"] /\ pc[e] = "out"
          /\ UNCHANGED <<name, copies, missed, held, ready, arg, config>>
        BY <1>9 DEF SetFriendsOnly, SetNetworkPassword, Goto
    <2>2. pc'[e] = "done" /\ \A a \in Actors \ {e} : pc'[a] = pc[a]
        BY <2>1, <1>0 DEF WatchInv, WatchTypes
    <2>3. Publishing'
        BY <2>1, <2>2, <1>0 DEF WatchInv, Publishing
    <2>4. pc'[Worker] = pc[Worker]
        BY <2>2, <1>0
    <2> QED
        BY <2>1, <2>3, <2>4 DEF WatchInv, NamesAgree, Shows
<1>10. ASSUME NEW e \in Exports, SetPlayerName(e)
       PROVE  Publishing' /\ NamesAgree'
    <2>1. PICK to \in Names : /\ held = Nil /\ held' = e /\ name' = to
                              /\ arg' = [arg EXCEPT ![e] = to]
        BY <1>10 DEF SetPlayerName, Publish
    <2>2. /\ pc' = [pc EXCEPT ![e] = "copy"] /\ pc[e] = "out"
          /\ UNCHANGED <<copies, missed, ready, config>>
        BY <1>10 DEF SetPlayerName, Goto
    <2>3. pc'[e] = "copy" /\ \A a \in Actors \ {e} : pc'[a] = pc[a]
        BY <2>2, <1>0 DEF WatchInv, WatchTypes
    <2>4. arg'[e] = to /\ \A a \in Actors : pc[a] # "copy"
        BY <2>1, <1>0, ConfigAssumption DEF WatchInv, WatchTypes, Publishing
    <2>5. held' # Nil /\ pc'[Worker] = pc[Worker]
        BY <2>1, <2>3, <1>0
    <2>6. Publishing'
        BY <2>1, <2>2, <2>3, <2>4, <2>5, <1>0 DEF WatchInv, Publishing
    <2> QED
        BY <2>5, <2>6 DEF NamesAgree
<1>11. ASSUME NEW e \in Exports, PlayerNameCopied(e)
       PROVE  Publishing' /\ NamesAgree'
    <2>1. /\ pc' = [pc EXCEPT ![e] = "done"] /\ pc[e] = "copy"
          /\ CopyName(arg[e]) /\ held' = Nil
          /\ arg' = [arg EXCEPT ![e] = Nil] /\ UNCHANGED <<name, ready, config>>
        BY <1>11, CopyReaches DEF PlayerNameCopied, Goto
    <2>2. pc'[e] = "done" /\ \A a \in Actors \ {e} : pc'[a] = pc[a]
        BY <2>1, <1>0 DEF WatchInv, WatchTypes
    <2>3. held = e /\ name = arg[e]
        BY <2>1, <1>0 DEF WatchInv, Publishing
    <2>4. \A a \in Actors \ {e} : pc[a] # "copy"
        BY <2>3, <1>0 DEF WatchInv, Publishing
    <2>5. pc'[Worker] = pc[Worker] /\ \A a \in Actors : pc'[a] # "copy"
        BY <2>2, <2>4, <1>0
    <2>6. Publishing'
        BY <2>1, <2>5, <1>0 DEF WatchInv, Publishing
    <2>7. ready => \A c \in Copies \ missed' : copies'[c] = arg[e]
        BY <2>1, CopyReaches
    <2>8. ready => \A c \in Copies \ missed' : copies'[c] = name'
        BY <2>1, <2>3, <2>7
    <2>9. pc[Worker] \in {"only", "compare", "set", "sleep"} => ready
        BY DEF WatchInv, Publishing
    <2> QED
        BY <2>5, <2>6, <2>8, <2>9 DEF NamesAgree, Shows
<1>12. CASE \/ Write \/ Tick \/ (\E r \in Readers : Receive(r) \/ Verify(r))
            \/ UNCHANGED watchVars
    <2>1. UNCHANGED <<name, copies, missed, held, ready, pc, arg, config>>
        BY <1>12 DEF Write, Tick, Receive, Verify, watchVars
    <2> QED
        BY <2>1, NamesUnchanged
<1> QED
    BY <1>1, <1>2, <1>3, <1>4, <1>5, <1>6, <1>7, <1>8, <1>9, <1>10, <1>11, <1>12
    DEF WatchNext, WorkerStep

-----------------------------------------------------------------------------
(* Passwords.                                                               *)

\* What a call of set_password does to the history.
LEMMA SetPasswordRotates ==
    ASSUME WatchInv, NEW p \in Passwords, SetPassword(p), clock' = clock
    PROVE  /\ pass' \in [prev : Passwords, cur : Passwords, since : Nat]
           /\ current' \in [Passwords -> Nat \cup {Nil}] /\ before' \in Passwords \cup {Nil}
           /\ pass'.prev = pass.cur /\ pass'.cur = p /\ pass'.since = clock
           /\ current'[pass.cur] = clock /\ current'[p] = clock /\ clock # Nil
           /\ \A q \in Passwords \ {p, pass.cur} : current'[q] = current[q]
           /\ before' = IF p = pass.cur THEN before ELSE pass.cur
<1>1. clock \in Nat /\ clock # Nil
    BY ConfigAssumption DEF WatchInv, WatchTypes
<1> QED
    BY <1>1 DEF WatchInv, WatchTypes, SetPassword

\* A password never was current earlier than it was before.
LEMMA CurrentGrows ==
    ASSUME WatchInv, NEW p \in Passwords, SetPassword(p), clock' = clock,
           NEW q \in Passwords, current[q] # Nil
    PROVE  current'[q] # Nil /\ current'[q] >= current[q]
<1>1. CASE q \in {p, pass.cur}
    BY <1>1, SetPasswordRotates DEF WatchInv, WatchTypes, Rotated
<1>2. CASE q \notin {p, pass.cur}
    BY <1>2, SetPasswordRotates DEF WatchInv, WatchTypes
<1> QED
    BY <1>1, <1>2

LEMMA PasswordsUnchanged ==
    ASSUME WatchInv, UNCHANGED <<pass, clock, seen, past, config>>, pc'[Worker] # "set"
    PROVE  Rotated' /\ CopiesAreRecent' /\ FileRotates'
BY DEF WatchInv, Rotated, CopiesAreRecent, FileRotates, past

LEMMA SetPasswordKeeps ==
    ASSUME WatchInv, NEW p \in Passwords, SetPassword(p), UNCHANGED <<clock, seen>>
    PROVE  Rotated' /\ CopiesAreRecent'
<1>0. clock \in Nat /\ pass \in [prev : Passwords, cur : Passwords, since : Nat]
    BY DEF WatchInv, WatchTypes
<1>1. Rotated'
    <2>1. pass'.since <= clock' /\ \A q \in {pass'.cur, pass'.prev} :
              current'[q] # Nil /\ current'[q] >= pass'.since
        BY <1>0, SetPasswordRotates
    <2>2. ASSUME NEW q \in Passwords, current'[q] # Nil PROVE current'[q] <= clock'
        <3>1. CASE q \in {p, pass.cur}
            BY <1>0, <3>1, SetPasswordRotates
        <3>2. CASE q \notin {p, pass.cur}
            BY <2>2, <3>2, SetPasswordRotates DEF WatchInv, Rotated
        <3> QED
            BY <3>1, <3>2
    <2> QED
        BY <2>1, <2>2 DEF Rotated
<1>2. ASSUME NEW r \in Readers, seen[r] # Nil
      PROVE  LET s == seen[r] IN
             /\ s.at <= clock
             /\ s.pass.cur = pass'.cur \/ (current'[s.pass.cur] # Nil /\ current'[s.pass.cur] >= s.at)
             /\ current'[s.pass.prev] # Nil /\ current'[s.pass.prev] >= s.pass.since
    <2> DEFINE s == seen[r]
    <2>1. s \in Copied
        BY <1>2 DEF WatchInv, WatchTypes
    <2>2. /\ s.at <= clock
          /\ s.pass.cur = pass.cur \/ (current[s.pass.cur] # Nil /\ current[s.pass.cur] >= s.at)
          /\ current[s.pass.prev] # Nil /\ current[s.pass.prev] >= s.pass.since
        BY <1>2 DEF WatchInv, CopiesAreRecent
    <2>3. /\ s.pass.prev \in Passwords /\ s.pass.cur \in Passwords
          /\ s.pass.since \in Nat /\ s.at \in Nat
        BY <2>1 DEF Copied
    <2>4. /\ current[s.pass.prev] \in Nat /\ current'[s.pass.prev] \in Nat
          /\ current'[s.pass.prev] # Nil /\ current'[s.pass.prev] >= current[s.pass.prev]
        BY <2>2, <2>3, CurrentGrows, SetPasswordRotates DEF WatchInv, WatchTypes
    <2>5. CASE s.pass.cur = pass.cur
        <3>1. current'[s.pass.cur] = clock /\ clock # Nil
            BY <2>5, SetPasswordRotates
        <3> QED
            BY <1>0, <2>2, <2>3, <2>4, <3>1
    <2>6. CASE s.pass.cur # pass.cur
        <3>1. /\ current[s.pass.cur] \in Nat /\ current'[s.pass.cur] \in Nat
              /\ current'[s.pass.cur] # Nil /\ current'[s.pass.cur] >= current[s.pass.cur]
            BY <2>2, <2>3, <2>6, CurrentGrows, SetPasswordRotates DEF WatchInv, WatchTypes
        <3> QED
            BY <2>2, <2>3, <2>4, <2>6, <3>1
    <2> QED
        BY <2>5, <2>6
<1> QED
    BY <1>1, <1>2 DEF CopiesAreRecent

LEMMA PasswordsNext ==
    ASSUME WatchInv, [WatchNext]_watchVars
    PROVE  Rotated' /\ CopiesAreRecent' /\ FileRotates'
<1> USE DEF shared, watcher, past
<1>0. /\ Worker \in Actors /\ \A e \in Exports : e # Worker
      /\ config.password \in Passwords /\ clock \in Nat
      /\ pc \in [Actors -> WorkerPlaces \cup {"out", "done"}]
    BY ConfigAssumption DEF Actors, WatchInv, WatchTypes
<1>1. CASE GameReady \/ Start \/ Poll \/ ApplyName \/ ApplyCopy \/ ApplyOnly
    <2>1. UNCHANGED <<pass, clock, seen, past>> /\ pc'[Worker] \notin {"set"}
        BY <1>0, <1>1 DEF GameReady, Start, Poll, ApplyName, ApplyCopy, ApplyOnly, Load, Goto
    <2> QED
        BY <2>1 DEF WatchInv, Rotated, CopiesAreRecent, FileRotates
<1>2. CASE Compare
    <2>1. /\ UNCHANGED <<pass, clock, seen, past, config>>
          /\ pc'[Worker] = "set" => pass.cur # config.password
        BY <1>0, <1>2 DEF Compare, Goto
    <2> QED
        BY <2>1 DEF WatchInv, Rotated, CopiesAreRecent, FileRotates
<1>3. CASE ApplyPassword
    <2>1. /\ pc[Worker] = "set" /\ pc'[Worker] = "sleep" /\ SetPassword(config.password)
          /\ UNCHANGED <<clock, seen, exported>>
        BY <1>0, <1>3 DEF ApplyPassword, Goto
    <2>2. Rotated' /\ CopiesAreRecent'
        BY <1>0, <2>1, SetPasswordKeeps
    <2>3. FileRotates'
        <3> SUFFICES ASSUME ~exported PROVE FileRotates'
            BY <2>1 DEF FileRotates
        <3>1. pass.cur # config.password
            BY <2>1 DEF WatchInv, FileRotates
        <3>2. before' = pass'.prev /\ current'[before'] = pass'.since
            BY <1>0, <2>1, <3>1, SetPasswordRotates
        <3> QED
            BY <2>1, <3>2 DEF WatchInv, FileRotates
    <2> QED
        BY <2>2, <2>3
<1>4. ASSUME NEW e \in Exports, SetFriendsOnly(e) \/ SetPlayerName(e) \/ PlayerNameCopied(e)
      PROVE  Rotated' /\ CopiesAreRecent' /\ FileRotates'
    <2>1. UNCHANGED <<pass, clock, seen, past, config>> /\ pc'[Worker] = pc[Worker]
        BY <1>0, <1>4 DEF SetFriendsOnly, SetPlayerName, PlayerNameCopied, Goto
    <2> QED
        BY <2>1 DEF WatchInv, Rotated, CopiesAreRecent, FileRotates
<1>5. ASSUME NEW e \in Exports, SetNetworkPassword(e)
      PROVE  Rotated' /\ CopiesAreRecent' /\ FileRotates'
    <2>1. PICK p \in Passwords : SetPassword(p)
        BY <1>5 DEF SetNetworkPassword
    <2>2. exported' = TRUE /\ UNCHANGED <<clock, seen>>
        BY <1>5 DEF SetNetworkPassword
    <2> QED
        BY <2>1, <2>2, SetPasswordKeeps DEF FileRotates
<1>6. ASSUME NEW r \in Readers, Receive(r)
      PROVE  Rotated' /\ CopiesAreRecent' /\ FileRotates'
    <2> DEFINE s == [pass |-> pass, at |-> clock, before |-> before,
                     ended |-> IF before = Nil THEN Nil ELSE current[before]]
    <2>1. /\ seen' = [seen EXCEPT ![r] = s]
          /\ UNCHANGED <<pass, clock, past, pc, config>>
        BY <1>6 DEF Receive
    <2>2. seen'[r] = s /\ \A x \in Readers \ {r} : seen'[x] = seen[x]
        BY <2>1 DEF WatchInv, WatchTypes
    <2>3. Rotated'
        BY <2>1 DEF WatchInv, Rotated
    <2>4. s.at = clock /\ s.pass = pass /\ s.before = before
        OBVIOUS
    <2>5. CopiesAreRecent'
        BY <1>0, <2>1, <2>2, <2>4 DEF WatchInv, CopiesAreRecent, Rotated
    <2>6. FileRotates'
        BY <2>1, <2>2 DEF WatchInv, FileRotates
    <2> QED
        BY <2>3, <2>5, <2>6
<1>7. ASSUME NEW r \in Readers, Verify(r)
      PROVE  Rotated' /\ CopiesAreRecent' /\ FileRotates'
    <2>1. /\ seen' = [seen EXCEPT ![r] = Nil]
          /\ UNCHANGED <<pass, clock, past, pc, config>>
        BY <1>7 DEF Verify
    <2>2. seen'[r] = Nil /\ \A x \in Readers \ {r} : seen'[x] = seen[x]
        BY <2>1 DEF WatchInv, WatchTypes
    <2>3. Rotated'
        BY <2>1 DEF WatchInv, Rotated
    <2>4. CopiesAreRecent'
        BY <2>1, <2>2 DEF WatchInv, CopiesAreRecent
    <2>5. FileRotates'
        BY <2>1, <2>2 DEF WatchInv, FileRotates
    <2> QED
        BY <2>3, <2>4, <2>5
<1>8. CASE Tick
    <2>1. clock' = clock + 1 /\ UNCHANGED <<pass, seen, past, pc, config>>
        BY <1>8 DEF Tick
    <2>2. Rotated'
        BY <1>0, <2>1 DEF WatchInv, WatchTypes, Rotated
    <2>3. CopiesAreRecent'
        <3>1. ASSUME NEW r \in Readers, seen[r] # Nil PROVE seen[r].at <= clock + 1
            <4>1. seen[r].at \in Nat /\ seen[r].at <= clock
                BY <3>1 DEF WatchInv, WatchTypes, CopiesAreRecent, Copied
            <4> QED
                BY <1>0, <4>1
        <3> QED
            BY <2>1, <3>1 DEF WatchInv, CopiesAreRecent
    <2>4. FileRotates'
        BY <2>1 DEF WatchInv, FileRotates
    <2> QED
        BY <2>2, <2>3, <2>4
<1>9. CASE Write \/ UNCHANGED watchVars
    <2>1. UNCHANGED <<pass, clock, seen, past, pc, config>>
        BY <1>9 DEF Write, watchVars
    <2> QED
        BY <2>1 DEF WatchInv, Rotated, CopiesAreRecent, FileRotates
<1> QED
    BY <1>1, <1>2, <1>3, <1>4, <1>5, <1>6, <1>7, <1>8, <1>9 DEF WatchNext, WorkerStep

-----------------------------------------------------------------------------
(* Types.                                                                   *)

LEMMA WatchTypesNext ==
    ASSUME WatchInv, [WatchNext]_watchVars
    PROVE  WatchTypes'
<1> USE DEF shared, watcher, past
<1>0. /\ WatchTypes /\ Worker \in Actors /\ \A e \in Exports : e # Worker /\ e \in Actors
      /\ Default \in Files
    BY ConfigAssumption DEF Actors, WatchInv, Complete
<1>1. CASE GameReady
    <2>1. pc' = [pc EXCEPT ![Worker] = "start"]
        BY <1>1 DEF GameReady, Goto
    <2> QED
        BY <1>0, <1>1, <2>1 DEF GameReady, WatchTypes, WorkerPlaces
<1>2. CASE Start
    <2>1. pc' = [pc EXCEPT ![Worker] = "name"] /\ file' \in Files \cup {Nil}
        BY <1>0, <1>2 DEF Start, Load, Goto, WatchTypes
    <2>2. config'.name \in Names /\ config'.password \in Passwords
        BY <1>0, <1>2, ParsedIsComplete DEF Start, Load, WatchTypes
    <2> QED
        BY <1>0, <1>2, <2>1, <2>2 DEF Start, WatchTypes, WorkerPlaces
<1>3. CASE Poll
    <2>1. pc' = [pc EXCEPT ![Worker] = "name"] /\ file' = file
        BY <1>0, <1>3 DEF Poll, Load, Goto, WatchTypes
    <2>2. config'.name \in Names /\ config'.password \in Passwords
        BY <1>0, <1>3, ParsedIsComplete DEF Poll, Load
    <2> QED
        BY <1>0, <1>3, <2>1, <2>2 DEF Poll, WatchTypes, WorkerPlaces
<1>4. CASE ApplyName
    <2>1. pc' = [pc EXCEPT ![Worker] = "copy"] /\ held' = Worker /\ name' = config.name
        BY <1>4 DEF ApplyName, Publish, Goto
    <2> QED
        BY <1>0, <1>4, <2>1 DEF ApplyName, WatchTypes, WorkerPlaces
<1>5. CASE ApplyCopy
    <2>1. /\ pc' = [pc EXCEPT ![Worker] = "only"] /\ held' = Nil
          /\ copies' \in [Copies -> Names \cup {Nil}] /\ missed' \subseteq Copies
        <3>1. config.name \in Names
            BY <1>0 DEF WatchTypes
        <3> QED
            BY <1>0, <1>5, <3>1, CopyTypes, CopyReaches DEF ApplyCopy, Goto
    <2> QED
        BY <1>0, <1>5, <2>1 DEF ApplyCopy, WatchTypes, WorkerPlaces
<1>6. CASE ApplyOnly
    <2>1. pc' = [pc EXCEPT ![Worker] = "compare"]
        BY <1>6 DEF ApplyOnly, Goto
    <2> QED
        BY <1>0, <1>6, <2>1 DEF ApplyOnly, WatchTypes, WorkerPlaces
<1>7. CASE Compare
    <2>1. PICK next \in {"set", "sleep"} : pc' = [pc EXCEPT ![Worker] = next]
        BY <1>7 DEF Compare, Goto
    <2> QED
        BY <1>0, <1>7, <2>1 DEF Compare, WatchTypes, WorkerPlaces
<1>8. CASE ApplyPassword
    <2>1. pc' = [pc EXCEPT ![Worker] = "sleep"] /\ SetPassword(config.password)
        BY <1>8 DEF ApplyPassword, Goto
    <2>2. clock' = clock /\ config.password \in Passwords
        BY <1>0, <1>8 DEF ApplyPassword, WatchTypes
    <2>3. /\ pass' \in [prev : Passwords, cur : Passwords, since : Nat]
          /\ current' \in [Passwords -> Nat \cup {Nil}] /\ before' \in Passwords \cup {Nil}
        BY <2>1, <2>2, SetPasswordRotates
    <2> QED
        BY <1>0, <1>8, <2>1, <2>3 DEF ApplyPassword, WatchTypes, WorkerPlaces
<1>9. ASSUME NEW e \in Exports, SetFriendsOnly(e)
      PROVE  WatchTypes'
    <2>1. pc' = [pc EXCEPT ![e] = "done"]
        BY <1>9 DEF SetFriendsOnly, Goto
    <2> QED
        BY <1>0, <1>9, <2>1 DEF SetFriendsOnly, WatchTypes
<1>10. ASSUME NEW e \in Exports, SetNetworkPassword(e)
       PROVE  WatchTypes'
    <2>1. pc' = [pc EXCEPT ![e] = "done"] /\ clock' = clock
        BY <1>10 DEF SetNetworkPassword, Goto
    <2>2. PICK p \in Passwords : SetPassword(p)
        BY <1>10 DEF SetNetworkPassword
    <2>3. /\ pass' \in [prev : Passwords, cur : Passwords, since : Nat]
          /\ current' \in [Passwords -> Nat \cup {Nil}] /\ before' \in Passwords \cup {Nil}
        BY <2>1, <2>2, SetPasswordRotates
    <2> QED
        BY <1>0, <1>10, <2>1, <2>3 DEF SetNetworkPassword, WatchTypes
<1>11. ASSUME NEW e \in Exports, SetPlayerName(e)
       PROVE  WatchTypes'
    <2>1. pc' = [pc EXCEPT ![e] = "copy"]
        BY <1>11 DEF SetPlayerName, Goto
    <2>2. PICK to \in Names : held' = e /\ name' = to /\ arg' = [arg EXCEPT ![e] = to]
        BY <1>11 DEF SetPlayerName, Publish
    <2> QED
        BY <1>0, <1>11, <2>1, <2>2 DEF SetPlayerName, WatchTypes, WorkerPlaces
<1>12. ASSUME NEW e \in Exports, PlayerNameCopied(e)
       PROVE  WatchTypes'
    <2>1. /\ pc' = [pc EXCEPT ![e] = "done"] /\ held' = Nil
          /\ copies' \in [Copies -> Names \cup {Nil}] /\ missed' \subseteq Copies
          /\ arg' = [arg EXCEPT ![e] = Nil]
        <3>1. pc[e] = "copy" /\ name \in Names /\ name = arg[e]
            BY <1>0, <1>12 DEF PlayerNameCopied, WatchInv, WatchTypes, Publishing
        <3> QED
            BY <1>0, <1>12, <3>1, CopyTypes, CopyReaches DEF PlayerNameCopied, Goto
    <2> QED
        BY <1>0, <1>12, <2>1 DEF PlayerNameCopied, WatchTypes
<1>13. ASSUME NEW r \in Readers, Receive(r)
       PROVE  WatchTypes'
    <2> DEFINE ended == IF before = Nil THEN Nil ELSE current[before]
    <2>1. ended \in Nat \cup {Nil}
        BY <1>0 DEF WatchTypes
    <2>2. [pass |-> pass, at |-> clock, before |-> before, ended |-> ended] \in Copied
        BY <1>0, <2>1 DEF WatchTypes, Copied
    <2>3. seen' = [seen EXCEPT ![r] = [pass |-> pass, at |-> clock, before |-> before,
                                        ended |-> ended]]
        BY <1>13 DEF Receive
    <2>4. seen' \in [Readers -> Copied \cup {Nil}]
        BY <1>0, <2>2, <2>3 DEF WatchTypes
    <2> QED
        BY <1>0, <1>13, <2>4 DEF Receive, WatchTypes
<1>14. ASSUME NEW r \in Readers, Verify(r)
       PROVE  WatchTypes'
    BY <1>0, <1>14 DEF Verify, WatchTypes
<1>15. CASE Write \/ Tick \/ UNCHANGED watchVars
    BY <1>0, <1>15 DEF Write, Tick, watchVars, WatchTypes
<1> QED
    BY <1>1, <1>2, <1>3, <1>4, <1>5, <1>6, <1>7, <1>8, <1>9, <1>10, <1>11, <1>12, <1>13,
       <1>14, <1>15 DEF WatchNext, WorkerStep

-----------------------------------------------------------------------------
(* Theorems about ConfigWatch.                                             *)

\* WatchInv is inductive: what the settings' variables hold between the steps of
\* the worker, the exports and the messages.
THEOREM WatchInvariant == WatchSpec => []WatchInv
<1>1. WatchInv /\ [WatchNext]_watchVars => WatchInv'
    BY WatchTypesNext, NamesNext, PasswordsNext DEF WatchInv
<1> QED
    BY <1>1, WatchInitInv, PTL DEF WatchSpec

\* Whichever writes of set_name fail or are skipped, the places that the last update
\* reached all show the name that Steam's callers get: Config::apply and the export
\* publish and copy it under NAME_UPDATE, in whatever order they come.
THEOREM NamesAlwaysAgree == WatchSpec => []NamesAgree
<1>1. WatchInv => NamesAgree
    BY DEF WatchInv
<1> QED
    BY <1>1, WatchInvariant, PTL

\* verify_checksum lets a message through only under a password that was current
\* when it was copied or later, or at some time since Grace before the verification.
THEOREM AcceptedPasswordsWereCurrent == WatchSpec => AcceptedWasCurrent
<1> DEFINE A == \A r \in Readers : seen[r] # Nil /\ seen'[r] = Nil =>
                    \A p \in Accepted(r) :
                        \/ p = pass.cur
                        \/ current[p] # Nil /\ (current[p] >= seen[r].at \/ current[p] >= clock - Grace)
<1>1. WatchInv => A
    <2> SUFFICES ASSUME WatchInv, NEW r \in Readers, seen[r] # Nil, NEW p \in Accepted(r)
                 PROVE  \/ p = pass.cur
                        \/ current[p] # Nil /\ (current[p] >= seen[r].at \/ current[p] >= clock - Grace)
        OBVIOUS
    <2>1. /\ seen[r].pass.cur \in Passwords /\ seen[r].pass.prev \in Passwords
          /\ seen[r].pass.since \in Nat /\ seen[r].at \in Nat
        BY DEF WatchInv, WatchTypes, Copied
    <2>2. /\ seen[r].pass.cur = pass.cur
             \/ (current[seen[r].pass.cur] # Nil /\ current[seen[r].pass.cur] >= seen[r].at)
          /\ current[seen[r].pass.prev] # Nil
          /\ current[seen[r].pass.prev] >= seen[r].pass.since
        BY DEF WatchInv, CopiesAreRecent
    <2>3. CASE p = seen[r].pass.cur
        BY <2>2, <2>3
    <2>4. CASE p = seen[r].pass.prev /\ clock - seen[r].pass.since <= Grace
        <3>1. current[p] \in Nat /\ clock \in Nat /\ Grace \in Nat
            BY <2>1, <2>2, <2>4, ConfigAssumption DEF WatchInv, WatchTypes
        <3> QED
            BY <2>1, <2>2, <2>4, <3>1
    <2> QED
        BY <2>3, <2>4 DEF Accepted
<1>2. A => [A]_watchVars
    OBVIOUS
<1>3. WatchInv => [A]_watchVars
    BY <1>1, <1>2
<1> HIDE DEF A
<1>4. [][A]_watchVars => AcceptedWasCurrent
    BY DEF A, AcceptedWasCurrent
<1>5. []WatchInv => [][A]_watchVars
    BY <1>3, PTL
<1> QED
    BY <1>4, <1>5, WatchInvariant, PTL

\* While only the file changes the password, Config::apply's comparison keeps the
\* password before it in force until Grace after the change.
THEOREM GraceIsKept == WatchSpec => GraceKept
<1> DEFINE A == \A r \in Readers :
                    (/\ seen[r] # Nil /\ seen'[r] = Nil /\ ~exported
                     /\ seen[r].before # Nil /\ clock - seen[r].ended <= Grace)
                    => seen[r].before \in Accepted(r)
<1>1. WatchInv => A
    BY DEF WatchInv, FileRotates, Accepted
<1>2. WatchInv => [A]_watchVars
    BY <1>1
<1> HIDE DEF A
<1>3. [][A]_watchVars => GraceKept
    BY DEF A, GraceKept
<1>4. []WatchInv => [][A]_watchVars
    BY <1>2, PTL
<1> QED
    BY <1>3, <1>4, WatchInvariant, PTL
=============================================================================
