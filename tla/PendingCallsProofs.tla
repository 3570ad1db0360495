-------------------------- MODULE PendingCallsProofs --------------------------
(***************************************************************************)
(* Proofs about PendingCalls for a table of any length, any number of      *)
(* calls and any fields, as long as no token is given out twice.  The      *)
(* argument is that a slot whose owner reads the same twice had one owner  *)
(* in between: what a reader has seen is never published again.            *)
(***************************************************************************)
EXTENDS PendingCalls, TLAPS

\* t is one of the first n tokens that were given out.
Given(t, n) == t >= 2 /\ \E k \in 0..n - 1 : t = Token(k)

\* The owner of a held slot says who holds it, or that it is being filled.
Owned == \A c \in Callers :
             /\ pc[c] \in {"token", "fill"} => owner[Slot(c)] = 1
             /\ pc[c] = "inside" => owner[Slot(c)] = token[c]

\* A token is known to nobody else before it is published.
Private == \A c \in Callers :
    /\ pc[c] \in {"fill", "inside"} => Given(token[c], issued)
    /\ pc[c] = "fill" =>
          /\ \A i \in Table : owner[i] # token[c]
          /\ rpc = "fields" => seen # token[c]
          /\ \A d \in Callers : pc[d] = "fill" /\ token[d] = token[c] => d = c

Stored == \A c \in Callers :
    /\ pc[c] \notin {"fill", "inside"} => filled[c] = {}
    /\ pc[c] = "fill" => \A f \in filled[c] : field[Slot(c)][f] = token[c]

\* What is published is complete.
Published == \A i \in Table : owner[i] >= 2 =>
                 Given(owner[i], issued) /\ \A f \in Fields : field[i][f] = owner[i]

\* While the owner is still the one that was read first, so are the fields.
Reading ==
    /\ rpc # "fields" => copy = Nothing
    /\ rpc = "fields" =>
          /\ Given(seen, issued)
          /\ owner[at] = seen => \A f \in Fields : copy[f] # 0 => copy[f] = seen

IInv == /\ TypeOK /\ SlotHasOneOwner /\ Owned /\ Private /\ Stored /\ Published
        /\ Reading /\ ReportIsOneCall /\ OverflowIsCounted

LEMMA SlotInTable ==
  ASSUME TypeOK, NEW c \in Callers
  PROVE  Slot(c) \in Table
BY TableAssumption DEF TypeOK, Slot, Table

\* The counter does not come back to a value that it has given out.
LEMMA TokenIsFresh ==
  ASSUME NEW n \in Nat, n < MaxTokens, Token(n) >= 2, NEW k \in 0..n - 1
  PROVE  Token(k) # Token(n)
BY TableAssumption DEF Token

LEMMA TokenInRange ==
  ASSUME NEW n \in Nat, n < MaxTokens
  PROVE  Token(n) \in Tokens
BY TableAssumption DEF Token, Tokens

LEMMA GivenStays ==
  ASSUME NEW n \in Nat, NEW t, Given(t, n)
  PROVE  Given(t, n + 1)
BY DEF Given

LEMMA InitInvariant == Init => IInv
<1> SUFFICES ASSUME Init PROVE IInv
  OBVIOUS
<1> USE TableAssumption
<1>1. TypeOK
  BY DEF Init, TypeOK, Table, Tokens, Nothing, Holding
<1>2. SlotHasOneOwner /\ Owned /\ Private /\ Stored
  BY DEF Init, SlotHasOneOwner, Owned, Private, Stored, Holding
<1>3. Published /\ Reading /\ ReportIsOneCall /\ OverflowIsCounted
  BY DEF Init, Published, Reading, ReportIsOneCall, OverflowIsCounted
<1> QED BY <1>1, <1>2, <1>3 DEF IInv

-----------------------------------------------------------------------------
(* Types.                                                                  *)

LEMMA TypesStep == TypeOK /\ [Next]_vars => TypeOK'
<1> SUFFICES ASSUME TypeOK, [Next]_vars PROVE TypeOK'
  OBVIOUS
<1> USE TableAssumption DEF TypeOK, Go, slots, callers, report, Holding
<1>1. ASSUME NEW c \in Callers, Enter(c) PROVE TypeOK'
  BY <1>1 DEF Enter
<1>2. ASSUME NEW c \in Callers, Claim(c) PROVE TypeOK'
  BY <1>2, SlotInTable DEF Claim
<1>3. ASSUME NEW c \in Callers, Pass(c) PROVE TypeOK'
  BY <1>3 DEF Pass
<1>4. ASSUME NEW c \in Callers, Full(c) PROVE TypeOK'
  BY <1>4 DEF Full
<1>5. ASSUME NEW c \in Callers, TakeToken(c) PROVE TypeOK'
  BY <1>5, TokenInRange DEF TakeToken
<1>6. ASSUME NEW c \in Callers, TokenWraps(c) PROVE TypeOK'
  <2>1. 0 \in Tokens
    BY <1>6 DEF TokenWraps, Tokens
  <2> QED BY <1>6, <2>1, SlotInTable DEF TokenWraps
<1>7. ASSUME NEW c \in Callers, NEW f \in Fields, Fill(c, f) PROVE TypeOK'
  BY <1>7, SlotInTable DEF Fill
<1>8. ASSUME NEW c \in Callers, Publish(c) PROVE TypeOK'
  BY <1>8, SlotInTable DEF Publish
<1>9. ASSUME NEW c \in Callers, Leave(c) PROVE TypeOK'
  <2>1. 0 \in Tokens
    BY DEF Tokens
  <2> QED BY <1>9, <2>1, SlotInTable DEF Leave, Forget
<1>10. ASSUME NEW c \in Callers, LeaveUntracked(c) PROVE TypeOK'
  <2>1. 0 \in Tokens
    BY DEF Tokens
  <2> QED BY <1>10, <2>1 DEF LeaveUntracked, Forget
<1>11. ASSUME StartReport PROVE TypeOK'
  BY <1>11 DEF StartReport, Table
<1>12. ASSUME SkipFree PROVE TypeOK'
  BY <1>12 DEF SkipFree, Advance, Table
<1>13. ASSUME ReadOwner PROVE TypeOK'
  BY <1>13 DEF ReadOwner, Tokens
<1>14. ASSUME NEW f \in Fields, ReadField(f) PROVE TypeOK'
  BY <1>14 DEF ReadField
<1>15. ASSUME Recheck PROVE TypeOK'
  <2>1. 0 \in Tokens
    BY DEF Tokens
  <2>2. lines' \subseteq [Fields -> Tokens] /\ seen' \in Tokens /\ copy' \in [Fields -> Tokens]
    BY <1>15, <2>1 DEF Recheck, Discard, Nothing
  <2>3. rpc' \in {"owner", "overflow"} /\ at' \in Table
    BY <1>15 DEF Recheck, Advance, Table
  <2> QED BY <1>15, <2>2, <2>3 DEF Recheck
<1>16. ASSUME ReportOverflow PROVE TypeOK'
  BY <1>16 DEF ReportOverflow
<1>17. ASSUME UNCHANGED vars PROVE TypeOK'
  BY <1>17 DEF vars
<1> QED
  BY <1>1, <1>2, <1>3, <1>4, <1>5, <1>6, <1>7, <1>8, <1>9, <1>10, <1>11, <1>12, <1>13,
     <1>14, <1>15, <1>16, <1>17 DEF Next, Begin, Report

-----------------------------------------------------------------------------
(* One lemma for each step: what it does to the parts of the invariant.    *)

Rest == /\ SlotHasOneOwner /\ Owned /\ Private /\ Stored /\ Published
        /\ Reading /\ ReportIsOneCall /\ OverflowIsCounted

\* Steps of a caller that holds no slot and takes none.
LEMMA OutsideStep ==
  ASSUME IInv, TypeOK', NEW c \in Callers,
         Enter(c) \/ Pass(c) \/ Full(c) \/ LeaveUntracked(c)
  PROVE  Rest'
<1> USE DEF IInv, Go, slots, callers, report
<1>1. /\ UNCHANGED <<owner, field, issued, report>>
      /\ pc[c] \notin Holding /\ pc'[c] \notin Holding
      /\ \A d \in Callers : d # c => /\ pc'[d] = pc[d] /\ offset'[d] = offset[d]
                                     /\ token'[d] = token[d] /\ filled'[d] = filled[d]
      /\ filled'[c] = {} \/ filled'[c] = filled[c]
  BY DEF Enter, Pass, Full, LeaveUntracked, Forget, Holding, TypeOK
<1>2. \A d \in Callers : pc'[d] \in Holding => /\ d # c /\ pc[d] \in Holding
                                               /\ Slot(d)' = Slot(d)
  BY <1>1 DEF Slot
<1>3. (SlotHasOneOwner /\ Owned)'
  BY <1>1, <1>2 DEF SlotHasOneOwner, Owned, Holding
<1>4. (Private /\ Stored)'
  BY <1>1, <1>2 DEF Private, Stored, Holding, report
<1>5. (Published /\ Reading /\ ReportIsOneCall)'
  BY <1>1 DEF Published, Reading, ReportIsOneCall, report
<1>6. OverflowIsCounted'
  <2>1. \/ UNCHANGED <<lost, overflow, untracked>>
        \/ lost' = lost /\ overflow' = overflow + 1 /\ untracked' = untracked + 1
    BY DEF Enter, Pass, Full, LeaveUntracked
  <2>2. lost \in Nat /\ overflow \in Nat /\ untracked \in Nat
    BY DEF TypeOK
  <2> QED BY <2>1, <2>2 DEF OverflowIsCounted
<1> QED BY <1>3, <1>4, <1>5, <1>6 DEF Rest

\* A slot that is claimed was free, so nobody held it.
LEMMA ClaimStep ==
  ASSUME IInv, TypeOK', NEW c \in Callers, Claim(c)
  PROVE  Rest'
<1> USE DEF IInv, Go, slots, callers, report, Claim
<1>1. Slot(c) \in Table /\ \A d \in Callers : Slot(d)' = Slot(d)
  BY SlotInTable DEF Slot
<1>2. \A d \in Callers : pc[d] \in Holding => Slot(d) # Slot(c)
  BY DEF Owned, Private, Given, Holding
<1>3. \A d \in Callers : pc'[d] \in Holding /\ d # c => pc[d] \in Holding /\ pc'[d] = pc[d]
  BY DEF TypeOK
<1>4. SlotHasOneOwner'
  BY <1>1, <1>2, <1>3 DEF SlotHasOneOwner
<1>5. Owned'
  BY <1>1, <1>2, <1>3 DEF Owned, Holding, TypeOK
<1>6. Private'
  BY <1>1, <1>3 DEF Private, Holding, TypeOK, Given
<1>7. Stored'
  BY <1>1, <1>3 DEF Stored, Holding, TypeOK
<1>8. (Published /\ Reading)'
  BY <1>1 DEF Published, Reading, TypeOK, Given
<1>9. (ReportIsOneCall /\ OverflowIsCounted)'
  BY DEF ReportIsOneCall, OverflowIsCounted
<1> QED BY <1>4, <1>5, <1>6, <1>7, <1>8, <1>9 DEF Rest

\* A new token is none of those that a slot, a caller or the report knows.
LEMMA TakeTokenStep ==
  ASSUME IInv, TypeOK', NEW c \in Callers, TakeToken(c)
  PROVE  Rest'
<1> USE DEF IInv, Go, slots, callers, report, TakeToken
<1>1. issued \in Nat /\ issued' = issued + 1 /\ token'[c] = Token(issued)
  BY DEF TypeOK
<1>2. \A t : Given(t, issued) => t # Token(issued) /\ Given(t, issued')
  BY <1>1, TokenIsFresh, GivenStays DEF Given
<1>3. Given(Token(issued), issued')
  BY <1>1 DEF Given
<1>4. \A d \in Callers : /\ Slot(d)' = Slot(d)
                         /\ d # c => pc'[d] = pc[d] /\ token'[d] = token[d]
  BY DEF Slot, TypeOK
<1>5. (SlotHasOneOwner /\ Owned)'
  BY <1>4 DEF SlotHasOneOwner, Owned, Holding, TypeOK
<1>6. Private'
  <2>1. \A i \in Table : owner[i] # Token(issued)
    BY <1>2 DEF Published
  <2>2. rpc = "fields" => seen # Token(issued)
    BY <1>2 DEF Reading
  <2>3. \A d \in Callers : pc[d] = "fill" => token[d] # Token(issued)
    BY <1>2 DEF Private
  <2>4. pc'[c] = "fill"
    BY DEF TypeOK
  <2> QED BY <1>1, <1>2, <1>3, <1>4, <2>1, <2>2, <2>3, <2>4 DEF Private
<1>7. Stored'
  <2>1. pc'[c] = "fill" /\ filled'[c] = {}
    BY DEF TypeOK, Stored
  <2> QED BY <1>4, <2>1 DEF Stored
<1>8. (Published /\ Reading)'
  BY <1>2 DEF Published, Reading
<1>9. (ReportIsOneCall /\ OverflowIsCounted)'
  BY DEF ReportIsOneCall, OverflowIsCounted
<1> QED BY <1>5, <1>6, <1>7, <1>8, <1>9 DEF Rest

\* Giving a slot back touches nothing that others or the report rely on.
LEMMA ReleaseStep ==
  ASSUME IInv, TypeOK', NEW c \in Callers, TokenWraps(c) \/ Leave(c)
  PROVE  Rest'
<1> USE DEF IInv, Go, slots, callers, report
<1>1. /\ UNCHANGED <<field, overflow, untracked, report>>
      /\ owner' = [owner EXCEPT ![Slot(c)] = 0]
      /\ pc[c] \in Holding /\ pc'[c] \notin Holding /\ filled'[c] = {}
      /\ \A d \in Callers : d # c => /\ pc'[d] = pc[d] /\ offset'[d] = offset[d]
                                     /\ token'[d] = token[d] /\ filled'[d] = filled[d]
  BY DEF TokenWraps, Leave, Forget, Holding, TypeOK, Stored
<1>2. issued \in Nat /\ (issued' = issued \/ issued' = issued + 1)
  BY DEF TokenWraps, Leave, TypeOK
<1>3. \A t : Given(t, issued) => Given(t, issued')
  BY <1>2, GivenStays
<1>4. Slot(c) \in Table
  BY SlotInTable
<1>5. \A d \in Callers : pc'[d] \in Holding =>
          d # c /\ pc[d] \in Holding /\ Slot(d)' = Slot(d) /\ Slot(d) # Slot(c)
  BY <1>1 DEF Slot, SlotHasOneOwner
<1>6. (SlotHasOneOwner /\ Owned)'
  BY <1>1, <1>4, <1>5 DEF SlotHasOneOwner, Owned, Holding, TypeOK
<1>7. owner'[Slot(c)] = 0 /\ \A i \in Table : i # Slot(c) => owner'[i] = owner[i]
  BY <1>1, <1>4 DEF TypeOK
<1>8. \A n : ~Given(0, n)
  BY DEF Given
<1>9. Private'
  <2>1. \A d \in Callers : pc'[d] \in {"fill", "inside"} => Given(token'[d], issued')
    BY <1>1, <1>3, <1>5 DEF Private, Holding
  <2>2. \A d \in Callers : pc'[d] = "fill" => \A i \in Table : owner'[i] # token'[d]
    BY <1>1, <1>5, <1>7, <1>8, <2>1 DEF Private, Holding
  <2>3. \A d, e \in Callers : pc'[d] = "fill" =>
            /\ rpc' = "fields" => seen' # token'[d]
            /\ pc'[e] = "fill" /\ token'[e] = token'[d] => e = d
    BY <1>1, <1>5 DEF Private, Holding
  <2> QED BY <2>1, <2>2, <2>3 DEF Private
<1>10. Stored'
  BY <1>1, <1>5 DEF Stored, Holding
<1>11. Published'
  BY <1>1, <1>3, <1>7 DEF Published
<1>12. Reading'
  <2>1. rpc' = "fields" => at \in Table /\ Given(seen, issued) /\ seen # 0
    BY <1>1, <1>8 DEF Reading, TypeOK
  <2> QED BY <1>1, <1>3, <1>7, <2>1 DEF Reading
<1>13. (ReportIsOneCall /\ OverflowIsCounted)'
  BY <1>1 DEF ReportIsOneCall, OverflowIsCounted
<1> QED BY <1>6, <1>9, <1>10, <1>11, <1>12, <1>13 DEF Rest

\* A field is stored only in a slot that is being filled.
LEMMA FillStep ==
  ASSUME IInv, TypeOK', NEW c \in Callers, NEW f \in Fields, Fill(c, f)
  PROVE  Rest'
<1> USE DEF IInv, Go, slots, callers, report, Fill
<1>1. Slot(c) \in Table /\ owner[Slot(c)] = 1 /\ \A d \in Callers : Slot(d)' = Slot(d)
  BY SlotInTable DEF Slot, Owned
<1>2. (SlotHasOneOwner /\ Owned /\ Private)'
  BY <1>1 DEF SlotHasOneOwner, Owned, Private
<1>3. Stored'
  <2>1. field'[Slot(c)][f] = token[c]
        /\ \A g \in Fields : g # f => field'[Slot(c)][g] = field[Slot(c)][g]
    BY <1>1 DEF TypeOK
  <2>2. \A d \in Callers : d # c /\ pc[d] = "fill" =>
            Slot(d) # Slot(c) /\ field'[Slot(d)] = field[Slot(d)] /\ filled'[d] = filled[d]
    BY <1>1, SlotInTable DEF SlotHasOneOwner, Holding, TypeOK
  <2>3. filled'[c] = filled[c] \cup {f} /\ filled[c] \subseteq Fields
    BY DEF TypeOK
  <2>4. \A d \in Callers : d # c => filled'[d] = filled[d]
    BY DEF TypeOK
  <2> QED BY <1>1, <2>1, <2>2, <2>3, <2>4 DEF Stored
<1>4. Published'
  BY <1>1 DEF Published, TypeOK
<1>5. (Reading /\ ReportIsOneCall /\ OverflowIsCounted)'
  BY DEF Reading, ReportIsOneCall, OverflowIsCounted
<1> QED BY <1>2, <1>3, <1>4, <1>5 DEF Rest

\* What is published is complete, and it is not what the report has seen.
LEMMA PublishStep ==
  ASSUME IInv, TypeOK', NEW c \in Callers, Publish(c)
  PROVE  Rest'
<1> USE DEF IInv, Go, slots, callers, report, Publish
<1>1. /\ Slot(c) \in Table /\ owner'[Slot(c)] = token[c]
      /\ \A i \in Table : i # Slot(c) => owner'[i] = owner[i]
      /\ \A d \in Callers : Slot(d)' = Slot(d)
  BY SlotInTable DEF Slot, TypeOK
<1>2. /\ pc'[c] = "inside" /\ pc[c] = "fill"
      /\ \A d \in Callers : d # c => pc'[d] = pc[d]
  BY DEF TypeOK
<1>3. SlotHasOneOwner'
  BY <1>1, <1>2 DEF SlotHasOneOwner, Holding
<1>4. \A d \in Callers : d # c /\ pc'[d] \in Holding => Slot(d) # Slot(c) /\ Slot(d) \in Table
  BY <1>2, SlotInTable DEF SlotHasOneOwner, Holding
<1>5. Owned'
  BY <1>1, <1>2, <1>4 DEF Owned, Holding
<1>6. Private'
  <2>1. \A d \in Callers : pc'[d] = "fill" => pc[d] = "fill" /\ d # c /\ token[d] # token[c]
    BY <1>2 DEF Private
  <2> QED BY <1>1, <1>2, <2>1 DEF Private
<1>7. Stored'
  BY <1>1, <1>2 DEF Stored
<1>8. Published'
  <2>1. Given(token[c], issued) /\ \A f \in Fields : field[Slot(c)][f] = token[c]
    BY <1>2 DEF Private, Stored
  <2> QED BY <1>1, <2>1 DEF Published
<1>9. Reading'
  <2>1. rpc = "fields" => seen # token[c]
    BY <1>2 DEF Private
  <2> QED BY <1>1, <2>1 DEF Reading, TypeOK
<1>10. (ReportIsOneCall /\ OverflowIsCounted)'
  BY DEF ReportIsOneCall, OverflowIsCounted
<1> QED BY <1>3, <1>5, <1>6, <1>7, <1>8, <1>9, <1>10 DEF Rest

\* What a step of the report leaves alone.
LEMMA ReportFrame ==
  ASSUME IInv, UNCHANGED <<owner, field, issued, callers>>
  PROVE  (SlotHasOneOwner /\ Owned /\ Stored /\ Published)'
<1> USE DEF IInv, callers
<1>1. \A d \in Callers : Slot(d)' = Slot(d)
  BY DEF Slot
<1> QED BY <1>1 DEF SlotHasOneOwner, Owned, Stored, Published

\* Between two slots the report has seen nothing.
LEMMA BetweenSlotsStep ==
  ASSUME IInv, TypeOK', StartReport \/ SkipFree \/ ReportOverflow
  PROVE  Rest'
<1> USE DEF IInv, slots, callers, report
<1>1. UNCHANGED <<owner, field, issued, callers>> /\ rpc' # "fields"
      /\ rpc # "fields" /\ UNCHANGED copy /\ (lines' = lines \/ lines' = {})
  BY DEF StartReport, SkipFree, ReportOverflow, Advance
<1>2. (SlotHasOneOwner /\ Owned /\ Stored /\ Published)'
  BY <1>1, ReportFrame
<1>3. (Private /\ Reading /\ ReportIsOneCall)'
  <2>1. \A d \in Callers : Slot(d)' = Slot(d)
    BY <1>1 DEF Slot
  <2> QED BY <1>1, <2>1 DEF Private, Reading, ReportIsOneCall
<1>4. OverflowIsCounted'
  <2>1. /\ untracked' = untracked
        /\ \/ UNCHANGED <<lost, overflow>>
           \/ lost' = lost + overflow /\ overflow' = 0
    BY DEF StartReport, SkipFree, ReportOverflow
  <2>2. lost \in Nat /\ overflow \in Nat /\ untracked \in Nat
    BY DEF TypeOK
  <2> QED BY <2>1, <2>2 DEF OverflowIsCounted
<1> QED BY <1>2, <1>3, <1>4 DEF Rest

\* The copy is empty when the owner is read.
LEMMA ReadOwnerStep ==
  ASSUME IInv, TypeOK', ReadOwner
  PROVE  Rest'
<1> USE DEF IInv, slots, callers, report, ReadOwner
<1>1. (SlotHasOneOwner /\ Owned /\ Stored /\ Published)'
  BY ReportFrame
<1>2. at \in Table /\ Given(owner[at], issued)
  BY DEF TypeOK, Published
<1>3. Private'
  BY <1>2 DEF Private
<1>4. Reading'
  BY <1>2 DEF Reading, Nothing
<1>5. (ReportIsOneCall /\ OverflowIsCounted)'
  BY DEF ReportIsOneCall, OverflowIsCounted
<1> QED BY <1>1, <1>3, <1>4, <1>5 DEF Rest

LEMMA ReadFieldStep ==
  ASSUME IInv, TypeOK', NEW f \in Fields, ReadField(f)
  PROVE  Rest'
<1> USE DEF IInv, slots, callers, report, ReadField
<1>1. (SlotHasOneOwner /\ Owned /\ Stored /\ Published)'
  BY ReportFrame
<1>2. Private'
  BY DEF Private
<1>3. Reading'
  <2>1. at \in Table /\ seen >= 2 /\ Given(seen, issued)
    BY DEF TypeOK, Reading, Given
  <2>2. copy'[f] = field[at][f] /\ \A g \in Fields : g # f => copy'[g] = copy[g]
    BY DEF TypeOK
  <2>3. owner[at] = seen => copy'[f] = seen
    BY <2>1, <2>2 DEF Published
  <2> QED BY <2>1, <2>2, <2>3 DEF Reading
<1>4. (ReportIsOneCall /\ OverflowIsCounted)'
  BY DEF ReportIsOneCall, OverflowIsCounted
<1> QED BY <1>1, <1>2, <1>3, <1>4 DEF Rest

\* The second look at the owner: the same one means one call.
LEMMA RecheckStep ==
  ASSUME IInv, TypeOK', Recheck
  PROVE  Rest'
<1> USE DEF IInv, slots, callers, report, Recheck
<1>1. (SlotHasOneOwner /\ Owned /\ Stored /\ Published)'
  BY ReportFrame
<1>2. rpc' # "fields" /\ copy' = Nothing
  BY DEF Advance, Discard
<1>3. (Private /\ Reading)'
  BY <1>2 DEF Private, Reading
<1>4. ReportIsOneCall'
  <2>1. owner[at] = seen => \A f \in Fields : copy[f] = seen
    BY DEF Reading
  <2> QED BY <2>1 DEF ReportIsOneCall
<1>5. OverflowIsCounted'
  BY DEF OverflowIsCounted
<1> QED BY <1>1, <1>3, <1>4, <1>5 DEF Rest

LEMMA StutterStep ==
  ASSUME IInv, UNCHANGED vars
  PROVE  IInv'
<1> USE DEF IInv, vars, slots, callers, report
<1>1. \A d \in Callers : Slot(d)' = Slot(d)
  BY DEF Slot
<1> QED BY <1>1 DEF TypeOK, SlotHasOneOwner, Owned, Private, Stored, Published,
                    Reading, ReportIsOneCall, OverflowIsCounted

LEMMA InvariantStep == IInv /\ [Next]_vars => IInv'
<1> SUFFICES ASSUME IInv, [Next]_vars PROVE IInv'
  OBVIOUS
<1>1. CASE UNCHANGED vars
  BY <1>1, StutterStep
<1>2. CASE Next
  <2>1. TypeOK'
    BY TypesStep DEF IInv
  <2>2. Rest'
    BY <1>2, <2>1, OutsideStep, ClaimStep, TakeTokenStep, ReleaseStep, FillStep, PublishStep,
       BetweenSlotsStep, ReadOwnerStep, ReadFieldStep, RecheckStep DEF Next, Begin, Report
  <2> QED BY <2>1, <2>2 DEF IInv, Rest
<1> QED BY <1>1, <1>2

-----------------------------------------------------------------------------
\* Each slot's owner tells truly who holds it, and what is published in it is
\* complete: the invariant behind all that follows (PendingCalls).
THEOREM PendingInvariant == Spec => []IInv
<1>1. Init => IInv
  BY InitInvariant
<1>2. IInv /\ [Next]_vars => IInv'
  BY InvariantStep
<1> QED BY <1>1, <1>2, PTL DEF Spec

\* The variables keep their types: above all, the search for a slot ends with
\* the table, and no token exceeds the counter's range (begin).
THEOREM PendingTypes == Spec => []TypeOK
<1>1. IInv => TypeOK
  BY DEF IInv
<1> QED BY <1>1, PendingInvariant, PTL

\* However many calls are made at once, no two fill or free the same slot
\* (compare_exchange in begin, Pending::drop).
THEOREM SlotsHaveOneOwner == Spec => []SlotHasOneOwner
<1>1. IInv => SlotHasOneOwner
  BY DEF IInv
<1> QED BY <1>1, PendingInvariant, PTL

\* No line of a report combines two calls, whatever calls leave and enter the
\* slot between the reads of its fields (append).
THEOREM ReportsAreCoherent == Spec => []ReportIsOneCall
<1>1. IInv => ReportIsOneCall
  BY DEF IInv
<1> QED BY <1>1, PendingInvariant, PTL

\* The totals of overflow that are reported lose no call and count none twice
\* (fetch_add in begin, swap in append).
THEOREM OverflowAddsUp == Spec => []OverflowIsCounted
<1>1. IInv => OverflowIsCounted
  BY DEF IInv
<1> QED BY <1>1, PendingInvariant, PTL

=============================================================================
