-------------------------- MODULE LoaderSessionProofs --------------------------
(***************************************************************************)
(* Proofs about LoaderSession for any number of calls, launchers, games    *)
(* and failing Windows calls.                                              *)
(***************************************************************************)
EXTENDS LoaderSession, TLAPS

Call == [kind : {"none", "load", "start"}, thread : {"running", "leaving", "ended"},
         buffer : {"held", "left", "freed"}, code : Answers \cup {"none"}, by : 0..MaxLaunches]

\* A thread of the launcher that runs now is that of its session's call, in the
\* game that runs now, or was left behind by a session that has failed and does
\* not try again.
Mine ==
    /\ \A k \in Calls : call[k].by <= launch
    /\ open => \A k \in Calls :
           Live(k) /\ call[k].by = launch => own /\ (k = current \/ stage = "failed")

Installed == loaded /\ status \in {"active", "deactivated"}

\* An answer "active" that the session is about to read is true of its game.
Told == own /\ current # Nil /\ call[current].code = "active" => Installed

ShownInStage == shown => stage \in {"monitoring", "confirmed"}

IInv == /\ TypeOK /\ BufferOutlivesCall /\ OneThreadPerLauncher
        /\ Mine /\ Told /\ ShownInStage /\ ShownIsInstalled

LEMMA InvInit == Init => IInv
<1> SUFFICES ASSUME Init PROVE IInv
    OBVIOUS
<1> USE DEF Init
<1>1. call \in [Calls -> Call]
    BY BoundsAssumption DEF Over, Call
<1>2. {shown, open, game, own, loaded, ready, supported, passive, patched} \subseteq BOOLEAN
    <2>1. supported \in BOOLEAN /\ passive \in BOOLEAN
        OBVIOUS
    <2>2. patched = FALSE
        BY DEF DLL!Init
    <2> QED
        BY <2>1, <2>2
<1>3. launch \in 1..MaxLaunches /\ games \in 0..MaxGames /\ faults \in 0..MaxFaults
    BY BoundsAssumption
<1>4. stage \in Stages /\ current \in Calls \cup {Nil}
      /\ (current # Nil <=> stage \in {"loading", "starting"})
    BY DEF Stages
<1>5. status \in DLL!Statuses /\ heard \in Answers \cup {"none"}
    BY DEF DLL!Init, DLL!Statuses
<1>6. TypeOK
    BY <1>1, <1>2, <1>3, <1>4, <1>5 DEF TypeOK, Call
<1>7. \A k \in Calls : ~Live(k) /\ call[k].by = 0
    BY DEF Live, Over
<1> QED
    BY <1>6, <1>7 DEF IInv, BufferOutlivesCall, OneThreadPerLauncher, Mine, Told,
       ShownInStage, ShownIsInstalled

-----------------------------------------------------------------------------
(* What happens to calls.                                                   *)

\* No call is made: threads only end, those that run keep their argument.
Fewer == \A k \in Calls : /\ call'[k].by = call[k].by
                          /\ Live(k)' => Live(k) /\ call'[k].buffer # "freed"

LEMMA FewerKeeps ==
    ASSUME IInv, Fewer
    PROVE  BufferOutlivesCall' /\ OneThreadPerLauncher'
BY DEF IInv, Fewer, BufferOutlivesCall, OneThreadPerLauncher

LEMMA SameCalls ==
    ASSUME IInv, UNCHANGED call
    PROVE  /\ call' \in [Calls -> Call] /\ Fewer
           /\ \A k \in Calls : (Live(k)' <=> Live(k)) /\ call'[k].code = call[k].code
<1>1. call \in [Calls -> Call]
    BY DEF IInv, TypeOK, Call
<1> QED
    BY <1>1 DEF IInv, Fewer, Live, BufferOutlivesCall

\* A call's argument is freed only when its thread has ended.
LEMMA DroppedCalls ==
    ASSUME IInv, call' = Dropped
    PROVE  /\ call' \in [Calls -> Call] /\ Fewer
           /\ \A k \in Calls : (Live(k)' <=> Live(k)) /\ call'[k].code = call[k].code
<1>0. call \in [Calls -> Call] /\ current \in Calls \cup {Nil}
    BY DEF IInv, TypeOK, Call
<1>1. CASE current = Nil
    BY <1>1, SameCalls DEF Dropped
<1>2. CASE current # Nil
    <2>1. call' = [call EXCEPT ![current] =
                       [call[current] EXCEPT !.buffer = IF Live(current) THEN "left" ELSE "freed"]]
        BY <1>2 DEF Dropped
    <2>2. current \in Calls
        BY <1>0, <1>2
    <2>3. call'[current] = [call[current] EXCEPT !.buffer = IF Live(current) THEN "left" ELSE "freed"]
          /\ \A k \in Calls \ {current} : call'[k] = call[k]
        BY <1>0, <2>1, <2>2
    <2>4. call[current] \in Call
        BY <1>0, <2>2
    <2>5. call'[current] \in Call /\ call'[current].by = call[current].by
          /\ call'[current].thread = call[current].thread
          /\ call'[current].code = call[current].code
          /\ (Live(current) => call'[current].buffer = "left")
        BY <2>3, <2>4 DEF Call
    <2>6. call' \in [Calls -> Call]
        BY <1>0, <2>1, <2>2, <2>3, <2>5
    <2>7. \A k \in Calls : (Live(k)' <=> Live(k)) /\ call'[k].code = call[k].code
                           /\ call'[k].by = call[k].by
        BY <2>3, <2>5 DEF Live
    <2>8. \A k \in Calls : Live(k) => call'[k].buffer # "freed"
        BY <2>3, <2>5 DEF IInv, BufferOutlivesCall
    <2> QED
        BY <2>6, <2>7, <2>8 DEF Fewer
<1> QED
    BY <1>1, <1>2

LEMMA WithCode ==
    ASSUME NEW c \in Call, NEW a \in Answers \cup {"none"}
    PROVE  /\ [c EXCEPT !.code = a] \in Call
           /\ [c EXCEPT !.code = a].code = a
           /\ [c EXCEPT !.code = a].by = c.by
           /\ [c EXCEPT !.code = a].buffer = c.buffer
<1>1. [c EXCEPT !.code = a] = [kind |-> c.kind, thread |-> c.thread, buffer |-> c.buffer,
                               code |-> a, by |-> c.by]
    BY DEF Call
<1>2. [kind |-> c.kind, thread |-> c.thread, buffer |-> c.buffer, code |-> a,
       by |-> c.by] \in Call
    BY DEF Call
<1> QED
    BY <1>1, <1>2

LEMMA WithThread ==
    ASSUME NEW c \in Call, NEW th \in {"running", "leaving", "ended"}
    PROVE  /\ [c EXCEPT !.thread = th] \in Call
           /\ [c EXCEPT !.thread = th].code = c.code
           /\ [c EXCEPT !.thread = th].by = c.by
           /\ [c EXCEPT !.thread = th].buffer = c.buffer
BY DEF Call

\* A thread of the game takes a step.
LEMMA ThreadMoves ==
    ASSUME IInv, NEW k \in Calls, Live(k), NEW thread \in {"leaving", "ended"},
           NEW code \in Answers \cup {"none"},
           call' = [call EXCEPT ![k].code = code, ![k].thread = thread]
    PROVE  /\ call' \in [Calls -> Call] /\ Fewer
           /\ call'[k].code = code
           /\ \A j \in Calls \ {k} : call'[j] = call[j]
<1>0. call \in [Calls -> Call]
    BY DEF IInv, TypeOK, Call
<1>1. call'[k] = [call[k] EXCEPT !.code = code, !.thread = thread]
      /\ \A j \in Calls \ {k} : call'[j] = call[j]
    BY <1>0
<1>2. call[k] \in Call
    BY <1>0
<1>3a. PICK r \in Call : r = [call[k] EXCEPT !.code = code] /\ r.code = code
                        /\ r.by = call[k].by /\ r.buffer = call[k].buffer
    BY <1>2, WithCode
<1>3b. call'[k] = [r EXCEPT !.thread = thread]
    BY <1>1, <1>3a
<1>3. call'[k] \in Call /\ call'[k].code = code /\ call'[k].by = call[k].by
      /\ call'[k].buffer = call[k].buffer
    <2>1. thread \in {"running", "leaving", "ended"}
        OBVIOUS
    <2>2. /\ [r EXCEPT !.thread = thread] \in Call
          /\ [r EXCEPT !.thread = thread].code = r.code
          /\ [r EXCEPT !.thread = thread].by = r.by
          /\ [r EXCEPT !.thread = thread].buffer = r.buffer
        BY <2>1, WithThread
    <2> QED
        BY <1>3a, <1>3b, <2>2
<1>4. call' \in [Calls -> Call]
    BY <1>0, <1>1, <1>3
<1>5. Fewer
    BY <1>1, <1>3, ZenonT(30) DEF Fewer, Live, IInv, BufferOutlivesCall
<1> QED
    BY <1>1, <1>3, <1>4, <1>5

LEMMA ThreadEnds ==
    ASSUME IInv, NEW k \in Calls, Live(k), call' = [call EXCEPT ![k].thread = "ended"]
    PROVE  /\ call' \in [Calls -> Call] /\ Fewer
           /\ \A j \in Calls : call'[j].code = call[j].code
<1>0. call \in [Calls -> Call]
    BY DEF IInv, TypeOK, Call
<1>1. call'[k] = [call[k] EXCEPT !.thread = "ended"]
      /\ \A j \in Calls \ {k} : call'[j] = call[j]
    BY <1>0
<1>2. call[k] \in Call
    BY <1>0
<1>3. call'[k] \in Call /\ call'[k].code = call[k].code /\ call'[k].by = call[k].by
      /\ call'[k].buffer = call[k].buffer
    BY <1>1, <1>2 DEF Call
<1>4. call' \in [Calls -> Call]
    BY <1>0, <1>1, <1>3
<1>5. Fewer
    BY <1>1, <1>3 DEF Fewer, Live, IInv, BufferOutlivesCall
<1> QED
    BY <1>1, <1>3, <1>4, <1>5

\* A launcher makes a call while none of its own runs.
LEMMA CallMade ==
    ASSUME IInv, NEW k \in Calls, Free(k), open,
           \A j \in Calls : Live(j) => call[j].by # launch,
           NEW kind \in {"load", "start"}, call' = Called(k, kind), UNCHANGED <<launch, open>>
    PROVE  /\ call' \in [Calls -> Call] /\ BufferOutlivesCall' /\ OneThreadPerLauncher'
           /\ call'[k].code = "none"
           /\ \A j \in Calls : call'[j].by <= launch
           /\ \A j \in Calls : Live(j)' /\ call'[j].by = launch => j = k
<1>0. call \in [Calls -> Call] /\ launch \in 1..MaxLaunches
    BY DEF IInv, TypeOK, Call
<1>1. /\ call'[k] = [kind |-> kind, thread |-> "running", buffer |-> "held",
                     code |-> "none", by |-> launch]
      /\ \A j \in Calls \ {k} : call'[j] = call[j]
    BY <1>0 DEF Called
<1>2. call'[k] \in Call
    BY <1>0, <1>1, BoundsAssumption DEF Call
<1>3. call' \in [Calls -> Call]
    BY <1>0, <1>1, <1>2 DEF Called
<1>4. \A j \in Calls \ {k} : (Live(j)' <=> Live(j)) /\ call'[j].by = call[j].by
                             /\ call'[j].buffer = call[j].buffer
    BY <1>1 DEF Live
<1>5. BufferOutlivesCall'
    BY <1>1, <1>4 DEF IInv, BufferOutlivesCall
<1>6. OneThreadPerLauncher'
    BY <1>1, <1>4 DEF IInv, OneThreadPerLauncher
<1>7. \A j \in Calls : call'[j].by <= launch
    BY <1>0, <1>1, <1>4 DEF IInv, Mine
<1>8. \A j \in Calls : Live(j)' /\ call'[j].by = launch => j = k
    BY <1>4
<1> QED
    BY <1>1, <1>3, <1>5, <1>6, <1>7, <1>8

-----------------------------------------------------------------------------
(* Types, variable by variable.                                             *)

Flags == {shown, open, game, own, loaded, ready, supported, passive, patched} \subseteq BOOLEAN
Place == /\ stage \in Stages /\ current \in Calls \cup {Nil}
         /\ current # Nil <=> stage \in {"loading", "starting"}
Counts == launch \in 1..MaxLaunches /\ games \in 0..MaxGames /\ faults \in 0..MaxFaults
Words == status \in DLL!Statuses /\ heard \in Answers \cup {"none"}

LEMMA TypeParts == TypeOK <=> Flags /\ Place /\ Counts /\ Words /\ call \in [Calls -> Call]
BY DEF TypeOK, Flags, Place, Counts, Words, Call

\* A step of a thread in the game changes nothing of the launcher's.
LEMMA RemoteKeeps ==
    ASSUME IInv, NEW k \in Calls, Remote(k)
    PROVE  IInv'
<1>0. TypeOK /\ Flags /\ Place /\ Counts /\ Words /\ call \in [Calls -> Call]
    BY TypeParts DEF IInv
<1>1. UNCHANGED <<launcher, process, faults>>
    BY DEF Remote, RunLoad, RunAttempt, RunAnswer, RunEnd
<1>2. Place' /\ Counts'
    BY <1>0, <1>1 DEF Place, Counts, launcher, session, process
<1>3. Words'
    <2>1. heard' = heard
        BY <1>1 DEF launcher, session
    <2>2. status' \in DLL!Statuses
        BY <1>0 DEF Words, Remote, RunLoad, RunAttempt, RunAnswer, RunEnd, dll, DLL!Work,
           DLL!Activate, DLL!Fail, DLL!Statuses
    <2> QED
        BY <1>0, <2>1, <2>2 DEF Words
<1>4. Flags'
    <2>1. UNCHANGED <<shown, open, game, own, ready, supported, passive>>
        BY <1>1 DEF launcher, session, process
    <2>2. loaded' \in BOOLEAN
        BY <1>0 DEF Flags, Remote, RunLoad, RunAttempt, RunAnswer, RunEnd, dll
    <2>3. patched' \in BOOLEAN
        <3>1. patched \in BOOLEAN
            BY <1>0 DEF Flags
        <3> QED
            BY <3>1 DEF Remote, RunLoad, RunAttempt, RunAnswer, RunEnd, dll, DLL!Work,
               DLL!Activate, DLL!Fail
    <2> QED
        BY <1>0, <2>1, <2>2, <2>3 DEF Flags
<1>5. loaded => loaded'
    BY DEF Remote, RunLoad, RunAttempt, RunAnswer, RunEnd, dll
<1>6. Installed => Installed'
    BY <1>5 DEF Installed, Remote, RunLoad, RunAttempt, RunAnswer, RunEnd, dll, DLL!Work,
       DLL!Activate, DLL!Fail
<1>7. /\ call' \in [Calls -> Call] /\ Fewer
      /\ \A j \in Calls : call'[j].code = "active" => call[j].code = "active" \/ Installed'
    <2>1. CASE RunLoad(k)
        <3>1. Live(k) /\ call' = [call EXCEPT ![k].thread = "ended"]
            BY <2>1 DEF RunLoad, Live
        <3> QED
            BY <3>1, ThreadEnds
    <2>2. CASE RunAttempt(k)
        <3>1. UNCHANGED call
            BY <2>2 DEF RunAttempt
        <3> QED
            BY <3>1, SameCalls
    <2>3. CASE RunAnswer(k)
        <3>1. PICK code \in Answers : Answer(k, code) /\ (code = "active" => Installed')
            <4>1. /\ loaded /\ loaded' = loaded
                  /\ \/ status # "waiting" /\ Answer(k, status) /\ UNCHANGED status
                     \/ Answer(k, "unsupported")
                     \/ Answer(k, "waiting")
                     \/ status' = "active" /\ Answer(k, "active")
                     \/ Answer(k, "failed")
                BY <2>3 DEF RunAnswer, Starting, DLL!Activate
            <4>2. status \in Answers /\ {"unsupported", "waiting", "active", "failed"} \subseteq Answers
                BY <1>0 DEF Words, Answers, DLL!Statuses
            <4> QED
                BY <4>1, <4>2 DEF Installed
        <3>2. Live(k) /\ call' = [call EXCEPT ![k].code = code, ![k].thread = "leaving"]
            BY <2>3, <3>1 DEF RunAnswer, Starting, Live, Answer
        <3>3. /\ call' \in [Calls -> Call] /\ Fewer /\ call'[k].code = code
              /\ \A j \in Calls \ {k} : call'[j] = call[j]
            BY <3>2, ThreadMoves
        <3> QED
            BY <3>1, <3>3
    <2>4. CASE RunEnd(k)
        <3>1. Live(k) /\ call' = [call EXCEPT ![k].thread = "ended"]
            BY <2>4 DEF RunEnd, Live
        <3> QED
            BY <3>1, ThreadEnds
    <2> QED
        BY <2>1, <2>2, <2>3, <2>4 DEF Remote
<1>8. TypeOK'
    BY <1>2, <1>3, <1>4, <1>7, TypeParts DEF TypeOK, Flags, Place, Counts, Words, Call
<1>9. BufferOutlivesCall' /\ OneThreadPerLauncher'
    BY <1>7, FewerKeeps
<1>10. UNCHANGED <<stage, current, shown, own, launch, open>>
    BY <1>1 DEF launcher, session
<1>11. Mine'
    BY <1>7, <1>10 DEF IInv, Mine, Fewer
<1>12. Told'
    BY <1>0, <1>6, <1>7, <1>10 DEF IInv, Told, Place
<1>13. ShownInStage' /\ ShownIsInstalled'
    BY <1>6, <1>10 DEF IInv, ShownInStage, ShownIsInstalled, Installed
<1> QED
    BY <1>8, <1>9, <1>11, <1>12, <1>13 DEF IInv

-----------------------------------------------------------------------------
(* The worker's steps.                                                      *)

\* A step of the worker that leaves the game alone and makes no call.
LEMMA NoCallMade ==
    ASSUME IInv, own' \in {own, TRUE}, UNCHANGED <<launch, open, process, dll>>, Fewer,
           call' \in [Calls -> Call], current' = Nil,
           stage' \in Stages \ {"loading", "starting"}, shown' \in BOOLEAN,
           faults' \in 0..MaxFaults, heard' \in Answers \cup {"none"},
           stage' = "failed" \/ \A k \in Calls : Live(k) => call[k].by # launch,
           shown' => stage' \in {"monitoring", "confirmed"} /\ (own' => Installed)
    PROVE  IInv'
<1>0. TypeOK /\ Flags /\ Place /\ Counts /\ Words /\ call \in [Calls -> Call]
    BY TypeParts DEF IInv
<1>1. UNCHANGED <<open, game, ready, supported, passive, loaded, status, patched, launch, games>>
    BY DEF process, dll
<1>2. Flags' /\ Counts' /\ Words'
    <2>1. own \in BOOLEAN
        BY <1>0 DEF Flags
    <2>2. own' \in BOOLEAN
        BY <2>1
    <2> QED
        BY <1>0, <1>1, <2>2 DEF Flags, Counts, Words
<1>3. Place'
    BY DEF Place
<1>4. TypeOK'
    BY <1>2, <1>3 DEF TypeOK, Flags, Place, Counts, Words, Call
<1>5. BufferOutlivesCall' /\ OneThreadPerLauncher'
    BY FewerKeeps
<1>6. Mine'
    <2>1. own => own'
        OBVIOUS
    <2>2. \A k \in Calls : call'[k].by <= launch'
        BY <1>1 DEF IInv, Mine, Fewer
    <2>3. ASSUME open, NEW k \in Calls, Live(k)', call'[k].by = launch
          PROVE  own' /\ stage' = "failed"
        <3>1. Live(k) /\ call[k].by = launch
            BY <2>3 DEF Fewer
        <3>2. own
            BY <2>3, <3>1 DEF IInv, Mine
        <3> QED
            BY <2>1, <3>1, <3>2
    <2> QED
        BY <1>1, <2>2, <2>3 DEF Mine
<1>7. Told' /\ ShownInStage' /\ ShownIsInstalled'
    BY <1>1 DEF Told, ShownInStage, ShownIsInstalled, Installed
<1> QED
    BY <1>4, <1>5, <1>6, <1>7 DEF IInv

\* A step of the worker that makes a call.
LEMMA NewCall ==
    ASSUME IInv, NEW k \in Calls, Free(k), open, UNCHANGED <<launch, open, process, dll, faults>>,
           \A j \in Calls : Live(j) => call[j].by # launch, ~shown,
           NEW kind \in {"load", "start"}, call' = Called(k, kind),
           NEW place \in {"loading", "starting"}, SetStage(place, k),
           own' = TRUE, UNCHANGED <<shown, heard>>
    PROVE  IInv'
<1>0. TypeOK /\ Flags /\ Place /\ Counts /\ Words /\ call \in [Calls -> Call]
    BY TypeParts DEF IInv
<1>1. UNCHANGED <<game, ready, supported, passive, loaded, status, patched, games>>
    BY DEF process, dll
<1>2. Flags' /\ Counts' /\ Words'
    BY <1>0, <1>1 DEF Flags, Counts, Words
<1>3. Place'
    BY NilAssumption DEF Place, SetStage, Stages
<1>4. /\ call' \in [Calls -> Call] /\ BufferOutlivesCall' /\ OneThreadPerLauncher'
      /\ call'[k].code = "none"
      /\ \A j \in Calls : call'[j].by <= launch
      /\ \A j \in Calls : Live(j)' /\ call'[j].by = launch => j = k
    BY CallMade
<1>5. TypeOK'
    BY <1>2, <1>3, <1>4 DEF TypeOK, Flags, Place, Counts, Words, Call
<1>6. Mine'
    BY <1>4 DEF Mine, SetStage
<1>7. Told'
    BY <1>4 DEF Told, SetStage
<1>8. ShownInStage' /\ ShownIsInstalled'
    BY DEF ShownInStage, ShownIsInstalled
<1> QED
    BY <1>4, <1>5, <1>6, <1>7, <1>8 DEF IInv

LEMMA NoneIsMine ==
    ASSUME IInv, open, ~own \/ (stage # "failed" /\ (current = Nil \/ ~Live(current)))
    PROVE  \A k \in Calls : Live(k) => call[k].by # launch
BY NilAssumption DEF IInv, Mine

LEMMA PollKeeps ==
    ASSUME IInv, Poll \/ PollFails
    PROVE  IInv'
<1>0. TypeOK /\ Flags /\ Place /\ Counts /\ Words /\ call \in [Calls -> Call]
    BY TypeParts DEF IInv
<1>a. shown \in BOOLEAN /\ faults \in 0..MaxFaults /\ heard \in Answers \cup {"none"}
    BY <1>0 DEF Flags, Counts, Words
<1>b. Fault => faults' \in 0..MaxFaults
    BY <1>a, BoundsAssumption DEF Fault
<1>1. CASE Attach
    <2>1. stage = "none" /\ current = Nil /\ ~shown /\ open
        BY <1>0, <1>1 DEF Attach, Place, IInv, ShownInStage
    <2>2. \A k \in Calls : Live(k) => call[k].by # launch
        BY <2>1, NoneIsMine
    <2>3. UNCHANGED <<shown, heard, launch, open, process, dll>>
        BY <1>1 DEF Attach
    <2>4. CASE SetStage("idle", Nil) /\ own' = TRUE /\ UNCHANGED <<call, faults>>
        <3>1. /\ call' \in [Calls -> Call] /\ Fewer
            BY <2>4, SameCalls
        <3>2. stage' = "idle" /\ current' = Nil
            BY <2>4 DEF SetStage
        <3> QED
            BY <1>a, <2>1, <2>2, <2>3, <2>4, <3>1, <3>2, NoCallMade DEF Stages
    <2>5. CASE \E k \in Calls : /\ ~loaded /\ Free(k) /\ SetStage("loading", k) /\ own' = TRUE
                                /\ call' = Called(k, "load") /\ UNCHANGED faults
        BY <2>1, <2>2, <2>3, <2>5, NewCall
    <2>6. CASE Fault /\ UNCHANGED <<stage, current, own, call>>
        <3>1. /\ call' \in [Calls -> Call] /\ Fewer
            BY <2>6, SameCalls
        <3> QED
            BY <1>a, <1>b, <2>1, <2>2, <2>3, <2>6, <3>1, NoCallMade DEF Stages
    <2> QED
        BY <1>1, <2>4, <2>5, <2>6 DEF Attach
<1>2. CASE DropSession
    <2>1. \A k \in Calls : Live(k) => call[k].by # launch
        BY <1>2, NoneIsMine DEF DropSession
    <2>2. /\ call' \in [Calls -> Call] /\ Fewer
        BY <1>2, DroppedCalls DEF DropSession
    <2>3. /\ stage' = "none" /\ current' = Nil /\ shown' = FALSE /\ heard' = "none"
          /\ UNCHANGED <<own, launch, open, process, dll, faults>>
        BY <1>2 DEF DropSession, SetStage
    <2> QED
        BY <1>a, <2>1, <2>2, <2>3, NoCallMade DEF Stages
<1>3. ASSUME Fail, UNCHANGED <<own, heard, launch, open, process, dll>>, faults' \in 0..MaxFaults
      PROVE  IInv'
    <2>1. /\ call' \in [Calls -> Call] /\ Fewer
        BY <1>3, DroppedCalls DEF Fail
    <2>2. stage' = "failed" /\ current' = Nil /\ shown' = FALSE
        BY <1>3 DEF Fail, SetStage
    <2> QED
        BY <1>a, <1>3, <2>1, <2>2, NoCallMade DEF Stages
<1>4. CASE PollFails
    <2>1. Fail /\ Fault /\ UNCHANGED <<own, heard, launch, open, process, dll>>
        BY <1>4 DEF PollFails
    <2> QED
        BY <1>b, <1>3, <2>1
<1>5. CASE PollLoading
    <2>1. CASE Fail
        <3>1. UNCHANGED <<own, heard, launch, open, process, dll, faults>>
            BY <1>5 DEF PollLoading
        <3> QED
            BY <1>a, <1>3, <2>1, <3>1
    <2>2. CASE SetStage("idle", Nil) /\ call' = Dropped /\ UNCHANGED shown
        <3>1. \A k \in Calls : Live(k) => call[k].by # launch
            BY <1>5, NoneIsMine DEF PollLoading
        <3>2. /\ call' \in [Calls -> Call] /\ Fewer
            BY <2>2, DroppedCalls
        <3>3. stage' = "idle" /\ current' = Nil /\ ~shown /\ UNCHANGED shown
            BY <1>5, <2>2 DEF PollLoading, SetStage, IInv, ShownInStage
        <3>4. UNCHANGED <<own, heard, launch, open, process, dll, faults>>
            BY <1>5 DEF PollLoading
        <3> QED
            BY <1>a, <3>1, <3>2, <3>3, <3>4, NoCallMade DEF Stages
    <2> QED
        BY <1>5, <2>1, <2>2 DEF PollLoading
<1>6. CASE PollIdle
    <2>1. open /\ own /\ current = Nil /\ stage = "idle" /\ ~shown
        BY <1>0, <1>6 DEF PollIdle, Place, IInv, ShownInStage
    <2>2. \A k \in Calls : Live(k) => call[k].by # launch
        BY <2>1, NoneIsMine
    <2>3. PICK k \in Calls : Free(k) /\ SetStage("starting", k) /\ call' = Called(k, "start")
        BY <1>6 DEF PollIdle
    <2>4. own' = TRUE /\ UNCHANGED <<shown, heard, launch, open, process, dll, faults>>
        <3>1. UNCHANGED <<shown, own, heard, launch, open, process, dll, faults>>
            BY <1>6 DEF PollIdle
        <3>2. own \in BOOLEAN
            BY <1>0 DEF Flags
        <3> QED
            BY <2>1, <3>1, <3>2
    <2> QED
        BY <2>1, <2>2, <2>3, <2>4, NewCall
<1>7. CASE PollStarting
    <2> DEFINE code == call[current].code
    <2>1. open /\ own /\ stage = "starting" /\ ~Live(current) /\ current \in Calls
        BY <1>0, <1>7 DEF PollStarting, Place
    <2>2. \A k \in Calls : Live(k) => call[k].by # launch
        BY <2>1, NoneIsMine
    <2>3. /\ call' \in [Calls -> Call] /\ Fewer
        BY <1>7, DroppedCalls DEF PollStarting
    <2>4. code \in Answers \cup {"none"}
        BY <1>0, <2>1 DEF Call
    <2>5. /\ heard' = code /\ shown' = (code = "active")
          /\ stage' = AfterBootstrap(code) /\ current' = Nil
          /\ UNCHANGED <<own, launch, open, process, dll, faults>>
        BY <1>7 DEF PollStarting, SetStage
    <2>6. stage' \in Stages \ {"loading", "starting"}
        BY <2>5 DEF AfterBootstrap, Stages
    <2>7. shown' \in BOOLEAN
        BY <2>5
    <2>8. shown' => stage' \in {"monitoring", "confirmed"} /\ (own' => Installed)
        BY <2>1, <2>5, NilAssumption DEF AfterBootstrap, IInv, Told
    <2>9. faults' \in 0..MaxFaults /\ heard' \in Answers \cup {"none"}
        BY <1>a, <2>4, <2>5
    <2>10. own' \in {own, TRUE} /\ UNCHANGED <<launch, open, process, dll>>
        BY <2>5
    <2> QED
        BY <2>2, <2>3, <2>5, <2>6, <2>7, <2>8, <2>9, <2>10, NoCallMade
<1>8. CASE PollMonitoring
    <2>1. /\ call' \in [Calls -> Call] /\ Fewer
        BY <1>8, SameCalls DEF PollMonitoring
    <2>2. /\ stage' = "failed" /\ current' = Nil /\ shown' = FALSE
          /\ UNCHANGED <<own, heard, launch, open, process, dll, faults>>
        BY <1>8 DEF PollMonitoring, SetStage
    <2> QED
        BY <1>a, <2>1, <2>2, NoCallMade DEF Stages
<1> QED
    BY <1>1, <1>2, <1>4, <1>5, <1>6, <1>7, <1>8 DEF Poll

-----------------------------------------------------------------------------
(* Launchers and games come and go.                                         *)

LEMMA LauncherKeeps ==
    ASSUME IInv, Close \/ Kill \/ Launch
    PROVE  IInv'
<1>0. TypeOK /\ Flags /\ Place /\ Counts /\ Words /\ call \in [Calls -> Call]
    BY TypeParts DEF IInv
<1>1. ASSUME Close \/ Kill
      PROVE  IInv'
    <2>1. UNCHANGED <<launch, process, dll, faults>> /\ NoSession /\ open' = FALSE
        BY <1>1 DEF Close, Kill
    <2>2. /\ stage' = "none" /\ current' = Nil /\ shown' = FALSE /\ own' = FALSE
          /\ heard' = "none"
        BY <2>1 DEF NoSession, SetStage
    <2>3. /\ call' \in [Calls -> Call] /\ Fewer
        <3>1. CASE call' = Dropped
            BY <3>1, DroppedCalls
        <3>2. CASE UNCHANGED call
            BY <3>2, SameCalls
        <3>3. CASE current # Nil /\ call' = [call EXCEPT ![current].buffer = "left"]
            <4>1. current \in Calls
                BY <1>0, <3>3 DEF Place
            <4>2. call'[current] = [call[current] EXCEPT !.buffer = "left"]
                  /\ \A k \in Calls \ {current} : call'[k] = call[k]
                BY <1>0, <3>3, <4>1
            <4>3. call[current] \in Call
                BY <1>0, <4>1
            <4>4. call'[current] \in Call /\ call'[current].by = call[current].by
                  /\ call'[current].thread = call[current].thread
                  /\ call'[current].buffer = "left"
                BY <4>2, <4>3 DEF Call
            <4>5. call' \in [Calls -> Call]
                BY <1>0, <3>3, <4>1, <4>2, <4>4
            <4>6. Fewer
                BY <4>2, <4>4 DEF Fewer, Live, IInv, BufferOutlivesCall
            <4> QED
                BY <4>5, <4>6
        <3> QED
            BY <1>1, <3>1, <3>2, <3>3 DEF Close, Kill
    <2>4. UNCHANGED <<game, games, ready, supported, passive, loaded, status, patched>>
        BY <2>1 DEF process, dll
    <2>5. Flags' /\ Counts' /\ Words' /\ Place'
        BY <1>0, <2>1, <2>2, <2>4 DEF Flags, Counts, Words, Place, Stages
    <2>6. TypeOK'
        BY <2>3, <2>5 DEF TypeOK, Flags, Place, Counts, Words, Call
    <2>7. BufferOutlivesCall' /\ OneThreadPerLauncher'
        BY <2>3, FewerKeeps
    <2>8. Mine'
        BY <2>1, <2>3 DEF IInv, Mine, Fewer
    <2>9. Told' /\ ShownInStage' /\ ShownIsInstalled'
        BY <2>2 DEF Told, ShownInStage, ShownIsInstalled
    <2> QED
        BY <2>6, <2>7, <2>8, <2>9 DEF IInv
<1>2. CASE Launch
    <2>1. /\ open' = TRUE /\ launch' = launch + 1 /\ launch < MaxLaunches
          /\ UNCHANGED <<stage, current, shown, own, heard, process, dll, call, faults>>
        BY <1>2 DEF Launch, session
    <2>2. UNCHANGED <<game, games, ready, supported, passive, loaded, status, patched>>
        BY <2>1 DEF process, dll
    <2>3. launch' \in 1..MaxLaunches
        BY <1>0, <2>1, BoundsAssumption DEF Counts
    <2>4. Flags' /\ Counts' /\ Words' /\ Place'
        BY <1>0, <2>1, <2>2, <2>3 DEF Flags, Counts, Words, Place
    <2>5. TypeOK'
        BY <1>0, <2>1, <2>4 DEF TypeOK, Flags, Place, Counts, Words, Call
    <2>6. /\ call' \in [Calls -> Call] /\ Fewer
        BY <2>1, SameCalls
    <2>7. BufferOutlivesCall' /\ OneThreadPerLauncher'
        BY <2>6, FewerKeeps
    <2>8. Mine'
        <3>1. \A k \in Calls : call[k].by \in 0..MaxLaunches /\ call[k].by <= launch
            BY <1>0 DEF Call, IInv, Mine
        <3>2. launch \in 1..MaxLaunches
            BY <1>0 DEF Counts
        <3>3. \A k \in Calls : call'[k].by <= launch' /\ call'[k].by # launch'
            BY <2>1, <3>1, <3>2, BoundsAssumption
        <3> QED
            BY <3>3 DEF Mine
    <2>9. Told' /\ ShownInStage' /\ ShownIsInstalled'
        BY <2>1, <2>2 DEF IInv, Told, ShownInStage, ShownIsInstalled, Installed
    <2> QED
        BY <2>5, <2>7, <2>8, <2>9 DEF IInv
<1> QED
    BY <1>1, <1>2

LEMMA GameKeeps ==
    ASSUME IInv, GameStart \/ GameReady \/ GameExit
    PROVE  IInv'
<1>0. TypeOK /\ Flags /\ Place /\ Counts /\ Words /\ call \in [Calls -> Call]
    BY TypeParts DEF IInv
<1>1. ASSUME GameStart \/ GameReady
      PROVE  IInv'
    <2>1. UNCHANGED <<launcher, supported, passive, dll, call, faults>>
        BY <1>1 DEF GameStart, GameReady
    <2>2. UNCHANGED <<stage, current, shown, own, heard, launch, open, loaded, status, patched>>
        BY <2>1 DEF launcher, session, dll
    <2>3. game' \in BOOLEAN /\ ready' \in BOOLEAN
        BY <1>0, <1>1 DEF GameStart, GameReady, Flags
    <2>4. games' \in 0..MaxGames
        BY <1>0, <1>1, BoundsAssumption DEF GameStart, GameReady, Counts
    <2>5. Flags' /\ Counts' /\ Words' /\ Place'
        BY <1>0, <2>1, <2>2, <2>3, <2>4 DEF Flags, Counts, Words, Place
    <2>6. TypeOK'
        BY <1>0, <2>1, <2>5 DEF TypeOK, Flags, Place, Counts, Words, Call
    <2>7. /\ call' \in [Calls -> Call] /\ Fewer
        BY <2>1, SameCalls
    <2>8. BufferOutlivesCall' /\ OneThreadPerLauncher'
        BY <2>7, FewerKeeps
    <2>9. Mine' /\ Told' /\ ShownInStage' /\ ShownIsInstalled'
        BY <2>1, <2>2 DEF IInv, Mine, Live, Told, ShownInStage, ShownIsInstalled, Installed
    <2> QED
        BY <2>6, <2>8, <2>9 DEF IInv
<1>2. CASE GameExit
    <2>1. /\ UNCHANGED <<stage, current, shown, heard, launch, open, games, supported, passive, faults>>
          /\ own' = FALSE /\ game' = FALSE /\ ready' = FALSE /\ loaded' = FALSE
          /\ status' = "waiting" /\ patched' = FALSE
        BY <1>2 DEF GameExit
    <2>2. call' = [k \in Calls |-> [call[k] EXCEPT !.thread = "ended", !.buffer = "freed"]]
        BY <1>2 DEF GameExit
    <2>3. \A k \in Calls : /\ call'[k] \in Call /\ call'[k].thread = "ended"
                           /\ call'[k].by = call[k].by
        <3> SUFFICES ASSUME NEW k \in Calls
                     PROVE  call'[k] \in Call /\ call'[k].thread = "ended"
                            /\ call'[k].by = call[k].by
            OBVIOUS
        <3>1. call[k] \in Call
            BY <1>0
        <3>2. call'[k] = [call[k] EXCEPT !.thread = "ended", !.buffer = "freed"]
            BY <2>2
        <3> QED
            BY <3>1, <3>2 DEF Call
    <2>4. call' \in [Calls -> Call]
        BY <2>2, <2>3
    <2>5. Flags' /\ Counts' /\ Words' /\ Place'
        BY <1>0, <2>1 DEF Flags, Counts, Words, Place, DLL!Statuses
    <2>6. TypeOK'
        BY <2>4, <2>5 DEF TypeOK, Flags, Place, Counts, Words, Call
    <2>7. \A k \in Calls : ~Live(k)'
        BY <2>3 DEF Live
    <2>8. BufferOutlivesCall' /\ OneThreadPerLauncher' /\ Mine'
        BY <2>1, <2>3, <2>7 DEF IInv, BufferOutlivesCall, OneThreadPerLauncher, Mine
    <2>9. Told' /\ ShownInStage' /\ ShownIsInstalled'
        BY <2>1 DEF IInv, Told, ShownInStage, ShownIsInstalled
    <2> QED
        BY <2>6, <2>8, <2>9 DEF IInv
<1> QED
    BY <1>1, <1>2

LEMMA UnloadKeeps ==
    ASSUME IInv, Unload \/ UNCHANGED vars
    PROVE  IInv'
<1>0. TypeOK /\ Flags /\ Place /\ Counts /\ Words /\ call \in [Calls -> Call]
    BY TypeParts DEF IInv
<1>1. UNCHANGED <<launcher, process, loaded, call, faults>>
    BY DEF Unload, vars, dll
<1>2. UNCHANGED <<stage, current, shown, own, heard, launch, open, game, games, ready, supported, passive>>
    BY <1>1 DEF launcher, session, process
<1>3. status' \in DLL!Statuses /\ patched' \in BOOLEAN
    BY <1>0 DEF Unload, vars, dll, DLL!Remove, DLL!Deactivate, DLL!Statuses, Words, Flags
<1>4. Installed => Installed'
    BY <1>1 DEF Installed, Unload, vars, dll, DLL!Remove, DLL!Deactivate
<1>5. Flags' /\ Counts' /\ Words' /\ Place'
    BY <1>0, <1>1, <1>2, <1>3 DEF Flags, Counts, Words, Place
<1>6. TypeOK'
    BY <1>0, <1>1, <1>5 DEF TypeOK, Flags, Place, Counts, Words, Call
<1>7. /\ call' \in [Calls -> Call] /\ Fewer
    BY <1>1, SameCalls
<1>8. BufferOutlivesCall' /\ OneThreadPerLauncher'
    BY <1>7, FewerKeeps
<1>9. Mine' /\ Told' /\ ShownInStage' /\ ShownIsInstalled'
    BY <1>1, <1>2, <1>4 DEF IInv, Mine, Live, Told, ShownInStage, ShownIsInstalled, Installed
<1> QED
    BY <1>6, <1>8, <1>9 DEF IInv

-----------------------------------------------------------------------------
(* The theorems.                                                            *)

\* The launcher's calls, its session's stage and what the DLL did agree.
THEOREM SessionInvariant == Spec => []IInv
<1>1. IInv /\ [Next]_vars => IInv'
    BY RemoteKeeps, PollKeeps, LauncherKeeps, GameKeeps, UnloadKeeps DEF Next
<1> QED
    BY InvInit, <1>1, PTL DEF Spec

\* Stage, calls and the DLL's status keep their types.
THEOREM SessionTypes == Spec => []TypeOK
<1>1. IInv => TypeOK
    BY DEF IInv
<1> QED
    BY <1>1, SessionInvariant, PTL

\* However a call fails and whoever is closed or killed, no thread in the game
\* is left with a freed argument (RemoteBuffer::drop).
THEOREM ArgumentsOutliveThreads == Spec => []BufferOutlivesCall
<1>1. IInv => BufferOutlivesCall
    BY DEF IInv
<1> QED
    BY <1>1, SessionInvariant, PTL

\* A launcher has one thread at most in a game, for any number of calls that
\* fail on the way (Session::poll).
THEOREM LaunchersTakeTurns == Spec => []OneThreadPerLauncher
<1>1. IInv => OneThreadPerLauncher
    BY DEF IInv
<1> QED
    BY <1>1, SessionInvariant, PTL

\* What the window shows as active is installed in the game it shows it of.
THEOREM ShownIsTrue == Spec => []ShownIsInstalled
<1>1. IInv => ShownIsInstalled
    BY DEF IInv
<1> QED
    BY <1>1, SessionInvariant, PTL

\* Whoever may still ask has no verdict yet.
Unanswered == stage \in {"none", "loading", "idle", "starting"} => heard \notin Verdicts

LEMMA UnansweredInit == Init => Unanswered
BY DEF Init, Unanswered, Verdicts, Answers, DLL!Statuses

LEMMA UnansweredNext == Unanswered /\ [Next]_vars => Unanswered'
<1> SUFFICES ASSUME Unanswered, [Next]_vars PROVE Unanswered'
    OBVIOUS
<1>1. "none" \notin Verdicts /\ "waiting" \notin Verdicts
    BY DEF Verdicts, Answers, DLL!Statuses
<1>2. CASE heard' = heard /\ (stage' = stage \/ stage' = "failed")
    BY <1>2 DEF Unanswered
<1>3. CASE heard' = "none"
    BY <1>1, <1>3 DEF Unanswered
<1>4. CASE Attach
    BY <1>4 DEF Attach, SetStage, Unanswered
<1>5. CASE PollLoading
    BY <1>5 DEF PollLoading, SetStage, Fail, Unanswered
<1>6. CASE PollIdle
    BY <1>6 DEF PollIdle, SetStage, Unanswered
<1>7. CASE PollStarting
    <2> DEFINE code == call[current].code
    <2>1. heard' = code /\ stage' = AfterBootstrap(code)
        BY <1>7 DEF PollStarting, SetStage
    <2> HIDE DEF code
    <2>2. code = "waiting" \/ stage' \in {"monitoring", "confirmed", "failed"}
        BY <2>1 DEF AfterBootstrap
    <2> QED
        BY <1>1, <2>1, <2>2 DEF Unanswered
<1>8. CASE DropSession \/ Close \/ Kill
    <2>1. heard' = "none"
        BY <1>8 DEF DropSession, Close, Kill, NoSession
    <2> QED
        BY <1>3, <2>1
<1>9. CASE PollFails \/ PollMonitoring
    <2>1. heard' = heard /\ stage' = "failed"
        BY <1>9 DEF PollFails, Fail, PollMonitoring, SetStage
    <2> QED
        BY <1>2, <2>1
<1>10. CASE \/ \E k \in Calls : Remote(k)
            \/ Launch \/ GameStart \/ GameReady \/ GameExit \/ Unload \/ UNCHANGED vars
    <2>1. heard' = heard /\ stage' = stage
        BY <1>10 DEF Remote, RunLoad, RunAttempt, RunAnswer, RunEnd, Launch, GameStart,
                     GameReady, GameExit, Unload, vars, launcher, session
    <2> QED
        BY <1>2, <2>1
<1> QED
    BY <1>4, <1>5, <1>6, <1>7, <1>8, <1>9, <1>10 DEF Next, Poll

\* A session whose last call brought a verdict makes no further thread in the
\* game: only Stage::Idle creates one, and only "waiting" leads back to it.
THEOREM VerdictsAreFinal == Spec => AskedUntilAnswered
<1> DEFINE A == stage' = "starting" /\ stage # "starting" => heard \notin Verdicts
<1>1. Unanswered /\ [Next]_vars => [A]_vars
    <2> SUFFICES ASSUME Unanswered, Next, stage' = "starting", stage # "starting"
                 PROVE  heard \notin Verdicts
        OBVIOUS
    <2>1. CASE PollIdle
        BY <2>1 DEF PollIdle, Unanswered
    <2>2. CASE Attach \/ PollLoading
        BY <2>2 DEF Attach, PollLoading, SetStage, Fail
    <2>3. CASE PollStarting
        BY <2>3 DEF PollStarting
    <2>4. CASE DropSession \/ Close \/ Kill \/ PollFails \/ PollMonitoring
        BY <2>4 DEF DropSession, Close, Kill, NoSession, PollFails, Fail, PollMonitoring, SetStage
    <2>5. CASE \/ \E k \in Calls : Remote(k)
               \/ Launch \/ GameStart \/ GameReady \/ GameExit \/ Unload
        BY <2>5 DEF Remote, RunLoad, RunAttempt, RunAnswer, RunEnd, Launch, GameStart,
                    GameReady, GameExit, Unload, launcher, session
    <2> QED
        BY <2>1, <2>2, <2>3, <2>4, <2>5 DEF Next, Poll
<1> HIDE DEF A
<1>2. Spec => [][A]_vars
    BY <1>1, UnansweredInit, UnansweredNext, PTL DEF Spec
<1> QED
    BY <1>2 DEF A, AskedUntilAnswered
=============================================================================
