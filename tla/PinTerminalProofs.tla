------------------------- MODULE PinTerminalProofs -------------------------
(***************************************************************************)
(* Proofs about PinTerminal, for any number of taps and of instances of    *)
(* MainActivity: its types, that no PIN serves a transaction it was not    *)
(* typed for or after, and that no waiting thread misses its notification. *)
(***************************************************************************)
EXTENDS PinTerminal, SequenceTheorems, TLAPS

\* What is left of a stack when its top goes (finish() of the top pinpad).
LEMMA StackPops ==
    ASSUME NEW S, NEW s \in Seq(S), s # << >>
    PROVE  /\ Last(s) \in S
           /\ Front(s) \in Seq(S)
           /\ Len(s) \in DOMAIN s /\ Last(s) = s[Len(s)]
           /\ \A i \in DOMAIN s : i # Len(s) => i \in DOMAIN Front(s) /\ Front(s)[i] = s[i]
<1>1. Len(s) \in Nat \ {0} /\ Len(s) \in DOMAIN s
    BY EmptySeq, LenProperties
<1>2. /\ Front(s) \in Seq(S)
      /\ Len(Front(s)) = Len(s) - 1
      /\ \A i \in 1 .. Len(s) - 1 : Front(s)[i] = s[i]
    <2> DEFINE n == Len(s) - 1
    <2>1. n \in Nat /\ \A i \in 1 .. n : s[i] \in S
        BY <1>1, ElementOfSeq
    <2>2. /\ SubSeq(s, 1, n) \in Seq(S)
          /\ Len(SubSeq(s, 1, n)) = n
          /\ \A i \in 1 .. n : SubSeq(s, 1, n)[i] = s[i]
        <3> HIDE DEF n
        <3>1. /\ SubSeq(s, 1, n) \in Seq(S)
              /\ Len(SubSeq(s, 1, n)) = IF 1 <= n THEN n - 1 + 1 ELSE 0
              /\ \A i \in 1 .. n - 1 + 1 : SubSeq(s, 1, n)[i] = s[1 + i - 1]
            BY <2>1, SubSeqProperties
        <3>2. n - 1 + 1 = n /\ \A i \in 1 .. n : 1 + i - 1 = i
            BY <2>1
        <3> QED
            BY <2>1, <3>1, <3>2
    <2> QED
        BY <2>2 DEF Front
<1>3. DOMAIN Front(s) = 1 .. Len(s) - 1 /\ DOMAIN s = 1 .. Len(s)
    BY <1>2, LenProperties
<1> QED
    BY <1>1, <1>2, <1>3, ElementOfSeq DEF Last

\* A result that is appended is there, and so is what was there before.
LEMMA QueueGrows ==
    ASSUME NEW S, NEW s \in Seq(S), NEW e \in S
    PROVE  /\ Append(s, e) \in Seq(S)
           /\ Len(s) + 1 \in DOMAIN Append(s, e) /\ Append(s, e)[Len(s) + 1] = e
           /\ \A i \in DOMAIN s : i \in DOMAIN Append(s, e) /\ Append(s, e)[i] = s[i]
           /\ \A i \in DOMAIN Append(s, e) : i \in DOMAIN s \/ i = Len(s) + 1
    BY AppendProperties, LenProperties

\* What remains of a queue was in it, and is of its type.
LEMMA QueueShrinks ==
    ASSUME NEW S, NEW s \in Seq(S), s # << >>
    PROVE  /\ Head(s) \in S /\ Tail(s) \in Seq(S)
           /\ 1 \in DOMAIN s /\ Head(s) = s[1]
           /\ \A i \in DOMAIN Tail(s) : i + 1 \in DOMAIN s /\ Tail(s)[i] = s[i + 1]
    BY HeadTailProperties, EmptySeq, LenProperties

-----------------------------------------------------------------------------
\* The inductive invariant

\* A thread that has no verdict yet has an attempt left, and belongs to an
\* instance that has been shown.
Running ==
    \A t \in Taps :
        /\ pc[t] \notin {"new", "done"} => ptc[t] >= 1
        /\ verdict[t] # "none" => pc[t] = "done"
        /\ home[t] <= main

\* Between launch and wait a thread is inside the monitor of its instance.
Inside == \A t \in Taps : pc[t] = "wait" => owner[home[t]] = t

\* The right PIN is on its way to the field, or in it, only for threads that
\* ran when it was typed; the next one starts by clearing the field.
RightOnItsWay ==
    \/ \E i \in DOMAIN pending : pending[i].pin = Right
    \/ \E i \in DOMAIN inbox : inbox[i].pin = Right

Fresh ==
    /\ \A t \in Taps : pin[home[t]] = Right /\ pc[t] \notin {"new", "reset"} => t \in backed
    /\ RightOnItsWay => \A t \in Taps : pc[t] # "new" => t \in backed

Delivering == notifying => inbox # << >>

IInv ==
    /\ TypeOK /\ Running /\ Inside /\ Fresh /\ Delivering
    /\ ApprovedByPin /\ NoStrandedThread

-----------------------------------------------------------------------------
\* It holds initially.
LEMMA InitInv == Init => IInv
<1> SUFFICES ASSUME Init PROVE IInv
    OBVIOUS
<1> USE PinsAssumption, EnvironmentAssumption DEF Init
<1>1. TypeOK
    <2>1. pads \in Seq(Pads) /\ pending \in Seq(Results) /\ inbox \in Seq(Results)
        BY EmptySeq
    <2>2. 1 \in Instances /\ Empty \in Pins /\ 3 \in 0 .. 3
        BY DEF Instances
    <2>3. /\ main \in Instances /\ pin \in [Instances -> Pins]
          /\ owner \in [Instances -> Taps \cup {Nobody}] /\ notifying \in BOOLEAN
        BY <2>2
    <2>4. /\ pc \in [Taps -> PCs] /\ home \in [Taps -> Instances] /\ ptc \in [Taps -> 0 .. 3]
          /\ verdict \in [Taps -> {"none", "ok", "failed"}]
        BY <2>2 DEF PCs
    <2>5. entries \in [Taps -> Nat] /\ matched \subseteq Taps /\ backed \subseteq Taps
        OBVIOUS
    <2> QED
        BY <2>1, <2>3, <2>4, <2>5 DEF TypeOK
<1>2. Running /\ Inside /\ Delivering /\ ApprovedByPin
    BY DEF Running, Inside, Delivering, ApprovedByPin
<1>3. Fresh
    BY EmptySeq DEF Fresh, RightOnItsWay, Instances
<1>4. NoStrandedThread
    BY DEF NoStrandedThread
<1> QED
    BY <1>1, <1>2, <1>3, <1>4 DEF IInv
-----------------------------------------------------------------------------
\* Every step keeps it.

\* A thread at a statement of enterPin has one to three attempts left.
LEMMA AttemptLeft ==
    ASSUME IInv, NEW t \in Taps, pc[t] \notin {"new", "done"} PROVE ptc[t] \in 1 .. 3
<1>1. ptc[t] \in 0 .. 3
    BY DEF IInv, TypeOK
<1>2. ptc[t] >= 1
    BY DEF IInv, Running
<1> QED
    BY <1>1, <1>2

\* The field is cleared before the thread asks.
LEMMA ResetPinInv == ASSUME IInv, NEW t \in Taps, ResetPin(t) PROVE IInv'
<1> USE PinsAssumption DEF IInv, ResetPin, Goto, ui, history
<1>1. TypeOK'
    BY DEF TypeOK, PCs, Instances
<1>2. Running' /\ Inside' /\ Delivering'
    BY DEF Running, Inside, Delivering, TypeOK
<1>3. Fresh'
    BY DEF Fresh, RightOnItsWay, TypeOK
<1>4. ApprovedByPin' /\ NoStrandedThread'
    BY DEF ApprovedByPin, NoStrandedThread, ResultComing, TypeOK
<1> QED
    BY <1>1, <1>2, <1>3, <1>4

\* The launch takes the monitor and puts a pinpad of its own on top, or throws.
LEMMA LaunchInv == ASSUME IInv, NEW t \in Taps, Launch(t) PROVE IInv'
<1> USE EnvironmentAssumption DEF IInv, Launch, Goto, ui, history, FreeTo, Ends
<1>1. CASE home[t] = main
    <2> DEFINE pad == [tap |-> t, ptc |-> ptc[t]]
    <2>1. pad \in Pads
        <3>1. ptc[t] \in 1 .. 3
            BY AttemptLeft DEF Launch
        <3> QED
            BY <3>1 DEF Pads
    <2>2. /\ pads' \in Seq(Pads)
          /\ Len(pads) + 1 \in DOMAIN pads' /\ pads'[Len(pads) + 1] = pad
          /\ \A i \in DOMAIN pads : i \in DOMAIN pads' /\ pads'[i] = pads[i]
        <3>1. pads' = Append(pads, pad) /\ pads \in Seq(Pads)
            BY <1>1 DEF TypeOK
        <3> HIDE DEF pad, IInv, Launch
        <3> QED
            BY <2>1, <3>1, QueueGrows
    <2>3. TypeOK'
        <3>1. owner' \in [Instances -> Taps \cup {Nobody}] /\ pc' \in [Taps -> PCs]
            <4>1. owner' = [owner EXCEPT ![main] = t] /\ pc' = [pc EXCEPT ![t] = "wait"]
                BY <1>1
            <4>2. /\ owner \in [Instances -> Taps \cup {Nobody}] /\ pc \in [Taps -> PCs]
                  /\ "wait" \in PCs
                BY DEF TypeOK, PCs
            <4> HIDE DEF IInv, Launch
            <4> QED
                BY <4>1, <4>2
        <3>2. UNCHANGED <<main, pin, pending, inbox, notifying, home, ptc, verdict, entries,
                          matched, backed>>
            BY <1>1
        <3> HIDE DEF Launch
        <3> QED
            BY <2>2, <3>1, <3>2 DEF TypeOK
    <2>4. Running' /\ Inside' /\ Delivering'
        <3>1. pc' = [pc EXCEPT ![t] = "wait"] /\ pc[t] = "launch" /\ pc \in [Taps -> PCs]
            BY <1>1 DEF TypeOK
        <3>2. Running' /\ Delivering'
            BY <1>1, <3>1 DEF Running, Delivering
        <3>3. owner' = [owner EXCEPT ![main] = t] /\ owner[main] \in {Nobody, t}
            BY <1>1
        <3>4. owner \in [Instances -> Taps \cup {Nobody}] /\ home \in [Taps -> Instances]
            BY DEF TypeOK
        <3>5. Inside'
            BY <1>1, <3>1, <3>3, <3>4 DEF Inside
        <3> QED
            BY <3>2, <3>5
    <2>5. Fresh' /\ ApprovedByPin'
        BY <1>1 DEF Fresh, RightOnItsWay, ApprovedByPin, TypeOK
    <2>6. NoStrandedThread'
        <3> SUFFICES ASSUME NEW u \in Taps, pc'[u] \in {"wait", "waiting"}, home'[u] = main'
                     PROVE  ResultComing(u)'
            BY DEF NoStrandedThread
        <3>1. CASE u = t
            BY <3>1, <2>2 DEF ResultComing
        <3>2. CASE u # t
            <4>1. ResultComing(u)
                BY <1>1, <3>2 DEF NoStrandedThread, TypeOK
            <4> QED
                BY <4>1, <2>2 DEF ResultComing
        <3> QED
            BY <3>1, <3>2
    <2> QED
        BY <2>3, <2>4, <2>5, <2>6
<1>2. CASE home[t] # main
    <2>1. TypeOK'
        BY <1>2 DEF TypeOK, PCs
    <2>2. Running' /\ Inside' /\ Delivering'
        BY <1>2 DEF Running, Inside, Delivering, TypeOK
    <2>3. Fresh' /\ ApprovedByPin'
        BY <1>2 DEF Fresh, RightOnItsWay, ApprovedByPin, TypeOK
    <2>4. NoStrandedThread'
        BY <1>2 DEF NoStrandedThread, ResultComing, TypeOK
    <2> QED
        BY <2>1, <2>2, <2>3, <2>4
<1> QED
    BY <1>1, <1>2

\* wait() leaves the monitor, and nothing else changes.
LEMMA AwaitInv == ASSUME IInv, NEW t \in Taps, Await(t) PROVE IInv'
<1> USE EnvironmentAssumption DEF IInv, Await, Goto, ui, history
<1>1. TypeOK'
    BY DEF TypeOK, PCs, Instances
<1>2. Inside'
    BY DEF Inside, FreeTo, TypeOK
<1>3. Running' /\ Delivering'
    BY DEF Running, Delivering, TypeOK
<1>4. Fresh' /\ ApprovedByPin'
    BY DEF Fresh, RightOnItsWay, ApprovedByPin, TypeOK
<1>5. NoStrandedThread'
    BY DEF NoStrandedThread, ResultComing, TypeOK
<1> QED
    BY <1>1, <1>2, <1>3, <1>4, <1>5

\* A wake-up, for whatever reason, changes no field and no result.
LEMMA WakingInv ==
    ASSUME IInv, NEW t \in Taps, SpuriousWakeup(t) \/ WakeUp(t) PROVE IInv'
<1> USE DEF IInv, SpuriousWakeup, WakeUp, Goto, ui, history
<1>1. TypeOK'
    BY DEF TypeOK, PCs
<1>2. Running' /\ Inside' /\ Delivering'
    BY DEF Running, Inside, Delivering, TypeOK
<1>3. Fresh' /\ ApprovedByPin'
    BY DEF Fresh, RightOnItsWay, ApprovedByPin, TypeOK
<1>4. NoStrandedThread'
    BY DEF NoStrandedThread, ResultComing, TypeOK
<1> QED
    BY <1>1, <1>2, <1>3, <1>4

\* The native loop approves only what it finds in the field.
LEMMA ReturnPinInv == ASSUME IInv, NEW t \in Taps, ReturnPin(t) PROVE IInv'
<1>1. ptc[t] \in 1 .. 3
    BY AttemptLeft DEF ReturnPin
<1> USE DEF IInv, ReturnPin, Goto, Ends, ui, history
<1>2. TypeOK'
    <2>1. ptc[t] - 1 \in 0 .. 3
        BY <1>1
    <2>2. ptc' \in [Taps -> 0 .. 3]
        BY <2>1 DEF TypeOK
    <2>3. pc' \in [Taps -> PCs] /\ verdict' \in [Taps -> {"none", "ok", "failed"}]
          /\ home' = home
        BY DEF TypeOK, PCs
    <2> QED
        BY <2>2, <2>3 DEF TypeOK
<1>3. Running'
    BY <1>1 DEF Running, TypeOK
<1>4. Inside' /\ Delivering'
    BY DEF Inside, Delivering, TypeOK
<1>5. Fresh'
    BY DEF Fresh, RightOnItsWay, TypeOK
<1>6. ApprovedByPin'
    BY DEF ApprovedByPin, Fresh, TypeOK
<1>7. NoStrandedThread'
    BY DEF NoStrandedThread, ResultComing, TypeOK
<1> QED
    BY <1>2, <1>3, <1>4, <1>5, <1>6, <1>7

\* A tap comes when no result is on its way.
LEMMA TapInv == ASSUME IInv, NEW t \in Taps, Tap(t) PROVE IInv'
<1> USE DEF IInv, Tap, Goto, UIFree, ui, history
<1>1. TypeOK'
    BY DEF TypeOK, PCs
<1>2. Running' /\ Inside' /\ Delivering'
    BY DEF Running, Inside, Delivering, TypeOK, Instances
<1>3. ~RightOnItsWay'
    BY EmptySeq DEF RightOnItsWay
<1>4. Fresh' /\ ApprovedByPin'
    BY <1>3 DEF Fresh, ApprovedByPin, TypeOK
<1>5. NoStrandedThread'
    BY DEF NoStrandedThread, ResultComing, TypeOK
<1> QED
    BY <1>1, <1>2, <1>4, <1>5

\* The result of a pinpad takes the pinpad's place.
LEMMA EnterInv == ASSUME IInv, NEW p \in Pins, Enter(p) PROVE IInv'
<1> DEFINE t == Last(pads).tap
           result == [tap |-> t, pin |-> p]
<1> USE DEF IInv, Enter, UIFree, threads
<1>1. /\ Last(pads) \in Pads /\ Front(pads) \in Seq(Pads)
      /\ Len(pads) \in DOMAIN pads /\ Last(pads) = pads[Len(pads)]
      /\ \A i \in DOMAIN pads :
            i # Len(pads) => i \in DOMAIN Front(pads) /\ Front(pads)[i] = pads[i]
    BY StackPops DEF TypeOK
<1>2. t \in Taps /\ result \in Results
    BY <1>1 DEF Pads, Results
<1>3. /\ pending' \in Seq(Results)
      /\ Len(pending) + 1 \in DOMAIN pending' /\ pending'[Len(pending) + 1] = result
      /\ \A i \in DOMAIN pending : i \in DOMAIN pending' /\ pending'[i] = pending[i]
      /\ \A i \in DOMAIN pending' : i \in DOMAIN pending \/ i = Len(pending) + 1
    BY <1>2, QueueGrows DEF TypeOK
<1>4. TypeOK'
    <2>1. entries' \in [Taps -> Nat] /\ matched' \subseteq Taps /\ backed' \subseteq Taps
        BY <1>2 DEF TypeOK
    <2> QED
        BY <1>1, <1>3, <2>1 DEF TypeOK
<1>5. Running' /\ Inside' /\ Delivering'
    BY DEF Running, Inside, Delivering
<1>6. Fresh' /\ ApprovedByPin'
    <2>1. CASE p = Right
        <3>1. ApprovedByPin' 
            <4> SUFFICES ASSUME NEW u \in Taps, verdict[u] = "ok" PROVE pc[u] # "new"
                BY <2>1 DEF ApprovedByPin
            <4> QED
                BY DEF Running
        <3> QED
            BY <2>1, <3>1 DEF Fresh
    <2>2. CASE p # Right
        <3>1. RightOnItsWay' => RightOnItsWay
            BY <1>3, <2>2 DEF RightOnItsWay
        <3> QED
            BY <2>2, <3>1 DEF Fresh, ApprovedByPin
    <2> QED
        BY <2>1, <2>2
<1>7. NoStrandedThread'
    <2> SUFFICES ASSUME NEW u \in Taps, ResultComing(u) PROVE ResultComing(u)'
        BY DEF NoStrandedThread
    <2>1. CASE \E i \in DOMAIN pads : pads[i].tap = u
        <3> PICK i \in DOMAIN pads : pads[i].tap = u
            BY <2>1
        <3>1. CASE i = Len(pads)
            BY <1>1, <1>3, <3>1 DEF ResultComing
        <3>2. CASE i # Len(pads)
            BY <1>1, <3>2 DEF ResultComing
        <3> QED
            BY <3>1, <3>2
    <2>2. CASE \E i \in DOMAIN pending : pending[i].tap = u
        BY <1>3, <2>2 DEF ResultComing
    <2>3. CASE \E i \in DOMAIN inbox : inbox[i].tap = u
        BY <2>3 DEF ResultComing
    <2> QED
        BY <2>1, <2>2, <2>3 DEF ResultComing
<1> QED
    BY <1>4, <1>5, <1>6, <1>7

\* The results change hands as a whole.
LEMMA ResumeInv == ASSUME IInv, Resume PROVE IInv'
<1> USE DEF IInv, Resume, UIFree, threads, history
<1>1. TypeOK'
    BY EmptySeq DEF TypeOK
<1>2. Running' /\ Inside' /\ Delivering'
    BY DEF Running, Inside, Delivering
<1>3. Fresh' /\ ApprovedByPin'
    <2>1. RightOnItsWay' => RightOnItsWay
        BY EmptySeq DEF RightOnItsWay
    <2> QED
        BY <2>1 DEF Fresh, ApprovedByPin
<1>4. NoStrandedThread'
    BY EmptySeq DEF NoStrandedThread, ResultComing
<1> QED
    BY <1>1, <1>2, <1>3, <1>4

\* The callback puts in the field what was typed for threads that run already.
LEMMA SetPinInv == ASSUME IInv, SetPin PROVE IInv'
<1> USE DEF IInv, SetPin, threads, history
<1>1. Head(inbox) \in Results /\ 1 \in DOMAIN inbox /\ Head(inbox) = inbox[1]
    BY QueueShrinks DEF TypeOK
<1>2. TypeOK'
    BY <1>1 DEF TypeOK, Results
<1>3. Running' /\ Inside' /\ Delivering'
    BY DEF Running, Inside, Delivering
<1>4. Fresh' /\ ApprovedByPin'
    <2>1. Head(inbox).pin = Right => \A t \in Taps : pc[t] # "new" => t \in backed
        BY <1>1 DEF Fresh, RightOnItsWay
    <2>2. RightOnItsWay' <=> RightOnItsWay
        BY DEF RightOnItsWay
    <2> QED
        BY <2>1, <2>2 DEF Fresh, ApprovedByPin, TypeOK
<1>5. NoStrandedThread'
    BY DEF NoStrandedThread, ResultComing
<1> QED
    BY <1>2, <1>3, <1>4, <1>5

\* Whoever waited on the instance shown is woken, and nobody was about to wait.
LEMMA NotifyInv == ASSUME IInv, Notify PROVE IInv'
<1> USE EnvironmentAssumption DEF IInv, Notify, Woken, history
<1>1. inbox # << >>
    BY DEF Delivering
<1>2. /\ Tail(inbox) \in Seq(Results)
      /\ \A i \in DOMAIN Tail(inbox) : i + 1 \in DOMAIN inbox /\ Tail(inbox)[i] = inbox[i + 1]
    BY <1>1, QueueShrinks DEF TypeOK
<1>3. TypeOK'
    BY <1>2 DEF TypeOK, PCs
<1>4. Running' /\ Inside' /\ Delivering'
    BY DEF Running, Inside, Delivering, TypeOK
<1>5. Fresh' /\ ApprovedByPin'
    <2>1. RightOnItsWay' => RightOnItsWay
        BY <1>2 DEF RightOnItsWay
    <2> QED
        BY <2>1 DEF Fresh, ApprovedByPin, TypeOK
<1>6. NoStrandedThread'
    <2> SUFFICES ASSUME NEW t \in Taps, pc'[t] \in {"wait", "waiting"}, home[t] = main
                 PROVE  FALSE
        BY DEF NoStrandedThread
    <2> QED
        BY DEF Inside, TypeOK
<1> QED
    BY <1>3, <1>4, <1>5, <1>6

\* No thread belongs to the new instance.
LEMMA RecreateInv == ASSUME IInv, Recreate PROVE IInv'
<1> USE EnvironmentAssumption DEF IInv, Recreate, threads, ui, history
<1>1. TypeOK'
    BY DEF TypeOK, Instances
<1>2. Running' /\ Inside' /\ Delivering'
    BY DEF Running, Inside, Delivering, TypeOK, Instances
<1>3. Fresh' /\ ApprovedByPin'
    BY DEF Fresh, RightOnItsWay, ApprovedByPin
<1>4. NoStrandedThread'
    <2> SUFFICES ASSUME NEW t \in Taps, home[t] = main + 1 PROVE FALSE
        BY DEF NoStrandedThread
    <2> QED
        BY DEF Running, TypeOK, Instances
<1> QED
    BY <1>1, <1>2, <1>3, <1>4

\* A step that changes nothing changes nothing.
LEMMA StutterInv == ASSUME IInv, UNCHANGED vars PROVE IInv'
<1> USE DEF IInv, vars, ui, threads, history
<1>1. TypeOK' /\ Running' /\ Inside' /\ Delivering'
    BY DEF TypeOK, Running, Inside, Delivering
<1>2. Fresh' /\ ApprovedByPin' /\ NoStrandedThread'
    BY DEF Fresh, RightOnItsWay, ApprovedByPin, NoStrandedThread, ResultComing
<1> QED
    BY <1>1, <1>2

LEMMA StepInv == ASSUME IInv, [Next]_vars PROVE IInv'
<1>1. ASSUME NEW t \in Taps, Tap(t) \/ Thread(t) \/ SpuriousWakeup(t) PROVE IInv'
    BY <1>1, TapInv, ResetPinInv, LaunchInv, AwaitInv, WakingInv, ReturnPinInv DEF Thread
<1>2. ASSUME NEW p \in Pins, Enter(p) PROVE IInv'
    BY <1>2, EnterInv
<1>3. CASE UIThread
    BY <1>3, ResumeInv, SetPinInv, NotifyInv DEF UIThread
<1>4. CASE Recreate
    BY <1>4, RecreateInv
<1>5. CASE Rest \/ UNCHANGED vars
    BY <1>5, StutterInv DEF Rest
<1> QED
    BY <1>1, <1>2, <1>3, <1>4, <1>5 DEF Next

\* The invariant holds in every state of every behaviour.
THEOREM Invariance == Spec => []IInv
    BY InitInv, StepInv, PTL DEF Spec

-----------------------------------------------------------------------------
\* Every variable keeps its type.
THEOREM TypeCorrect == Spec => []TypeOK
    BY Invariance, PTL DEF IInv

\* No payment is approved unless the right PIN was typed after its tap, however
\* many taps overlap, activities are re-created and threads wake for no reason.
THEOREM ApprovalsArePaidFor == Spec => []ApprovedByPin
    BY Invariance, PTL DEF IInv

\* No notification is lost between the launch and the wait.
THEOREM NobodyIsStranded == Spec => []NoStrandedThread
    BY Invariance, PTL DEF IInv

-----------------------------------------------------------------------------
\* One transaction at a time

Quiet == pads = << >> /\ pending = << >> /\ inbox = << >>

Live(t) == pc[t] \notin {"new", "done"}

\* Every PIN typed for thread t was wrong, and has cost it an attempt.
Counted(t) == entries[t] = 3 - ptc[t] /\ t \notin matched

\* One more was typed, and it was p.
Typed(t, p) == entries[t] = 4 - ptc[t] /\ (t \in matched <=> p = Right)

Pad(t) == [tap |-> t, ptc |-> ptc[t]]
Result(t, p) == [tap |-> t, pin |-> p]

\* The pinpad of t is open, or what was typed is on its way; and there is nothing else.
PadOpen(t) == pads = <<Pad(t)>> /\ pending = << >> /\ inbox = << >> /\ Counted(t)
PinKept(t, p) == pads = << >> /\ pending = <<Result(t, p)>> /\ inbox = << >> /\ Typed(t, p)
PinComes(t, p) ==
    /\ pads = << >> /\ pending = << >> /\ inbox = <<Result(t, p)>> /\ Typed(t, p)
    /\ notifying => pin[main] = p
Asked(t) == PadOpen(t) \/ \E p \in Pins : PinKept(t, p) \/ PinComes(t, p)

\* How far thread t is, and what has been typed for it.
Turn(t) ==
    /\ pc[t] = "new" => entries[t] = 0 /\ t \notin matched
    /\ pc[t] # "done" => verdict[t] = "none"
    /\ pc[t] \in {"reset", "launch"} => Quiet /\ Counted(t)
    /\ pc[t] \in {"wait", "waiting"} => IF home[t] = main THEN Asked(t) ELSE pads = << >>
    /\ pc[t] \in {"woken", "read"} => Quiet /\ Typed(t, pin[home[t]])
    /\ verdict[t] = "ok" => t \in matched
    /\ verdict[t] = "failed" => t \notin matched /\ (entries[t] = 3 \/ home[t] # main)

OneAtATime ==
    /\ \A t, u \in Taps : Live(t) /\ Live(u) => t = u
    /\ (\A t \in Taps : ~Live(t)) => Quiet
    /\ \A t \in Taps : Turn(t)

\* A thread that has not begun, or has ended, sees nothing of what others do.
LEMMA RestingStays ==
    ASSUME NEW u \in Taps, Turn(u), ~Live(u), home[u] <= main, main' \in {main, main + 1},
           home[u] \in Int, main \in Int,
           pc'[u] = pc[u], home'[u] = home[u], verdict'[u] = verdict[u],
           entries'[u] = entries[u], (u \in matched)' <=> u \in matched
    PROVE  Turn(u)' /\ ~Live(u)'
BY DEF Turn, Live

\* When one thread moves, and the others rest, its own turn is all there is to show.
LEMMA TurnKept ==
    ASSUME IInv, OneAtATime, NEW t \in Taps, \A u \in Taps \ {t} : ~Live(u),
           main' \in {main, main + 1},
           \A u \in Taps \ {t} :
              /\ pc'[u] = pc[u] /\ home'[u] = home[u] /\ verdict'[u] = verdict[u]
              /\ entries'[u] = entries[u] /\ ((u \in matched)' <=> u \in matched),
           Turn(t)', Live(t)' \/ Quiet'
    PROVE  OneAtATime'
<1>1. \A u \in Taps : home[u] <= main /\ home[u] \in Int /\ main \in Int
    BY DEF IInv, Running, TypeOK, Instances
<1>2. \A u \in Taps \ {t} : Turn(u)' /\ ~Live(u)'
    BY <1>1, RestingStays DEF OneAtATime
<1> QED
    BY <1>2 DEF OneAtATime

LEMMA OneThread ==
    ASSUME IInv, IInv', OneAtATime, NEW t \in Taps, Thread(t)
    PROVE  OneAtATime'
<1>1. Live(t) /\ \A u \in Taps \ {t} : ~Live(u)
    BY DEF OneAtATime, Live, Thread, ResetPin, Launch, Await, WakeUp, ReturnPin
<1>2. /\ Turn(t) /\ ptc[t] \in 0 .. 3 /\ home[t] \in Instances /\ entries[t] \in Nat
      /\ pc \in [Taps -> PCs] /\ verdict \in [Taps -> {"none", "ok", "failed"}]
      /\ ptc \in [Taps -> 0 .. 3] /\ pin \in [Instances -> Pins]
    BY DEF OneAtATime, IInv, TypeOK
<1>3. UNCHANGED <<main, home, entries, matched>>
    BY DEF Thread, ResetPin, Launch, Await, WakeUp, ReturnPin, Ends, history
<1>4. \A u \in Taps \ {t} : pc'[u] = pc[u] /\ verdict'[u] = verdict[u]
    BY <1>2 DEF Thread, ResetPin, Launch, Await, WakeUp, ReturnPin, Ends, Goto
<1>5. main \in Int
    BY DEF IInv, TypeOK, Instances
<1>6. Turn(t)' /\ (Live(t)' \/ Quiet')
    <2>1. CASE ResetPin(t)
        BY <1>1, <1>2, <2>1 DEF ResetPin, Goto, ui, history, Turn, Live, Quiet, Counted
    <2>2. CASE Launch(t)
        <3>1. Quiet /\ Counted(t) /\ verdict[t] = "none"
            BY <1>2, <2>2 DEF Launch, Turn
        <3>2. CASE home[t] = main
            <4>1. pads' = <<Pad(t)>> /\ UNCHANGED <<pending, inbox, ptc, verdict>>
                BY <2>2, <3>1, <3>2 DEF Launch, Quiet, Pad
            <4>2. pc'[t] = "wait"
                BY <1>2, <2>2, <3>2 DEF Launch, Goto
            <4>3. PadOpen(t)'
                BY <1>3, <3>1, <4>1 DEF PadOpen, Pad, Counted, Quiet
            <4> QED
                BY <1>3, <3>1, <3>2, <4>1, <4>2, <4>3 DEF Turn, Live, Asked
        <3>3. CASE home[t] # main
            <4>1. pc'[t] = "done" /\ verdict'[t] = "failed"
                  /\ UNCHANGED <<pads, pending, inbox, ptc>>
                BY <1>2, <2>2, <3>3 DEF Launch, Ends, Goto
            <4> QED
                BY <1>3, <3>1, <3>3, <4>1 DEF Turn, Quiet, Counted
        <3> QED
            BY <3>2, <3>3
    <2>3. CASE Await(t)
        <3>1. /\ pc[t] = "wait" /\ pc'[t] = "waiting"
              /\ UNCHANGED <<pin, pads, pending, inbox, notifying, ptc, verdict>>
            BY <1>2, <2>3 DEF Await, Goto, ui
        <3> QED
            BY <1>2, <1>3, <3>1 DEF Turn, Live, Asked, PadOpen, PinKept, PinComes, Pad, Result,
               Counted, Typed
    <2>4. CASE WakeUp(t)
        BY <1>2, <1>3, <2>4 DEF WakeUp, Goto, ui, Turn, Live, Quiet, Typed
    <2>5. CASE ReturnPin(t)
        <3>1. /\ Quiet /\ Typed(t, pin[home[t]]) /\ verdict[t] = "none"
              /\ UNCHANGED <<pads, pending, inbox>>
            BY <1>2, <2>5 DEF ReturnPin, Turn, ui
        <3>2. CASE pin[home[t]] = Right
            <4>1. pc'[t] = "done" /\ verdict'[t] = "ok"
                BY <1>2, <2>5, <3>2 DEF ReturnPin, Ends, Goto
            <4> QED
                BY <1>3, <3>1, <3>2, <4>1 DEF Turn, Quiet, Typed
        <3>3. CASE pin[home[t]] # Right /\ ptc[t] = 1
            <4>1. pc'[t] = "done" /\ verdict'[t] = "failed"
                BY <1>2, <2>5, <3>3 DEF ReturnPin, Ends, Goto
            <4> QED
                BY <1>3, <3>1, <3>3, <4>1 DEF Turn, Quiet, Typed
        <3>4. CASE pin[home[t]] # Right /\ ptc[t] # 1
            <4>1. pc'[t] = "reset" /\ verdict'[t] = "none" /\ ptc'[t] = ptc[t] - 1
                BY <1>2, <2>5, <3>1, <3>4 DEF ReturnPin, Goto
            <4> QED
                BY <1>2, <1>3, <3>1, <3>4, <4>1 DEF Turn, Live, Quiet, Typed, Counted
        <3> QED
            BY <3>2, <3>3, <3>4
    <2> QED
        BY <2>1, <2>2, <2>3, <2>4, <2>5 DEF Thread
<1> QED
    BY <1>1, <1>3, <1>4, <1>5, <1>6, TurnKept

LEMMA OneTap ==
    ASSUME Patient, IInv, OneAtATime, NEW t \in Taps, Tap(t)
    PROVE  OneAtATime'
<1>1. \A u \in Taps \ {t} : ~Live(u)
    BY DEF Tap, Live
<1>2. /\ Quiet' /\ UNCHANGED <<main, entries, matched, verdict>>
      /\ pc' = [pc EXCEPT ![t] = "reset"] /\ home' = [home EXCEPT ![t] = main]
      /\ ptc' = [ptc EXCEPT ![t] = 3]
    BY DEF Tap, Goto, ui, history, Quiet, UIFree
<1>3. /\ Turn(t) /\ pc[t] = "new" /\ pc \in [Taps -> PCs] /\ home \in [Taps -> Instances]
      /\ ptc \in [Taps -> 0 .. 3] /\ main \in Int
    BY DEF Tap, OneAtATime, IInv, TypeOK, Instances
<1>4. Turn(t)'
    BY <1>2, <1>3 DEF Turn, Counted
<1> QED
    BY <1>1, <1>2, <1>3, <1>4, TurnKept

\* Whoever has a pinpad open, or a result coming, is the one thread that runs.
LEMMA Busy ==
    ASSUME IInv, OneAtATime, ~Quiet
    PROVE  \E t \in Taps : /\ pc[t] \in {"wait", "waiting"} /\ Turn(t)
                            /\ \A u \in Taps \ {t} : ~Live(u)
<1>1. PICK t \in Taps : Live(t)
    BY DEF OneAtATime
<1>2. \A u \in Taps \ {t} : ~Live(u)
    BY <1>1 DEF OneAtATime
<1>3. Turn(t)
    BY DEF OneAtATime
<1>4. pc[t] \in PCs
    BY DEF IInv, TypeOK
<1>5. pc[t] \in {"wait", "waiting"}
    BY <1>1, <1>3, <1>4 DEF Live, Turn, PCs
<1> QED
    BY <1>2, <1>3, <1>5

LEMMA OneEntry ==
    ASSUME IInv, OneAtATime, NEW p \in Pins, Enter(p)
    PROVE  OneAtATime'
<1>1. pads # << >> /\ ~Quiet
    BY DEF Enter, Quiet
<1>2. PICK t \in Taps : /\ pc[t] \in {"wait", "waiting"} /\ Turn(t)
                        /\ \A u \in Taps \ {t} : ~Live(u)
    BY <1>1, Busy
<1>3. PadOpen(t) /\ home[t] = main
    BY <1>1, <1>2 DEF Turn, Asked, PinKept, PinComes
<1>4. Last(pads) = Pad(t) /\ Front(pads) = << >>
    BY <1>3 DEF PadOpen, Last, Front
<1>5. /\ pads' = << >> /\ pending' = <<Result(t, p)>> /\ UNCHANGED <<inbox, main, pc, home, ptc, verdict>>
      /\ entries' = [entries EXCEPT ![t] = entries[t] + 1]
      /\ matched' = IF p = Right THEN matched \cup {t} ELSE matched
    <2>1. Last(pads).tap = t
        BY <1>4 DEF Pad
    <2>2. pads' = << >>
        BY <1>4 DEF Enter
    <2>3. pending = << >> /\ pending' = Append(pending, [tap |-> t, pin |-> p])
        BY <1>3, <2>1 DEF Enter, PadOpen
    <2>4. pending' = <<Result(t, p)>>
        BY <2>3 DEF Result
    <2>5. UNCHANGED <<inbox, main, pc, home, ptc, verdict>>
        BY DEF Enter, threads
    <2>6. entries' = [entries EXCEPT ![t] = entries[t] + 1]
        BY <2>1 DEF Enter
    <2>7. matched' = IF p = Right THEN matched \cup {t} ELSE matched
        BY <2>1 DEF Enter
    <2> QED
        BY <2>2, <2>4, <2>5, <2>6, <2>7
<1>6. entries \in [Taps -> Nat] /\ ptc[t] \in 0 .. 3 /\ main \in Int
    BY DEF IInv, TypeOK, Instances
<1>7. PinKept(t, p)'
    BY <1>3, <1>5, <1>6 DEF PinKept, PadOpen, Typed, Counted, Result
<1>8. Turn(t)' /\ Live(t)'
    BY <1>2, <1>3, <1>5, <1>7 DEF Turn, Live, Asked
<1>9. \A u \in Taps \ {t} : entries'[u] = entries[u] /\ ((u \in matched)' <=> u \in matched)
    BY <1>5, <1>6
<1> QED
    BY <1>2, <1>5, <1>6, <1>8, <1>9, TurnKept

LEMMA OneDelivery ==
    ASSUME IInv, IInv', OneAtATime, UIThread
    PROVE  OneAtATime'
<1>1. ~Quiet
    BY DEF UIThread, Resume, SetPin, Notify, Quiet, IInv, Delivering
<1>2. PICK t \in Taps : /\ pc[t] \in {"wait", "waiting"} /\ Turn(t)
                        /\ \A u \in Taps \ {t} : ~Live(u)
    BY <1>1, Busy
<1>3. UNCHANGED <<main, pads, home, ptc, verdict, entries, matched>>
    BY DEF UIThread, Resume, SetPin, Notify, threads, history
<1>4. main \in Instances /\ main \in Int /\ pin \in [Instances -> Pins] /\ pc \in [Taps -> PCs]
    BY DEF IInv, TypeOK, Instances
<1>5. \A u \in Taps \ {t} : pc'[u] = pc[u]
    BY <1>2, <1>4 DEF UIThread, Resume, SetPin, Notify, Woken, threads, Live
<1>6. CASE home[t] # main
    <2>1. pads = << >> /\ verdict[t] = "none"
        BY <1>2, <1>6 DEF Turn
    <2>2. pc'[t] = pc[t]
        BY <1>4, <1>6 DEF UIThread, Resume, SetPin, Notify, Woken, threads
    <2>3. Turn(t)' /\ Live(t)'
        BY <1>2, <1>3, <1>6, <2>1, <2>2 DEF Turn, Live
    <2> QED
        BY <1>2, <1>3, <1>4, <1>5, <2>3, TurnKept
<1>7. CASE home[t] = main
    <2>1. Asked(t) /\ verdict[t] = "none"
        BY <1>2, <1>7 DEF Turn
    <2>2. CASE Resume
        <3>1. PICK p \in Pins : PinKept(t, p)
            BY <2>1, <2>2 DEF Resume, UIFree, Asked, PadOpen, PinComes
        <3>2. ~notifying /\ ~notifying'
            BY <2>2 DEF Resume, UIFree, IInv, Delivering
        <3>3. PinComes(t, p)' /\ pc'[t] = pc[t]
            BY <1>3, <2>2, <3>1, <3>2 DEF Resume, PinKept, PinComes, Typed, Result, threads
        <3>4. Turn(t)' /\ Live(t)'
            BY <1>2, <1>3, <1>7, <2>1, <3>3 DEF Turn, Live, Asked
        <3> QED
            BY <1>2, <1>3, <1>4, <1>5, <3>4, TurnKept
    <2>3. CASE SetPin
        <3>1. PICK p \in Pins : PinComes(t, p)
            BY <2>1, <2>3 DEF SetPin, Asked, PadOpen, PinKept
        <3>2. Head(inbox).pin = p
            BY <3>1 DEF PinComes, Result
        <3>3. PinComes(t, p)' /\ pc'[t] = pc[t]
            BY <1>3, <1>4, <2>3, <3>1, <3>2 DEF SetPin, PinComes, Typed, Result, threads
        <3>4. Turn(t)' /\ Live(t)'
            BY <1>2, <1>3, <1>7, <2>1, <3>3 DEF Turn, Live, Asked
        <3> QED
            BY <1>2, <1>3, <1>4, <1>5, <3>4, TurnKept
    <2>4. CASE Notify
        <3>1. PICK p \in Pins : PinComes(t, p)
            BY <2>1, <2>4 DEF Notify, Asked, PadOpen, PinKept, IInv, Delivering
        <3>2. pin[main] = p /\ pin' = pin /\ pads' = << >> /\ pending' = << >> /\ inbox' = << >>
            BY <2>4, <3>1 DEF Notify, PinComes
        <3>3. pc[t] = "waiting"
            BY <1>2, <1>7, <2>4, EnvironmentAssumption DEF Notify, IInv, Inside
        <3>4. pc'[t] = "woken"
            BY <1>7, <2>4, <3>3 DEF Notify, Woken
        <3>5. Turn(t)' /\ Live(t)'
            BY <1>3, <1>7, <2>1, <3>1, <3>2, <3>4 DEF Turn, Live, Quiet, PinComes, Typed
        <3> QED
            BY <1>2, <1>3, <1>4, <1>5, <3>5, TurnKept
    <2> QED
        BY <2>2, <2>3, <2>4 DEF UIThread
<1> QED
    BY <1>6, <1>7

LEMMA OneRecreation ==
    ASSUME IInv, OneAtATime, Recreate
    PROVE  OneAtATime'
<1>1. /\ main' = main + 1 /\ pads = << >> /\ inbox = << >>
      /\ UNCHANGED <<pin, pads, pending, inbox, pc, home, ptc, verdict, entries, matched>>
    BY DEF Recreate, UIFree, ui, threads, history
<1>2. \A u \in Taps : home[u] <= main /\ home[u] \in Int /\ main \in Int
    BY DEF IInv, Running, TypeOK, Instances
<1>3. ASSUME NEW u \in Taps PROVE Turn(u)'
    <2>1. home'[u] # main' /\ Turn(u)
        BY <1>1, <1>2 DEF OneAtATime
    <2> QED
        BY <1>1, <2>1 DEF Turn, Quiet, Counted, Typed
<1> QED
    BY <1>1, <1>3 DEF OneAtATime, Live, Quiet

LEMMA InitOne == Init => OneAtATime
<1> SUFFICES ASSUME Init PROVE OneAtATime
    OBVIOUS
<1>1. Quiet /\ \A t \in Taps : pc[t] = "new" /\ entries[t] = 0 /\ t \notin matched /\ verdict[t] = "none"
    BY DEF Init, Quiet
<1> QED
    BY <1>1 DEF OneAtATime, Live, Turn

LEMMA StepOne ==
    ASSUME Patient, ~Spurious, IInv, IInv', OneAtATime, [Next]_vars
    PROVE  OneAtATime'
<1>1. ASSUME NEW t \in Taps, Tap(t) \/ Thread(t) \/ SpuriousWakeup(t) PROVE OneAtATime'
    BY <1>1, OneTap, OneThread DEF SpuriousWakeup
<1>2. CASE Rest \/ UNCHANGED vars
    BY <1>2 DEF Rest, vars, ui, threads, history, OneAtATime, Turn, Live, Quiet, Counted,
       Typed, Asked, PadOpen, PinKept, PinComes, Pad, Result
<1> QED
    BY <1>1, <1>2, OneEntry, OneDelivery, OneRecreation DEF Next

LEMMA OneIsAnswered == OneAtATime => VerdictMatchesEntries
    BY DEF OneAtATime, Turn, VerdictMatchesEntries

\* When the user waits for each answer, and nothing wakes a thread for no reason, the
\* answer is what he typed.
THEOREM AnswersAreTyped ==
    ASSUME Patient, ~Spurious
    PROVE  Spec => []VerdictMatchesEntries
<1>1. IInv /\ IInv' /\ OneAtATime /\ [Next]_vars => OneAtATime'
    BY StepOne
<1> QED
    BY <1>1, InitOne, OneIsAnswered, Invariance, PTL DEF Spec
=============================================================================
