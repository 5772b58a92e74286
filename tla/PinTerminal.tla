---------------------------- MODULE PinTerminal ----------------------------
(***************************************************************************)
(* How the lab1 Android client asks for a PIN.  A tap on MainActivity's    *)
(* button starts a native thread (transaction in native-lib.cpp) that      *)
(* calls enterPin up to three times; enterPin opens a PinpadActivity and   *)
(* waits on MainActivity's monitor, and the activity-result callback puts  *)
(* what was typed in the field pin and wakes whoever waits.  Nothing keeps *)
(* the user from tapping again, or Android from re-creating MainActivity.  *)
(***************************************************************************)
EXTENDS Integers, Sequences, SequencesExt

CONSTANTS
    Taps,           \* bound: the taps on the button, each the thread it starts
    Nobody,         \* no thread
    Pins,           \* what can be typed
    Right, Empty,   \* "1234" and ""
    MaxInstance,    \* bound: MainActivity is created at most so many times
    Patient,        \* does the user wait for an answer before tapping again?
    Spurious        \* does the runtime wake waiting threads for no reason?

ASSUME PinsAssumption == {Right, Empty} \subseteq Pins /\ Right # Empty
ASSUME EnvironmentAssumption ==
    /\ MaxInstance \in Nat \ {0} /\ Patient \in BOOLEAN /\ Spurious \in BOOLEAN
    /\ Nobody \notin Taps

VARIABLES
    main,       \* the instance of MainActivity that Android shows and calls back
    pin,        \* the field pin of each instance
    owner,      \* the thread inside each instance's monitor
    pads,       \* the open pinpads, the top one last: thread and attempts left
    pending,    \* results that wait for MainActivity to be resumed
    inbox,      \* results the UI thread is delivering
    notifying,  \* it has set the field and not yet notified
    pc,         \* the next statement of each thread
    home,       \* the instance a thread belongs to
    ptc,        \* its attempts left
    verdict,    \* what transactionResult was told
    entries,    \* history: how many times a PIN was typed for the thread
    matched,    \* history: the threads the right PIN was typed for
    backed      \* history: the threads that ran when the right PIN was typed

ui == <<pads, pending, inbox, notifying>>
threads == <<pc, home, ptc, verdict>>
history == <<entries, matched, backed>>
vars == <<main, pin, owner, ui, threads, history>>

Instances == 1 .. MaxInstance
Pads == [tap : Taps, ptc : 1 .. 3]
Results == [tap : Taps, pin : Pins]
PCs == {"new", "reset", "launch", "wait", "waiting", "woken", "read", "done"}

Goto(t, label) == pc' = [pc EXCEPT ![t] = label]

\* May thread t run code synchronized on its MainActivity?
FreeTo(t) == owner[home[t]] \in {Nobody, t}

\* The native loop is over: transactionResult is called.
Ends(t, v) ==
    /\ Goto(t, "done")
    /\ verdict' = [verdict EXCEPT ![t] = v]
    /\ UNCHANGED home

-----------------------------------------------------------------------------
\* enterPin, in the thread of tap t

\* Fault: pin keeps what was typed before.
ResetPinForgotten(t) ==
    /\ pc[t] = "reset" /\ Goto(t, "launch")
    /\ UNCHANGED <<main, pin, owner, ui, home, ptc, verdict, history>>

\* pin = "", outside the monitor
ResetPin(t) ==
    /\ pc[t] = "reset" /\ Goto(t, "launch")
    /\ pin' = [pin EXCEPT ![home[t]] = Empty]
    /\ UNCHANGED <<main, owner, ui, home, ptc, verdict, history>>

\* Fault: the pinpad is launched before the synchronized block.
LaunchOutsideMonitor(t) ==
    /\ pc[t] = "launch"
    /\ IF home[t] = main
         THEN /\ pads' = Append(pads, [tap |-> t, ptc |-> ptc[t]])
              /\ Goto(t, "wait")
              /\ UNCHANGED <<home, verdict>>
         ELSE Ends(t, "failed") /\ UNCHANGED pads
    /\ UNCHANGED <<main, pin, owner, pending, inbox, notifying, ptc, history>>

\* synchronized (MainActivity.this) { pinpadLauncher.launch(it).  The launcher of
\* an instance that is no more throws, and the native code answers failed.
Launch(t) ==
    /\ pc[t] = "launch" /\ FreeTo(t)
    /\ IF home[t] = main
         THEN /\ owner' = [owner EXCEPT ![main] = t]
              /\ pads' = Append(pads, [tap |-> t, ptc |-> ptc[t]])
              /\ Goto(t, "wait")
              /\ UNCHANGED <<home, verdict>>
         ELSE Ends(t, "failed") /\ UNCHANGED <<owner, pads>>
    /\ UNCHANGED <<main, pin, pending, inbox, notifying, ptc, history>>

\* Fault: pin is cleared again right before the wait.
AwaitResetting(t) ==
    /\ pc[t] = "wait" /\ FreeTo(t) /\ Goto(t, "waiting")
    /\ owner' = [owner EXCEPT ![home[t]] = Nobody]
    /\ pin' = [pin EXCEPT ![home[t]] = Empty]
    /\ UNCHANGED <<main, ui, home, ptc, verdict, history>>

\* MainActivity.this.wait()
Await(t) ==
    /\ pc[t] = "wait" /\ FreeTo(t) /\ Goto(t, "waiting")
    /\ owner' = [owner EXCEPT ![home[t]] = Nobody]
    /\ UNCHANGED <<main, pin, ui, home, ptc, verdict, history>>

SpuriousWakeup(t) ==
    /\ Spurious /\ pc[t] = "waiting" /\ Goto(t, "woken")
    /\ UNCHANGED <<main, pin, owner, ui, home, ptc, verdict, history>>

\* wait() takes the monitor again, and the synchronized block ends.
WakeUp(t) ==
    /\ pc[t] = "woken" /\ FreeTo(t) /\ Goto(t, "read")
    /\ UNCHANGED <<main, pin, owner, ui, home, ptc, verdict, history>>

\* Fault: the native loop never gives up.
ReturnPinForEver(t) ==
    /\ pc[t] = "read"
    /\ IF pin[home[t]] = Right
         THEN Ends(t, "ok") /\ UNCHANGED ptc
         ELSE /\ ptc' = [ptc EXCEPT ![t] = ptc[t] - 1]
              /\ Goto(t, "reset") /\ UNCHANGED <<home, verdict>>
    /\ UNCHANGED <<main, pin, owner, ui, history>>

\* return pin, outside the monitor; the native loop compares it and counts down.
ReturnPin(t) ==
    /\ pc[t] = "read"
    /\ IF pin[home[t]] = Right
         THEN Ends(t, "ok") /\ UNCHANGED ptc
         ELSE /\ ptc' = [ptc EXCEPT ![t] = ptc[t] - 1]
              /\ IF ptc[t] = 1 THEN Ends(t, "failed")
                               ELSE Goto(t, "reset") /\ UNCHANGED <<home, verdict>>
    /\ UNCHANGED <<main, pin, owner, ui, history>>

-----------------------------------------------------------------------------
\* The user and the UI thread

UIFree == inbox = << >>

\* onButtonClick: MainActivity is resumed, and has been told every result.
Tap(t) ==
    /\ pc[t] = "new" /\ UIFree /\ pads = << >> /\ pending = << >>
    /\ Patient => \A v \in Taps : pc[v] \in {"new", "done"}
    /\ Goto(t, "reset")
    /\ home' = [home EXCEPT ![t] = main]
    /\ ptc' = [ptc EXCEPT ![t] = 3]
    /\ UNCHANGED <<main, pin, owner, ui, verdict, history>>

\* OK or back on the top pinpad: it finishes with result p.
Enter(p) ==
    LET t == Last(pads).tap IN
    /\ pads # << >> /\ UIFree
    /\ pads' = Front(pads)
    /\ pending' = Append(pending, [tap |-> t, pin |-> p])
    /\ entries' = [entries EXCEPT ![t] = entries[t] + 1]
    /\ IF p = Right
         THEN /\ matched' = matched \cup {t}
              /\ backed' = {v \in Taps : pc[v] # "new"}
         ELSE UNCHANGED <<matched, backed>>
    /\ UNCHANGED <<main, pin, owner, inbox, notifying, threads>>

\* MainActivity is on top again, and is given the results.
Resume ==
    /\ pads = << >> /\ UIFree /\ pending # << >>
    /\ inbox' = pending /\ pending' = << >>
    /\ UNCHANGED <<main, pin, owner, pads, notifying, threads, history>>

\* The callback of pinpadLauncher: pin = ..., outside the monitor,
SetPin ==
    /\ inbox # << >> /\ ~notifying
    /\ pin' = [pin EXCEPT ![main] = Head(inbox).pin]
    /\ notifying' = TRUE
    /\ UNCHANGED <<main, owner, pads, pending, inbox, threads, history>>

Woken == [t \in Taps |-> IF pc[t] = "waiting" /\ home[t] = main THEN "woken" ELSE pc[t]]

\* Fault: notifyAll stands in the branch for a PIN that is not empty.
NotifyUnlessEmpty ==
    /\ notifying /\ owner[main] = Nobody
    /\ pc' = IF Head(inbox).pin = Empty THEN pc ELSE Woken
    /\ inbox' = Tail(inbox) /\ notifying' = FALSE
    /\ UNCHANGED <<main, pin, owner, pads, pending, home, ptc, verdict, history>>

\* ... then synchronized (MainActivity.this) { notifyAll() }.
Notify ==
    /\ notifying /\ owner[main] = Nobody
    /\ pc' = Woken
    /\ inbox' = Tail(inbox) /\ notifying' = FALSE
    /\ UNCHANGED <<main, pin, owner, pads, pending, home, ptc, verdict, history>>

\* The device is turned: Android shows a new instance.  A MainActivity under a
\* pinpad is re-created when it is uncovered, before it is given the results.
Recreate ==
    /\ UIFree /\ pads = << >> /\ main < MaxInstance
    /\ main' = main + 1
    /\ UNCHANGED <<pin, owner, ui, threads, history>>

-----------------------------------------------------------------------------
Init ==
    /\ main = 1
    /\ pin = [i \in Instances |-> Empty]
    /\ owner = [i \in Instances |-> Nobody]
    /\ pads = << >> /\ pending = << >> /\ inbox = << >> /\ notifying = FALSE
    /\ pc = [t \in Taps |-> "new"]
    /\ home = [t \in Taps |-> 1]
    /\ ptc = [t \in Taps |-> 3]
    /\ verdict = [t \in Taps |-> "none"]
    /\ entries = [t \in Taps |-> 0] /\ matched = {} /\ backed = {}

\* enterPin and the native loop around it
Thread(t) == ResetPin(t) \/ Launch(t) \/ Await(t) \/ WakeUp(t) \/ ReturnPin(t)

UIThread == Resume \/ SetPin \/ Notify

\* Every tap made has been answered, or waits on an instance that is no more.
Settled ==
    \A t \in Taps : pc[t] \in {"new", "done"} \/ (pc[t] = "waiting" /\ home[t] # main)
Rest == Settled /\ pads = << >> /\ pending = << >> /\ UIFree /\ UNCHANGED vars

Next ==
    \/ \E t \in Taps : Tap(t) \/ Thread(t) \/ SpuriousWakeup(t)
    \/ \E p \in Pins : Enter(p)
    \/ UIThread \/ Recreate \/ Rest

Spec == Init /\ [][Next]_vars

\* The scheduler runs every thread that can run; the user need do nothing.
FairSpec == Spec /\ (\A t \in Taps : WF_vars(Thread(t))) /\ WF_vars(UIThread)

-----------------------------------------------------------------------------
\* Properties

TypeOK ==
    /\ main \in Instances
    /\ pin \in [Instances -> Pins]
    /\ owner \in [Instances -> Taps \cup {Nobody}]
    /\ pads \in Seq(Pads) /\ pending \in Seq(Results) /\ inbox \in Seq(Results)
    /\ notifying \in BOOLEAN
    /\ pc \in [Taps -> PCs]
    /\ home \in [Taps -> Instances]
    /\ ptc \in [Taps -> 0 .. 3]
    /\ verdict \in [Taps -> {"none", "ok", "failed"}]
    /\ entries \in [Taps -> Nat] /\ matched \subseteq Taps /\ backed \subseteq Taps

\* No payment is approved unless the right PIN was typed after its tap: what an
\* earlier transaction left in the field pin never serves a later one, whatever
\* the taps overlap with and whatever wakes the waiting threads.
ApprovedByPin == \A t \in Taps : verdict[t] = "ok" => t \in backed

\* Is a pinpad of thread t open, or its result not yet delivered?
ResultComing(t) ==
    \/ \E i \in DOMAIN pads : pads[i].tap = t
    \/ \E i \in DOMAIN pending : pending[i].tap = t
    \/ \E i \in DOMAIN inbox : inbox[i].tap = t

\* A thread that waits, or is about to, has a result coming, unless its
\* MainActivity has been re-created: enterPin launches and waits in one
\* synchronized block, so no notification is lost in between.
NoStrandedThread ==
    \A t \in Taps : pc[t] \in {"wait", "waiting"} /\ home[t] = main => ResultComing(t)

\* When the user waits for each answer, the answer is what he typed: the tap is
\* approved exactly when the right PIN was among his entries, and it fails after
\* three, or because its activity was re-created.
VerdictMatchesEntries ==
    \A t \in Taps :
        /\ verdict[t] = "ok" => t \in matched
        /\ verdict[t] = "failed" => t \notin matched /\ (entries[t] = 3 \/ home[t] # main)

\* Every tap is answered, if the user never leaves a pinpad open for ever and the
\* activity is not re-created meanwhile.
EveryTapAnswered ==
    []<>(pads = << >>) =>
        \A t \in Taps : pc[t] = "reset" ~> (pc[t] = "done" \/ home[t] # main)

-----------------------------------------------------------------------------
\* What the pinpad says and the client does not keep.

\* "Осталась одна попытка" (PinpadActivity.java:69, one attempt is left): two PINs
\* have been typed for this transaction, and "Осталось две попытки" (:67): one.
AttemptsShownAreTrue ==
    \A i \in DOMAIN pads : entries[pads[i].tap] >= 3 - pads[i].ptc
=============================================================================
