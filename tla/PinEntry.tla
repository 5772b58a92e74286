------------------------------ MODULE PinEntry ------------------------------
(***************************************************************************)
(* PinTerminal with what the user sees and touches: a tap hands a record   *)
(* with an amount to the native code, and shows what 3DES makes of some    *)
(* data; each PinpadActivity shows the amount and ten shuffled keys, and   *)
(* collects at most four digits.  Every step is one of PinTerminal's with  *)
(* more detail, or touches a pinpad only.                                  *)
(***************************************************************************)
EXTENDS TripleDes, SequencesExt

CONSTANTS
    Taps, Nobody, MaxInstance, Patient,  \* as in PinTerminal
    MaxKeys,   \* MAX_KEYS: the digits, and the keys for them
    PinLen,    \* PIN_LEN
    Right,     \* the PIN of the native code
    Bytes,     \* what randomBytes may return, or leave there when it fails
    Input      \* of each tap: the record, and the key and data of the toast

Digits == 0 .. MaxKeys - 1
Pins == UNION {[1 .. n -> Digits] : n \in 0 .. PinLen}

ASSUME EntryAssumption ==
    /\ MaxInstance \in Nat \ {0} /\ Patient \in BOOLEAN /\ Nobody \notin Taps
    /\ MaxKeys \in Nat \ {0} /\ PinLen \in Nat \ {0}
    /\ Right \in Pins \ {<< >>} /\ Bytes \subseteq Byte
    /\ \A t \in Taps :  \* 9F 02 06 and six bytes of BCD
        /\ Input[t].trd \in Seq(Byte)
        /\ Len(Input[t].trd) = 9 /\ SubSeq(Input[t].trd, 1, 3) = <<159, 2, 6>>
        /\ Len(Input[t].key) = 16
        /\ Input[t].data \in Seq(Byte) \ {<< >>}

VARIABLES
    main, pin, owner, pending, inbox, notifying, pc, home, ptc, verdict,
    entries, matched, backed,  \* as in PinTerminal
    pads,    \* its pinpads, with the digits on the keys, those typed, and the amount
    toast    \* what each tap shows

shown == <<pads, toast>>

\* The dialogue this one is a detail of; nothing wakes a thread for no reason here.
T == INSTANCE PinTerminal WITH
        Empty <- << >>, Spurious <- FALSE,
        pads <- [i \in DOMAIN pads |-> [tap |-> pads[i].tap, ptc |-> pads[i].ptc]]

dialogue == <<main, pin, owner, pending, inbox, notifying, pc, home, ptc, verdict,
              entries, matched, backed>>
vars == <<dialogue, shown>>

-----------------------------------------------------------------------------
\* The amount

\* Fault: the nibbles of a byte in the wrong order.
CharsSwapped(trd) ==
    [i \in 1 .. 12 |-> IF i % 2 = 1 THEN trd[4 + (i - 1) \div 2] % 16
                                    ELSE trd[4 + (i - 1) \div 2] \div 16]

\* The characters of the amount, '0' subtracted: two nibbles of each byte.
Chars(trd) ==
    [i \in 1 .. 12 |-> IF i % 2 = 1 THEN trd[4 + (i - 1) \div 2] \div 16
                                    ELSE trd[4 + (i - 1) \div 2] % 16]

\* Long.valueOf and DecimalFormat: leading zeros go, and what is no number is 0.
AmountOf(chars) ==
    LET significant == {i \in 1 .. 12 : chars[i] # 0} IN
    IF significant = {} \/ \E i \in 1 .. 12 : chars[i] > 9 THEN <<0>>
    ELSE SubSeq(chars, CHOOSE i \in significant : \A j \in significant : i <= j, 12)

-----------------------------------------------------------------------------
\* A pinpad, and its keys

\* A new one; the digits on the keys from left on are still to be shuffled.
NewPad(t, attempts) ==
    [tap |-> t, ptc |-> attempts, face |-> [k \in Digits |-> k], left |-> MaxKeys - 1,
     typed |-> << >>, amount |-> AmountOf(Chars(Input[t].trd))]

SetPad(n, pad) ==
    /\ pads' = [pads EXCEPT ![n] = pad]
    /\ UNCHANGED <<dialogue, toast>>

\* Fault: the digit drawn is copied, and not exchanged with the other.
SwappedHalf(face, i, j) == [face EXCEPT ![i] = face[j]]

Swapped(face, i, j) == [face EXCEPT ![i] = face[j], ![j] = face[i]]

\* shuffleKeys: from the last key down, each is swapped with one before it, or itself,
\* as a random byte says.  onCreate does this before the pinpad is there to be touched.
Shuffle ==
    \E n \in DOMAIN pads, b \in Bytes :
        LET i == pads[n].left IN
        /\ i > 0
        /\ SetPad(n, [pads[n] EXCEPT !.face = Swapped(@, i, b % (i + 1)), !.left = i - 1])

-----------------------------------------------------------------------------
\* What the user does with the pinpad on top

Top == pads[Len(pads)]
OnTop == pads # << >> /\ Top.left = 0 /\ inbox = << >>
SetTop(pad) == SetPad(Len(pads), pad)

\* Fault: nothing limits what is typed.
KeyUnlimited ==
    /\ OnTop /\ Len(Top.typed) < 2 * PinLen
    /\ \E k \in Digits : SetTop([Top EXCEPT !.typed = Append(@, Top.face[k])])

\* keyClick on a key with a digit: beyond PIN_LEN it does nothing.
Key ==
    /\ OnTop /\ Len(Top.typed) < PinLen
    /\ \E k \in Digits : SetTop([Top EXCEPT !.typed = Append(@, Top.face[k])])

Clear == OnTop /\ SetTop([Top EXCEPT !.typed = << >>])

Leaves(value) == OnTop /\ pads' = Front(pads) /\ T!Enter(value) /\ UNCHANGED toast
OK == Leaves(Top.typed)
Back == Leaves(<< >>)

\* The device is turned: the pinpad on the screen is made anew.
RecreatePad ==
    /\ OnTop
    /\ SetTop(NewPad(Top.tap, Top.ptc))

-----------------------------------------------------------------------------
\* onButtonClick: the toast, then transaction(trd)
Toasted == [t \in Taps |-> Decrypt(Input[t].key, Encrypt(Input[t].key, Input[t].data))]

Tap(t) ==
    /\ toast' = [toast EXCEPT ![t] = Toasted[t]]
    /\ UNCHANGED pads
    /\ T!Tap(t)

\* enterPin opens a pinpad; the launcher of an instance that is no more throws.
Launch(t) ==
    /\ pads' = IF home[t] = main THEN Append(pads, NewPad(t, ptc[t])) ELSE pads
    /\ UNCHANGED toast
    /\ T!Launch(t)

Thread(t) ==
    \/ Launch(t)
    \/ UNCHANGED shown /\ (T!ResetPin(t) \/ T!Await(t) \/ T!WakeUp(t) \/ T!ReturnPin(t))

UIThread == Shuffle \/ (UNCHANGED shown /\ T!UIThread)

Init ==
    /\ pads = << >> /\ T!Init
    /\ toast = [t \in Taps |-> << >>]

Rest == T!Settled /\ pads = << >> /\ pending = << >> /\ inbox = << >> /\ UNCHANGED vars

Next ==
    \/ \E t \in Taps : Tap(t) \/ Thread(t)
    \/ Key \/ Clear \/ OK \/ Back \/ RecreatePad
    \/ UIThread
    \/ UNCHANGED shown /\ T!Recreate
    \/ Rest

Spec == Init /\ [][Next]_vars

\* As in PinTerminal: threads and the looper are scheduled, the user need do nothing.
FairSpec == Spec /\ (\A t \in Taps : WF_vars(Thread(t))) /\ WF_vars(UIThread)

-----------------------------------------------------------------------------
\* Properties

\* Whatever is pressed, cleared, turned or left, the dialogue is PinTerminal's: what
\* a pinpad returns is none or a PIN of at most PIN_LEN digits of its keys.
ImplementsPinTerminal == T!Spec

\* When the user waits for each answer, the answer is what he typed.
VerdictMatchesEntries == T!VerdictMatchesEntries

\* Every tap is answered, if no pinpad is left open for ever.
EveryTapAnswered == T!EveryTapAnswered

\* Whatever bytes the generator gives, or fails to give, every digit has one key on
\* every pinpad: any PIN can be typed.
EveryDigitHasAKey ==
    \A i \in DOMAIN pads : \A d \in Digits : \E k \in Digits :
        pads[i].face[k] = d /\ \A j \in Digits \ {k} : pads[i].face[j] # d

\* What figures of a base stand for.
Value(base, figures) ==
    LET value[n \in 0 .. Len(figures)] ==
            IF n = 0 THEN 0 ELSE base * value[n - 1] + figures[n]
    IN  value[Len(figures)]

Number(ds) == Value(10, ds)
Decimal(n) == n \div 16 <= 9 /\ n % 16 <= 9
Asked(trd) ==
    IF \A i \in 4 .. 9 : Decimal(trd[i])
    THEN Value(100, [n \in 1 .. 6 |-> 10 * (trd[n + 3] \div 16) + (trd[n + 3] % 16)]) ELSE 0

\* A pinpad asks for the amount of the record of its own tap, and for nothing when
\* that is no decimal number.
AmountShownIsAsked ==
    \A i \in DOMAIN pads : Number(pads[i].amount) = Asked(Input[pads[i].tap].trd)

\* What the toast shows is what was encrypted, whatever its length.
ToastShowsData == \A t \in Taps : pc[t] # "new" => toast[t] = Input[t].data
=============================================================================
