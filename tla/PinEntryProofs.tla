--------------------------- MODULE PinEntryProofs ---------------------------
(***************************************************************************)
(* Proofs about PinEntry: decrypt undoes encrypt for data of any length,   *)
(* so that the toast is what was encrypted, and the entry of a PIN by keys *)
(* is, step by step, the dialogue of PinTerminal.                          *)
(***************************************************************************)
EXTENDS PinEntry, SequenceTheorems, WellFoundedInduction, TLAPS

-----------------------------------------------------------------------------
\* The codec

\* A function on 1 .. n is a sequence of length n.
LEMMA FunctionIsSeq ==
    ASSUME NEW n \in Nat, NEW S, NEW f \in [1 .. n -> S]
    PROVE  f \in Seq(S) /\ Len(f) = n /\ DOMAIN f = 1 .. n
OBVIOUS

\* A position of a block, and the block of a position.
LEMMA Positions ==
    ASSUME NEW i \in Nat \ {0}, NEW n \in Nat, n % 8 = 0, i <= n, NEW j \in 1 .. 8
    PROVE  /\ BlockOf(i) \in Nat /\ Offset(i) \in 1 .. 8
           /\ 8 * BlockOf(i) + Offset(i) = i
           /\ 8 * BlockOf(i) + j \in 1 .. n
           /\ BlockOf(8 * BlockOf(i) + j) = BlockOf(i)
           /\ Offset(8 * BlockOf(i) + j) = j
BY DEF BlockOf, Offset

\* Padding fills the last block, and its last byte says how long it is.
LEMMA Padding ==
    ASSUME NEW data \in Seq(Byte)
    PROVE  \E pad \in 1 .. 8 :
              /\ Padded(data) \in [1 .. Len(data) + pad -> Byte]
              /\ (Len(data) + pad) % 8 = 0
              /\ Padded(data)[Len(data) + pad] = pad
              /\ \A i \in 1 .. Len(data) : Padded(data)[i] = data[i]
<1> DEFINE pad == 8 - (Len(data) % 8)
<1>1. Len(data) \in Nat
  OBVIOUS
<1>2. pad \in 1 .. 8 /\ (Len(data) + pad) % 8 = 0
  BY <1>1
<1> HIDE DEF pad
<1>3. Padded(data) = [i \in 1 .. Len(data) + pad |-> IF i <= Len(data) THEN data[i] ELSE pad]
  BY DEF Padded, pad
<1>4. \A i \in 1 .. Len(data) : data[i] \in Byte
  OBVIOUS
<1>5. pad \in Byte
  BY <1>2 DEF Byte
<1>6. Padded(data) \in [1 .. Len(data) + pad -> Byte]
  BY <1>1, <1>2, <1>3, <1>4, <1>5
<1>7. Padded(data)[Len(data) + pad] = pad
  BY <1>1, <1>2, <1>3
<1>8. \A i \in 1 .. Len(data) : Padded(data)[i] = data[i]
  BY <1>1, <1>2, <1>3
<1> QED
  BY <1>2, <1>6, <1>7, <1>8

\* What a key has sealed it opens.
LEMMA Opens ==
    ASSUME NEW key, NEW block
    PROVE  Opened(key, Sealed(key, block)) = block
BY DEF Opened, Sealed

\* Whole blocks are enciphered and deciphered to what they were.
LEMMA BlocksReturn ==
    ASSUME NEW key, NEW n \in Nat, n % 8 = 0, NEW buf \in [1 .. n -> Byte]
    PROVE  /\ Len(Enciphered(key, buf)) = n
           /\ Deciphered(key, Enciphered(key, buf)) = buf
<1> DEFINE sealed == Enciphered(key, buf)
<1>1. Len(buf) = n
  BY FunctionIsSeq
<1>2. sealed = [i \in 1 .. n |-> Sealed(key, Block(buf, BlockOf(i)))[Offset(i)]]
  BY <1>1 DEF Enciphered
<1>3. Len(sealed) = n
  <2> DEFINE S == {Sealed(key, Block(buf, BlockOf(i)))[Offset(i)] : i \in 1 .. n}
  <2>1. sealed \in [1 .. n -> S]
    BY <1>2
  <2> QED
    BY <2>1, FunctionIsSeq
<1> HIDE DEF sealed
<1>4. ASSUME NEW i \in 1 .. n
      PROVE  Opened(key, Block(sealed, BlockOf(i)))[Offset(i)] = buf[i]
  <2> DEFINE b == BlockOf(i)
  <2>1. i \in Nat \ {0} /\ i <= n
    OBVIOUS
  <2>2. \A j \in 1 .. 8 : sealed[8 * b + j] = Sealed(key, Block(buf, b))[j]
    <3> TAKE j \in 1 .. 8
    <3>1. 8 * b + j \in 1 .. n /\ BlockOf(8 * b + j) = b /\ Offset(8 * b + j) = j
      BY <2>1, Positions
    <3> QED
      BY <1>2, <3>1
  <2>3. Block(sealed, b) = [j \in 1 .. 8 |-> Sealed(key, Block(buf, b))[j]]
    BY <2>2 DEF Block
  <2>4. Block(sealed, b) = Sealed(key, Block(buf, b))
    BY <2>3 DEF Sealed
  <2>5. Opened(key, Block(sealed, b)) = Block(buf, b)
    BY <2>4, Opens
  <2>6. Offset(i) \in 1 .. 8 /\ 8 * b + Offset(i) = i
    BY <2>1, 1 \in 1 .. 8, Positions
  <2> HIDE DEF b
  <2>7. Block(buf, b)[Offset(i)] = buf[8 * b + Offset(i)]
    BY <2>6 DEF Block
  <2> QED
    BY <2>5, <2>6, <2>7 DEF b
<1>5. Deciphered(key, sealed) = [i \in 1 .. n |-> buf[i]]
  BY <1>3, <1>4 DEF Deciphered
<1>6. Deciphered(key, sealed) = buf
  BY <1>5
<1> QED
  BY <1>3, <1>6 DEF sealed

\* decrypt undoes encrypt (native-lib.cpp:107-203), for data of any length.
THEOREM RoundTrip ==
    ASSUME NEW key, Len(key) = 16, NEW data \in Seq(Byte), data # << >>
    PROVE  Decrypt(key, Encrypt(key, data)) = data
<1>1. PICK pad \in 1 .. 8 :
              /\ Padded(data) \in [1 .. Len(data) + pad -> Byte]
              /\ (Len(data) + pad) % 8 = 0
              /\ Padded(data)[Len(data) + pad] = pad
              /\ \A i \in 1 .. Len(data) : Padded(data)[i] = data[i]
  BY Padding
<1> DEFINE n == Len(data) + pad
           sealed == Enciphered(key, Padded(data))
<1>2. n \in Nat \ {0} /\ n % 8 = 0
  BY <1>1
<1>3. Len(sealed) = n /\ Deciphered(key, sealed) = Padded(data)
  BY <1>1, <1>2, BlocksReturn
<1>4. Encrypt(key, data) = sealed
  BY DEF Encrypt
<1>5. sealed # << >>
  BY <1>2, <1>3
<1>6. Padded(data) \in Seq(Byte) /\ Len(Padded(data)) = n
  BY <1>1, <1>2, FunctionIsSeq
<1> HIDE DEF n, sealed
<1>7. Decrypt(key, sealed) = SubSeq(Padded(data), 1, n - pad)
  BY <1>1, <1>2, <1>3, <1>5 DEF Decrypt, n
<1>8. n - pad = Len(data) /\ Len(data) <= n
  BY DEF n
<1>9. SubSeq(Padded(data), 1, Len(data)) = data
  BY <1>1, <1>6, <1>8
<1> QED
  BY <1>4, <1>7, <1>8, <1>9

-----------------------------------------------------------------------------
\* What is true of the pinpads, and the toasts

IsPad(p) ==
    /\ p = [tap |-> p.tap, ptc |-> p.ptc, face |-> p.face, left |-> p.left,
            typed |-> p.typed, amount |-> p.amount]
    /\ p.left \in 0 .. MaxKeys - 1
    /\ p.typed \in Pins

\* The face is a permutation of the digits.
IsShuffled(face) ==
    /\ face \in [Digits -> Digits]
    /\ \A d \in Digits : \E k \in Digits : face[k] = d /\ \A j \in Digits \ {k} : face[j] # d

PadsAre == \A n \in 1 .. Len(pads) : IsPad(pads[n]) /\ IsShuffled(pads[n].face)

\* The inductive invariant.
IInv ==
    /\ \E S : pads \in Seq(S)
    /\ PadsAre
    /\ DOMAIN pc = Taps /\ toast \in [Taps -> Seq(Byte)]
    /\ ToastShowsData

\* One swap more leaves every digit on one key.
LEMMA SwapShuffles ==
    ASSUME NEW face, IsShuffled(face), NEW i \in Digits, NEW j \in Digits
    PROVE  IsShuffled(Swapped(face, i, j))
<1> DEFINE new == Swapped(face, i, j)
<1>1. new \in [Digits -> Digits]
  BY DEF IsShuffled, Swapped
<1>2. new[i] = face[j] /\ new[j] = face[i] /\ \A k \in Digits \ {i, j} : new[k] = face[k]
  BY DEF IsShuffled, Swapped
<1>3. ASSUME NEW d \in Digits
      PROVE  \E k \in Digits : new[k] = d /\ \A l \in Digits \ {k} : new[l] # d
  <2>1. PICK k \in Digits : face[k] = d /\ \A l \in Digits \ {k} : face[l] # d
    BY DEF IsShuffled
  <2> HIDE DEF new
  <2> DEFINE at == IF k = i THEN j ELSE IF k = j THEN i ELSE k
  <2>2. at \in Digits /\ new[at] = d
    BY <1>2, <2>1
  <2>3. \A l \in Digits \ {at} : new[l] # d
    BY <1>2, <2>1
  <2> QED
    BY <2>2, <2>3
<1> QED
  BY <1>1, <1>3 DEF IsShuffled

\* Nothing typed is a PIN of no digits.
LEMMA NoneIsPin == << >> \in Pins
<1>1. << >> \in [1 .. 0 -> Digits]
  OBVIOUS
<1>2. 0 \in 0 .. PinLen
  BY EntryAssumption
<1> QED
  BY <1>1, <1>2 DEF Pins

LEMMA NewPadIsPad ==
    ASSUME NEW t, NEW attempts
    PROVE  IsPad(NewPad(t, attempts)) /\ IsShuffled(NewPad(t, attempts).face)
<1>1. << >> \in Pins /\ MaxKeys - 1 \in 0 .. MaxKeys - 1
  BY NoneIsPin, EntryAssumption
<1>2. IsShuffled([k \in Digits |-> k])
  BY DEF IsShuffled
<1> QED
  BY <1>1, <1>2 DEF IsPad, NewPad

\* A digit more is still a PIN, up to PIN_LEN.
LEMMA TypedIsPin ==
    ASSUME NEW p \in Pins, Len(p) < PinLen, NEW d \in Digits
    PROVE  Append(p, d) \in Pins
<1>1. PICK n \in 0 .. PinLen : p \in [1 .. n -> Digits]
  BY DEF Pins
<1>2. p \in Seq(Digits) /\ Len(p) = n
  BY <1>1, EntryAssumption, FunctionIsSeq
<1>3. Append(p, d) \in Seq(Digits) /\ Len(Append(p, d)) = n + 1
  BY <1>2
<1>4. Append(p, d) \in [1 .. n + 1 -> Digits]
  BY <1>3, LenProperties
<1>5. n + 1 \in 0 .. PinLen
  BY <1>2, EntryAssumption
<1> QED
  BY <1>4, <1>5 DEF Pins

-----------------------------------------------------------------------------
\* What the steps do to the pinpads, and to the toasts

\* The steps of a pinpad change it into another.
LEMMA SetPadKeeps ==
    ASSUME IInv, NEW n \in 1 .. Len(pads), NEW pad, IsPad(pad), IsShuffled(pad.face),
           SetPad(n, pad)
    PROVE  IInv'
<1>1. PICK S : pads \in Seq(S)
  BY DEF IInv
<1>2. pads' = [pads EXCEPT ![n] = pad] /\ UNCHANGED <<pc, toast>>
  BY DEF SetPad, dialogue
<1>3. pads' \in Seq(S \cup {pad}) /\ Len(pads') = Len(pads)
  BY <1>1, <1>2
<1>4. \A m \in 1 .. Len(pads) : pads'[m] = IF m = n THEN pad ELSE pads[m]
  BY <1>1, <1>2
<1>5. PadsAre'
  <2> SUFFICES ASSUME NEW m \in 1 .. Len(pads')
               PROVE  IsPad(pads'[m]) /\ IsShuffled(pads'[m].face)
    BY DEF PadsAre, IsPad, IsShuffled
  <2>1. m \in 1 .. Len(pads) /\ pads'[m] = IF m = n THEN pad ELSE pads[m]
    BY <1>3, <1>4
  <2> QED
    BY <2>1 DEF IInv, PadsAre
<1> QED
  BY <1>2, <1>3, <1>5 DEF IInv, ToastShowsData

\* No thread but that of the tap stops being new.
NewStay == DOMAIN pc' = Taps /\ \A v \in Taps : pc[v] = "new" => pc'[v] = "new"

LEMMA DialogueKeepsNew ==
    ASSUME DOMAIN pc = Taps, NEW t \in Taps,
           \/ T!ResetPin(t) \/ T!Launch(t) \/ T!Await(t) \/ T!WakeUp(t) \/ T!ReturnPin(t)
           \/ T!UIThread \/ T!Recreate
    PROVE  NewStay
<1>1. CASE T!ResetPin(t) \/ T!Launch(t) \/ T!Await(t) \/ T!WakeUp(t) \/ T!ReturnPin(t)
  <2>1. pc[t] # "new" /\ \E label : pc' = [pc EXCEPT ![t] = label]
    BY <1>1 DEF T!ResetPin, T!Launch, T!Await, T!WakeUp, T!ReturnPin, T!Ends, T!Goto
  <2> QED
    BY <2>1 DEF NewStay
<1>2. CASE T!UIThread
  BY <1>2 DEF T!UIThread, T!Resume, T!SetPin, T!Notify, T!Woken, T!threads, NewStay
<1>3. CASE T!Recreate
  BY <1>3 DEF T!Recreate, T!threads, NewStay
<1> QED
  BY <1>1, <1>2, <1>3

LEMMA ToastsStay ==
    ASSUME IInv, NewStay, UNCHANGED toast
    PROVE  (DOMAIN pc = Taps /\ toast \in [Taps -> Seq(Byte)] /\ ToastShowsData)'
BY DEF IInv, NewStay, ToastShowsData

LEMMA PadsStay ==
    ASSUME IInv, UNCHANGED pads
    PROVE  (\E S : pads \in Seq(S))' /\ PadsAre'
BY DEF IInv, PadsAre, IsPad, IsShuffled

-----------------------------------------------------------------------------
\* The invariant holds

LEMMA InitIInv == Init => IInv
<1> SUFFICES ASSUME Init PROVE IInv
  OBVIOUS
<1>1. pads = << >> /\ toast = [t \in Taps |-> << >>] /\ pc = [t \in Taps |-> "new"]
  BY DEF Init, T!Init
<1>2. pads \in Seq({}) /\ Len(pads) = 0
  BY <1>1
<1>3. PadsAre
  BY <1>2 DEF PadsAre
<1> QED
  BY <1>1, <1>2, <1>3 DEF IInv, ToastShowsData

\* The first elements of a sequence.
LEMMA PrefixOfSeq ==
    ASSUME NEW S, NEW s \in Seq(S), NEW n \in Nat, n <= Len(s)
    PROVE  /\ SubSeq(s, 1, n) \in Seq(S) /\ Len(SubSeq(s, 1, n)) = n
           /\ \A m \in 1 .. n : SubSeq(s, 1, n)[m] = s[m]
<1>1. SubSeq(s, 1, n) \in Seq(S) /\ Len(SubSeq(s, 1, n)) = n
  BY SubSeqProperties
<1>2. \A m \in 1 .. n : SubSeq(s, 1, n)[m] = s[m]
  OBVIOUS
<1> QED
  BY <1>1, <1>2

LEMMA FrontOfSeq ==
    ASSUME NEW S, NEW s \in Seq(S), s # << >>
    PROVE  /\ Front(s) \in Seq(S) /\ Len(Front(s)) = Len(s) - 1
           /\ \A m \in 1 .. Len(Front(s)) : Front(s)[m] = s[m]
<1> DEFINE n == Len(s) - 1
<1>1. n \in Nat /\ n <= Len(s)
  OBVIOUS
<1>2. Front(s) = SubSeq(s, 1, n)
  BY DEF Front
<1> HIDE DEF n
<1>3. Front(s) \in Seq(S) /\ Len(Front(s)) = n /\ \A m \in 1 .. n : Front(s)[m] = s[m]
  BY <1>1, <1>2, PrefixOfSeq
<1> QED
  BY <1>3 DEF n

LEMMA TopIsPad ==
    ASSUME IInv, pads # << >>
    PROVE  Len(pads) \in 1 .. Len(pads) /\ IsPad(Top) /\ IsShuffled(Top.face)
<1>1. Len(pads) \in 1 .. Len(pads)
  <2>1. PICK S : pads \in Seq(S)
    BY DEF IInv
  <2> QED
    BY <2>1
<1> QED
  BY <1>1 DEF IInv, PadsAre, Top

\* Typing and clearing leave the keys where they are.
LEMMA TypedIsPad ==
    ASSUME NEW pad, IsPad(pad), NEW pin2 \in Pins
    PROVE  /\ IsPad([pad EXCEPT !.typed = pin2])
           /\ [pad EXCEPT !.typed = pin2].face = pad.face
BY DEF IsPad

\* Whatever its keys show, a pinpad is a pinpad.
LEMMA TurnedIsPad ==
    ASSUME NEW pad, IsPad(pad), NEW face, NEW left \in 0 .. MaxKeys - 1
    PROVE  /\ IsPad([pad EXCEPT !.face = face, !.left = left])
           /\ [pad EXCEPT !.face = face, !.left = left].face = face
<1> DEFINE p == [pad EXCEPT !.face = face]
           q == [p EXCEPT !.left = left]
<1>1. IsPad(p) /\ p.face = face
  BY DEF IsPad
<1> HIDE DEF p
<1>2. IsPad(q) /\ q.face = face
  BY <1>1 DEF IsPad
<1>3. q = [pad EXCEPT !.face = face, !.left = left]
  BY DEF p
<1> QED
  BY <1>2, <1>3

\* ... and it asks for the same thread.
LEMMA TurnedKeepsTap ==
    ASSUME NEW pad, IsPad(pad), NEW face, NEW left
    PROVE  /\ [pad EXCEPT !.face = face, !.left = left].tap = pad.tap
           /\ [pad EXCEPT !.face = face, !.left = left].ptc = pad.ptc
<1> DEFINE p == [pad EXCEPT !.face = face]
<1>1. p.tap = pad.tap /\ p.ptc = pad.ptc
  BY DEF IsPad
<1>2. p = [tap |-> p.tap, ptc |-> p.ptc, face |-> p.face, left |-> p.left,
           typed |-> p.typed, amount |-> p.amount]
  BY DEF IsPad
<1> HIDE DEF p
<1>3. [p EXCEPT !.left = left].tap = p.tap /\ [p EXCEPT !.left = left].ptc = p.ptc
  BY <1>2
<1>4. [p EXCEPT !.left = left] = [pad EXCEPT !.face = face, !.left = left]
  BY DEF p
<1> QED
  BY <1>1, <1>3, <1>4

LEMMA ShuffledIsPad ==
    ASSUME NEW pad, IsPad(pad), IsShuffled(pad.face), pad.left > 0, NEW b \in Bytes
    PROVE  LET new == [pad EXCEPT !.face = Swapped(@, pad.left, b % (pad.left + 1)),
                                  !.left = pad.left - 1]
           IN  IsPad(new) /\ IsShuffled(new.face)
<1> DEFINE j == b % (pad.left + 1)
           face == Swapped(pad.face, pad.left, j)
<1>1. pad.left \in Digits /\ pad.left \in Nat \ {0}
  BY EntryAssumption DEF IsPad, Digits
<1>2. b \in Nat
  BY EntryAssumption DEF Byte
<1>3. j \in Digits
  BY <1>1, <1>2, EntryAssumption DEF Digits
<1> HIDE DEF j
<1>4. IsShuffled(face)
  BY <1>1, <1>3, SwapShuffles
<1> HIDE DEF face
<1>5. pad.left - 1 \in 0 .. MaxKeys - 1
  BY <1>1, EntryAssumption DEF Digits
<1> DEFINE new == [pad EXCEPT !.face = face, !.left = pad.left - 1]
<1>6. IsPad(new) /\ new.face = face
  <2> DEFINE left == pad.left - 1
  <2> HIDE DEF left
  <2>1. left \in 0 .. MaxKeys - 1
    BY <1>5 DEF left
  <2>2. IsPad([pad EXCEPT !.face = face, !.left = left])
        /\ [pad EXCEPT !.face = face, !.left = left].face = face
    BY <2>1, TurnedIsPad
  <2> QED
    BY <2>2 DEF left
<1>7. new = [pad EXCEPT !.face = Swapped(@, pad.left, b % (pad.left + 1)), !.left = pad.left - 1]
  BY DEF face, j
<1> QED
  BY <1>4, <1>6, <1>7

LEMMA StepIInv == IInv /\ [Next]_vars => IInv'
<1> SUFFICES ASSUME IInv, [Next]_vars PROVE IInv'
  OBVIOUS
<1>1. ASSUME NEW t \in Taps, Tap(t) PROVE IInv'
  <2>1. T!Tap(t) /\ UNCHANGED pads /\ toast' = [toast EXCEPT ![t] = Toasted[t]]
    BY <1>1 DEF Tap
  <2>2. pc' = [pc EXCEPT ![t] = "reset"]
    BY <2>1 DEF T!Tap, T!Goto
  <2>3. Toasted[t] = Input[t].data /\ Input[t].data \in Seq(Byte)
    BY EntryAssumption, RoundTrip DEF Toasted
  <2>4. (DOMAIN pc = Taps /\ toast \in [Taps -> Seq(Byte)] /\ ToastShowsData)'
    BY <2>1, <2>2, <2>3 DEF IInv, ToastShowsData
  <2> QED
    BY <2>1, <2>4, PadsStay DEF IInv
<1>2. ASSUME NEW t \in Taps, Launch(t) PROVE IInv'
  <2>1. NewStay /\ UNCHANGED toast
    BY <1>2, DialogueKeepsNew DEF Launch, IInv
  <2>2. CASE UNCHANGED pads
    BY <2>1, <2>2, ToastsStay, PadsStay DEF IInv
  <2>3. CASE pads' = Append(pads, NewPad(t, ptc[t]))
    <3> DEFINE pad == NewPad(t, ptc[t])
    <3>1. PICK S : pads \in Seq(S)
      BY DEF IInv
    <3>2. IsPad(pad) /\ IsShuffled(pad.face)
      BY NewPadIsPad
    <3> HIDE DEF pad
    <3>3. pads' = Append(pads, pad)
      BY <2>3 DEF pad
    <3>4. pads' \in Seq(S \cup {pad}) /\ Len(pads') = Len(pads) + 1
      BY <3>1, <3>3
    <3>5. \A m \in 1 .. Len(pads') :
             pads'[m] = IF m = Len(pads) + 1 THEN pad ELSE pads[m]
      BY <3>1, <3>3
    <3>6. PadsAre'
      <4> SUFFICES ASSUME NEW m \in 1 .. Len(pads')
                   PROVE  IsPad(pads'[m]) /\ IsShuffled(pads'[m].face)
        BY DEF PadsAre, IsPad, IsShuffled
      <4>1. m = Len(pads) + 1 \/ m \in 1 .. Len(pads)
        BY <3>1, <3>4
      <4> QED
        BY <4>1, <3>2, <3>5 DEF IInv, PadsAre
    <3> QED
      BY <2>1, <3>4, <3>6, ToastsStay DEF IInv
  <2> QED
    BY <1>2, <2>2, <2>3 DEF Launch
<1>3. ASSUME NEW t \in Taps, Thread(t) PROVE IInv'
  <2>1. CASE Launch(t)
    BY <2>1, <1>2
  <2>2. CASE ~Launch(t)
    <3>1. NewStay /\ UNCHANGED shown
      BY <1>3, <2>2, DialogueKeepsNew DEF Thread, IInv
    <3> QED
      BY <3>1, ToastsStay, PadsStay DEF IInv, shown
  <2> QED
    BY <2>1, <2>2
<1>4. CASE Key
  <2>1. PICK k \in Digits : SetTop([Top EXCEPT !.typed = Append(@, Top.face[k])])
    BY <1>4 DEF Key
  <2>2. pads # << >> /\ Len(Top.typed) < PinLen
    BY <1>4 DEF Key, OnTop
  <2>3. IsPad(Top) /\ IsShuffled(Top.face) /\ Len(pads) \in 1 .. Len(pads)
    BY <2>2, TopIsPad
  <2>4. Append(Top.typed, Top.face[k]) \in Pins
    BY <2>2, <2>3, TypedIsPin DEF IsPad, IsShuffled
  <2> DEFINE pad == [Top EXCEPT !.typed = Append(Top.typed, Top.face[k])]
  <2>5. IsPad(pad) /\ IsShuffled(pad.face)
    BY <2>3, <2>4, TypedIsPad
  <2>6. SetPad(Len(pads), pad)
    BY <2>1 DEF SetTop
  <2> QED
    BY <2>3, <2>5, <2>6, SetPadKeeps
<1>5. CASE Clear
  <2>1. SetPad(Len(pads), [Top EXCEPT !.typed = << >>]) /\ pads # << >>
    BY <1>5 DEF Clear, SetTop, OnTop
  <2>2. IsPad(Top) /\ IsShuffled(Top.face) /\ Len(pads) \in 1 .. Len(pads)
    BY <2>1, TopIsPad
  <2>3. IsPad([Top EXCEPT !.typed = << >>]) /\ IsShuffled([Top EXCEPT !.typed = << >>].face)
    BY <2>2, TypedIsPad, NoneIsPin
  <2> QED
    BY <2>1, <2>2, <2>3, SetPadKeeps
<1>6. CASE OK \/ Back
  <2>1. pads # << >> /\ pads' = Front(pads) /\ UNCHANGED <<pc, toast>>
    BY <1>6 DEF OK, Back, Leaves, OnTop, T!Enter, T!threads
  <2>2. PICK S : pads \in Seq(S)
    BY DEF IInv
  <2>3. pads' \in Seq(S) /\ Len(pads') = Len(pads) - 1
        /\ \A m \in 1 .. Len(pads') : pads'[m] = pads[m]
    BY <2>1, <2>2, FrontOfSeq
  <2>4. PadsAre'
    BY <2>2, <2>3 DEF IInv, PadsAre, IsPad, IsShuffled
  <2> QED
    BY <2>1, <2>3, <2>4 DEF IInv, ToastShowsData
<1>7. CASE RecreatePad
  <2>1. SetPad(Len(pads), NewPad(Top.tap, Top.ptc)) /\ pads # << >>
    BY <1>7 DEF RecreatePad, SetTop, OnTop
  <2>2. Len(pads) \in 1 .. Len(pads)
    BY <2>1, TopIsPad
  <2> QED
    BY <2>1, <2>2, NewPadIsPad, SetPadKeeps
<1>8. CASE Shuffle
  <2>1. PICK n \in DOMAIN pads, b \in Bytes :
           /\ pads[n].left > 0
           /\ SetPad(n, [pads[n] EXCEPT !.face = Swapped(@, pads[n].left, b % (pads[n].left + 1)),
                                        !.left = pads[n].left - 1])
    BY <1>8 DEF Shuffle
  <2>2. n \in 1 .. Len(pads)
    <3>1. PICK S : pads \in Seq(S)
      BY DEF IInv
    <3> QED
      BY <2>1, <3>1
  <2>3. IsPad(pads[n]) /\ IsShuffled(pads[n].face)
    BY <2>2 DEF IInv, PadsAre
  <2> QED
    BY <2>1, <2>2, <2>3, ShuffledIsPad, SetPadKeeps
<1>9. CASE UNCHANGED shown /\ (T!UIThread \/ T!Recreate)
  <2>1. NewStay
    <3>1. CASE Taps = {}
      BY <1>9, <3>1 DEF NewStay, IInv, T!UIThread, T!Recreate, T!Resume, T!SetPin, T!Notify,
           T!Woken, T!threads
    <3>2. CASE Taps # {}
      BY <1>9, <3>2, DialogueKeepsNew DEF IInv
    <3> QED
      BY <3>1, <3>2
  <2> QED
    BY <1>9, <2>1, ToastsStay, PadsStay DEF IInv, shown
<1>10. CASE UNCHANGED vars
  BY <1>10, PadsStay DEF IInv, vars, dialogue, shown, ToastShowsData
<1> QED
  BY <1>1, <1>3, <1>4, <1>5, <1>6, <1>7, <1>8, <1>9, <1>10 DEF Next, UIThread, Rest

LEMMA Invariance == Spec => []IInv
BY InitIInv, StepIInv, PTL DEF Spec

\* Whatever the random bytes are, and however many keys there are, every digit has
\* one key on every pinpad.
THEOREM EveryPinCanBeTyped == Spec => []EveryDigitHasAKey
<1>1. IInv => EveryDigitHasAKey
  <2> SUFFICES ASSUME IInv, NEW n \in DOMAIN pads
               PROVE  \A d \in Digits : \E k \in Digits :
                         pads[n].face[k] = d /\ \A j \in Digits \ {k} : pads[n].face[j] # d
    BY DEF EveryDigitHasAKey
  <2>1. PICK S : pads \in Seq(S)
    BY DEF IInv
  <2>2. n \in 1 .. Len(pads)
    BY <2>1
  <2> QED
    BY <2>2 DEF IInv, PadsAre, IsShuffled
<1> QED
  BY <1>1, Invariance, PTL

\* The toast shows what was encrypted, for data of any length and any key.
THEOREM ToastIsRight == Spec => []ToastShowsData
<1>1. IInv => ToastShowsData
  BY DEF IInv
<1> QED
  BY <1>1, Invariance, PTL

-----------------------------------------------------------------------------
\* The dialogue is implemented

\* What PinTerminal sees of the pinpads.
Mapped == [i \in DOMAIN pads |-> [tap |-> pads[i].tap, ptc |-> pads[i].ptc]]

\* A pinpad that another replaces with the same tap and attempts is not seen to change.
LEMMA SetPadIsHidden ==
    ASSUME IInv, NEW n \in 1 .. Len(pads), NEW pad, SetPad(n, pad),
           pad.tap = pads[n].tap, pad.ptc = pads[n].ptc
    PROVE  Mapped' = Mapped /\ UNCHANGED dialogue
<1>1. PICK S : pads \in Seq(S)
  BY DEF IInv
<1>2. pads' = [pads EXCEPT ![n] = pad] /\ UNCHANGED dialogue
  BY DEF SetPad
<1>3. DOMAIN pads' = DOMAIN pads
  BY <1>2
<1>4. \A i \in DOMAIN pads : pads'[i].tap = pads[i].tap /\ pads'[i].ptc = pads[i].ptc
  BY <1>1, <1>2
<1> QED
  BY <1>2, <1>3, <1>4 DEF Mapped

LEMMA HiddenIsStutter ==
    ASSUME Mapped' = Mapped, UNCHANGED dialogue
    PROVE  UNCHANGED T!vars
BY DEF Mapped, dialogue, T!vars, T!ui, T!threads, T!history

LEMMA StepIsStep == IInv /\ [Next]_vars => [T!Next]_(T!vars)
<1> SUFFICES ASSUME IInv, [Next]_vars PROVE T!Next \/ UNCHANGED T!vars
  OBVIOUS
<1>1. ASSUME NEW t \in Taps, Tap(t) \/ Thread(t) PROVE T!Next
  <2>1. T!Tap(t) \/ T!Thread(t)
    BY <1>1 DEF Tap, Thread, Launch, T!Thread
  <2> QED
    BY <2>1 DEF T!Next
<1>2. ASSUME pads # << >>, NEW pad, SetTop(pad), pad.tap = Top.tap, pad.ptc = Top.ptc
      PROVE  UNCHANGED T!vars
  BY <1>2, TopIsPad, SetPadIsHidden, HiddenIsStutter DEF SetTop, Top
<1>3. CASE Key
  <2>1. PICK k \in Digits : SetTop([Top EXCEPT !.typed = Append(@, Top.face[k])])
    BY <1>3 DEF Key
  <2>2. pads # << >> /\ IsPad(Top)
    BY <1>3, TopIsPad DEF Key, OnTop
  <2> DEFINE pad == [Top EXCEPT !.typed = Append(Top.typed, Top.face[k])]
  <2>3. pad.tap = Top.tap /\ pad.ptc = Top.ptc
    BY <2>2 DEF IsPad
  <2> QED
    BY <1>2, <2>1, <2>2, <2>3
<1>4. CASE Clear
  <2>1. SetTop([Top EXCEPT !.typed = << >>]) /\ pads # << >> /\ IsPad(Top)
    BY <1>4, TopIsPad DEF Clear, OnTop
  <2>2. [Top EXCEPT !.typed = << >>].tap = Top.tap /\ [Top EXCEPT !.typed = << >>].ptc = Top.ptc
    BY <2>1 DEF IsPad
  <2> QED
    BY <1>2, <2>1, <2>2
<1>5. CASE OK \/ Back
  <2>1. T!Enter(Top.typed) \/ T!Enter(<< >>)
    BY <1>5 DEF OK, Back, Leaves
  <2>2. Top.typed \in Pins /\ << >> \in Pins
    BY <1>5, TopIsPad, NoneIsPin DEF OK, Back, Leaves, OnTop, IsPad
  <2>3. CASE T!Enter(Top.typed)
    <3>1. PICK p \in Pins : p = Top.typed
      BY <2>2
    <3>2. T!Enter(p)
      BY <2>3, <3>1 DEF T!Enter
    <3> QED
      BY <3>2 DEF T!Next
  <2>4. CASE T!Enter(<< >>)
    <3>1. \E p \in Pins : T!Enter(p)
      BY <2>2, <2>4, Zenon
    <3> QED
      BY <3>1 DEF T!Next
  <2> QED
    BY <2>1, <2>3, <2>4
<1>6. CASE RecreatePad
  <2>1. SetTop(NewPad(Top.tap, Top.ptc)) /\ pads # << >>
    BY <1>6 DEF RecreatePad, OnTop
  <2>2. NewPad(Top.tap, Top.ptc).tap = Top.tap /\ NewPad(Top.tap, Top.ptc).ptc = Top.ptc
    BY DEF NewPad
  <2> QED
    BY <1>2, <2>1, <2>2
<1>7. CASE Shuffle
  <2>1. PICK n \in DOMAIN pads, b \in Bytes :
           SetPad(n, [pads[n] EXCEPT !.face = Swapped(@, pads[n].left, b % (pads[n].left + 1)),
                                     !.left = pads[n].left - 1])
    BY <1>7 DEF Shuffle
  <2>2. n \in 1 .. Len(pads)
    <3>1. PICK S : pads \in Seq(S)
      BY DEF IInv
    <3> QED
      BY <2>1, <3>1
  <2>3. IsPad(pads[n])
    BY <2>2 DEF IInv, PadsAre
  <2> DEFINE pad == [pads[n] EXCEPT
                       !.face = Swapped(@, pads[n].left, b % (pads[n].left + 1)),
                       !.left = pads[n].left - 1]
  <2>4. pad.tap = pads[n].tap /\ pad.ptc = pads[n].ptc
    BY <2>3, TurnedKeepsTap
  <2> QED
    BY <2>1, <2>2, <2>4, SetPadIsHidden, HiddenIsStutter
<1>8. CASE UNCHANGED shown /\ (T!UIThread \/ T!Recreate)
  BY <1>8 DEF T!Next
<1>9. CASE UNCHANGED vars
  BY <1>9, HiddenIsStutter DEF Mapped, vars, shown
<1> QED
  BY <1>1, <1>3, <1>4, <1>5, <1>6, <1>7, <1>8, <1>9 DEF Next, UIThread, Rest

\* Whatever is pressed, cleared, shuffled or turned, the entry of a PIN is the dialogue
\* of PinTerminal, whose theorems hold of it: for every number of taps, keys and digits.
THEOREM DialogueIsImplemented == Spec => ImplementsPinTerminal
<1>1. Init => T!Init
  BY DEF Init
<1> QED
  BY <1>1, StepIsStep, Invariance, PTL DEF Spec, ImplementsPinTerminal, T!Spec

-----------------------------------------------------------------------------
\* What PinTerminal proves of one transaction at a time

P == INSTANCE PinTerminalProofs WITH
        Empty <- << >>, Spurious <- FALSE,
        pads <- [i \in DOMAIN pads |-> [tap |-> pads[i].tap, ptc |-> pads[i].ptc]]

LEMMA DialogueAssumptions == P!PinsAssumption /\ P!EnvironmentAssumption
<1>1. Right \in Pins /\ Right # << >> /\ << >> \in Pins
  BY EntryAssumption, NoneIsPin
<1>2. P!PinsAssumption
  BY <1>1 DEF P!PinsAssumption
<1>3. P!EnvironmentAssumption
  BY EntryAssumption DEF P!EnvironmentAssumption
<1> QED
  BY <1>2, <1>3

\* The dialogue that is implemented, and the one proved about, are the same.
LEMMA SameInit == T!Init => P!Init
BY DEF T!Init, P!Init, T!Instances, P!Instances

LEMMA SameStutter == UNCHANGED T!vars => UNCHANGED P!vars
BY DEF T!vars, P!vars, T!ui, P!ui, T!threads, P!threads, T!history, P!history

LEMMA SameThread ==
    ASSUME NEW t \in Taps, T!Tap(t) \/ T!Thread(t) \/ T!SpuriousWakeup(t)
    PROVE  P!Tap(t) \/ P!Thread(t) \/ P!SpuriousWakeup(t)
<1>1. T!Tap(t) => P!Tap(t)
  BY DEF T!Tap, P!Tap, T!UIFree, P!UIFree, T!Goto, P!Goto, T!ui, P!ui, T!history, P!history
<1>2. T!ResetPin(t) => P!ResetPin(t)
  BY DEF T!ResetPin, P!ResetPin, T!Goto, P!Goto, T!ui, P!ui, T!history, P!history
<1>3. T!Launch(t) => P!Launch(t)
  BY DEF T!Launch, P!Launch, T!FreeTo, P!FreeTo, T!Ends, P!Ends, T!Goto, P!Goto,
     T!history, P!history
<1>4. T!Await(t) => P!Await(t)
  BY DEF T!Await, P!Await, T!FreeTo, P!FreeTo, T!Goto, P!Goto, T!ui, P!ui, T!history, P!history
<1>5. T!WakeUp(t) => P!WakeUp(t)
  BY DEF T!WakeUp, P!WakeUp, T!FreeTo, P!FreeTo, T!Goto, P!Goto, T!ui, P!ui,
     T!history, P!history
<1>6. T!ReturnPin(t) => P!ReturnPin(t)
  BY DEF T!ReturnPin, P!ReturnPin, T!Ends, P!Ends, T!Goto, P!Goto, T!ui, P!ui,
     T!history, P!history
<1>7. ~T!SpuriousWakeup(t)
  BY DEF T!SpuriousWakeup
<1> QED
  BY <1>1, <1>2, <1>3, <1>4, <1>5, <1>6, <1>7 DEF T!Thread, P!Thread

LEMMA SameEntry == ASSUME NEW p, T!Enter(p) PROVE P!Enter(p)
BY DEF T!Enter, P!Enter, T!UIFree, P!UIFree, T!threads, P!threads, T!Last, P!Last,
   T!Front, P!Front

LEMMA SameUIThread == T!UIThread => P!UIThread
<1>1. T!Resume => P!Resume
  BY DEF T!Resume, P!Resume, T!UIFree, P!UIFree, T!threads, P!threads, T!history, P!history
<1>2. T!SetPin => P!SetPin
  BY DEF T!SetPin, P!SetPin, T!threads, P!threads, T!history, P!history
<1>3. T!Notify => P!Notify
  BY DEF T!Notify, P!Notify, T!Woken, P!Woken, T!history, P!history
<1> QED
  BY <1>1, <1>2, <1>3 DEF T!UIThread, P!UIThread

LEMMA SameStep == [T!Next]_T!vars => [P!Next]_P!vars
<1>1. T!Recreate => P!Recreate
  BY DEF T!Recreate, P!Recreate, T!UIFree, P!UIFree, T!ui, P!ui, T!threads, P!threads,
     T!history, P!history
<1>2. T!Rest => UNCHANGED T!vars
  BY DEF T!Rest
<1> QED
  BY <1>1, <1>2, SameStutter, SameThread, SameEntry, SameUIThread DEF T!Next, P!Next

\* When the user waits for each answer, the answer is what his fingers did, for any
\* number of taps, keys and digits.
THEOREM AnswersAreTyped == Patient => (Spec => []VerdictMatchesEntries)
<1> SUFFICES ASSUME Patient PROVE Spec => []VerdictMatchesEntries
  OBVIOUS
<1>1. Init => P!IInv /\ P!OneAtATime
  BY SameInit, DialogueAssumptions, P!InitInv, P!InitOne DEF Init
<1>2. ASSUME IInv, P!IInv, P!OneAtATime, [Next]_vars PROVE P!IInv' /\ P!OneAtATime'
  <2>1. [P!Next]_P!vars
    BY <1>2, StepIsStep, SameStep
  <2>2. P!IInv'
    BY <1>2, <2>1, DialogueAssumptions, P!StepInv
  <2> QED
    BY <1>2, <2>1, <2>2, DialogueAssumptions, P!StepOne
<1>3. P!OneAtATime => VerdictMatchesEntries
  BY DialogueAssumptions, P!OneIsAnswered DEF VerdictMatchesEntries, T!VerdictMatchesEntries,
     P!VerdictMatchesEntries
<1> QED
  BY <1>1, <1>2, <1>3, Invariance, PTL DEF Spec

-----------------------------------------------------------------------------
\* The amount

\* Induction, on a set of numbers.
LEMMA Inductive ==
    ASSUME NEW n \in Nat, NEW G, 0 \in G, \A m \in 1 .. n : m - 1 \in G => m \in G
    PROVE  \A m \in 0 .. n : m \in G
<1> DEFINE R == OpToRel(<, Nat)
           Others == {m \in 0 .. n : m \notin G}
<1>1. \A x, y \in Nat : y < x => <<y, x>> \in R
  BY DEF OpToRel
<1>2. Others # {} => \E x \in Others : \A y \in Others : ~ (<<y, x>> \in R)
  <2>1. Others \subseteq Nat
    OBVIOUS
  <2> HIDE DEF Others
  <2> QED
    BY <2>1, NatLessThanWellFounded, WFMin
<1> HIDE DEF R
<1>3. SUFFICES ASSUME Others # {} PROVE FALSE
  OBVIOUS
<1>4. PICK x \in Others : \A y \in Others : ~ (<<y, x>> \in R)
  BY <1>2, <1>3
<1>5. x \in 1 .. n /\ x - 1 \in Others
  BY <1>4
<1>6. x \in Nat /\ x - 1 \in Nat /\ x - 1 < x
  BY <1>5
<1>7. <<x - 1, x>> \in R
  BY <1>1, <1>6
<1> QED
  BY <1>4, <1>5, <1>7

\* The values of the first figures, one figure after the other.
Grows(v, base, figures) ==
    /\ v \in [0 .. Len(figures) -> Nat]
    /\ v[0] = 0
    /\ \A n \in 1 .. Len(figures) : v[n] = base * v[n - 1] + figures[n]

LEMMA ValueGrows ==
    ASSUME NEW base \in {10, 100}, NEW figures \in Seq(Nat)
    PROVE  \E v : Grows(v, base, figures) /\ Value(base, figures) = v[Len(figures)]
<1> DEFINE N == Len(figures)
           Known(m) == \E v \in [0 .. m -> Nat] :
                          /\ v[0] = 0
                          /\ \A n \in 1 .. m : v[n] = base * v[n - 1] + figures[n]
           G == {m \in 0 .. N : Known(m)}
<1>1. N \in Nat
  OBVIOUS
<1>2. Known(0)
  <2> DEFINE v == [n \in 0 .. 0 |-> 0]
  <2>1. v \in [0 .. 0 -> Nat] /\ v[0] = 0 /\ 1 .. 0 = {}
    OBVIOUS
  <2> QED
    BY <2>1
<1>3. ASSUME NEW m \in 1 .. N, Known(m - 1) PROVE Known(m)
  <2>1. PICK v \in [0 .. m - 1 -> Nat] :
           v[0] = 0 /\ \A n \in 1 .. m - 1 : v[n] = base * v[n - 1] + figures[n]
    BY <1>3
  <2> DEFINE last == base * v[m - 1] + figures[m]
             w == [n \in 0 .. m |-> IF n = m THEN last ELSE v[n]]
  <2>2. last \in Nat
    <3>1. v[m - 1] \in Nat /\ figures[m] \in Nat
      BY <1>1
    <3> QED
      BY <3>1
  <2> HIDE DEF last
  <2>3. w \in [0 .. m -> Nat] /\ w[0] = 0
    BY <2>1, <2>2
  <2>4. ASSUME NEW n \in 1 .. m PROVE w[n] = base * w[n - 1] + figures[n]
    <3>1. w[n - 1] = v[n - 1]
      OBVIOUS
    <3>2. CASE n = m
      <4>1. w[n] = last
        BY <3>2
      <4> QED
        BY <3>1, <3>2, <4>1 DEF last
    <3>3. CASE n # m
      <4>1. n \in 1 .. m - 1 /\ w[n] = v[n]
        BY <3>3
      <4>2. v[n] = base * v[n - 1] + figures[n]
        BY <2>1, <4>1
      <4> HIDE DEF w
      <4> QED
        BY <3>1, <4>1, <4>2
    <3> QED
      BY <3>2, <3>3
  <2> QED
    BY <2>3, <2>4
<1> HIDE DEF Known
<1>4. 0 \in G /\ \A m \in 1 .. N : m - 1 \in G => m \in G
  BY <1>1, <1>2, <1>3
<1>5. N \in G
  <2> HIDE DEF G, N
  <2>1. \A m \in 0 .. N : m \in G
    BY <1>1, <1>4, Inductive
  <2> QED
    BY <1>1, <2>1
<1>6. PICK v : Grows(v, base, figures)
  BY <1>5 DEF Known, Grows
<1> DEFINE Filled(f) == [n \in 0 .. N |-> IF n = 0 THEN 0 ELSE base * f[n - 1] + figures[n]]
           value == CHOOSE f : f = Filled(f)
<1>7. Value(base, figures) = value[N]
  BY DEF Value
<1>8. \A f : \A n \in 0 .. N : Filled(f)[n] = IF n = 0 THEN 0 ELSE base * f[n - 1] + figures[n]
  OBVIOUS
<1>9. v = Filled(v)
  <2>1. /\ v \in [0 .. N -> Nat] /\ v[0] = 0
        /\ \A n \in 1 .. N : v[n] = base * v[n - 1] + figures[n]
    BY <1>6 DEF Grows
  <2>2. \A n \in 0 .. N : v[n] = IF n = 0 THEN 0 ELSE base * v[n - 1] + figures[n]
    BY <1>1, <2>1
  <2> HIDE DEF N
  <2> QED
    BY <2>1, <2>2
<1> HIDE DEF Filled
<1>10. value = Filled(value)
  BY <1>9
<1> HIDE DEF value
<1>11. value[N] = v[N]
  <2> DEFINE Same == {n \in 0 .. N : value[n] = v[n]}
  <2>1. v[0] = 0 /\ \A n \in 1 .. N : v[n] = base * v[n - 1] + figures[n]
    BY <1>6 DEF Grows
  <2> HIDE DEF N
  <2>2. 0 \in Same
    BY <1>1, <1>8, <1>10, <2>1
  <2>3. \A m \in 1 .. N : m - 1 \in Same => m \in Same
    BY <1>1, <1>8, <1>10, <2>1
  <2> HIDE DEF Same
  <2>4. \A m \in 0 .. N : m \in Same
    BY <1>1, <2>2, <2>3, Inductive
  <2> QED
    BY <1>1, <2>4 DEF Same
<1> QED
  BY <1>6, <1>7, <1>11

\* Two characters for each byte, each a digit when the byte is of two.
LEMMA CharsAre ==
    ASSUME NEW trd \in Seq(Byte), Len(trd) = 9
    PROVE  /\ Chars(trd) \in [1 .. 12 -> 0 .. 15]
           /\ \A j \in 1 .. 6 : /\ Chars(trd)[2 * j - 1] = trd[j + 3] \div 16
                                /\ Chars(trd)[2 * j] = trd[j + 3] % 16
           /\ (\E i \in 1 .. 12 : Chars(trd)[i] > 9) <=> ~ \A i \in 4 .. 9 : Decimal(trd[i])
<1> DEFINE chars == Chars(trd)
           hi(j) == trd[j + 3] \div 16
           lo(j) == trd[j + 3] % 16
<1>1. ASSUME NEW j \in 1 .. 6
      PROVE  /\ j + 3 \in 4 .. 9 /\ trd[j + 3] \in 0 .. 255
             /\ hi(j) \in 0 .. 15 /\ lo(j) \in 0 .. 15
  <2>1. j + 3 \in 4 .. 9 /\ j + 3 \in 1 .. 9
    OBVIOUS
  <2>2. trd[j + 3] \in Byte
    BY <2>1, ElementOfSeq
  <2>3. \A x \in 0 .. 255 : x \div 16 \in 0 .. 15 /\ x % 16 \in 0 .. 15
    OBVIOUS
  <2> QED
    BY <2>1, <2>2, <2>3 DEF Byte
<1>2. ASSUME NEW j \in 1 .. 6 PROVE chars[2 * j - 1] = hi(j) /\ chars[2 * j] = lo(j)
  <2>1. 2 * j - 1 \in 1 .. 12 /\ (2 * j - 1) % 2 = 1 /\ 4 + (2 * j - 1 - 1) \div 2 = j + 3
    OBVIOUS
  <2>2. 2 * j \in 1 .. 12 /\ (2 * j) % 2 # 1 /\ 4 + (2 * j - 1) \div 2 = j + 3
    OBVIOUS
  <2> QED
    BY <2>1, <2>2 DEF Chars
<1>3. ASSUME NEW i \in 1 .. 12 PROVE \E j \in 1 .. 6 : i = 2 * j - 1 \/ i = 2 * j
  <2>1. (i + 1) \div 2 \in 1 .. 6
        /\ (i = 2 * ((i + 1) \div 2) - 1 \/ i = 2 * ((i + 1) \div 2))
    OBVIOUS
  <2> QED
    BY <2>1
<1>8. ASSUME NEW j \in 1 .. 6
      PROVE  ~Decimal(trd[j + 3]) <=> hi(j) > 9 \/ lo(j) > 9
  <2>1. \A n \in 0 .. 255 : ~Decimal(n) <=> n \div 16 > 9 \/ n % 16 > 9
    BY DEF Decimal
  <2> QED
    BY <1>1, <2>1
<1> HIDE DEF hi, lo
<1>4. chars \in [1 .. 12 -> 0 .. 15]
  <2>1. chars = [i \in 1 .. 12 |-> chars[i]]
    BY DEF Chars
  <2> HIDE DEF chars
  <2>2. \A i \in 1 .. 12 : chars[i] \in 0 .. 15
    BY <1>1, <1>2, <1>3
  <2> QED
    BY <2>1, <2>2
<1> HIDE DEF chars
<1>5. ASSUME NEW i \in 1 .. 12, chars[i] > 9 PROVE \E m \in 4 .. 9 : ~Decimal(trd[m])
  <2>1. PICK j \in 1 .. 6 : i = 2 * j - 1 \/ i = 2 * j
    BY <1>3
  <2>2. hi(j) > 9 \/ lo(j) > 9
    BY <1>2, <1>5, <2>1
  <2>3. ~Decimal(trd[j + 3])
    BY <1>8, <2>2
  <2> QED
    BY <1>1, <2>3
<1>6. ASSUME NEW m \in 4 .. 9, ~Decimal(trd[m]) PROVE \E i \in 1 .. 12 : chars[i] > 9
  <2>1. PICK j \in 1 .. 6 : m = j + 3
    <3>1. m - 3 \in 1 .. 6 /\ m = m - 3 + 3
      OBVIOUS
    <3> QED
      BY <3>1
  <2>2. hi(j) > 9 \/ lo(j) > 9
    <3>1. ~Decimal(trd[j + 3])
      BY <1>6, <2>1
    <3> QED
      BY <1>8, <3>1
  <2>3. 2 * j - 1 \in 1 .. 12 /\ 2 * j \in 1 .. 12
    OBVIOUS
  <2> QED
    BY <1>2, <2>2, <2>3
<1>7. \A j \in 1 .. 6 : chars[2 * j - 1] = trd[j + 3] \div 16 /\ chars[2 * j] = trd[j + 3] % 16
  BY <1>2 DEF hi, lo
<1> QED
  BY <1>4, <1>5, <1>6, <1>7 DEF chars

LEMMA Figures ==
    /\ \A f \in [1 .. 12 -> Nat] : f \in Seq(Nat) /\ Len(f) = 12
    /\ \A f \in [1 .. 6 -> Nat] : f \in Seq(Nat) /\ Len(f) = 6
<1>1. ASSUME NEW n \in {6, 12}, NEW f \in [1 .. n -> Nat] PROVE f \in Seq(Nat) /\ Len(f) = n
  OBVIOUS
<1> QED
  BY <1>1

\* Twelve digits are worth what six pairs of them are.
LEMMA PairsOfDigits ==
    ASSUME NEW ds \in [1 .. 12 -> Nat], NEW pairs \in [1 .. 6 -> Nat],
           \A j \in 1 .. 6 : pairs[j] = 10 * ds[2 * j - 1] + ds[2 * j]
    PROVE  Value(10, ds) = Value(100, pairs)
<1>1. /\ ds \in Seq(Nat) /\ Len(ds) = 12 /\ pairs \in Seq(Nat) /\ Len(pairs) = 6
      /\ 10 \in {10, 100} /\ 100 \in {10, 100}
  BY Figures
<1>2. PICK v : Grows(v, 10, ds) /\ Value(10, ds) = v[12]
  BY <1>1, ValueGrows
<1>3. PICK w : Grows(w, 100, pairs) /\ Value(100, pairs) = w[6]
  BY <1>1, ValueGrows
<1>4. /\ v \in [0 .. 12 -> Nat] /\ v[0] = 0
      /\ \A n \in 1 .. 12 : v[n] = 10 * v[n - 1] + ds[n]
  BY <1>1, <1>2 DEF Grows
<1>5. /\ w \in [0 .. 6 -> Nat] /\ w[0] = 0
      /\ \A n \in 1 .. 6 : w[n] = 100 * w[n - 1] + pairs[n]
  BY <1>1, <1>3 DEF Grows
<1> DEFINE G == {j \in 0 .. 6 : v[2 * j] = w[j]}
<1>6. 0 \in G
  BY <1>4, <1>5
<1>7. ASSUME NEW j \in 1 .. 6, j - 1 \in G PROVE j \in G
  <2>1. v[2 * (j - 1)] = w[j - 1] /\ w[j - 1] \in Nat
    BY <1>5, <1>7
  <2>2. v[2 * j - 1] = 10 * v[2 * (j - 1)] + ds[2 * j - 1]
    <3>1. 2 * j - 1 \in 1 .. 12 /\ 2 * j - 1 - 1 = 2 * (j - 1)
      OBVIOUS
    <3> QED
      BY <1>4, <3>1
  <2>3. v[2 * j] = 10 * v[2 * j - 1] + ds[2 * j]
    <3>1. 2 * j \in 1 .. 12
      OBVIOUS
    <3> QED
      BY <1>4, <3>1
  <2>4. ds[2 * j - 1] \in Nat /\ ds[2 * j] \in Nat
    <3>1. 2 * j - 1 \in 1 .. 12 /\ 2 * j \in 1 .. 12
      OBVIOUS
    <3> QED
      BY <3>1
  <2>5. w[j] = 100 * w[j - 1] + (10 * ds[2 * j - 1] + ds[2 * j])
    BY <1>5
  <2>6. \A x, h, l \in Nat : 10 * (10 * x + h) + l = 100 * x + (10 * h + l)
    OBVIOUS
  <2>7. v[2 * j] = w[j]
    BY <2>1, <2>2, <2>3, <2>4, <2>5, <2>6
  <2> QED
    BY <2>7
<1> HIDE DEF G
<1>8. \A j \in 0 .. 6 : j \in G
  BY <1>6, <1>7, Inductive
<1>9. v[2 * 6] = w[6]
  BY <1>8 DEF G
<1> QED
  BY <1>2, <1>3, <1>9

\* Zeros in front are worth nothing: leave k - 1 of them out, or all there are.
LEMMA ZerosLead ==
    ASSUME NEW ds \in [1 .. 12 -> Nat], NEW k \in 1 .. 12, \A i \in 1 .. k - 1 : ds[i] = 0
    PROVE  /\ Value(10, SubSeq(ds, k, 12)) = Value(10, ds)
           /\ ds[12] = 0 /\ k = 12 => Value(10, ds) = 0
<1> DEFINE rest == SubSeq(ds, k, 12)
<1>1. ds \in Seq(Nat) /\ Len(ds) = 12 /\ 10 \in {10, 100}
  BY Figures
<1>2. rest \in Seq(Nat) /\ Len(rest) = 13 - k /\ \A i \in 1 .. 13 - k : rest[i] = ds[k - 1 + i]
  <2>1. /\ rest \in Seq(Nat)
        /\ Len(rest) = IF k <= 12 THEN 12 - k + 1 ELSE 0
        /\ \A i \in 1 .. 12 - k + 1 : rest[i] = ds[k + i - 1]
    <3>1. k \in Int /\ 12 \in Int /\ \A i \in k .. 12 : ds[i] \in Nat
      OBVIOUS
    <3> QED
      BY <3>1, SubSeqProperties
  <2>2. 12 - k + 1 = 13 - k /\ \A i \in 1 .. 13 - k : k + i - 1 = k - 1 + i
    OBVIOUS
  <2> HIDE DEF rest
  <2> QED
    BY <2>1, <2>2
<1>3. PICK v : Grows(v, 10, ds) /\ Value(10, ds) = v[12]
  BY <1>1, ValueGrows
<1> HIDE DEF rest
<1>4. PICK w : Grows(w, 10, rest) /\ Value(10, rest) = w[13 - k]
  BY <1>1, <1>2, ValueGrows
<1>5. /\ v \in [0 .. 12 -> Nat] /\ v[0] = 0
      /\ \A n \in 1 .. 12 : v[n] = 10 * v[n - 1] + ds[n]
  BY <1>1, <1>3 DEF Grows
<1>6. /\ w \in [0 .. 13 - k -> Nat] /\ w[0] = 0
      /\ \A n \in 1 .. 13 - k : w[n] = 10 * w[n - 1] + ds[k - 1 + n]
  BY <1>2, <1>4 DEF Grows
<1>7. v[k - 1] = 0
  <2> DEFINE Z == {i \in 0 .. k - 1 : v[i] = 0}
  <2>1. k - 1 \in Nat /\ 0 \in Z
    BY <1>5
  <2>2. ASSUME NEW i \in 1 .. k - 1, i - 1 \in Z PROVE i \in Z
    <3>1. i \in 1 .. 12 /\ v[i - 1] = 0 /\ ds[i] = 0
      BY <2>2
    <3>2. v[i] = 10 * v[i - 1] + ds[i]
      BY <1>5, <3>1
    <3>3. v[i] = 0
      BY <3>1, <3>2
    <3> QED
      BY <3>3
  <2> HIDE DEF Z
  <2>3. \A i \in 0 .. k - 1 : i \in Z
    BY <2>1, <2>2, Inductive
  <2> QED
    BY <2>1, <2>3 DEF Z
<1> DEFINE G == {m \in 0 .. 13 - k : w[m] = v[k - 1 + m]}
<1>8. 13 - k \in Nat /\ 0 \in G
  <2>1. k - 1 + 0 = k - 1 /\ 0 \in 0 .. 13 - k
    OBVIOUS
  <2>2. w[0] = v[k - 1 + 0]
    BY <1>6, <1>7, <2>1
  <2> QED
    BY <2>1, <2>2
<1>9. ASSUME NEW m \in 1 .. 13 - k, m - 1 \in G PROVE m \in G
  <2>1. w[m - 1] = v[k - 1 + m - 1]
    BY <1>9
  <2>2. v[k - 1 + m] = 10 * v[k - 1 + m - 1] + ds[k - 1 + m]
    <3> DEFINE n == k - 1 + m
    <3>1. n \in 1 .. 12 /\ k - 1 + m - 1 = n - 1
      OBVIOUS
    <3> HIDE DEF n, G
    <3>2. v[n] = 10 * v[n - 1] + ds[n]
      BY <1>5, <3>1
    <3> QED
      BY <3>1, <3>2 DEF n
  <2>3. w[m] = 10 * w[m - 1] + ds[k - 1 + m]
    BY <1>6
  <2>4. w[m] = v[k - 1 + m]
    BY <2>1, <2>2, <2>3
  <2> QED
    BY <2>4
<1> HIDE DEF G
<1>10. \A m \in 0 .. 13 - k : m \in G
  BY <1>8, <1>9, Inductive
<1>11. w[13 - k] = v[12]
  <2>1. 13 - k \in G /\ k - 1 + (13 - k) = 12
    BY <1>8, <1>10
  <2> QED
    BY <2>1 DEF G
<1>12. ds[12] = 0 /\ k = 12 => v[12] = 0
  BY <1>5, <1>7
<1> QED
  BY <1>3, <1>4, <1>11, <1>12 DEF rest

\* The first digit that is not 0, if there is one.
LEMMA FirstOf ==
    ASSUME NEW S \in SUBSET (1 .. 12), S # {}
    PROVE  \E i \in S : \A j \in S : i <= j
<1> DEFINE G == {m \in 0 .. 12 : \A i \in 1 .. m : i \notin S}
<1> SUFFICES ASSUME \A i \in S : \E j \in S : j < i PROVE FALSE
  OBVIOUS
<1>1. 0 \in G
  OBVIOUS
<1>2. ASSUME NEW m \in 1 .. 12, m - 1 \in G PROVE m \in G
  <2>1. \A i \in 1 .. m - 1 : i \notin S
    BY <1>2
  <2>2. m \notin S
    BY <2>1
  <2> QED
    BY <2>1, <2>2
<1> HIDE DEF G
<1>3. \A m \in 0 .. 12 : m \in G
  BY <1>1, <1>2, Inductive
<1>4. 12 \in G
  BY <1>3
<1> QED
  BY <1>4 DEF G

LEMMA ZeroIsNothing == Value(10, <<0>>) = 0
<1>1. <<0>> \in Seq(Nat) /\ Len(<<0>>) = 1 /\ <<0>>[1] = 0 /\ 10 \in {10, 100}
  OBVIOUS
<1>2. PICK v : Grows(v, 10, <<0>>) /\ Value(10, <<0>>) = v[1]
  BY <1>1, ValueGrows
<1> QED
  BY <1>1, <1>2 DEF Grows

\* DecimalFormat shows what the bytes say.
LEMMA AmountIsAsked ==
    ASSUME NEW trd \in Seq(Byte), Len(trd) = 9
    PROVE  Number(AmountOf(Chars(trd))) = Asked(trd)
<1> DEFINE chars == Chars(trd)
           significant == {i \in 1 .. 12 : chars[i] # 0}
           pairs == [n \in 1 .. 6 |-> 10 * (trd[n + 3] \div 16) + (trd[n + 3] % 16)]
<1>1. /\ chars \in [1 .. 12 -> 0 .. 15]
      /\ \A j \in 1 .. 6 : chars[2 * j - 1] = trd[j + 3] \div 16 /\ chars[2 * j] = trd[j + 3] % 16
      /\ (\E i \in 1 .. 12 : chars[i] > 9) <=> ~ \A i \in 4 .. 9 : Decimal(trd[i])
  BY CharsAre
<1>2. CASE \E i \in 1 .. 12 : chars[i] > 9
  <2>1. AmountOf(chars) = <<0>>
    BY <1>2 DEF AmountOf
  <2>2. Asked(trd) = 0
    BY <1>1, <1>2 DEF Asked
  <2> QED
    BY <2>1, <2>2, ZeroIsNothing DEF Number
<1>3. CASE ~ \E i \in 1 .. 12 : chars[i] > 9
  <2>1. Asked(trd) = Value(100, pairs)
    BY <1>1, <1>3 DEF Asked
  <2>2. chars \in [1 .. 12 -> Nat]
    <3> HIDE DEF chars
    <3>1. \A i \in 1 .. 12 : chars[i] \in Nat
      BY <1>1
    <3> QED
      BY <1>1, <3>1
  <2>3. ASSUME NEW j \in 1 .. 6
        PROVE  pairs[j] = 10 * chars[2 * j - 1] + chars[2 * j] /\ pairs[j] \in Nat
    <3>1. 2 * j - 1 \in 1 .. 12 /\ 2 * j \in 1 .. 12
      OBVIOUS
    <3>2. pairs[j] = 10 * (trd[j + 3] \div 16) + (trd[j + 3] % 16)
      OBVIOUS
    <3>3. pairs[j] = 10 * chars[2 * j - 1] + chars[2 * j]
      <4>1. chars[2 * j - 1] = trd[j + 3] \div 16 /\ chars[2 * j] = trd[j + 3] % 16
        BY <1>1
      <4> HIDE DEF pairs, chars
      <4> QED
        BY <3>2, <4>1, Zenon
    <3> HIDE DEF pairs, chars
    <3>4. chars[2 * j - 1] \in Nat /\ chars[2 * j] \in Nat
      BY <2>2, <3>1
    <3> QED
      BY <3>3, <3>4
  <2>4. pairs \in [1 .. 6 -> Nat]
    BY <2>3
  <2> HIDE DEF chars, pairs
  <2>5. Asked(trd) = Value(10, chars)
    BY <2>1, <2>2, <2>3, <2>4, PairsOfDigits
  <2>6. CASE significant = {}
    <3>1. AmountOf(chars) = <<0>>
      BY <2>6 DEF AmountOf
    <3>2. 12 \in 1 .. 12 /\ chars[12] = 0 /\ \A i \in 1 .. 12 - 1 : chars[i] = 0
      BY <2>6
    <3>3. Value(10, chars) = 0
      BY <2>2, <3>2, ZerosLead
    <3> QED
      BY <2>5, <3>1, <3>3, ZeroIsNothing DEF Number, chars
  <2>7. CASE significant # {}
    <3> DEFINE k == CHOOSE i \in significant : \A j \in significant : i <= j
    <3>1. AmountOf(chars) = SubSeq(chars, k, 12)
      BY <1>3, <2>7 DEF AmountOf
    <3>2. k \in significant /\ \A j \in significant : k <= j
      <4>1. significant \in SUBSET (1 .. 12)
        OBVIOUS
      <4> HIDE DEF significant
      <4>2. \E i \in significant : \A j \in significant : i <= j
        BY <2>7, <4>1, FirstOf
      <4> QED
        BY <4>2
    <3> HIDE DEF k
    <3>3. k \in 1 .. 12 /\ \A i \in 1 .. k - 1 : chars[i] = 0
      BY <3>2
    <3>4. Value(10, SubSeq(chars, k, 12)) = Value(10, chars)
      BY <2>2, <3>3, ZerosLead
    <3> QED
      BY <2>5, <3>1, <3>4 DEF Number, chars
  <2> QED
    BY <2>6, <2>7
<1> QED
  BY <1>2, <1>3

\* The amount of each pinpad is made of the record of its tap.
AmountsAreMade ==
    \A n \in 1 .. Len(pads) :
        /\ pads[n].tap \in Taps
        /\ pads[n].amount = AmountOf(Chars(Input[pads[n].tap].trd))

LEMMA NewPadHasAmount ==
    ASSUME NEW t \in Taps, NEW attempts
    PROVE  /\ NewPad(t, attempts).tap \in Taps
           /\ NewPad(t, attempts).amount = AmountOf(Chars(Input[NewPad(t, attempts).tap].trd))
BY DEF NewPad

\* A pinpad that is touched is for the tap and the amount it was for.
LEMMA SetPadKeepsAmounts ==
    ASSUME IInv, AmountsAreMade, NEW n \in 1 .. Len(pads), NEW pad, SetPad(n, pad),
           pad.tap \in Taps, pad.amount = AmountOf(Chars(Input[pad.tap].trd))
    PROVE  AmountsAreMade'
<1>1. PICK S : pads \in Seq(S)
  BY DEF IInv
<1>2. pads' = [pads EXCEPT ![n] = pad]
  BY DEF SetPad
<1>3. Len(pads') = Len(pads) /\ \A i \in 1 .. Len(pads) :
         pads'[i] = IF i = n THEN pad ELSE pads[i]
  BY <1>1, <1>2
<1> QED
  BY <1>3 DEF AmountsAreMade

\* Every step keeps it.
LEMMA StepKeepsAmounts ==
    ASSUME IInv, AmountsAreMade, [Next]_vars
    PROVE  AmountsAreMade'
<1>1. PICK S : pads \in Seq(S)
  BY DEF IInv
<1>2. CASE UNCHANGED pads
  BY <1>2 DEF AmountsAreMade
<1>3. ASSUME NEW t \in Taps, Launch(t) PROVE AmountsAreMade'
  <2>1. CASE pads' = Append(pads, NewPad(t, ptc[t]))
    <3> DEFINE pad == NewPad(t, ptc[t])
    <3>1. pad.tap \in Taps /\ pad.amount = AmountOf(Chars(Input[pad.tap].trd))
      BY NewPadHasAmount
    <3> HIDE DEF pad
    <3>2. Len(pads') = Len(pads) + 1 /\ \A i \in 1 .. Len(pads) + 1 :
             pads'[i] = IF i = Len(pads) + 1 THEN pad ELSE pads[i]
      <4> DEFINE R == S \cup {pad}
      <4>1. pads \in Seq(R) /\ pad \in R
        BY <1>1
      <4> HIDE DEF R
      <4>2. pads' = Append(pads, pad)
        BY <2>1 DEF pad
      <4> QED
        BY <4>1, <4>2, AppendProperties
    <3> QED
      BY <1>1, <3>1, <3>2 DEF AmountsAreMade
  <2> QED
    BY <1>2, <1>3, <2>1 DEF Launch
<1>4. ASSUME OnTop
      PROVE  /\ Len(pads) \in 1 .. Len(pads) /\ IsPad(Top) /\ Top.tap \in Taps
             /\ Top.amount = AmountOf(Chars(Input[Top.tap].trd))
  <2>1. Len(pads) \in 1 .. Len(pads) /\ IsPad(Top)
    <3>1. pads # << >>
      BY <1>4 DEF OnTop
    <3> QED
      BY <1>1, <3>1, TopIsPad
  <2> QED
    BY <2>1 DEF AmountsAreMade, Top
<1>5. CASE Key
  <2>1. PICK k \in Digits : SetTop([Top EXCEPT !.typed = Append(@, Top.face[k])])
    BY <1>5 DEF Key
  <2> DEFINE pad == [Top EXCEPT !.typed = Append(Top.typed, Top.face[k])]
  <2>2. pad.tap = Top.tap /\ pad.amount = Top.amount
    BY <1>4, <1>5 DEF Key, IsPad
  <2> QED
    BY <1>4, <1>5, <2>1, <2>2, SetPadKeepsAmounts DEF Key, SetTop
<1>6. CASE Clear
  <2> DEFINE pad == [Top EXCEPT !.typed = << >>]
  <2>1. pad.tap = Top.tap /\ pad.amount = Top.amount
    BY <1>4, <1>6 DEF Clear, IsPad
  <2> QED
    BY <1>4, <1>6, <2>1, SetPadKeepsAmounts DEF Clear, SetTop
<1>7. CASE RecreatePad
  BY <1>4, <1>7, NewPadHasAmount, SetPadKeepsAmounts DEF RecreatePad, SetTop
<1>8. CASE Shuffle
  <2>1. PICK n \in DOMAIN pads, b \in Bytes :
           SetPad(n, [pads[n] EXCEPT !.face = Swapped(@, pads[n].left, b % (pads[n].left + 1)),
                                     !.left = pads[n].left - 1])
    BY <1>8 DEF Shuffle
  <2>2. n \in 1 .. Len(pads)
    BY <1>1, <2>1
  <2> DEFINE pad == [pads[n] EXCEPT !.face = Swapped(@, pads[n].left, b % (pads[n].left + 1)),
                                    !.left = pads[n].left - 1]
  <2>3. IsPad(pads[n])
    BY <2>2 DEF IInv, PadsAre
  <2>4. pad.tap = pads[n].tap /\ pad.amount = pads[n].amount
    BY <2>3 DEF IsPad
  <2>5. pad.tap \in Taps /\ pad.amount = AmountOf(Chars(Input[pad.tap].trd))
    BY <2>2, <2>4 DEF AmountsAreMade
  <2> HIDE DEF pad
  <2>6. SetPad(n, pad)
    BY <2>1 DEF pad
  <2> QED
    BY <2>2, <2>5, <2>6, SetPadKeepsAmounts
<1>9. CASE OK \/ Back
  <2>1. pads # << >> /\ pads' = Front(pads)
    BY <1>9 DEF OK, Back, Leaves, OnTop
  <2>2. Len(pads') = Len(pads) - 1 /\ \A i \in 1 .. Len(pads) - 1 : pads'[i] = pads[i]
    BY <1>1, <2>1, FrontOfSeq
  <2> QED
    BY <1>1, <2>2 DEF AmountsAreMade
<1> QED
  BY <1>2, <1>3, <1>5, <1>6, <1>7, <1>8, <1>9
     DEF Next, Tap, Thread, UIThread, Rest, vars, shown

\* Every pinpad asks for the amount of the record of its own tap, whatever its bytes.
THEOREM AmountsAreShown == Spec => []AmountShownIsAsked
<1>1. Init => AmountsAreMade
  BY DEF Init, AmountsAreMade
<1>2. IInv /\ AmountsAreMade => AmountShownIsAsked
  <2> SUFFICES ASSUME IInv, AmountsAreMade, NEW n \in DOMAIN pads
               PROVE  Number(pads[n].amount) = Asked(Input[pads[n].tap].trd)
    BY DEF AmountShownIsAsked
  <2>1. n \in 1 .. Len(pads)
    BY DEF IInv
  <2>2. pads[n].tap \in Taps /\ pads[n].amount = AmountOf(Chars(Input[pads[n].tap].trd))
    BY <2>1 DEF AmountsAreMade
  <2>3. Input[pads[n].tap].trd \in Seq(Byte) /\ Len(Input[pads[n].tap].trd) = 9
    BY <2>2, EntryAssumption
  <2> QED
    BY <2>2, <2>3, AmountIsAsked
<1>3. IInv /\ AmountsAreMade /\ [Next]_vars => AmountsAreMade'
  BY StepKeepsAmounts
<1> QED
  BY <1>1, <1>2, <1>3, Invariance, PTL DEF Spec
=============================================================================
