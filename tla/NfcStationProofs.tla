-------------------------- MODULE NfcStationProofs --------------------------
(***************************************************************************)
(* A chip is only ever written with what was computed from a balance that  *)
(* was compared first, so it never holds less than nothing; and a write    *)
(* that is torn has charged it or not, because the balance is in one       *)
(* block, whatever is left of the name in the two others (IInv).           *)
(*                                                                         *)
(* An action that runs alone, in a world without failures, has told the    *)
(* backend at each label, and at each statement of its request, exactly as *)
(* much as Told says: so what it ends with is booked (Tale).               *)
(***************************************************************************)
EXTENDS NfcStation, FiniteSetTheorems, TLAPS

GoodChips == [magic : BOOLEAN, bal : Nat, lo : Halves, hi : Halves]
Reading == {"await", "readUid", "readBlocks"}
Writing == {"awaitWrite", "write"}
Asking == {"authorize", "post", "put", "create"}

Shape ==
    /\ chips \in [Uids -> GoodChips] /\ field \in Uids \cup {None}
    /\ step \in [Buttons -> Steps]
    /\ DOMAIN job = Buttons /\ DOMAIN mem = Buttons /\ DOMAIN asked = Buttons

IsMemory(m) ==
    m = [uid |-> m.uid, data |-> m.data, want |-> m.want,
         tries |-> m.tries, card |-> m.card, row |-> m.row]

\* What an action in progress has.
Ready(b) ==
    /\ IsMemory(mem[b])
    /\ step[b] \notin Resting => job[b] \in Jobs
    /\ step[b] \in Writing => mem[b].data \in GoodChips
    /\ asked[b] = TRUE => step[b] \in Asking

\* The record of a lone action: only its button works, and the reader has its card.
Recorded ==
    alone # None =>
        /\ alone \in [button : Buttons, on : {field}, smooth : BOOLEAN,
                      chips : [Uids -> GoodChips],
                      cards : {alone.cards}, journal : {alone.journal}]
        /\ job[alone.button] \in Jobs
        /\ \A b \in Buttons : step[b] \notin Resting => b = alone.button

\* Until it writes, the chips are as it found them, and what it is to write is made
\* from what was there.
Unwritten(label, m) ==
    /\ label \in Reading /\ m.want = None => chips = alone.chips
    /\ label \in Writing =>
        /\ field # None /\ chips = alone.chips
        /\ m.data = Patched(job[alone.button], chips[field])

Lone == alone # None => Unwritten(step[alone.button], mem[alone.button])

IInv == Shape /\ (\A b \in Buttons : Ready(b)) /\ Recorded /\ Lone /\ ChipIsChargedOnce

-----------------------------------------------------------------------------
\* Chips

LEMMA JobTypes ==
    ASSUME NEW j \in Jobs
    PROVE  /\ j.op \in {"read", "register", "pay", "topUp"}
           /\ j.op = "register" => j.name \in Names /\ j.bal \in Nat
           /\ j.op \in {"pay", "topUp"} => j.amt \in Nat
BY StationAssumption DEF AllJobs

\* What is written on a chip can be there.
LEMMA BlocksGood ==
    ASSUME NEW name \in Names, NEW bal \in Nat
    PROVE  Blocks(name, bal) \in GoodChips
<1>1. Encoded[name] \in Halves \X Halves BY NamesAssumption
<1>2. Encoded[name][1] \in Halves /\ Encoded[name][2] \in Halves BY <1>1
<1> QED BY <1>2 DEF Blocks, GoodChips

LEMMA OwnerNameType ==
    ASSUME NEW d \in GoodChips
    PROVE  OwnerName(d) \in Names
<1>1. d.lo \in Halves /\ d.hi \in Halves BY DEF GoodChips
<1>2. <<d.lo, d.hi>> \in Halves \X Halves BY <1>1
<1> QED BY <1>2, NamesAssumption DEF OwnerName

\* A chip a job permits is patched to one whose balance is not negative.
LEMMA PatchedGood ==
    ASSUME NEW j \in Jobs, NEW d \in GoodChips, Permits(j, d)
    PROVE  Patched(j, d) \in GoodChips
<1>1. CASE j.op = "register" BY <1>1, JobTypes, BlocksGood DEF Patched
<1>2. CASE j.op = "pay"
  <2>1. d.bal >= j.amt /\ j.amt \in Nat BY <1>2, JobTypes DEF Permits
  <2>2. d.bal - j.amt \in Nat BY <2>1 DEF GoodChips
  <2> QED BY <1>2, <2>2, OwnerNameType, BlocksGood DEF Patched
<1>3. CASE j.op = "topUp"
  <2>1. d.bal + j.amt \in Nat BY <1>3, JobTypes DEF GoodChips
  <2> QED BY <1>3, <2>1, OwnerNameType, BlocksGood DEF Patched
<1>4. CASE j.op = "read" BY <1>4 DEF Patched
<1> QED BY <1>1, <1>2, <1>3, <1>4, JobTypes

LEMMA WrittenGood ==
    ASSUME NEW d \in GoodChips, NEW e \in GoodChips, NEW n \in 0 .. 3
    PROVE  Written(d, e, n) \in GoodChips
BY DEF Written, GoodChips

\* A write that ends before its first block leaves the chip as it was.
LEMMA NothingWritten ==
    ASSUME NEW d \in GoodChips, NEW e
    PROVE  Written(d, e, 0) = d
<1>1. Written(d, e, 0) = [magic |-> d.magic, bal |-> d.bal, lo |-> d.lo, hi |-> d.hi]
  BY DEF Written
<1> QED BY <1>1 DEF GoodChips

-----------------------------------------------------------------------------
\* Steps of the page that write nothing on a chip

\* What the record of a lone action keeps when something fails, or nothing does.
LEMMA RecordKept ==
    ASSUME Recorded, alone # None, Smoothly \/ Roughly, alone' # None, field' = field
    PROVE  /\ alone'.button = alone.button /\ alone'.on = alone.on /\ alone'.chips = alone.chips
           /\ alone' \in [button : Buttons, on : {field'}, smooth : BOOLEAN,
                         chips : [Uids -> GoodChips],
                         cards : {alone'.cards}, journal : {alone'.journal}]
<1>1. CASE Smoothly BY <1>1 DEF Smoothly, Recorded
<1>2. CASE Roughly
  <2>1. alone' = [alone EXCEPT !.smooth = FALSE] BY <1>2 DEF Roughly
  <2> QED BY <2>1 DEF Recorded
<1> QED BY <1>1, <1>2

LEMMA NoRecord ==
    ASSUME alone = None, Smoothly \/ Roughly
    PROVE  alone' = None
BY DEF Smoothly, Roughly

\* While an action runs alone, no other button is at work.
LEMMA LoneButton ==
    ASSUME IInv, alone # None, NEW b \in Buttons, step[b] \notin Resting
    PROVE  b = alone.button
BY DEF IInv, Recorded

\* An action goes on to label with memory m, and the chips stay as they are.
LEMMA PageStep ==
    ASSUME IInv, NEW b \in Buttons, step[b] \notin Resting,
           NEW label \in Steps, NEW m, IsMemory(m), GoesTo(b, label, m),
           UNCHANGED reader, Smoothly \/ Roughly,
           label \in Writing => m.data \in GoodChips,
           alone # None => Unwritten(label, m)
    PROVE  IInv'
<1>1. /\ step' = [step EXCEPT ![b] = label] /\ mem' = [mem EXCEPT ![b] = m]
      /\ asked' = [asked EXCEPT ![b] = FALSE] /\ job' = job
      /\ chips' = chips /\ field' = field
  BY DEF GoesTo, reader
<1>2. Shape' BY <1>1 DEF IInv, Shape
<1>3. ASSUME NEW a \in Buttons PROVE Ready(a)'
  <2>1. CASE a = b
    <3>1. step'[a] = label /\ mem'[a] = m /\ asked'[a] = FALSE /\ job'[a] = job[a]
      BY <1>1, <2>1 DEF IInv, Shape
    <3> QED BY <3>1, <2>1 DEF IInv, Ready
  <2>2. CASE a # b
    <3>1. step'[a] = step[a] /\ mem'[a] = mem[a] /\ asked'[a] = asked[a] /\ job'[a] = job[a]
      BY <1>1, <2>2 DEF IInv, Shape
    <3> QED BY <3>1 DEF IInv, Ready
  <2> QED BY <2>1, <2>2
<1>4. CASE alone' = None BY <1>2, <1>3, <1>4 DEF IInv, Recorded, Lone, ChipIsChargedOnce
<1>5. CASE alone' # None
  <2>1. alone # None BY <1>5, NoRecord
  <2>2. b = alone.button BY <2>1, LoneButton
  <2>3. /\ alone'.button = alone.button /\ alone'.on = alone.on /\ alone'.chips = alone.chips
        /\ alone' \in [button : Buttons, on : {field'}, smooth : BOOLEAN,
                      chips : [Uids -> GoodChips],
                      cards : {alone'.cards}, journal : {alone'.journal}]
    BY <1>1, <1>5, <2>1, RecordKept DEF IInv
  <2>4. Recorded'
    <3>1. \A a \in Buttons : step'[a] \notin Resting => a = alone'.button
      BY <1>1, <2>1, <2>2, <2>3 DEF IInv, Recorded, Shape
    <3> QED BY <1>1, <2>1, <2>3, <3>1 DEF IInv, Recorded
  <2>5. Lone'
    <3>1. step'[alone'.button] = label /\ mem'[alone'.button] = m
      BY <1>1, <2>2, <2>3 DEF IInv, Shape
    <3>2. Unwritten(label, m)' BY <1>1, <2>1, <2>3 DEF Unwritten
    <3> QED BY <3>1, <3>2 DEF Lone, Unwritten
  <2>6. ChipIsChargedOnce' BY <1>1, <2>1, <2>3 DEF IInv, ChipIsChargedOnce
  <2> QED BY <1>2, <1>3, <2>4, <2>5, <2>6 DEF IInv
<1> QED BY <1>4, <1>5

\* The same for a step to a label at which nothing is read or written.
LEMMA QuietStep ==
    ASSUME IInv, NEW b \in Buttons, step[b] \notin Resting,
           NEW label \in Steps \ (Reading \cup Writing), NEW m, IsMemory(m),
           GoesTo(b, label, m),
           UNCHANGED reader, Smoothly \/ Roughly
    PROVE  IInv'
BY PageStep DEF Unwritten, Reading, Writing

LEMMA FailingStep ==
    ASSUME IInv, NEW b \in Buttons, step[b] \notin Resting, Fails(b) \/ Succeeds(b),
           UNCHANGED reader, Smoothly \/ Roughly
    PROVE  IInv'
<1>1. IsMemory(NoMemory) BY DEF IsMemory, NoMemory
<1> QED BY <1>1, QuietStep DEF Fails, Succeeds, Steps, Resting, Reading, Writing

\* Nothing of the page changes but what it knows of the world.
LEMMA IdleStep ==
    ASSUME IInv, UNCHANGED <<chips, field, step, job, mem>>, Smoothly \/ Roughly,
           DOMAIN asked' = Buttons,
           \A b \in Buttons : asked'[b] = TRUE => step[b] \in Asking
    PROVE  IInv'
<1>1. Shape' BY DEF IInv, Shape
<1>2. \A b \in Buttons : Ready(b)' BY DEF IInv, Ready
<1>3. CASE alone' = None BY <1>1, <1>2, <1>3 DEF IInv, Recorded, Lone, ChipIsChargedOnce
<1>4. CASE alone' # None
  <2>1. alone # None BY <1>4, NoRecord
  <2>2. /\ alone'.button = alone.button /\ alone'.on = alone.on /\ alone'.chips = alone.chips
        /\ alone' \in [button : Buttons, on : {field'}, smooth : BOOLEAN,
                      chips : [Uids -> GoodChips],
                      cards : {alone'.cards}, journal : {alone'.journal}]
    BY <1>4, <2>1, RecordKept DEF IInv
  <2>3. Recorded' BY <2>1, <2>2 DEF IInv, Recorded
  <2>4. Lone' BY <2>1, <2>2 DEF IInv, Lone, Unwritten
  <2>5. ChipIsChargedOnce' BY <2>1, <2>2 DEF IInv, ChipIsChargedOnce
  <2> QED BY <1>1, <1>2, <2>3, <2>4, <2>5 DEF IInv
<1> QED BY <1>3, <1>4

-----------------------------------------------------------------------------
\* The actions, one by one

LEMMA BreakingStep ==
    ASSUME IInv, NEW b \in Buttons, step[b] \notin Resting, Breaks(b), UNCHANGED reader
    PROVE  IInv'
BY FailingStep DEF Breaks

\* What is put into an action's memory leaves the rest of it.
LEMMA MemoryUpdates ==
    ASSUME NEW m, IsMemory(m), NEW x
    PROVE  /\ IsMemory([m EXCEPT !.tries = x]) /\ IsMemory([m EXCEPT !.uid = x])
           /\ IsMemory([m EXCEPT !.data = x]) /\ IsMemory([m EXCEPT !.want = x])
           /\ IsMemory([m EXCEPT !.card = x]) /\ IsMemory([m EXCEPT !.row = x])
           /\ [m EXCEPT !.tries = x].want = m.want /\ [m EXCEPT !.tries = x].data = m.data
           /\ [m EXCEPT !.uid = x].want = m.want
           /\ [m EXCEPT !.data = x].want = m.want /\ [m EXCEPT !.data = x].data = x
           /\ [m EXCEPT !.want = x].want = x
BY DEF IsMemory

\* An attempt is begun, or repeated, with the memory as it was.
LEMMA AttemptStep ==
    ASSUME IInv, NEW b \in Buttons, NEW label \in Reading \cup Writing, NEW t,
           GoesTo(b, label, [mem[b] EXCEPT !.tries = t]), UNCHANGED reader, Smoothly,
           \/ step[b] \in Reading /\ label \in Reading
           \/ step[b] \in Writing /\ label \in Writing /\ (step[b] = "write" \/ field # None)
    PROVE  IInv'
<1> DEFINE m == [mem[b] EXCEPT !.tries = t]
<1>1. step[b] \notin Resting BY DEF Reading, Writing, Resting
<1>2. IsMemory(m) /\ m.want = mem[b].want /\ m.data = mem[b].data
  <2>1. IsMemory(mem[b]) BY DEF IInv, Ready
  <2> QED BY <2>1, MemoryUpdates
<1>3. label \in Writing => m.data \in GoodChips
  BY <1>2 DEF IInv, Ready, Reading, Writing
<1>4. alone # None => Unwritten(label, m)
  <2> SUFFICES ASSUME alone # None PROVE Unwritten(label, m) OBVIOUS
  <2>1. Unwritten(step[b], mem[b]) BY <1>1, LoneButton DEF IInv, Lone
  <2> QED BY <1>2, <2>1 DEF Unwritten, Reading, Writing
<1>5. label \in Steps BY DEF Steps, Reading, Writing
<1> HIDE DEF m
<1>6. GoesTo(b, label, m) BY DEF m
<1> QED BY <1>1, <1>2, <1>3, <1>4, <1>5, <1>6, PageStep

LEMMA NoTagStep ==
    ASSUME IInv, NEW b \in Buttons, NEW label \in {"readUid", "write"}, NoTag(b, label),
           step[b] = (IF label = "write" THEN "write" ELSE "readBlocks"), UNCHANGED reader
    PROVE  IInv'
<1>1. CASE Fails(b) BY <1>1, FailingStep DEF NoTag, Resting
<1>2. CASE GoesTo(b, label, [mem[b] EXCEPT !.tries = mem[b].tries + 1])
  BY <1>2, AttemptStep DEF NoTag, Reading, Writing
<1> QED BY <1>1, <1>2 DEF NoTag

LEMMA AwaitKeeps ==
    ASSUME IInv, NEW b \in Buttons, Await(b)
    PROVE  IInv'
<1>1. step[b] \notin Resting /\ UNCHANGED reader BY DEF Await, Resting
<1>2. CASE Fails(b) /\ Smoothly BY <1>1, <1>2, FailingStep
<1>3. CASE Breaks(b) BY <1>1, <1>3, BreakingStep
<1>4. CASE /\ field # None /\ Smoothly
           /\ GoesTo(b, IF step[b] = "await" THEN "readUid" ELSE "write",
                     [mem[b] EXCEPT !.tries = 1])
  BY <1>1, <1>4, AttemptStep DEF Await, Reading, Writing
<1> QED BY <1>2, <1>3, <1>4 DEF Await

LEMMA ReadUidKeeps ==
    ASSUME IInv, NEW b \in Buttons, ReadUid(b)
    PROVE  IInv'
<1>1. step[b] \notin Resting /\ UNCHANGED reader /\ step[b] \in Reading
  BY DEF ReadUid, Resting, Reading
<1>2. CASE Fails(b) /\ Smoothly BY <1>1, <1>2, FailingStep
<1>3. CASE Breaks(b) BY <1>1, <1>3, BreakingStep
<1>4. CASE GoesTo(b, "readBlocks", [mem[b] EXCEPT !.uid = field]) /\ Smoothly
  <2> DEFINE m == [mem[b] EXCEPT !.uid = field]
  <2>1. IsMemory(m) /\ m.want = mem[b].want
    <3>1. IsMemory(mem[b]) BY DEF IInv, Ready
    <3> QED BY <3>1, MemoryUpdates
  <2>2. alone # None => Unwritten("readBlocks", m)
    <3> SUFFICES ASSUME alone # None PROVE Unwritten("readBlocks", m) OBVIOUS
    <3>1. Unwritten(step[b], mem[b]) BY <1>1, LoneButton DEF IInv, Lone
    <3> QED BY <1>1, <2>1, <3>1 DEF Unwritten, Reading, Writing
  <2> HIDE DEF m
  <2>3. GoesTo(b, "readBlocks", m) BY <1>4 DEF m
  <2> QED BY <1>1, <1>4, <2>1, <2>2, <2>3, PageStep DEF Steps, Writing
<1> QED BY <1>2, <1>3, <1>4 DEF ReadUid

\* What is read is what is on the reader, and what is made of it is fit to be written.
LEMMA ReadBlocksKeeps ==
    ASSUME IInv, NEW b \in Buttons, ReadBlocks(b)
    PROVE  IInv'
<1>1. step[b] = "readBlocks" /\ step[b] \notin Resting /\ UNCHANGED reader
  BY DEF ReadBlocks, Resting
<1>2. CASE NoTag(b, "readUid") BY <1>1, <1>2, NoTagStep
<1>3. CASE Breaks(b) BY <1>1, <1>3, BreakingStep
<1>4. IsMemory(mem[b]) BY DEF IInv, Ready
<1>5. CASE field # None /\ Smoothly /\ mem[b].want = None /\ FirstRead(b, chips[field])
  <2> DEFINE m == [mem[b] EXCEPT !.data = Patched(job[b], chips[field])]
  <2>1. chips[field] \in GoodChips /\ job[b] \in Jobs BY <1>1, <1>5 DEF IInv, Shape, Ready
  <2>2. CASE Fails(b) \/ Succeeds(b) BY <1>1, <1>5, <2>2, FailingStep
  <2>3. CASE Permits(job[b], chips[field]) /\ GoesTo(b, "awaitWrite", m)
    <3>1. IsMemory(m) /\ m.data = Patched(job[b], chips[field]) BY <1>4, MemoryUpdates
    <3>2. m.data \in GoodChips BY <2>1, <2>3, <3>1, PatchedGood
    <3>3. alone # None => Unwritten("awaitWrite", m)
      <4> SUFFICES ASSUME alone # None PROVE Unwritten("awaitWrite", m) OBVIOUS
      <4>1. b = alone.button BY <1>1, LoneButton
      <4>2. Unwritten(step[b], mem[b]) BY <4>1 DEF IInv, Lone
      <4> QED BY <1>1, <1>5, <3>1, <4>1, <4>2 DEF Unwritten, Reading, Writing
    <3> HIDE DEF m
    <3> QED BY <1>1, <1>5, <2>3, <3>1, <3>2, <3>3, PageStep DEF Steps
  <2>4. \/ Fails(b) \/ Succeeds(b)
        \/ Permits(job[b], chips[field]) /\ GoesTo(b, "awaitWrite", m)
    BY <1>5 DEF FirstRead
  <2> QED BY <2>2, <2>3, <2>4
<1>6. CASE Smoothly /\ ReadBack(b, chips[field])
  <2> DEFINE m == [mem[b] EXCEPT !.data = chips[field]]
  <2>1. IsMemory(m) BY <1>4, MemoryUpdates
  <2>2. CASE Fails(b) BY <1>1, <1>6, <2>2, FailingStep
  <2>3. ASSUME NEW label \in {"authorize", "findCard", "sync"}, GoesTo(b, label, m)
        PROVE  IInv'
    <3>1. label \in Steps \ (Reading \cup Writing) BY DEF Steps, Reading, Writing
    <3> HIDE DEF m
    <3> QED BY <1>1, <1>6, <2>1, <2>3, <3>1, QuietStep
  <2>4. Fails(b) \/ \E label \in {"authorize", "findCard", "sync"} : GoesTo(b, label, m)
    BY <1>6 DEF ReadBack
  <2> QED BY <2>2, <2>3, <2>4
<1> QED BY <1>2, <1>3, <1>5, <1>6 DEF ReadBlocks

\* The only step that changes a chip: what it writes is fit, and while its action is
\* alone it is the old chip, the new one, or a torn register.
LEMMA WriteKeeps ==
    ASSUME IInv, NEW b \in Buttons, Write(b)
    PROVE  IInv'
<1>1. step[b] = "write" /\ step[b] \notin Resting /\ step[b] \in Writing /\ field' = field
  BY DEF Write, Resting, Writing
<1>2. CASE NoTag(b, "write") /\ UNCHANGED chips
  BY <1>1, <1>2, NoTagStep DEF reader
<1>3. ASSUME field # None, NEW n \in 0 .. 3,
             chips' = [chips EXCEPT ![field] = Written(chips[field], mem[b].data, n)],
             NEW label \in {"await", "failed"}, NEW m, IsMemory(m), GoesTo(b, label, m),
             label = "await" => m.want # None, Smoothly \/ Roughly
      PROVE  IInv'
  <2>1. /\ step' = [step EXCEPT ![b] = label] /\ mem' = [mem EXCEPT ![b] = m]
        /\ asked' = [asked EXCEPT ![b] = FALSE] /\ job' = job
    BY <1>3 DEF GoesTo
  <2>2. /\ chips[field] \in GoodChips /\ mem[b].data \in GoodChips /\ field \in Uids
        /\ job[b] \in Jobs
    BY <1>1, <1>3 DEF IInv, Shape, Ready
  <2>3. Shape'
    <3>1. Written(chips[field], mem[b].data, n) \in GoodChips BY <2>2, WrittenGood
    <3>2. label \in Steps BY DEF Steps, Resting
    <3> QED BY <1>1, <1>3, <2>1, <2>2, <3>1, <3>2 DEF IInv, Shape
  <2>4. ASSUME NEW a \in Buttons PROVE Ready(a)'
    <3>1. CASE a = b
      <4>1. step'[a] = label /\ mem'[a] = m /\ asked'[a] = FALSE /\ job'[a] = job[a]
        BY <2>1, <3>1 DEF IInv, Shape
      <4> QED BY <1>3, <2>2, <3>1, <4>1 DEF Ready, Writing
    <3>2. CASE a # b
      <4>1. step'[a] = step[a] /\ mem'[a] = mem[a] /\ asked'[a] = asked[a] /\ job'[a] = job[a]
        BY <2>1, <3>2 DEF IInv, Shape
      <4> QED BY <4>1 DEF IInv, Ready
    <3> QED BY <3>1, <3>2
  <2>5. CASE alone' = None BY <2>3, <2>4, <2>5 DEF IInv, Recorded, Lone, ChipIsChargedOnce
  <2>6. CASE alone' # None
    <3>1. alone # None BY <1>3, <2>6, NoRecord
    <3>2. b = alone.button BY <1>1, <3>1, LoneButton
    <3>3. /\ alone'.button = alone.button /\ alone'.on = alone.on /\ alone'.chips = alone.chips
          /\ alone' \in [button : Buttons, on : {field'}, smooth : BOOLEAN,
                        chips : [Uids -> GoodChips],
                        cards : {alone'.cards}, journal : {alone'.journal}]
      BY <1>1, <1>3, <2>6, <3>1, RecordKept DEF IInv
    <3>4. Recorded'
      <4>1. \A a \in Buttons : step'[a] \notin Resting => a = alone'.button
        BY <2>1, <3>1, <3>2, <3>3 DEF IInv, Recorded, Shape
      <4> QED BY <2>1, <3>1, <3>3, <4>1 DEF IInv, Recorded
    <3>5. Lone'
      <4>1. step'[alone'.button] = label /\ mem'[alone'.button] = m
        BY <2>1, <3>2, <3>3 DEF IInv, Shape
      <4>2. ~(label \in Reading /\ m.want = None) /\ label \notin Writing
        BY <1>3 DEF Reading, Writing
      <4> QED BY <4>1, <4>2 DEF Lone, Unwritten
    <3>6. ChipIsChargedOnce'
      <4> DEFINE j == job[b]
                 d == chips[field]
                 w == Written(d, Patched(j, d), n)
      <4>1. chips = alone.chips /\ mem[b].data = Patched(j, d) /\ alone.on = field
        BY <1>1, <3>1, <3>2 DEF IInv, Lone, Unwritten, Recorded
      <4>2. w = d \/ \E k \in 1 .. 3 : w = Written(d, Patched(j, d), k)
        <5>1. CASE n = 0 BY <2>2, <5>1, NothingWritten
        <5>2. CASE n # 0 BY <5>2
        <5> QED BY <5>1, <5>2
      <4>3. chips' = [alone.chips EXCEPT ![field] = w] /\ alone.chips[field] = d
        BY <1>3, <4>1
      <4>4. alone.chips \in [Uids -> GoodChips] BY <4>1 DEF IInv, Shape
      <4> HIDE DEF w
      <4>5. ASSUME NEW u \in Uids
            PROVE  \/ chips'[u] = alone.chips[u]
                   \/ /\ u = field
                      /\ \E k \in 1 .. 3 :
                            chips'[u] = Written(alone.chips[u], Patched(j, alone.chips[u]), k)
        <5>1. CASE u # field BY <4>3, <4>4, <5>1
        <5>2. CASE u = field
          <6>1. chips'[u] = w BY <4>3, <4>4, <5>2
          <6> QED BY <4>2, <4>3, <5>2, <6>1
        <5> QED BY <5>1, <5>2
      <4>6. /\ alone'.on = field /\ alone'.chips = alone.chips
            /\ job'[alone'.button] = j
        BY <2>1, <3>2, <3>3, <4>1
      <4> HIDE DEF j
      <4> QED BY <4>5, <4>6 DEF ChipIsChargedOnce
    <3> QED BY <2>3, <2>4, <3>4, <3>5, <3>6 DEF IInv
  <2> QED BY <2>5, <2>6
<1>4. ASSUME field # None, NEW n \in 0 .. 3,
             chips' = [chips EXCEPT ![field] = Written(chips[field], mem[b].data, n)],
             GoesTo(b, "await", [mem[b] EXCEPT !.want = mem[b].data.bal]), Smoothly
      PROVE  IInv'
  <2> DEFINE m == [mem[b] EXCEPT !.want = mem[b].data.bal]
  <2>1. IsMemory(mem[b]) /\ mem[b].data \in GoodChips BY <1>1 DEF IInv, Ready
  <2>2. IsMemory(m) /\ m.want = mem[b].data.bal BY <2>1, MemoryUpdates
  <2>3. m.want # None BY <2>1, <2>2, StationAssumption DEF GoodChips
  <2> HIDE DEF m
  <2>4. GoesTo(b, "await", m) BY <1>4 DEF m
  <2> QED BY <1>3, <1>4, <2>2, <2>3, <2>4
<1>5. ASSUME field # None, NEW n \in 0 .. 3,
             chips' = [chips EXCEPT ![field] = Written(chips[field], mem[b].data, n)],
             Breaks(b)
      PROVE  IInv'
  <2>1. IsMemory(NoMemory) BY DEF IsMemory, NoMemory
  <2> QED BY <1>3, <1>5, <2>1 DEF Breaks, Fails
<1> QED BY <1>2, <1>4, <1>5 DEF Write

LEMMA LogInKeeps ==
    ASSUME IInv, NEW b \in Buttons, LogIn(b)
    PROVE  IInv'
<1>1. step[b] \notin Resting /\ UNCHANGED reader BY DEF LogIn, Resting
<1>2. CASE Breaks(b) BY <1>1, <1>2, BreakingStep
<1>3. CASE UNCHANGED page /\ Smoothly
  BY <1>1, <1>3, IdleStep DEF page, reader, IInv, Shape, Ready
<1> QED BY <1>2, <1>3 DEF LogIn

LEMMA FindCardKeeps ==
    ASSUME IInv, NEW b \in Buttons, FindCard(b)
    PROVE  IInv'
<1>1. step[b] \notin Resting /\ UNCHANGED reader BY DEF FindCard, Listed, Resting
<1>2. /\ Smoothly \/ Roughly
      /\ Fails(b) \/ \E i : GoesTo(b, "findTerminal", [mem[b] EXCEPT !.card = i])
  BY DEF FindCard, Listed, Expires, Breaks
<1>3. CASE Fails(b) BY <1>1, <1>2, <1>3, FailingStep
<1>4. ASSUME NEW i, GoesTo(b, "findTerminal", [mem[b] EXCEPT !.card = i]) PROVE IInv'
  <2>1. IsMemory([mem[b] EXCEPT !.card = i]) BY MemoryUpdates DEF IInv, Ready
  <2>2. "findTerminal" \in Steps \ (Reading \cup Writing) BY DEF Steps, Reading, Writing
  <2> QED BY <1>1, <1>2, <1>4, <2>1, <2>2, QuietStep
<1> QED BY <1>2, <1>3, <1>4

LEMMA FindTerminalKeeps ==
    ASSUME IInv, NEW b \in Buttons, FindTerminal(b)
    PROVE  IInv'
<1>1. step[b] \notin Resting /\ UNCHANGED reader BY DEF FindTerminal, Listed, Resting
<1>2. (Smoothly \/ Roughly) /\ (Fails(b) \/ GoesTo(b, "post", mem[b]))
  BY DEF FindTerminal, Listed, Expires, Breaks
<1>3. CASE Fails(b) BY <1>1, <1>2, <1>3, FailingStep
<1>4. CASE GoesTo(b, "post", mem[b])
  <2>1. IsMemory(mem[b]) BY DEF IInv, Ready
  <2>2. "post" \in Steps \ (Reading \cup Writing) BY DEF Steps, Reading, Writing
  <2> QED BY <1>1, <1>2, <1>4, <2>1, <2>2, QuietStep
<1> QED BY <1>2, <1>3, <1>4

LEMMA SyncKeeps ==
    ASSUME IInv, NEW b \in Buttons, Sync(b)
    PROVE  IInv'
<1>1. step[b] \notin Resting /\ UNCHANGED reader BY DEF Sync, Listed, Resting
<1>2. /\ Smoothly \/ Roughly
      /\ \/ Fails(b)
         \/ GoesTo(b, "register", mem[b])
         \/ \E i : GoesTo(b, "put", [mem[b] EXCEPT !.card = i, !.row = cards[i]])
  BY DEF Sync, Listed, Expires, Breaks
<1>3. IsMemory(mem[b]) BY DEF IInv, Ready
<1>4. {"register", "put"} \subseteq Steps \ (Reading \cup Writing)
  BY DEF Steps, Reading, Writing
<1>5. CASE Fails(b) BY <1>1, <1>2, <1>5, FailingStep
<1>6. CASE GoesTo(b, "register", mem[b]) BY <1>1, <1>2, <1>3, <1>4, <1>6, QuietStep
<1>7. ASSUME NEW i, GoesTo(b, "put", [mem[b] EXCEPT !.card = i, !.row = cards[i]])
      PROVE  IInv'
  <2> DEFINE n == [mem[b] EXCEPT !.card = i]
             m == [n EXCEPT !.row = cards[i]]
  <2>1. IsMemory(n) BY <1>3, MemoryUpdates
  <2>2. IsMemory(m) BY <2>1, MemoryUpdates
  <2>3. m = [mem[b] EXCEPT !.card = i, !.row = cards[i]] OBVIOUS
  <2> QED BY <1>1, <1>2, <1>4, <1>7, <2>2, <2>3, QuietStep
<1> QED BY <1>2, <1>5, <1>6, <1>7

LEMMA RegisterRowKeeps ==
    ASSUME IInv, NEW b \in Buttons, RegisterRow(b)
    PROVE  IInv'
<1>1. step[b] \notin Resting /\ UNCHANGED reader BY DEF RegisterRow, Listed, Resting
<1>2. /\ Smoothly \/ Roughly
      /\ Fails(b) \/ Succeeds(b) \/ GoesTo(b, "create", mem[b])
  BY DEF RegisterRow, Listed, Expires, Breaks
<1>3. CASE Fails(b) \/ Succeeds(b) BY <1>1, <1>2, <1>3, FailingStep
<1>4. CASE GoesTo(b, "create", mem[b])
  <2>1. IsMemory(mem[b]) BY DEF IInv, Ready
  <2>2. "create" \in Steps \ (Reading \cup Writing) BY DEF Steps, Reading, Writing
  <2> QED BY <1>1, <1>2, <1>4, <2>1, <2>2, QuietStep
<1> QED BY <1>2, <1>3, <1>4

LEMMA SendKeeps ==
    ASSUME IInv, NEW b \in Buttons, Send(b)
    PROVE  IInv'
<1>1. step[b] \in Asking /\ step[b] \notin Resting /\ UNCHANGED reader
  BY DEF Send, Asking, Resting
<1>2. CASE Fails(b) /\ Roughly BY <1>1, <1>2, FailingStep
<1>3. CASE /\ asked' = [asked EXCEPT ![b] = TRUE]
           /\ Smoothly /\ UNCHANGED <<step, job, mem>>
  <2>1. DOMAIN asked' = Buttons BY <1>3 DEF IInv, Shape
  <2>2. \A a \in Buttons : asked'[a] = TRUE => step[a] \in Asking
    BY <1>1, <1>3 DEF IInv, Shape, Ready
  <2> QED BY <1>1, <1>3, <2>1, <2>2, IdleStep DEF reader
<1> QED BY <1>2, <1>3 DEF Send, Expires, Breaks

\* An answer is waited for while the action is at the request it sent.
LEMMA ServeKeeps ==
    ASSUME IInv, NEW b \in Buttons, Serve(b)
    PROVE  IInv'
<1>1. UNCHANGED reader /\ (Smoothly \/ Roughly) BY DEF Serve
<1>2. CASE UNCHANGED <<page, presses>>
  BY <1>1, <1>2, IdleStep DEF page, reader, IInv, Shape, Ready
<1>3. ASSUME asked[b] = TRUE, NEW ok \in BOOLEAN, AfterAnswer(b, ok) PROVE IInv'
  <2>1. step[b] \notin Resting BY <1>3 DEF IInv, Ready, Asking, Resting
  <2>2. CASE Fails(b) \/ Succeeds(b) BY <1>1, <2>1, <2>2, FailingStep
  <2>3. CASE GoesTo(b, "sync", [mem[b] EXCEPT !.card = 0])
    <3>1. IsMemory([mem[b] EXCEPT !.card = 0]) BY MemoryUpdates DEF IInv, Ready
    <3>2. "sync" \in Steps \ (Reading \cup Writing) BY DEF Steps, Reading, Writing
    <3> QED BY <1>1, <2>1, <2>3, <3>1, <3>2, QuietStep
  <2> QED BY <1>3, <2>2, <2>3 DEF AfterAnswer
<1>4. DEFINE ok == pc[b] \notin {"findCard", "findTerminal", "readCard"}
<1>5. (asked[b] = TRUE /\ AfterAnswer(b, ok)) \/ UNCHANGED <<page, presses>>
  BY DEF Serve, IInv, Shape
<1> QED BY <1>2, <1>3, <1>5

\* Some actions are given up, all answers lost.
LEMMA ResetStep ==
    ASSUME IInv, UNCHANGED reader, job' = job, Smoothly \/ Roughly,
           step' \in [Buttons -> Steps], DOMAIN mem' = Buttons, DOMAIN asked' = Buttons,
           \A b \in Buttons :
               /\ asked'[b] = FALSE
               /\ \/ step'[b] = step[b] /\ mem'[b] = mem[b]
                  \/ step'[b] \in Resting /\ mem'[b] = NoMemory
    PROVE  IInv'
<1>0. chips' = chips /\ field' = field BY DEF reader
<1>1. Shape' BY <1>0 DEF IInv, Shape
<1>2. ASSUME NEW b \in Buttons PROVE Ready(b)'
  <2>1. IsMemory(NoMemory) BY DEF IsMemory, NoMemory
  <2>2. CASE step'[b] = step[b] /\ mem'[b] = mem[b] BY <2>2 DEF IInv, Ready
  <2>3. CASE step'[b] \in Resting /\ mem'[b] = NoMemory
    BY <2>1, <2>3 DEF Ready, Resting, Writing
  <2> QED BY <2>2, <2>3
<1>3. CASE alone' = None BY <1>1, <1>2, <1>3 DEF IInv, Recorded, Lone, ChipIsChargedOnce
<1>4. CASE alone' # None
  <2>1. alone # None BY <1>4, NoRecord
  <2>2. /\ alone'.button = alone.button /\ alone'.on = alone.on /\ alone'.chips = alone.chips
        /\ alone' \in [button : Buttons, on : {field'}, smooth : BOOLEAN,
                      chips : [Uids -> GoodChips],
                      cards : {alone'.cards}, journal : {alone'.journal}]
    BY <1>0, <1>4, <2>1, RecordKept DEF IInv
  <2>3. Recorded' BY <1>0, <2>1, <2>2 DEF IInv, Recorded
  <2>4. Lone'
    <3>1. alone.button \in Buttons BY <2>1 DEF IInv, Recorded
    <3> QED BY <1>0, <2>1, <2>2, <3>1 DEF IInv, Lone, Unwritten, Resting, Reading, Writing
  <2>5. ChipIsChargedOnce' BY <1>0, <2>1, <2>2 DEF IInv, ChipIsChargedOnce
  <2> QED BY <1>1, <1>2, <2>3, <2>4, <2>5 DEF IInv
<1> QED BY <1>3, <1>4

LEMMA RestartKeeps ==
    ASSUME IInv, RestartBackend
    PROVE  IInv'
<1>1. step' \in [Buttons -> Steps]
  BY DEF RestartBackend, IInv, Shape, Steps, Resting
<1> QED BY <1>1, ResetStep DEF RestartBackend, Resting

LEMMA ReopenKeeps ==
    ASSUME IInv, Reopen
    PROVE  IInv'
<1>1. step' \in [Buttons -> Steps] BY DEF Reopen, Steps, Resting
<1> QED BY <1>1, ResetStep DEF Reopen, Resting

\* The record that a lone action starts with is of the world as it is.
LEMMA PressKeeps ==
    ASSUME IInv, NEW b \in Buttons, NEW j \in Jobs, Press(b, j)
    PROVE  IInv'
<1>1. /\ step' = [step EXCEPT ![b] = "await"] /\ job' = [job EXCEPT ![b] = j]
      /\ mem' = [mem EXCEPT ![b] = NoMemory] /\ asked' = asked
      /\ chips' = chips /\ field' = field /\ step[b] \in Resting
  BY DEF Press, reader
<1>2. Shape'
  <2>1. "await" \in Steps BY DEF Steps
  <2> QED BY <1>1, <2>1 DEF IInv, Shape
<1>3. ASSUME NEW a \in Buttons PROVE Ready(a)'
  <2>1. CASE a = b
    <3>1. step'[a] = "await" /\ mem'[a] = NoMemory /\ asked'[a] = asked[a] /\ job'[a] = j
      BY <1>1, <2>1 DEF IInv, Shape
    <3>2. IsMemory(NoMemory) BY DEF IsMemory, NoMemory
    <3>3. asked[a] # TRUE BY <1>1, <2>1 DEF IInv, Ready, Asking, Resting
    <3> QED BY <3>1, <3>2, <3>3 DEF Ready, Writing
  <2>2. CASE a # b
    <3>1. step'[a] = step[a] /\ mem'[a] = mem[a] /\ asked'[a] = asked[a] /\ job'[a] = job[a]
      BY <1>1, <2>2 DEF IInv, Shape
    <3> QED BY <3>1 DEF IInv, Ready
  <2> QED BY <2>1, <2>2
<1>4. CASE alone' = None BY <1>2, <1>3, <1>4 DEF IInv, Recorded, Lone, ChipIsChargedOnce
<1>5. CASE /\ \A a \in Buttons : step[a] \in Resting
           /\ alone' = [button |-> b, on |-> field, smooth |-> token # "old",
                        chips |-> chips, cards |-> cards, journal |-> journal]
  <2>1. Recorded'
    <3>1. \A a \in Buttons : step'[a] \notin Resting => a = b
      BY <1>1, <1>5 DEF IInv, Shape
    <3>2. job'[b] \in Jobs BY <1>1 DEF IInv, Shape
    <3> QED BY <1>1, <1>5, <3>1, <3>2 DEF IInv, Shape, Recorded
  <2>2. Lone'
    <3>1. step'[b] = "await" /\ mem'[b] = NoMemory BY <1>1 DEF IInv, Shape
    <3> QED BY <1>1, <1>5, <3>1 DEF Lone, Unwritten, Writing
  <2>3. ChipIsChargedOnce' BY <1>1, <1>5 DEF ChipIsChargedOnce
  <2> QED BY <1>2, <1>3, <2>1, <2>2, <2>3 DEF IInv
<1> QED BY <1>4, <1>5 DEF Press

LEMMA MoveCardKeeps ==
    ASSUME IInv, MoveCard
    PROVE  IInv'
<1>1. field' \in Uids \cup {None} BY StationAssumption DEF MoveCard
<1>2. alone' = None /\ UNCHANGED <<chips, step, job, mem, asked>> BY DEF MoveCard, page
<1> QED BY <1>1, <1>2 DEF IInv, Shape, Ready, Recorded, Lone, ChipIsChargedOnce

-----------------------------------------------------------------------------
LEMMA InitKeeps == Init => IInv
<1> SUFFICES ASSUME Init PROVE IInv OBVIOUS
<1>1. chips \in [Uids -> GoodChips]
  BY InitialChipsAssumption DEF Init, Chips, GoodChips
<1>2. Shape BY <1>1 DEF Init, Shape, Steps, Resting
<1>3. \A b \in Buttons : Ready(b)
  BY DEF Init, Ready, IsMemory, NoMemory, Resting, Writing
<1> QED BY <1>2, <1>3 DEF Init, IInv, Recorded, Lone, ChipIsChargedOnce

LEMMA NextKeeps == IInv /\ [Next]_vars => IInv'
<1> SUFFICES ASSUME IInv, [Next]_vars PROVE IInv' OBVIOUS
<1>1. ASSUME NEW b \in Buttons, Step(b) PROVE IInv'
  BY <1>1, AwaitKeeps, ReadUidKeeps, ReadBlocksKeeps, WriteKeeps, LogInKeeps, FindCardKeeps,
     FindTerminalKeeps, SyncKeeps, RegisterRowKeeps, SendKeeps DEF Step
<1>2. ASSUME NEW b \in Buttons, Serve(b) PROVE IInv' BY <1>2, ServeKeeps
<1>3. ASSUME NEW b \in Buttons, LoseAnswer(b) PROVE IInv'
  <2>1. asked[b] = TRUE BY <1>3 DEF LoseAnswer, IInv, Shape
  <2>2. step[b] \notin Resting BY <2>1 DEF IInv, Ready, Asking, Resting
  <2> QED BY <1>3, <2>2, BreakingStep DEF LoseAnswer
<1>4. ASSUME NEW b \in Buttons, NEW j \in JobsOf[b], Press(b, j) PROVE IInv'
  <2>1. j \in Jobs BY StationAssumption
  <2> QED BY <1>4, <2>1, PressKeeps
<1>5. CASE MoveCard BY <1>5, MoveCardKeeps
<1>6. CASE RestartBackend BY <1>6, RestartKeeps
<1>7. CASE Reopen BY <1>7, ReopenKeeps
<1>8. CASE UNCHANGED vars
  BY <1>8 DEF vars, reader, page, IInv, Shape, Ready, Recorded, Lone, Unwritten,
              ChipIsChargedOnce
<1> QED BY <1>1, <1>2, <1>3, <1>4, <1>5, <1>6, <1>7, <1>8 DEF Next

\* The invariant the properties of the chips follow from.
THEOREM Invariance == Spec => []IInv
BY InitKeeps, NextKeeps, PTL DEF Spec

\* For every number of cards, buttons and presses, and every fault: a card never
\* holds less than nothing, because pay writes a difference it has compared
\* (nfc_admin_page.dart, MifareData).
THEOREM ChipsAreNeverOverdrawn == Spec => []ChipsStayNonNegative
<1>1. IInv => ChipsStayNonNegative BY DEF IInv, Shape, GoodChips, ChipsStayNonNegative
<1> QED BY <1>1, Invariance, PTL

\* For the same: while a card lies still and one action runs, the balance of its chip
\* is the old one or the one the action makes of it, once, though the write of blocks 4
\* to 6 be torn, and the halves of the name are old or new ones, each for itself
\* (mifare_libnfc.dart, nfc-mfsector1.c).
THEOREM LoneChipIsChargedOnce == Spec => []ChipIsChargedOnce
<1>1. IInv => ChipIsChargedOnce BY DEF IInv
<1> QED BY <1>1, Invariance, PTL

-----------------------------------------------------------------------------
\* Types

\* What an action has read, and is to write, is of the type it is used at.
Holds(m) ==
    /\ m.uid \in Uids \cup {None} /\ m.data \in Chips \cup {None}
    /\ m.want \in Int \cup {None} /\ m.tries \in 0 .. MaxTries

LEMMA NoMemoryHolds == Holds(NoMemory)
BY StationAssumption DEF Holds, NoMemory

LEMMA GoodChipsAreChips == GoodChips \subseteq Chips
BY DEF GoodChips, Chips

\* An action goes on with a memory of its type.
LEMMA TypedStep ==
    ASSUME IInv, IInv', TypeOK, NEW b \in Buttons, NEW label, NEW m, GoesTo(b, label, m), Holds(m),
           token' \in {"none", "good", "old"}
    PROVE  TypeOK'
<1>1. /\ mem' = [mem EXCEPT ![b] = m] /\ asked' = [asked EXCEPT ![b] = FALSE]
      /\ UNCHANGED <<job, presses>>
  BY DEF GoesTo
<1>2. ASSUME NEW a \in Buttons
      PROVE  /\ job'[a] \in Jobs \cup {None} /\ asked'[a] \in BOOLEAN /\ Holds(mem'[a])
  <2>1. CASE a = b BY <1>1, <2>1 DEF IInv, Shape, TypeOK
  <2>2. CASE a # b BY <1>1, <2>2 DEF IInv, Shape, TypeOK, Holds
  <2> QED BY <2>1, <2>2
<1>3. chips' \in [Uids -> Chips] /\ field' \in Uids \cup {None} /\ step' \in [Buttons -> Steps]
  BY GoodChipsAreChips DEF IInv, Shape
<1>4. \A a \in Buttons : asked'[a] => step'[a] \in {"authorize", "post", "put", "create"}
  BY <1>2 DEF IInv, Ready, Asking
<1>5. presses' \in 0 .. MaxPresses BY <1>1 DEF TypeOK
<1> QED BY <1>2, <1>3, <1>4, <1>5 DEF TypeOK, Holds

\* Or rests, and remembers nothing.
LEMMA TypedEnd ==
    ASSUME IInv, IInv', TypeOK, NEW b \in Buttons, Fails(b) \/ Succeeds(b),
           token' \in {"none", "good", "old"}
    PROVE  TypeOK'
BY TypedStep, NoMemoryHolds DEF Fails, Succeeds

\* Or the page stays, but for what it waits for.
LEMMA TypedRest ==
    ASSUME IInv, IInv', TypeOK, UNCHANGED <<job, mem, presses>>, token' \in {"none", "good", "old"},
           \A b \in Buttons : asked'[b] \in BOOLEAN
    PROVE  TypeOK'
<1>1. chips' \in [Uids -> Chips] /\ field' \in Uids \cup {None} /\ step' \in [Buttons -> Steps]
  BY GoodChipsAreChips DEF IInv, Shape
<1>2. \A a \in Buttons : asked'[a] => step'[a] \in {"authorize", "post", "put", "create"}
  BY DEF IInv, Ready, Asking
<1> QED BY <1>1, <1>2 DEF TypeOK

\* What is put into a memory keeps the rest of it of its type.
LEMMA HeldUpdates ==
    ASSUME NEW m, IsMemory(m), Holds(m)
    PROVE  /\ \A t \in 0 .. MaxTries : Holds([m EXCEPT !.tries = t])
           /\ \A u \in Uids : Holds([m EXCEPT !.uid = u])
           /\ \A d \in Chips : Holds([m EXCEPT !.data = d])
           /\ \A n \in Int : Holds([m EXCEPT !.want = n])
           /\ \A i : Holds([m EXCEPT !.card = i])
           /\ \A i, r : Holds([m EXCEPT !.card = i, !.row = r])
<1>1. m = [uid |-> m.uid, data |-> m.data, want |-> m.want, tries |-> m.tries,
           card |-> m.card, row |-> m.row]
  BY DEF IsMemory
<1> QED BY <1>1 DEF Holds

LEMMA TypedTool ==
    ASSUME IInv, IInv', TypeOK, NEW b \in Buttons,
           Await(b) \/ ReadUid(b) \/ ReadBlocks(b) \/ Write(b)
    PROVE  TypeOK'
<1>1. token' \in {"none", "good", "old"} BY DEF Await, ReadUid, ReadBlocks, Write, TypeOK
<1>2. IsMemory(mem[b]) /\ Holds(mem[b]) BY DEF IInv, Ready, TypeOK, Holds
<1>3. 1 \in 0 .. MaxTries /\ \A t \in 0 .. MaxTries : t < MaxTries => t + 1 \in 0 .. MaxTries
  BY StationAssumption
<1>4. CASE Fails(b) \/ Succeeds(b) \/ Breaks(b) BY <1>1, <1>4, TypedEnd DEF Breaks
<1>5. ASSUME NEW label, NEW t \in 0 .. MaxTries, GoesTo(b, label, [mem[b] EXCEPT !.tries = t])
      PROVE  TypeOK'
  BY <1>1, <1>2, <1>5, HeldUpdates, TypedStep
<1>6. ASSUME NEW label, NoTag(b, label) PROVE TypeOK'
  <2>1. mem[b].tries < MaxTries => mem[b].tries + 1 \in 0 .. MaxTries BY <1>2, <1>3 DEF Holds
  <2> QED BY <1>4, <1>5, <1>6, <2>1 DEF NoTag
<1>7. CASE Await(b) BY <1>3, <1>4, <1>5, <1>7 DEF Await
<1>8. CASE ReadUid(b)
  <2>1. ASSUME field # None, GoesTo(b, "readBlocks", [mem[b] EXCEPT !.uid = field]) PROVE TypeOK'
    <3>1. field \in Uids BY <2>1 DEF TypeOK
    <3>2. Holds([mem[b] EXCEPT !.uid = field]) BY <1>2, <3>1, HeldUpdates
    <3> QED BY <1>1, <2>1, <3>2, TypedStep
  <2> QED BY <1>4, <1>8, <2>1 DEF ReadUid
<1>9. CASE ReadBlocks(b)
  <2>1. ASSUME NEW label, NEW d \in Chips, GoesTo(b, label, [mem[b] EXCEPT !.data = d])
        PROVE  TypeOK'
    <3>1. Holds([mem[b] EXCEPT !.data = d]) BY <1>2, HeldUpdates
    <3> QED BY <1>1, <2>1, <3>1, TypedStep
  <2>2. ASSUME field # None, mem[b].want = None, FirstRead(b, chips[field]) PROVE TypeOK'
    <3>1. chips[field] \in GoodChips BY <2>2 DEF IInv, Shape
    <3>2. \/ Fails(b) \/ Succeeds(b)
          \/ /\ Permits(job[b], chips[field])
             /\ GoesTo(b, "awaitWrite", [mem[b] EXCEPT !.data = Patched(job[b], chips[field])])
      BY <2>2 DEF FirstRead
    <3>3. job[b] \in Jobs BY <1>9 DEF ReadBlocks, IInv, Ready, Resting
    <3>4. Permits(job[b], chips[field]) => Patched(job[b], chips[field]) \in Chips
      BY <3>1, <3>3, PatchedGood, GoodChipsAreChips
    <3> QED BY <1>4, <2>1, <3>2, <3>4
  <2>3. ASSUME field # None, ReadBack(b, chips[field]) PROVE TypeOK'
    <3>1. chips[field] \in Chips BY <2>3 DEF TypeOK
    <3> QED BY <1>4, <2>1, <2>3, <3>1 DEF ReadBack
  <2> QED BY <1>4, <1>6, <1>9, <2>2, <2>3 DEF ReadBlocks
<1>10. CASE Write(b)
  <2>1. mem[b].data.bal \in Int BY <1>10 DEF Write, IInv, Ready, Writing, GoodChips
  <2>2. Holds([mem[b] EXCEPT !.want = mem[b].data.bal]) BY <1>2, <2>1, HeldUpdates
  <2>3. GoesTo(b, "await", [mem[b] EXCEPT !.want = mem[b].data.bal]) => TypeOK'
    BY <1>1, <2>2, TypedStep
  <2> QED BY <1>4, <1>6, <1>10, <2>3 DEF Write
<1> QED BY <1>7, <1>8, <1>9, <1>10

LEMMA TypedClient ==
    ASSUME IInv, IInv', TypeOK, NEW b \in Buttons,
           \/ LogIn(b) \/ FindCard(b) \/ FindTerminal(b) \/ Sync(b) \/ RegisterRow(b)
           \/ Send(b) \/ Serve(b) \/ LoseAnswer(b)
    PROVE  TypeOK'
<1>1. token' \in {"none", "good", "old"}
  BY DEF LogIn, FindCard, FindTerminal, Sync, RegisterRow, Listed, Send, Serve, LoseAnswer, Expires,
         TypeOK
<1>2. IsMemory(mem[b]) /\ Holds(mem[b]) BY DEF IInv, Ready, TypeOK, Holds
<1>3. CASE Fails(b) \/ Succeeds(b) \/ Breaks(b) \/ Expires(b)
  BY <1>1, <1>3, TypedEnd DEF Breaks, Expires
<1>4. ASSUME NEW label, GoesTo(b, label, mem[b]) PROVE TypeOK' BY <1>1, <1>2, <1>4, TypedStep
<1>5. ASSUME NEW label, NEW i, GoesTo(b, label, [mem[b] EXCEPT !.card = i]) PROVE TypeOK'
  <2>1. Holds([mem[b] EXCEPT !.card = i]) BY <1>2, HeldUpdates
  <2> QED BY <1>1, <1>5, <2>1, TypedStep
<1>6. CASE LogIn(b)
  <2>1. UNCHANGED <<job, mem, asked>> /\ presses' = presses => TypeOK'
    BY <1>1, TypedRest DEF TypeOK
  <2> QED BY <1>3, <1>6, <2>1 DEF LogIn, page
<1>7. CASE FindCard(b) BY <1>3, <1>5, <1>7 DEF FindCard, Listed
<1>8. CASE FindTerminal(b) BY <1>3, <1>4, <1>8 DEF FindTerminal, Listed
<1>9. CASE Sync(b)
  <2>1. ASSUME NEW i, GoesTo(b, "put", [mem[b] EXCEPT !.card = i, !.row = cards[i]]) PROVE TypeOK'
    <3>1. Holds([mem[b] EXCEPT !.card = i, !.row = cards[i]]) BY <1>2, HeldUpdates
    <3> QED BY <1>1, <2>1, <3>1, TypedStep
  <2> QED BY <1>3, <1>4, <1>9, <2>1 DEF Sync, Listed
<1>10. CASE RegisterRow(b) BY <1>3, <1>4, <1>10 DEF RegisterRow, Listed
<1>11. CASE Send(b)
  <2>1. ASSUME asked' = [asked EXCEPT ![b] = TRUE], UNCHANGED <<job, mem, presses>> PROVE TypeOK'
    <3>1. \A a \in Buttons : asked'[a] \in BOOLEAN BY <2>1 DEF IInv, Shape, TypeOK
    <3> QED BY <1>1, <2>1, <3>1, TypedRest
  <2> QED BY <1>3, <1>11, <2>1 DEF Send
<1>12. CASE Serve(b)
  <2>1. CASE UNCHANGED <<page, presses>> BY <1>1, <2>1, TypedRest DEF page, TypeOK
  <2>2. ASSUME NEW ok, AfterAnswer(b, ok) PROVE TypeOK'
    <3>1. Fails(b) \/ Succeeds(b) \/ GoesTo(b, "sync", [mem[b] EXCEPT !.card = 0])
      BY <2>2 DEF AfterAnswer
    <3> QED BY <1>3, <1>5, <3>1
  <2> QED BY <1>12, <2>1, <2>2 DEF Serve
<1>13. CASE LoseAnswer(b) BY <1>3, <1>13 DEF LoseAnswer
<1> QED BY <1>6, <1>7, <1>8, <1>9, <1>10, <1>11, <1>12, <1>13

LEMMA TypedNext ==
    ASSUME IInv, IInv', TypeOK, [Next]_vars
    PROVE  TypeOK'
<1>1. ASSUME NEW b \in Buttons, Step(b) \/ Serve(b) \/ LoseAnswer(b) PROVE TypeOK'
  BY <1>1, TypedTool, TypedClient DEF Step
<1>2. ASSUME NEW b \in Buttons, NEW j \in Jobs, Press(b, j) PROVE TypeOK'
  <2>1. /\ presses' \in 0 .. MaxPresses /\ job' = [job EXCEPT ![b] = j]
        /\ mem' = [mem EXCEPT ![b] = NoMemory] /\ UNCHANGED <<asked, token>>
    BY <1>2, StationAssumption DEF Press, TypeOK
  <2>2. ASSUME NEW a \in Buttons PROVE job'[a] \in Jobs \cup {None} /\ Holds(mem'[a])
    <3>1. CASE a = b BY <2>1, <3>1, NoMemoryHolds DEF IInv, Shape
    <3>2. CASE a # b BY <2>1, <3>2 DEF IInv, Shape, TypeOK, Holds
    <3> QED BY <3>1, <3>2
  <2>3. chips' \in [Uids -> Chips] /\ field' \in Uids \cup {None} /\ step' \in [Buttons -> Steps]
    BY GoodChipsAreChips DEF IInv, Shape
  <2>4. \A a \in Buttons : asked'[a] => step'[a] \in {"authorize", "post", "put", "create"}
    BY <2>1 DEF IInv, Ready, Asking, TypeOK
  <2> QED BY <2>1, <2>2, <2>3, <2>4 DEF TypeOK, Holds
<1>3. CASE MoveCard BY <1>3, TypedRest DEF MoveCard, page, TypeOK
<1>4. CASE RestartBackend \/ Reopen
  <2>1. /\ asked' = [b \in Buttons |-> FALSE] /\ UNCHANGED <<job, presses>>
        /\ token' \in {"none", "good", "old"}
        /\ \A b \in Buttons : mem'[b] \in {mem[b], NoMemory}
    BY <1>4 DEF RestartBackend, Reopen, TypeOK
  <2>2. \A b \in Buttons : Holds(mem'[b]) BY <2>1, NoMemoryHolds DEF TypeOK, Holds
  <2>3. chips' \in [Uids -> Chips] /\ field' \in Uids \cup {None} /\ step' \in [Buttons -> Steps]
    BY GoodChipsAreChips DEF IInv, Shape
  <2> QED BY <2>1, <2>2, <2>3 DEF TypeOK, Holds
<1>5. CASE UNCHANGED vars BY <1>5, TypedRest DEF vars, page, TypeOK
<1>6. ASSUME NEW b \in Buttons, NEW j \in JobsOf[b] PROVE j \in Jobs BY StationAssumption
<1> QED BY <1>1, <1>2, <1>3, <1>4, <1>5, <1>6 DEF Next

\* The station's variables are of their types: the attempts of a tool are counted up to
\* six, and an answer is waited for only at a request (mifare_libnfc.dart, api_client.dart).
THEOREM TypeCorrect == Spec => []TypeOK
<1>1. Init => TypeOK
  <2> SUFFICES ASSUME Init PROVE TypeOK OBVIOUS
  <2>1. chips \in [Uids -> Chips] /\ presses \in 0 .. MaxPresses
    BY StationAssumption, InitialChipsAssumption DEF Init
  <2>2. \A b \in Buttons : mem[b] = NoMemory /\ Holds(NoMemory) BY NoMemoryHolds DEF Init
  <2> QED BY <2>1, <2>2 DEF Init, TypeOK, Holds, Steps, Resting
<1>2. IInv /\ IInv' /\ TypeOK /\ [Next]_vars => TypeOK' BY TypedNext
<1> QED BY <1>1, <1>2, Invariance, PTL DEF Spec
-----------------------------------------------------------------------------
\* What a lone action tells the backend

\* A card's row.
IsRow(r) == r = [num |-> r.num, bal |-> r.bal, blk |-> r.blk, own |-> r.own]
IsLocals(l) ==
    l = [id |-> l.id, row |-> l.row, entry |-> l.entry, nest |-> None, term |-> None]

\* c is a table of cards with ids below n, whose numbers are unique.
CardTable(c, n) ==
    /\ c = [i \in DOMAIN c |-> c[i]] /\ DOMAIN c \subseteq 1 .. n - 1
    /\ \A i \in DOMAIN c : IsRow(c[i])
    /\ \A i, k \in DOMAIN c : c[i].num = c[k].num => i = k

\* The backend's tables, and what its workers carry.
BackendTables ==
    /\ nextCard \in 1 .. MaxCard + 1 /\ nextEntry \in 1 .. MaxEntry + 1
    /\ CardTable(cards, nextCard)
    /\ DOMAIN journal \subseteq 1 .. nextEntry - 1
Labels == {"idle", "findCard", "findTerminal", "saveCard", "upsertCard", "insertEntry",
           "insertCard", "readCard"}
Carries(w) ==
    /\ pc[w] \in Labels /\ IsLocals(loc[w])
    /\ pc[w] \in {"findCard", "findTerminal"} => req[w].op = "pay"
    /\ pc[w] \in {"findTerminal", "saveCard", "upsertCard"} =>
         loc[w].id \in 1 .. nextCard - 1 /\ IsRow(loc[w].row)
    /\ pc[w] = "insertCard" => IsRow(loc[w].row) /\ req[w].id = 0
    /\ pc[w] = "insertEntry" => req[w].op = "pay" \/ req[w].id = 0
    /\ pc[w] = "readCard" => req[w].op = "updateCard" /\ IsRow(req[w].row)
BackendWorkers ==
    /\ pc = [w \in Buttons |-> pc[w]] /\ cal = [w \in Buttons |-> cal[w]]
    /\ req = [w \in Buttons |-> req[w]] /\ loc = [w \in Buttons |-> loc[w]]
    /\ \A w \in Buttons : Carries(w)
Puts == \A b \in Buttons : step[b] = "put" => IsRow(mem[b].row)

BackendInv == BackendTables /\ BackendWorkers /\ Puts

\* The lone action has not told the backend anything yet.
Untold == cards = alone.cards /\ journal = alone.journal

\* Its job, card i of the backend as it found it, and the row it adds to the journal.
Job == job[alone.button]
Known(i) == i \in DOMAIN alone.cards /\ alone.cards[i].num = alone.on
Allowed(i) == Job.op = "topUp" \/ (~alone.cards[i].blk /\ alone.cards[i].bal >= Job.amt)
Entry(i) == [card |-> i, amt |-> Job.amt, st |-> IF Allowed(i) THEN "approved" ELSE "declined"]

\* Only the balance of card i has changed, and the journal has its row.
Rebalanced(i) == cards = Put(alone.cards, i, [alone.cards[i] EXCEPT !.bal = cards[i].bal])
Journalled(i) ==
    \E k \in Backend!EntryIds \ DOMAIN alone.journal : journal = Put(alone.journal, k, Entry(i))
Accounted ==
    IF Job.op = "register" THEN Untold
    ELSE \E i \in Backend!CardIds : Known(i) /\ Rebalanced(i) /\ Journalled(i)

OnChip == Job.op # "read" /\ chips[alone.on] = Patched(Job, alone.chips[alone.on])

Telling == {"authorize", "findCard", "findTerminal", "post", "sync", "register", "create", "put"}

\* How far the page is, at label with memory m.
PageTold(label, m) ==
    /\ label \in Reading \cup Writing \cup {"findCard", "findTerminal", "post", "register", "create"}
         => Untold
    /\ label \in {"readBlocks"} \cup Writing => m.uid = alone.on
    /\ label \in Reading /\ m.want # None => OnChip
    /\ label \in Writing => Job.op # "read"
    /\ label \in Telling => OnChip /\ m.uid = alone.on /\ m.data = chips[alone.on]
    /\ label = "authorize" => Job.op = "pay"
    /\ label \in {"findCard", "findTerminal", "post"} => Job.op = "topUp"
    /\ label \in {"findTerminal", "post"} => Known(m.card)
    /\ label \in {"sync", "put"} => Accounted
    /\ label \in {"register", "create"} => Job.op = "register" /\ CardsOf(alone.on) = {}
    /\ label = "put" => m.card \in CardsOf(alone.on) /\ m.row = cards[m.card]

\* How far the backend is with the request of a payment, a row of the journal, a new
\* card, or the row of a card.
PayServed(b) ==
    LET id == loc[b].id IN
    /\ pc[b] \in {"findCard", "findTerminal", "saveCard", "insertEntry"}
    /\ pc[b] # "insertEntry" => Untold
    /\ pc[b] = "insertEntry" => journal = alone.journal /\ Rebalanced(id)
    /\ pc[b] # "findCard" => Known(id)
    /\ pc[b] = "findTerminal" => loc[b].row = alone.cards[id]
    /\ pc[b] = "saveCard" =>
         loc[b].row = [alone.cards[id] EXCEPT !.bal = alone.cards[id].bal - Job.amt]
    /\ pc[b] \in {"saveCard", "insertEntry"} => loc[b].entry = Entry(id)
PostServed(b) == pc[b] = "insertEntry" /\ loc[b].entry = Entry(mem[b].card)
CreateServed(b) == pc[b] = "insertCard" /\ loc[b].row = RequestOf(b).row
PutServed(b) ==
    /\ pc[b] \in {"readCard", "saveCard"} /\ cal[b] = Admin
    /\ pc[b] = "saveCard" => loc[b].id = mem[b].card /\ loc[b].row = RequestOf(b).row

Served(b) ==
    /\ req[b] = RequestOf(b)
    /\ step[b] = "authorize" => PayServed(b)
    /\ step[b] = "post" => PostServed(b)
    /\ step[b] = "create" => CreateServed(b)
    /\ step[b] = "put" => PutServed(b)

\* The backend works for the page only, and is as far as the page believes.
Told ==
    LET b == alone.button IN
    /\ \A a \in Buttons \ {b} : pc[a] = "idle"
    /\ asked[b] = TRUE <=> pc[b] # "idle"
    /\ PageTold(step[b], mem[b])
    /\ pc[b] = "idle" /\ step[b] = "authorize" => Untold
    /\ pc[b] # "idle" => Served(b)

Tale == alone # None /\ alone.smooth = TRUE => Told

-----------------------------------------------------------------------------
\* The backend's tables

LEMMA BoundsAreNumbers ==
    ASSUME BackendTables
    PROVE  /\ MaxCard \in Nat /\ MaxEntry \in Nat
           /\ nextCard \in Nat \ {0} /\ nextEntry \in Nat \ {0}
BY KnownCardsAssumption DEF BackendTables

\* A row may be put under an id given out, if no other card has its number,
LEMMA PutCardTable ==
    ASSUME NEW c, NEW n, CardTable(c, n), NEW id \in 1 .. n - 1, NEW row, IsRow(row),
           \A i \in DOMAIN c \ {id} : c[i].num # row.num
    PROVE  CardTable(Put(c, id, row), n)
<1> DEFINE e == Put(c, id, row)
<1>1. DOMAIN e = DOMAIN c \cup {id} /\ e = [i \in DOMAIN e |-> e[i]] BY DEF Put
<1>2. \A i \in DOMAIN e : e[i] = IF i = id THEN row ELSE c[i] BY DEF Put
<1> HIDE DEF e
<1>3. \A i \in DOMAIN e : IsRow(e[i]) BY <1>1, <1>2 DEF CardTable
<1>4. \A i, k \in DOMAIN e : e[i].num = e[k].num => i = k BY <1>1, <1>2 DEF CardTable
<1> QED BY <1>1, <1>3, <1>4 DEF CardTable, e

\* and the table stays one when another id is given out.
LEMMA CardTableGrows ==
    ASSUME NEW c, NEW n \in Nat, CardTable(c, n)
    PROVE  CardTable(c, n + 1)
<1>1. 1 .. n - 1 \subseteq 1 .. (n + 1) - 1 OBVIOUS
<1> QED BY <1>1 DEF CardTable

\* One worker moves on, while no id is taken back.
LEMMA WorkerMoves ==
    ASSUME BackendInv, NEW w \in Buttons, nextCard' \in Nat, nextCard' >= nextCard,
           NEW label, NEW l, NEW r, NEW c,
           pc' = [pc EXCEPT ![w] = label], loc' = [loc EXCEPT ![w] = l],
           req' = [req EXCEPT ![w] = r], cal' = [cal EXCEPT ![w] = c],
           label \in Labels, IsLocals(l),
           label \in {"findCard", "findTerminal"} => r.op = "pay",
           label \in {"findTerminal", "saveCard", "upsertCard"} =>
               l.id \in 1 .. nextCard' - 1 /\ IsRow(l.row),
           label = "insertCard" => IsRow(l.row) /\ r.id = 0,
           label = "insertEntry" => r.op = "pay" \/ r.id = 0,
           label = "readCard" => r.op = "updateCard" /\ IsRow(r.row)
    PROVE  BackendWorkers'
<1>1. /\ pc = [a \in Buttons |-> pc[a]] /\ cal = [a \in Buttons |-> cal[a]]
      /\ req = [a \in Buttons |-> req[a]] /\ loc = [a \in Buttons |-> loc[a]]
  BY DEF BackendInv, BackendWorkers
<1>2. ASSUME NEW a \in Buttons PROVE Carries(a)'
  <2>1. CASE a = w
    <3>1. pc'[a] = label /\ loc'[a] = l /\ req'[a] = r BY <1>1, <2>1
    <3> QED BY <3>1 DEF Carries
  <2>2. CASE a # w
    <3>1. pc'[a] = pc[a] /\ loc'[a] = loc[a] /\ req'[a] = req[a] BY <1>1, <2>2
    <3>2. Carries(a) BY DEF BackendInv, BackendWorkers
    <3>3. 1 .. nextCard - 1 \subseteq 1 .. nextCard' - 1
      BY BoundsAreNumbers DEF BackendInv
    <3> QED BY <3>1, <3>2, <3>3 DEF Carries
  <2> QED BY <2>1, <2>2
<1>3. /\ pc' = [a \in Buttons |-> pc'[a]] /\ cal' = [a \in Buttons |-> cal'[a]]
      /\ req' = [a \in Buttons |-> req'[a]] /\ loc' = [a \in Buttons |-> loc'[a]]
  BY <1>1
<1> QED BY <1>2, <1>3 DEF BackendWorkers

LEMMA NoLocalsAre == IsLocals(Backend!NoLocals)
BY DEF IsLocals, Backend!NoLocals

\* The backend writes tables as the station describes them, and what its workers carry
\* is put together from nothing.
LEMMA PutIsPut ==
    ASSUME NEW f, NEW i, NEW r
    PROVE  Backend!Put(f, i, r) = Put(f, i, r)
BY DEF Put, Backend!Put

LEMMA LocalsPut ==
    ASSUME NEW i, NEW r
    PROVE  /\ [Backend!NoLocals EXCEPT !.id = i, !.row = r]
                = [id |-> i, row |-> r, entry |-> None, nest |-> None, term |-> None]
           /\ [Backend!NoLocals EXCEPT !.row = r]
                = [id |-> 0, row |-> r, entry |-> None, nest |-> None, term |-> None]
           /\ [Backend!NoLocals EXCEPT !.entry = r, !.nest = None, !.term = None]
                = [id |-> 0, row |-> None, entry |-> r, nest |-> None, term |-> None]
<1> DEFINE n == Backend!NoLocals
<1>1. n = [id |-> 0, row |-> None, entry |-> None, nest |-> None, term |-> None]
  BY DEF Backend!NoLocals
<1> HIDE DEF n
<1>2. [n EXCEPT !.id = i, !.row = r]
        = [id |-> i, row |-> r, entry |-> None, nest |-> None, term |-> None]
  <2> DEFINE m == [n EXCEPT !.id = i]
  <2>1. m = [id |-> i, row |-> None, entry |-> None, nest |-> None, term |-> None] BY <1>1
  <2> HIDE DEF m
  <2>2. [m EXCEPT !.row = r]
          = [id |-> i, row |-> r, entry |-> None, nest |-> None, term |-> None]
    BY <2>1
  <2> QED BY <2>2 DEF m
<1>3. [n EXCEPT !.row = r]
        = [id |-> 0, row |-> r, entry |-> None, nest |-> None, term |-> None]
  BY <1>1
<1>4. [n EXCEPT !.entry = r, !.nest = None, !.term = None]
        = [id |-> 0, row |-> None, entry |-> r, nest |-> None, term |-> None]
  <2> DEFINE m == [n EXCEPT !.entry = r]
             k == [m EXCEPT !.nest = None]
  <2>1. m = [id |-> 0, row |-> None, entry |-> r, nest |-> None, term |-> None] BY <1>1
  <2> HIDE DEF m
  <2>2. k = m BY <2>1
  <2> HIDE DEF k
  <2>3. [k EXCEPT !.term = None] = m BY <2>1, <2>2
  <2> QED BY <2>1, <2>3 DEF k, m
<1> QED BY <1>2, <1>3, <1>4 DEF n

LEMMA LocalsPaid ==
    ASSUME NEW l, IsLocals(l), NEW r, NEW e
    PROVE  /\ [l EXCEPT !.row = r, !.entry = e]
                = [id |-> l.id, row |-> r, entry |-> e, nest |-> None, term |-> None]
           /\ [l EXCEPT !.entry = e]
                = [id |-> l.id, row |-> l.row, entry |-> e, nest |-> None, term |-> None]
<1> DEFINE i == l.id
           x == l.row
           y == l.entry
<1>1. l = [id |-> i, row |-> x, entry |-> y, nest |-> None, term |-> None] BY DEF IsLocals
<1> HIDE DEF i, x, y
<1>2. [l EXCEPT !.entry = e]
        = [id |-> i, row |-> x, entry |-> e, nest |-> None, term |-> None]
  BY <1>1
<1> DEFINE m == [l EXCEPT !.row = r]
<1>3. m = [id |-> i, row |-> r, entry |-> y, nest |-> None, term |-> None] BY <1>1
<1> HIDE DEF m
<1>4. [m EXCEPT !.entry = e]
        = [id |-> i, row |-> r, entry |-> e, nest |-> None, term |-> None]
  BY <1>3
<1> QED BY <1>2, <1>4 DEF i, x, m

\* A worker has answered,
LEMMA WorkerEnds ==
    ASSUME BackendInv, NEW w \in Buttons, nextCard' \in Nat, nextCard' >= nextCard,
           Backend!Ends(w)
    PROVE  BackendWorkers'
BY WorkerMoves, NoLocalsAre DEF Backend!Ends, Labels

\* or goes on with the same request.
LEMMA WorkerGoesOn ==
    ASSUME BackendInv, NEW w \in Buttons, nextCard' = nextCard, NEW label, NEW l,
           pc' = [pc EXCEPT ![w] = label], loc' = [loc EXCEPT ![w] = l], UNCHANGED <<cal, req>>,
           label \in Labels \ {"readCard", "findCard", "insertCard"}, IsLocals(l),
           label \in {"findTerminal", "insertEntry"} => req[w].op = "pay",
           label \in {"findTerminal", "saveCard", "upsertCard"} =>
               l.id \in 1 .. nextCard - 1 /\ IsRow(l.row)
    PROVE  BackendWorkers'
<1>1. req' = [req EXCEPT ![w] = req[w]] /\ cal' = [cal EXCEPT ![w] = cal[w]]
  <2>1. req = [a \in Buttons |-> req[a]] /\ cal = [a \in Buttons |-> cal[a]]
    BY DEF BackendInv, BackendWorkers
  <2>2. req = [req EXCEPT ![w] = req[w]] /\ cal = [cal EXCEPT ![w] = cal[w]] BY <2>1
  <2> QED BY <2>2
<1>2. nextCard' \in Nat /\ nextCard' >= nextCard BY BoundsAreNumbers DEF BackendInv
<1> DEFINE r == req[w]
           c == cal[w]
<1>3. /\ req' = [req EXCEPT ![w] = r] /\ cal' = [cal EXCEPT ![w] = c]
      /\ label \in {"findTerminal", "insertEntry"} => r.op = "pay"
  BY <1>1
<1> HIDE DEF r, c
<1>4. /\ label \in Labels /\ label # "readCard" /\ label # "insertCard"
      /\ label \in {"findCard", "findTerminal", "insertEntry"} => r.op = "pay"
      /\ label \in {"findTerminal", "saveCard", "upsertCard"} =>
           l.id \in 1 .. nextCard' - 1 /\ IsRow(l.row)
  BY <1>3
<1> QED BY <1>2, <1>3, <1>4, WorkerMoves

\* A card is written as UNIQUE allows.
LEMMA CardWritten ==
    ASSUME BackendInv, NEW w, NEW id, NEW row, NEW n,
           Backend!WritesCard(w, id, row), IsRow(row), CardTable(cards, n), id \in 1 .. n - 1
    PROVE  CardTable(cards', n) /\ UNCHANGED <<journal, nextEntry>>
BY PutCardTable, PutIsPut DEF Backend!WritesCard, Backend!NumberFree

\* A request of the station's brings no card, and leaves the choice of ids to the
\* backend: its row is put under the next id,
LEMMA EntryInserted ==
    ASSUME BackendInv, NEW w \in Buttons, pc[w] = "insertEntry", Backend!InsertEntry(w)
    PROVE  /\ nextEntry \in Backend!EntryIds \ DOMAIN journal /\ nextEntry' = nextEntry + 1
           /\ journal' = Put(journal, nextEntry, loc[w].entry)
           /\ UNCHANGED <<cards, nextCard>> /\ Backend!Ends(w)
<1>1. IsLocals(loc[w]) /\ (req[w].op = "pay" \/ req[w].id = 0)
  BY DEF BackendInv, BackendWorkers, Carries
<1>2. loc[w].nest = None BY <1>1 DEF IsLocals
<1>3. Backend!NewEntry(w) = nextEntry BY <1>1 DEF Backend!NewEntry
<1>4. /\ nextEntry <= MaxEntry /\ Backend!Ends(w)
      /\ nextEntry \notin DOMAIN journal =>
           /\ Backend!SavesNested(w) /\ journal' = Backend!Put(journal, nextEntry, Backend!EntryRow(w))
           /\ nextEntry' = Backend!Past(nextEntry, nextEntry)
  BY <1>3 DEF Backend!InsertEntry
<1>5. nextEntry \in Backend!EntryIds \ DOMAIN journal
  <2>1. nextEntry \in Nat \ {0} /\ DOMAIN journal \subseteq 1 .. nextEntry - 1
        /\ MaxEntry \in Nat
    BY BoundsAreNumbers DEF BackendInv, BackendTables
  <2>2. nextEntry \notin 1 .. nextEntry - 1 /\ nextEntry \in 1 .. MaxEntry BY <1>4, <2>1
  <2> QED BY <2>1, <2>2 DEF Backend!EntryIds
<1>6. nextEntry' = nextEntry + 1
  <2>1. nextEntry \in Nat BY BoundsAreNumbers DEF BackendInv
  <2> QED BY <1>4, <1>5, <2>1 DEF Backend!Past
<1>7. UNCHANGED <<cards, nextCard>> BY <1>2, <1>4, <1>5 DEF Backend!SavesNested
<1>8. journal' = Put(journal, nextEntry, loc[w].entry)
  BY <1>2, <1>4, <1>5, PutIsPut DEF Backend!EntryRow
<1> QED BY <1>4, <1>5, <1>6, <1>7, <1>8

\* and so is its card, unless the number is taken.
LEMMA CardInserted ==
    ASSUME BackendInv, NEW w \in Buttons, pc[w] = "insertCard", Backend!InsertCard(w)
    PROVE  /\ nextCard \in Backend!CardIds \ DOMAIN cards /\ Backend!Ends(w)
           /\ UNCHANGED <<journal, nextEntry>>
           /\ IF Backend!NumberFree(loc[w].row.num, nextCard)
              THEN cards' = Put(cards, nextCard, loc[w].row) /\ nextCard' = nextCard + 1
              ELSE UNCHANGED <<cards, nextCard>>
<1>1. req[w].id = 0 BY DEF BackendInv, BackendWorkers, Carries
<1>2. Backend!IdFor(req[w].id) = nextCard BY <1>1 DEF Backend!IdFor
<1>3. /\ Backend!InsertsCard(nextCard, loc[w].row) /\ Backend!Ends(w)
      /\ UNCHANGED <<journal, nextEntry>>
  BY <1>2 DEF Backend!InsertCard
<1>4. nextCard \in Backend!CardIds \ DOMAIN cards
  <2>1. nextCard \in Nat \ {0} /\ DOMAIN cards \subseteq 1 .. nextCard - 1 /\ MaxCard \in Nat
    BY BoundsAreNumbers DEF BackendInv, BackendTables, CardTable
  <2>2. nextCard <= MaxCard BY <1>3 DEF Backend!InsertsCard
  <2>3. nextCard \notin 1 .. nextCard - 1 /\ nextCard \in 1 .. MaxCard BY <2>1, <2>2
  <2> QED BY <2>1, <2>3 DEF Backend!CardIds
<1>5. Backend!Past(nextCard, nextCard) = nextCard + 1
  <2>1. nextCard \in Nat BY BoundsAreNumbers DEF BackendInv
  <2> QED BY <2>1 DEF Backend!Past
<1>6. Backend!Insertable(nextCard, loc[w].row.num)
        <=> Backend!NumberFree(loc[w].row.num, nextCard)
  BY <1>4 DEF Backend!Insertable
<1> QED BY <1>3, <1>4, <1>5, <1>6, PutIsPut DEF Backend!InsertsCard

LEMMA StatementKeeps ==
    ASSUME BackendInv, NEW w \in Buttons, Backend!StatementRuns(w)
    PROVE  BackendTables' /\ BackendWorkers'
<1>1. Carries(w) /\ CardTable(cards, nextCard) /\ pc[w] \in Labels
  BY DEF BackendInv, BackendWorkers, BackendTables, Carries
<1>2. UNCHANGED <<cards, nextCard, journal, nextEntry>> => BackendTables'
  BY DEF BackendInv, BackendTables
<1>3. /\ nextCard \in Nat /\ nextCard >= nextCard /\ nextCard + 1 \in Nat
      /\ nextCard + 1 >= nextCard
  BY BoundsAreNumbers DEF BackendInv
<1>4. ASSUME Backend!Refuses(w) PROVE BackendTables' /\ BackendWorkers'
  BY <1>2, <1>3, <1>4, WorkerEnds DEF Backend!Refuses, Backend!tables
<1>5. ASSUME NEW i \in DOMAIN cards
      PROVE  /\ i \in 1 .. nextCard - 1 /\ IsRow(cards[i])
             /\ IsLocals([Backend!NoLocals EXCEPT !.id = i, !.row = cards[i]])
             /\ [Backend!NoLocals EXCEPT !.id = i, !.row = cards[i]].id = i
             /\ [Backend!NoLocals EXCEPT !.id = i, !.row = cards[i]].row = cards[i]
  <2>1. [Backend!NoLocals EXCEPT !.id = i, !.row = cards[i]]
          = [id |-> i, row |-> cards[i], entry |-> None, nest |-> None, term |-> None]
    BY LocalsPut
  <2>2. i \in 1 .. nextCard - 1 /\ IsRow(cards[i]) BY <1>1, <1>5 DEF CardTable
  <2> QED BY <2>1, <2>2 DEF IsLocals
<1>6. CASE Backend!FindCard(w)
  <2>1. req[w].op = "pay" BY <1>1, <1>6 DEF Backend!FindCard, Carries
  <2>2. ASSUME NEW i \in DOMAIN cards,
               Backend!Reads(w, "findTerminal", [Backend!NoLocals EXCEPT !.id = i, !.row = cards[i]])
        PROVE  BackendTables' /\ BackendWorkers'
    BY <1>2, <1>5, <2>1, <2>2, WorkerGoesOn
       DEF Backend!Reads, Backend!GoesOn, Backend!tables, Labels
  <2> QED BY <1>4, <1>6, <2>2 DEF Backend!FindCard
<1>7. CASE Backend!FindTerminal(w)
  <2> DEFINE l == loc[w]
             paid == [l.row EXCEPT !.bal = l.row.bal - req[w].amt]
             Paid(st) == [l EXCEPT !.row = paid,
                                   !.entry = [card |-> l.id, amt |-> req[w].amt, st |-> st]]
  <2>1. l.id \in 1 .. nextCard - 1 /\ IsRow(l.row) /\ IsLocals(l) /\ req[w].op = "pay"
    BY <1>1, <1>7 DEF Backend!FindTerminal, Carries
  <2>2. ASSUME Backend!Reads(w, "saveCard", Paid("approved"))
        PROVE  BackendTables' /\ BackendWorkers'
    <3>1. /\ IsLocals(Paid("approved")) /\ Paid("approved").id = l.id
          /\ IsRow(Paid("approved").row)
      <4>1. IsRow(paid) BY <2>1 DEF IsRow
      <4> HIDE DEF paid
      <4>2. \A e : [l EXCEPT !.row = paid, !.entry = e]
                      = [id |-> l.id, row |-> paid, entry |-> e, nest |-> None, term |-> None]
        BY <2>1, LocalsPaid
      <4>3. Paid("approved") = [id |-> l.id, row |-> paid,
                                entry |-> [card |-> l.id, amt |-> req[w].amt, st |-> "approved"],
                                nest |-> None, term |-> None]
        BY <4>2
      <4> QED BY <4>1, <4>3 DEF IsLocals
    <3> HIDE DEF Paid
    <3> QED BY <1>2, <2>1, <2>2, <3>1, WorkerGoesOn
            DEF Backend!Reads, Backend!GoesOn, Backend!tables, Labels
  <2>3. ASSUME NEW x, Backend!Reads(w, "insertEntry", [l EXCEPT !.entry = x])
        PROVE  BackendTables' /\ BackendWorkers'
    <3> DEFINE m == [l EXCEPT !.entry = x]
    <3>1. IsLocals(m) BY <2>1, LocalsPaid DEF IsLocals
    <3>2. Backend!Reads(w, "insertEntry", m) BY <2>3
    <3> HIDE DEF m
    <3> QED BY <1>2, <2>1, <3>1, <3>2, WorkerGoesOn
            DEF Backend!Reads, Backend!GoesOn, Backend!tables, Labels
  <2> QED BY <1>4, <1>7, <2>2, <2>3 DEF Backend!FindTerminal
<1>8. ASSUME pc[w] \in {"saveCard", "upsertCard"}, Backend!WritesCard(w, loc[w].id, loc[w].row),
             Backend!AfterCard(w), UNCHANGED nextCard
      PROVE  BackendTables' /\ BackendWorkers'
  <2>1. loc[w].id \in 1 .. nextCard - 1 /\ IsRow(loc[w].row) /\ IsLocals(loc[w])
    BY <1>1, <1>8 DEF Carries
  <2>2. BackendTables' BY <1>1, <1>8, <2>1, CardWritten DEF BackendInv, BackendTables
  <2>3. CASE Backend!Ends(w) BY <1>3, <1>8, <2>2, <2>3, WorkerEnds
  <2>4. CASE req[w].op = "pay" /\ Backend!GoesOn(w, "insertEntry", loc[w])
    BY <1>8, <2>1, <2>2, <2>4, WorkerGoesOn DEF Backend!GoesOn, Labels
  <2> QED BY <1>8, <2>3, <2>4 DEF Backend!AfterCard
<1>9. CASE Backend!SaveCard(w)
  <2>1. CASE Backend!Reads(w, "upsertCard", loc[w])
    BY <1>1, <1>2, <1>9, <2>1, WorkerGoesOn
       DEF Backend!SaveCard, Backend!Reads, Backend!GoesOn, Backend!tables, Labels, Carries
  <2> QED BY <1>8, <1>9, <2>1 DEF Backend!SaveCard
<1>10. CASE Backend!UpsertCard(w) BY <1>8, <1>10 DEF Backend!UpsertCard
<1>11. CASE Backend!InsertEntry(w)
  <2>1. /\ nextEntry \in Backend!EntryIds \ DOMAIN journal /\ nextEntry' = nextEntry + 1
        /\ journal' = Put(journal, nextEntry, loc[w].entry)
        /\ UNCHANGED <<cards, nextCard>> /\ Backend!Ends(w)
    BY <1>11, EntryInserted DEF Backend!InsertEntry
  <2>2. DOMAIN journal' = DOMAIN journal \cup {nextEntry} BY <2>1 DEF Put
  <2>3. nextEntry + 1 \in 1 .. MaxEntry + 1 /\ 1 .. nextEntry - 1 \cup {nextEntry} \subseteq 1 .. (nextEntry + 1) - 1
    BY <2>1, BoundsAreNumbers DEF BackendInv, Backend!EntryIds
  <2>4. BackendTables' BY <2>1, <2>2, <2>3 DEF BackendInv, BackendTables
  <2> QED BY <1>3, <2>1, <2>4, WorkerEnds
<1>12. CASE Backend!InsertCard(w)
  <2> DEFINE row == loc[w].row
  <2>1. /\ nextCard \in Backend!CardIds \ DOMAIN cards /\ Backend!Ends(w)
        /\ UNCHANGED <<journal, nextEntry>>
        /\ IF Backend!NumberFree(row.num, nextCard)
           THEN cards' = Put(cards, nextCard, row) /\ nextCard' = nextCard + 1
           ELSE UNCHANGED <<cards, nextCard>>
    BY <1>12, CardInserted DEF Backend!InsertCard
  <2>2. IsRow(row) BY <1>1, <1>12 DEF Backend!InsertCard, Carries
  <2>3. BackendWorkers' BY <1>3, <2>1, WorkerEnds
  <2>4. CASE Backend!NumberFree(row.num, nextCard)
    <3>1. CardTable(cards, nextCard + 1) /\ nextCard \in 1 .. (nextCard + 1) - 1
          /\ nextCard + 1 \in 1 .. MaxCard + 1
      BY <1>1, <2>1, CardTableGrows, BoundsAreNumbers DEF BackendInv, Backend!CardIds
    <3>2. \A i \in DOMAIN cards \ {nextCard} : cards[i].num # row.num
      BY <2>4 DEF Backend!NumberFree
    <3> HIDE DEF row
    <3>3. CardTable(cards', nextCard + 1)
      <4>1. CardTable(Put(cards, nextCard, row), nextCard + 1)
        BY <1>3, <2>2, <3>1, <3>2, PutCardTable
      <4> QED BY <2>1, <2>4, <4>1
    <3> QED BY <2>1, <2>3, <2>4, <3>1, <3>3 DEF BackendInv, BackendTables
  <2>5. CASE ~Backend!NumberFree(row.num, nextCard) BY <1>2, <2>1, <2>3, <2>5
  <2> QED BY <2>4, <2>5
<1>13. CASE Backend!ReadCard(w)
  <2> DEFINE id == req[w].id
             row == Backend!Merged(cal[w], req[w].row, cards[id])
             l == [Backend!NoLocals EXCEPT !.id = id, !.row = row]
  <2>1. req[w].op = "updateCard" /\ IsRow(req[w].row)
    BY <1>1, <1>13 DEF Backend!ReadCard, Carries
  <2>2. \/ Backend!Refuses(w)
        \/ id \in DOMAIN cards /\ Backend!Reads(w, "saveCard", l)
    BY <1>13, <2>1 DEF Backend!ReadCard
  <2>3. IsRow(row) BY <2>1 DEF Backend!Merged, IsRow
  <2> HIDE DEF row
  <2>4. IsLocals(l) /\ l.id = id /\ l.row = row
    <3>1. l = [id |-> id, row |-> row, entry |-> None, nest |-> None, term |-> None]
      BY LocalsPut
    <3> QED BY <3>1 DEF IsLocals
  <2> HIDE DEF l
  <2>5. id \in DOMAIN cards => id \in 1 .. nextCard - 1 BY <1>5
  <2> QED BY <1>2, <1>4, <2>2, <2>3, <2>4, <2>5, WorkerGoesOn
          DEF Backend!Reads, Backend!GoesOn, Backend!tables, Labels
<1> QED
  BY <1>1, <1>6, <1>7, <1>9, <1>10, <1>11, <1>12, <1>13
     DEF Backend!StatementRuns, Labels, Backend!RemoveCard, Backend!ReadEntry,
         Backend!ReadEntryCard, Backend!ReadNewCard, Backend!SaveEntry, Backend!UpsertEntry,
         Backend!RemoveEntry, Backend!EditTerminals

LEMMA FailureKeeps ==
    ASSUME BackendInv, NEW w \in Buttons, Backend!StatementFails(w)
    PROVE  BackendTables' /\ BackendWorkers'
<1>1. UNCHANGED <<cards, nextCard, journal, nextEntry>>
  BY DEF Backend!StatementFails, Backend!tables
<1>2. BackendTables' BY <1>1 DEF BackendInv, BackendTables
<1>3. nextCard' \in Nat /\ nextCard' >= nextCard BY <1>1, BoundsAreNumbers DEF BackendInv
<1>4. CASE Backend!Ends(w) BY <1>2, <1>3, <1>4, WorkerEnds
<1>5. CASE pc' = [pc EXCEPT ![w] = "insertEntry"] /\ UNCHANGED <<cal, req, loc>> /\ req[w].op = "pay"
  <2>1. IsLocals(loc[w]) BY DEF BackendInv, BackendWorkers, Carries
  <2>2. loc' = [loc EXCEPT ![w] = loc[w]]
    <3>1. loc = [a \in Buttons |-> loc[a]] BY DEF BackendInv, BackendWorkers
    <3>2. loc = [loc EXCEPT ![w] = loc[w]] BY <3>1
    <3> QED BY <1>5, <3>2
  <2>3. "insertEntry" \in Labels \ {"readCard", "findCard", "insertCard"} BY DEF Labels
  <2> QED BY <1>1, <1>2, <1>5, <2>1, <2>2, <2>3, WorkerGoesOn
<1> QED BY <1>4, <1>5 DEF Backend!StatementFails

\* What the page asks for: each step its request.
LEMMA RequestsAre ==
    ASSUME NEW b \in Buttons
    PROVE  /\ step[b] = "authorize" =>
                RequestOf(b) = [op |-> "pay", num |-> mem[b].uid, amt |-> job[b].amt,
                                term |-> job[b].term]
           /\ step[b] = "post" =>
                RequestOf(b) = [op |-> "createEntry", id |-> 0, nest |-> None, term |-> None,
                                entry |-> [card |-> mem[b].card,
                                amt |-> job[b].amt, st |-> "approved"]]
           /\ step[b] = "put" =>
                RequestOf(b) = [op |-> "updateCard", id |-> mem[b].card,
                                row |-> [mem[b].row EXCEPT !.bal = mem[b].data.bal]]
           /\ step[b] = "create" =>
                RequestOf(b) = [op |-> "createCard", id |-> 0, row |-> [num |-> mem[b].uid,
                                bal |-> mem[b].data.bal, blk |-> FALSE, own |-> 1]]
BY DEF RequestOf

\* What a worker that takes it carries then.
LEMMA AcceptedIs ==
    ASSUME NEW b \in Buttons, NEW c, step[b] \in Asking,
           c = IF step[b] = "authorize" THEN None ELSE Admin
    PROVE  LET r == RequestOf(b)
               l == Backend!FirstLocals(c, r)
           IN  /\ Backend!FirstStatement(c, r) =
                    CASE step[b] = "authorize" -> "findCard" [] step[b] = "post" -> "insertEntry"
                      [] step[b] = "put" -> "readCard" [] step[b] = "create" -> "insertCard"
               /\ IsLocals(l)
               /\ step[b] = "post" => l.entry = r.entry /\ r.id = 0
               /\ step[b] = "create" => l.row = r.row /\ r.id = 0
<1> DEFINE r == RequestOf(b)
<1>1. Admin.adm = TRUE BY DEF Admin
<1>2. CASE step[b] = "authorize"
  <2>1. r.op = "pay" BY <1>2, RequestsAre
  <2> QED BY <1>2, <2>1, NoLocalsAre DEF Backend!FirstStatement, Backend!FirstLocals
<1>3. CASE step[b] = "post"
  <2>1. /\ r.op = "createEntry" /\ r.id = 0 /\ r.nest = None /\ r.term = None /\ c = Admin
    BY <1>3, RequestsAre
  <2>2. Backend!FirstStatement(c, r) = "insertEntry"
    BY <1>1, <2>1 DEF Backend!FirstStatement
  <2>3. Backend!FirstLocals(c, r)
          = [id |-> 0, row |-> None, entry |-> r.entry, nest |-> None, term |-> None]
    BY <2>1, LocalsPut DEF Backend!FirstLocals
  <2> QED BY <1>3, <2>1, <2>2, <2>3 DEF IsLocals
<1>4. CASE step[b] = "put"
  <2>1. r.op = "updateCard" BY <1>4, RequestsAre
  <2> QED BY <1>4, <2>1, NoLocalsAre DEF Backend!FirstStatement, Backend!FirstLocals
<1>5. CASE step[b] = "create"
  <2>1. r.op = "createCard" /\ r.id = 0 /\ c = Admin BY <1>5, RequestsAre
  <2>2. Backend!FirstStatement(c, r) = "insertCard"
    BY <1>1, <2>1 DEF Backend!FirstStatement
  <2>3. Backend!FirstLocals(c, r)
          = [id |-> 0, row |-> r.row, entry |-> None, nest |-> None, term |-> None]
    BY <1>1, <2>1, LocalsPut DEF Backend!FirstLocals
  <2> QED BY <1>5, <2>1, <2>2, <2>3 DEF IsLocals
<1> QED BY <1>2, <1>3, <1>4, <1>5 DEF Asking

LEMMA AcceptKeeps ==
    ASSUME BackendInv, NEW b \in Buttons, step[b] \in Asking,
           Backend!Accept(b, IF step[b] = "authorize" THEN None ELSE Admin, RequestOf(b))
    PROVE  BackendTables' /\ BackendWorkers'
<1> DEFINE c == IF step[b] = "authorize" THEN None ELSE Admin
           r == RequestOf(b)
           l == Backend!FirstLocals(c, r)
           label == Backend!FirstStatement(c, r)
<1>1. /\ pc' = [pc EXCEPT ![b] = label] /\ loc' = [loc EXCEPT ![b] = l]
      /\ req' = [req EXCEPT ![b] = r] /\ cal' = [cal EXCEPT ![b] = c]
      /\ UNCHANGED <<cards, nextCard, journal, nextEntry>>
  BY DEF Backend!Accept, Backend!tables
<1>2. BackendTables' BY <1>1 DEF BackendInv, BackendTables
<1>3. /\ label = CASE step[b] = "authorize" -> "findCard" [] step[b] = "post" -> "insertEntry"
                   [] step[b] = "put" -> "readCard" [] step[b] = "create" -> "insertCard"
      /\ IsLocals(l)
      /\ step[b] = "create" => l.row = r.row /\ r.id = 0
      /\ step[b] = "post" => r.id = 0
  BY AcceptedIs
<1>4. /\ step[b] = "authorize" => r.op = "pay"
      /\ step[b] = "put" => r.op = "updateCard" /\ IsRow(r.row)
      /\ step[b] = "create" => IsRow(r.row)
  <2>1. step[b] = "authorize" => r.op = "pay" BY RequestsAre
  <2>2. step[b] = "put" => r.op = "updateCard" /\ IsRow(r.row)
    <3> SUFFICES ASSUME step[b] = "put" PROVE r.op = "updateCard" /\ IsRow(r.row) OBVIOUS
    <3>1. r = [op |-> "updateCard", id |-> mem[b].card,
               row |-> [mem[b].row EXCEPT !.bal = mem[b].data.bal]]
      BY RequestsAre
    <3>2. IsRow(mem[b].row) BY DEF BackendInv, Puts
    <3> QED BY <3>1, <3>2 DEF IsRow
  <2>3. step[b] = "create" => IsRow(r.row)
    <3> SUFFICES ASSUME step[b] = "create" PROVE IsRow(r.row) OBVIOUS
    <3> DEFINE row == [num |-> mem[b].uid, bal |-> mem[b].data.bal, blk |-> FALSE, own |-> 1]
    <3>1. IsRow(row) BY DEF IsRow
    <3>2. r = [op |-> "createCard", id |-> 0, row |-> row] BY RequestsAre
    <3> HIDE DEF row
    <3> QED BY <3>1, <3>2
  <2> QED BY <2>1, <2>2, <2>3
<1>5. nextCard' \in Nat /\ nextCard' >= nextCard BY <1>1, BoundsAreNumbers DEF BackendInv
<1> HIDE DEF c, r, l, label
<1>6. /\ label \in Labels
      /\ label \in {"findCard", "findTerminal"} => r.op = "pay"
      /\ label \notin {"findTerminal", "saveCard", "upsertCard"}
      /\ label = "insertCard" => IsRow(l.row) /\ r.id = 0
      /\ label = "insertEntry" => r.op = "pay" \/ r.id = 0
      /\ label = "readCard" => r.op = "updateCard" /\ IsRow(r.row)
  BY <1>3, <1>4 DEF Labels, Asking
<1> QED BY <1>1, <1>2, <1>3, <1>5, <1>6, WorkerMoves

\* The page sends a card's row back only after it has read one.
LEMMA PutsKept ==
    ASSUME IInv, BackendInv, NEW b \in Buttons, NEW label, NEW m, GoesTo(b, label, m),
           label = "put" => IsRow(m.row)
    PROVE  Puts'
BY DEF GoesTo, IInv, Shape, BackendInv, Puts

LEMMA PutsEnd ==
    ASSUME IInv, BackendInv, NEW b \in Buttons, Fails(b) \/ Succeeds(b)
    PROVE  Puts'
BY PutsKept DEF Fails, Succeeds

LEMMA PageKeeps ==
    ASSUME BackendInv, UNCHANGED backend, Puts'
    PROVE  BackendInv'
BY DEF backend, BackendInv, BackendTables, BackendWorkers, Carries

LEMMA BackendNext ==
    ASSUME IInv, BackendInv, [Next]_vars
    PROVE  BackendInv'
<1>1. ASSUME NEW b \in Buttons, Fails(b) \/ Succeeds(b) \/ Breaks(b) \/ Expires(b) PROVE Puts'
  BY <1>1, PutsEnd DEF Breaks, Expires
<1>2. ASSUME NEW b \in Buttons, NEW label, label # "put", NEW m, GoesTo(b, label, m) PROVE Puts'
  BY <1>2, PutsKept
<1>3. ASSUME NEW b \in Buttons, Await(b) \/ ReadUid(b) \/ ReadBlocks(b) \/ Write(b)
      PROVE  BackendInv'
  <2>1. UNCHANGED backend BY <1>3 DEF Await, ReadUid, ReadBlocks, Write
  <2>2. \/ Fails(b) \/ Succeeds(b) \/ Breaks(b)
        \/ \E label, m : label # "put" /\ GoesTo(b, label, m)
    <3>1. CASE Await(b)
      BY <3>1 DEF Await
    <3>2. CASE ReadUid(b) BY <3>2 DEF ReadUid
    <3>3. CASE ReadBlocks(b) BY <3>3 DEF ReadBlocks, FirstRead, ReadBack, NoTag
    <3>4. CASE Write(b) BY <3>4 DEF Write, NoTag
    <3> QED BY <1>3, <3>1, <3>2, <3>3, <3>4
  <2> QED BY <1>1, <1>2, <2>1, <2>2, PageKeeps
<1>4. ASSUME NEW b \in Buttons, LogIn(b) PROVE BackendInv'
  <2>1. UNCHANGED backend BY <1>4 DEF LogIn
  <2>2. UNCHANGED page => Puts' BY DEF page, BackendInv, Puts
  <2> QED BY <1>1, <1>4, <2>1, <2>2, PageKeeps DEF LogIn
<1>5. ASSUME NEW b \in Buttons, FindCard(b) \/ FindTerminal(b) \/ Sync(b) \/ RegisterRow(b)
      PROVE  BackendInv'
  <2>1. UNCHANGED backend
    BY <1>5 DEF FindCard, FindTerminal, Sync, RegisterRow, Listed
  <2>2. CASE FindCard(b) BY <1>1, <1>2, <2>1, <2>2, PageKeeps DEF FindCard, Listed
  <2>3. CASE FindTerminal(b) BY <1>1, <1>2, <2>1, <2>3, PageKeeps DEF FindTerminal, Listed
  <2>4. CASE RegisterRow(b) BY <1>1, <1>2, <2>1, <2>4, PageKeeps DEF RegisterRow, Listed
  <2>5. CASE Sync(b)
    <3>1. ASSUME NEW i \in CardsOf(mem[b].uid),
                 GoesTo(b, "put", [mem[b] EXCEPT !.card = i, !.row = cards[i]])
          PROVE  Puts'
      <4> DEFINE m == [mem[b] EXCEPT !.card = i, !.row = cards[i]]
      <4>1. IsRow(cards[i]) BY DEF CardsOf, BackendInv, BackendTables, CardTable
      <4>2. m.row = cards[i] BY DEF IInv, Ready, IsMemory
      <4> HIDE DEF m
      <4>3. GoesTo(b, "put", m) BY <3>1 DEF m
      <4> QED BY <4>1, <4>2, <4>3, PutsKept
    <3>2. \/ Fails(b) \/ Breaks(b) \/ Expires(b)
          \/ GoesTo(b, "register", mem[b])
          \/ \E i \in CardsOf(mem[b].uid) :
                GoesTo(b, "put", [mem[b] EXCEPT !.card = i, !.row = cards[i]])
      BY <2>5 DEF Sync, Listed
    <3>3. Puts' BY <1>1, <1>2, <3>1, <3>2
    <3> QED BY <2>1, <3>3, PageKeeps
  <2> QED BY <1>5, <2>2, <2>3, <2>4, <2>5
<1>6. ASSUME NEW b \in Buttons, Send(b) PROVE BackendInv'
  <2>1. CASE UNCHANGED backend /\ (Expires(b) \/ Breaks(b)) BY <1>1, <2>1, PageKeeps
  <2>2. CASE /\ Backend!Accept(b, IF step[b] = "authorize" THEN None ELSE Admin, RequestOf(b))
             /\ UNCHANGED <<step, mem>>
    <3>1. step[b] \in Asking BY <1>6 DEF Send, Asking
    <3>2. Puts' BY <2>2 DEF BackendInv, Puts
    <3> QED BY <2>2, <3>1, <3>2, AcceptKeeps DEF BackendInv
  <2> QED BY <1>6, <2>1, <2>2 DEF Send
<1>7. ASSUME NEW b \in Buttons, Serve(b) PROVE BackendInv'
  <2>1. BackendTables' /\ BackendWorkers' BY <1>7, StatementKeeps, FailureKeeps DEF Serve
  <2>2. UNCHANGED page => Puts' BY DEF page, BackendInv, Puts
  <2>3. ASSUME NEW ok, AfterAnswer(b, ok) PROVE Puts'
    <3>1. Fails(b) \/ Succeeds(b) \/ GoesTo(b, "sync", [mem[b] EXCEPT !.card = 0])
      BY <2>3 DEF AfterAnswer
    <3> QED BY <1>1, <1>2, <3>1
  <2> QED BY <1>7, <2>1, <2>2, <2>3 DEF Serve, BackendInv
<1>8. ASSUME NEW b \in Buttons, LoseAnswer(b) PROVE BackendInv'
  BY <1>1, <1>8, PageKeeps DEF LoseAnswer
<1>9. ASSUME NEW b \in Buttons, NEW j, Press(b, j) PROVE BackendInv'
  <2>1. Puts' BY <1>9 DEF Press, IInv, Shape, BackendInv, Puts
  <2> QED BY <1>9, <2>1, PageKeeps DEF Press
<1>10. CASE MoveCard
  <2>1. Puts' BY <1>10 DEF MoveCard, page, BackendInv, Puts
  <2> QED BY <1>10, <2>1, PageKeeps DEF MoveCard
<1>11. CASE RestartBackend
  <2>1. BackendTables'
    BY <1>11 DEF RestartBackend, Backend!Restart, Backend!tables, BackendInv, BackendTables
  <2>2. BackendWorkers'
    <3>1. /\ pc' = [w \in Buttons |-> "idle"] /\ cal' = [w \in Buttons |-> None]
          /\ req' = [w \in Buttons |-> None] /\ loc' = [w \in Buttons |-> Backend!NoLocals]
      BY <1>11 DEF RestartBackend, Backend!Restart
    <3>2. \A w \in Buttons : pc'[w] = "idle" /\ IsLocals(loc'[w]) BY <3>1, NoLocalsAre
    <3>3. \A w \in Buttons : Carries(w)' BY <3>2 DEF Carries, Labels
    <3> QED BY <3>1, <3>3 DEF BackendWorkers
  <2>3. Puts' BY <1>11 DEF RestartBackend, BackendInv, Puts
  <2> QED BY <2>1, <2>2, <2>3 DEF BackendInv
<1>12. CASE Reopen
  <2>1. Puts' BY <1>12 DEF Reopen, Puts
  <2> QED BY <1>12, <2>1, PageKeeps DEF Reopen
<1>13. CASE UNCHANGED vars
  <2>1. Puts' BY <1>13 DEF vars, page, BackendInv, Puts
  <2> QED BY <1>13, <2>1, PageKeeps DEF vars
<1> QED
  BY <1>3, <1>4, <1>5, <1>6, <1>7, <1>8, <1>9, <1>10, <1>11, <1>12, <1>13 DEF Next, Step

LEMMA BackendStarts == Init => BackendInv
<1> SUFFICES ASSUME Init PROVE BackendInv OBVIOUS
<1>1. PICK n \in 0 .. MaxCard : DOMAIN InitialCards = 1 .. n BY KnownCardsAssumption
<1>2. n \in Nat /\ Cardinality(1 .. n) = n BY <1>1, KnownCardsAssumption, FS_Interval
<1>3. cards = InitialCards /\ nextCard = n + 1 /\ journal = <<>> /\ nextEntry = 1
  <2>1. Backend!Cardinality(DOMAIN InitialCards) = Cardinality(DOMAIN InitialCards)
    BY Zenon DEF Cardinality, Backend!Cardinality
  <2> QED BY <1>1, <1>2, <2>1 DEF Init, Backend!Init
<1>4. \A i \in DOMAIN InitialCards : IsRow(InitialCards[i])
  BY KnownCardsAssumption DEF IsTable, IsRow
<1>5. InitialCards = [i \in DOMAIN InitialCards |-> InitialCards[i]]
  BY KnownCardsAssumption DEF IsTable
<1>6. DOMAIN InitialCards \subseteq 1 .. (n + 1) - 1 BY <1>1, <1>2
<1>7. CardTable(cards, nextCard) BY <1>3, <1>4, <1>5, <1>6, KnownCardsAssumption DEF CardTable
<1>8. BackendTables
  <2>1. DOMAIN journal = {} BY <1>3
  <2>2. n + 1 \in 1 .. MaxCard + 1 /\ 1 \in 1 .. MaxEntry + 1
    BY <1>1, KnownCardsAssumption
  <2> QED BY <1>3, <1>7, <2>1, <2>2 DEF BackendTables
<1>9. BackendWorkers
  <2>1. /\ pc = [w \in Buttons |-> "idle"] /\ cal = [w \in Buttons |-> None]
        /\ req = [w \in Buttons |-> None] /\ loc = [w \in Buttons |-> Backend!NoLocals]
    BY DEF Init, Backend!Init
  <2>2. \A w \in Buttons : pc[w] = "idle" /\ IsLocals(loc[w]) BY <2>1, NoLocalsAre
  <2>3. \A w \in Buttons : Carries(w) BY <2>2 DEF Carries, Labels
  <2> QED BY <2>1, <2>3 DEF BackendWorkers
<1>10. Puts BY DEF Init, Puts
<1> QED BY <1>8, <1>9, <1>10 DEF BackendInv

-----------------------------------------------------------------------------
\* A lone action that nothing goes wrong for

\* What the page leaves when it calls its action failed or done.
Ended ==
    IF step'[alone.button] = "failed" \/ Job.op = "read"
    THEN cards' = alone.cards /\ journal' = alone.journal
    ELSE OnChip /\ Booked(Job, alone.on, chips[alone.on], alone.cards, alone.journal)

\* Nothing is claimed any more once something has gone wrong,
LEMMA SmoothOnly ==
    ASSUME IInv, Smoothly \/ Roughly, alone' # None, alone'.smooth # FALSE
    PROVE  Smoothly /\ alone' = alone /\ alone # None /\ alone.smooth = TRUE
<1>1. alone # None BY NoRecord
<1>2. alone.smooth \in BOOLEAN /\ DOMAIN alone = {"button", "on", "smooth", "chips", "cards", "journal"}
  BY <1>1 DEF IInv, Recorded
<1>3. CASE Roughly
  <2>1. alone' = [alone EXCEPT !.smooth = FALSE] BY <1>1, <1>3 DEF Roughly
  <2> QED BY <1>2, <2>1
<1> QED BY <1>1, <1>2, <1>3 DEF Smoothly

LEMMA RoughTale ==
    ASSUME IInv, Roughly \/ alone' = None
    PROVE  Tale' /\ EndsAgree
<1>1. alone' = None \/ alone'.smooth = FALSE
  <2>1. CASE alone # None /\ Roughly
    <3>1. alone' = [alone EXCEPT !.smooth = FALSE] BY <2>1 DEF Roughly
    <3>2. DOMAIN alone = {"button", "on", "smooth", "chips", "cards", "journal"}
      BY <2>1 DEF IInv, Recorded
    <3> QED BY <3>1, <3>2
  <2> QED BY <2>1 DEF Roughly
<1> QED BY <1>1 DEF Tale, EndsAgree

\* and otherwise it is enough to look at the button that is at work.
LEMMA SmoothTale ==
    ASSUME IInv, Smoothly, NEW b \in Buttons, step[b] \notin Resting,
           \A a \in Buttons \ {b} : step'[a] = step[a],
           alone # None /\ alone.smooth = TRUE /\ b = alone.button =>
               Told' /\ (step'[b] \in {"done", "failed"} => Ended)
    PROVE  Tale' /\ EndsAgree
<1>1. alone' = alone BY DEF Smoothly
<1>2. CASE alone = None BY <1>1, <1>2 DEF Tale, EndsAgree
<1>3. CASE alone # None
  <2>1. b = alone.button /\ alone.smooth \in BOOLEAN BY <1>3, LoneButton DEF IInv, Recorded
  <2>2. Tale' BY <1>1, <1>3, <2>1 DEF Tale
  <2>3. EndsAgree
    <3> SUFFICES ASSUME NEW a \in Buttons, step[a] \notin Resting,
                        step'[a] \in {"done", "failed"}, alone.smooth = TRUE
                 PROVE  IF step'[a] = "failed" \/ job[a].op = "read"
                        THEN cards' = alone'.cards /\ journal' = alone'.journal
                        ELSE /\ chips[alone'.on] = Patched(job[a], alone'.chips[alone'.on])
                             /\ Booked(job[a], alone'.on, chips[alone'.on], alone'.cards,
                                       alone'.journal)
      BY <1>1, <1>3, <2>1 DEF EndsAgree
    <3>1. a = b BY <1>3, <2>1, LoneButton
    <3> QED BY <1>1, <1>3, <2>1, <3>1 DEF Ended, Job, OnChip
  <2> QED BY <2>2, <2>3
<1> QED BY <1>2, <1>3

\* What has been told depends on the record, the chips and the tables only.
LEMMA TellingFrame ==
    ASSUME UNCHANGED <<alone, job, chips, cards, journal>>
    PROVE  /\ Untold' = Untold /\ OnChip' = OnChip /\ Accounted' = Accounted
           /\ CardsOf(alone.on)' = CardsOf(alone.on) /\ Job' = Job
           /\ \A i : /\ Known(i)' = Known(i) /\ Entry(i)' = Entry(i)
                     /\ Rebalanced(i)' = Rebalanced(i)
BY DEF Untold, OnChip, Accounted, CardsOf, Job, Known, Entry, Allowed, Rebalanced, Journalled,
       Backend!CardIds, Backend!EntryIds

LEMMA ToldFrame ==
    ASSUME UNCHANGED <<alone, job, chips, cards, journal>>, NEW label, NEW m, PageTold(label, m)
    PROVE  PageTold(label, m)'
<1>1. /\ Untold' = Untold /\ OnChip' = OnChip /\ Accounted' = Accounted
      /\ CardsOf(alone.on)' = CardsOf(alone.on) /\ Job' = Job
      /\ Known(m.card)' = Known(m.card)
      /\ alone' = alone /\ chips' = chips /\ cards' = cards
  BY TellingFrame
<1> QED BY <1>1 DEF PageTold, Reading, Writing, Telling

\* A step of the page that writes nothing, or has just written the chip.
LEMMA TaleStep ==
    ASSUME IInv, Tale, NEW b \in Buttons, step[b] \notin Resting \cup Asking,
           NEW label, NEW m, GoesTo(b, label, m), field' = field, UNCHANGED backend, Smoothly,
           alone # None /\ alone.smooth = TRUE /\ b = alone.button =>
               /\ \/ chips' = chips /\ PageTold(label, m)
                  \/ label = "await" /\ Untold /\ OnChip'
               /\ label \in {"authorize", "failed"} => Untold
               /\ label = "done" => Untold /\ Job.op = "read"
    PROVE  Tale' /\ EndsAgree
<1>1. /\ step' = [step EXCEPT ![b] = label] /\ mem' = [mem EXCEPT ![b] = m]
      /\ asked' = [asked EXCEPT ![b] = FALSE] /\ job' = job
      /\ UNCHANGED <<cards, journal, pc, cal, req, loc>>
  BY DEF GoesTo, backend
<1>2. step'[b] = label /\ mem'[b] = m /\ asked'[b] = FALSE /\ step[b] \notin Resting
  BY <1>1 DEF IInv, Shape
<1>3. ASSUME alone # None, alone.smooth = TRUE, b = alone.button
      PROVE  Told' /\ (step'[b] \in {"done", "failed"} => Ended)
  <2>1. Told /\ alone' = alone BY <1>3 DEF Tale, Smoothly
  <2>2. pc[b] = "idle"
    <3>1. asked[b] # TRUE BY DEF IInv, Ready
    <3> QED BY <1>3, <2>1, <3>1 DEF Told
  <2>3. PageTold(label, m)' /\ (label = "authorize" => Untold')
    <3>1. Untold' = Untold BY <1>1, <2>1 DEF Untold
    <3>2. CASE chips' = chips /\ PageTold(label, m)
      BY <1>1, <1>3, <2>1, <3>1, <3>2, ToldFrame
    <3>3. CASE label = "await" /\ Untold /\ OnChip'
      BY <3>1, <3>3 DEF PageTold, Reading, Writing, Telling
    <3> QED BY <1>3, <3>2, <3>3
  <2>4. Told'
    <3>1. PageTold(step[alone.button], mem[alone.button])'
      BY <1>2, <1>3, <2>1, <2>3 DEF PageTold
    <3> QED BY <1>1, <1>2, <1>3, <2>1, <2>2, <2>3, <3>1 DEF Told
  <2>5. ASSUME step'[b] \in {"done", "failed"} PROVE Ended
    <3>1. Untold /\ (step'[b] = "failed" \/ Job.op = "read") BY <1>2, <1>3, <2>5
    <3> QED BY <1>1, <1>3, <3>1 DEF Ended, Untold
  <2> QED BY <2>4, <2>5
<1>4. \A a \in Buttons \ {b} : step'[a] = step[a] BY <1>1 DEF IInv, Shape
<1> QED BY <1>2, <1>3, <1>4, SmoothTale

\* What a lone action is to be told at the step it takes.
LEMMA ToldAt ==
    ASSUME IInv, Tale, alone # None, alone.smooth = TRUE, NEW b, b = alone.button
    PROVE  Told /\ PageTold(step[b], mem[b]) /\ alone.on = field
BY DEF Tale, Told, IInv, Recorded

LEMMA FailingTale ==
    ASSUME IInv, Tale, NEW b \in Buttons, step[b] \notin Resting \cup Asking, Fails(b), Smoothly,
           field' = field, UNCHANGED <<chips, backend>>,
           alone # None /\ alone.smooth = TRUE /\ b = alone.button => Untold
    PROVE  Tale' /\ EndsAgree
<1>1. alone # None /\ alone.smooth = TRUE /\ b = alone.button => PageTold("failed", NoMemory)
  BY DEF PageTold, Reading, Writing, Telling
<1> QED BY <1>1, TaleStep DEF Fails

\* Another attempt, or the last that failed.
LEMMA AttemptTale ==
    ASSUME IInv, Tale, NEW b \in Buttons, NEW label, NEW t,
           GoesTo(b, label, [mem[b] EXCEPT !.tries = t]), Smoothly,
           UNCHANGED <<chips, field, backend>>,
           \/ step[b] \in Reading /\ label \in {"await", "readUid"}
           \/ step[b] \in Writing /\ label \in Writing
    PROVE  Tale' /\ EndsAgree
<1> DEFINE m == [mem[b] EXCEPT !.tries = t]
<1>1. m.want = mem[b].want /\ m.uid = mem[b].uid BY DEF IInv, Ready, IsMemory
<1>2. step[b] \notin Resting \cup Asking BY DEF Reading, Writing, Resting, Asking
<1>3. ASSUME alone # None, alone.smooth = TRUE, b = alone.button PROVE PageTold(label, m)
  <2>1. PageTold(step[b], mem[b]) BY <1>3, ToldAt
  <2> HIDE DEF m
  <2> QED BY <1>1, <2>1 DEF PageTold, Reading, Writing, Telling
<1>4. label \notin {"authorize", "failed", "done"} BY DEF Reading, Writing
<1> HIDE DEF m
<1>5. GoesTo(b, label, m) BY DEF m
<1> QED BY <1>2, <1>3, <1>4, <1>5, TaleStep

LEMMA NoTagTale ==
    ASSUME IInv, Tale, NEW b \in Buttons, NEW label \in {"readUid", "write"}, NoTag(b, label),
           step[b] = (IF label = "write" THEN "write" ELSE "readBlocks"),
           UNCHANGED <<chips, field, backend>>
    PROVE  Tale' /\ EndsAgree
<1>1. step[b] \notin Resting \cup Asking BY DEF Resting, Asking
<1>2. CASE Fails(b)
  <2>1. ASSUME alone # None, alone.smooth = TRUE, b = alone.button PROVE Untold
    <3>1. PageTold(step[b], mem[b]) BY <2>1, ToldAt
    <3> QED BY <3>1 DEF PageTold, Reading, Writing
  <2> QED BY <1>1, <1>2, <2>1, FailingTale DEF NoTag
<1>3. CASE GoesTo(b, label, [mem[b] EXCEPT !.tries = mem[b].tries + 1])
  BY <1>3, AttemptTale DEF NoTag, Reading, Writing
<1> QED BY <1>2, <1>3 DEF NoTag

LEMMA AwaitTale ==
    ASSUME IInv, Tale, NEW b \in Buttons, Await(b)
    PROVE  Tale' /\ EndsAgree
<1>1. /\ step[b] \notin Resting \cup Asking /\ step[b] \in Reading \cup Writing
      /\ UNCHANGED <<chips, field, backend>>
  BY DEF Await, Resting, Asking, Reading, Writing, reader
<1>2. CASE Breaks(b) BY <1>2, RoughTale DEF Breaks
<1>3. CASE Fails(b) /\ Smoothly
  <2>1. ASSUME alone # None, alone.smooth = TRUE, b = alone.button PROVE Untold
    <3>1. PageTold(step[b], mem[b]) BY <2>1, ToldAt
    <3> QED BY <1>1, <3>1 DEF PageTold
  <2> QED BY <1>1, <1>3, <2>1, FailingTale
<1>4. CASE /\ Smoothly
           /\ GoesTo(b, IF step[b] = "await" THEN "readUid" ELSE "write",
                     [mem[b] EXCEPT !.tries = 1])
  BY <1>1, <1>4, AttemptTale DEF Await, Reading, Writing
<1> QED BY <1>2, <1>3, <1>4 DEF Await

LEMMA ReadUidTale ==
    ASSUME IInv, Tale, NEW b \in Buttons, ReadUid(b)
    PROVE  Tale' /\ EndsAgree
<1>1. /\ step[b] \notin Resting \cup Asking /\ step[b] = "readUid"
      /\ UNCHANGED <<chips, field, backend>>
  BY DEF ReadUid, Resting, Asking, reader
<1>2. CASE Breaks(b) BY <1>2, RoughTale DEF Breaks
<1>3. ASSUME alone # None, alone.smooth = TRUE, b = alone.button
      PROVE  Untold /\ (mem[b].want # None => OnChip) /\ alone.on = field
  <2>1. PageTold(step[b], mem[b]) /\ alone.on = field BY <1>3, ToldAt
  <2> QED BY <1>1, <2>1 DEF PageTold, Reading
<1>4. CASE Fails(b) /\ Smoothly BY <1>1, <1>3, <1>4, FailingTale
<1>5. CASE Smoothly /\ GoesTo(b, "readBlocks", [mem[b] EXCEPT !.uid = field])
  <2> DEFINE m == [mem[b] EXCEPT !.uid = field]
  <2>1. m.want = mem[b].want /\ m.uid = field BY DEF IInv, Ready, IsMemory
  <2> HIDE DEF m
  <2>2. alone # None /\ alone.smooth = TRUE /\ b = alone.button => PageTold("readBlocks", m)
    BY <1>3, <2>1 DEF PageTold, Reading, Writing, Telling
  <2>3. GoesTo(b, "readBlocks", m) BY <1>5 DEF m
  <2> QED BY <1>1, <1>5, <2>2, <2>3, TaleStep
<1> QED BY <1>2, <1>4, <1>5 DEF ReadUid

\* The chip that is read is the lone action's, and what it read back is on it.
LEMMA ReadBlocksTale ==
    ASSUME IInv, Tale, NEW b \in Buttons, ReadBlocks(b)
    PROVE  Tale' /\ EndsAgree
<1>1. /\ step[b] \notin Resting \cup Asking /\ step[b] = "readBlocks" /\ step[b] \notin Resting
      /\ UNCHANGED <<chips, field, backend>>
  BY DEF ReadBlocks, Resting, Asking, reader
<1>2. CASE Breaks(b) BY <1>2, RoughTale DEF Breaks
<1>3. CASE NoTag(b, "readUid") BY <1>1, <1>3, NoTagTale
<1>4. ASSUME alone # None, alone.smooth = TRUE, b = alone.button
      PROVE  /\ Untold /\ (mem[b].want # None => OnChip) /\ mem[b].uid = alone.on
             /\ alone.on = field /\ Job = job[b]
  <2>1. PageTold(step[b], mem[b]) /\ alone.on = field BY <1>4, ToldAt
  <2> QED BY <1>1, <1>4, <2>1 DEF PageTold, Reading, Job
<1>5. CASE Fails(b) /\ Smoothly BY <1>1, <1>4, <1>5, FailingTale
<1>6. ASSUME NEW d
      PROVE  /\ [mem[b] EXCEPT !.data = d].uid = mem[b].uid
             /\ [mem[b] EXCEPT !.data = d].want = mem[b].want
             /\ [mem[b] EXCEPT !.data = d].data = d
  BY DEF IInv, Ready, IsMemory
<1>7. job[b] \in Jobs /\ job[b].op \in {"read", "register", "pay", "topUp"}
  BY <1>1, JobTypes DEF IInv, Ready
<1>8. CASE mem[b].want = None /\ FirstRead(b, chips[field]) /\ Smoothly
  <2> DEFINE m == [mem[b] EXCEPT !.data = Patched(job[b], chips[field])]
  <2>1. CASE job[b].op = "read" /\ Succeeds(b)
    <3>1. alone # None /\ alone.smooth = TRUE /\ b = alone.button => PageTold("done", NoMemory)
      BY DEF PageTold, Reading, Writing, Telling
    <3> QED BY <1>1, <1>4, <1>8, <2>1, <3>1, TaleStep DEF Succeeds
  <2>2. CASE job[b].op # "read" /\ GoesTo(b, "awaitWrite", m)
    <3>1. m.uid = mem[b].uid BY <1>6
    <3> HIDE DEF m
    <3>2. alone # None /\ alone.smooth = TRUE /\ b = alone.button => PageTold("awaitWrite", m)
      BY <1>4, <2>2, <3>1 DEF PageTold, Reading, Writing, Telling
    <3> QED BY <1>1, <1>8, <2>2, <3>2, TaleStep
  <2>3. \/ Fails(b) \/ (job[b].op = "read" /\ Succeeds(b))
        \/ (job[b].op # "read" /\ GoesTo(b, "awaitWrite", m))
    BY <1>8 DEF FirstRead
  <2> QED BY <1>5, <1>8, <2>1, <2>2, <2>3
<1>9. CASE mem[b].want # None /\ ReadBack(b, chips[field]) /\ Smoothly
  <2> DEFINE m == [mem[b] EXCEPT !.data = chips[field]]
             label == CASE job[b].op = "pay" -> "authorize"
                        [] job[b].op = "topUp" -> "findCard"
                        [] OTHER -> "sync"
  <2>1. CASE GoesTo(b, label, m)
    <3>1. m.uid = mem[b].uid /\ m.data = chips[field] BY <1>6
    <3>2. /\ job[b].op = "pay" => label = "authorize"
          /\ job[b].op = "topUp" => label = "findCard"
          /\ job[b].op \in {"read", "register"} => label = "sync"
      OBVIOUS
    <3> HIDE DEF m, label
    <3>3. ASSUME alone # None, alone.smooth = TRUE, b = alone.button PROVE PageTold(label, m)
      <4>1. /\ Untold /\ OnChip /\ Job = job[b] /\ m.uid = alone.on /\ m.data = chips[alone.on]
            /\ Job.op # "read"
        BY <1>4, <1>9, <3>1, <3>3 DEF OnChip
      <4>2. Job.op = "register" => Accounted BY <4>1 DEF Accounted
      <4> QED BY <1>7, <3>2, <4>1, <4>2 DEF PageTold, Reading, Writing, Telling
    <3>4. label \notin {"failed", "done"} BY <1>7, <3>2
    <3> QED BY <1>1, <1>4, <1>9, <2>1, <3>3, <3>4, TaleStep
  <2>2. Fails(b) \/ GoesTo(b, label, m) BY <1>9 DEF ReadBack
  <2> QED BY <1>5, <1>9, <2>1, <2>2
<1> QED BY <1>2, <1>3, <1>8, <1>9 DEF ReadBlocks

LEMMA WriteTale ==
    ASSUME IInv, Tale, NEW b \in Buttons, Write(b)
    PROVE  Tale' /\ EndsAgree
<1>1. /\ step[b] \notin Resting \cup Asking /\ step[b] = "write" /\ step[b] \in Writing
      /\ step[b] \notin Resting /\ field' = field /\ UNCHANGED backend
  BY DEF Write, Resting, Asking, Writing
<1>2. CASE Breaks(b) BY <1>2, RoughTale DEF Breaks
<1>3. CASE NoTag(b, "write") /\ UNCHANGED chips BY <1>1, <1>3, NoTagTale
<1>4. CASE /\ field # None /\ Smoothly
           /\ chips' = [chips EXCEPT ![field] = Written(chips[field], mem[b].data, 3)]
           /\ GoesTo(b, "await", [mem[b] EXCEPT !.want = mem[b].data.bal])
  <2>1. Written(chips[field], mem[b].data, 3) = mem[b].data
    <3>1. mem[b].data \in GoodChips BY <1>1 DEF IInv, Ready
    <3> QED BY <3>1 DEF Written, GoodChips
  <2>2. ASSUME alone # None, alone.smooth = TRUE, b = alone.button PROVE Untold /\ OnChip'
    <3>1. PageTold(step[b], mem[b]) /\ alone.on = field BY <2>2, ToldAt
    <3>2. Unwritten(step[b], mem[b]) BY <2>2 DEF IInv, Lone
    <3>3. /\ Untold /\ Job.op # "read" /\ chips = alone.chips
          /\ mem[b].data = Patched(Job, chips[field])
      BY <1>1, <2>2, <3>1, <3>2 DEF PageTold, Unwritten, Job
    <3>4. alone' = alone /\ Job' = Job BY <1>4 DEF Smoothly, GoesTo, Job
    <3>5. chips'[field] = mem[b].data BY <1>4, <2>1 DEF IInv, Shape
    <3> QED BY <3>1, <3>3, <3>4, <3>5 DEF OnChip
  <2> QED BY <1>1, <1>4, <2>2, TaleStep
<1> QED BY <1>2, <1>3, <1>4 DEF Write

-----------------------------------------------------------------------------
\* Steps that leave the page where it is

LEMMA RestTale ==
    ASSUME IInv, Tale, UNCHANGED <<reader, page, backend>>, Smoothly
    PROVE  Tale' /\ EndsAgree
<1>1. UNCHANGED <<chips, cards, journal, step, job, mem, asked, pc, cal, req, loc>> /\ alone' = alone
  BY DEF reader, page, backend, Smoothly
<1>2. Tale'
  <2> SUFFICES ASSUME alone # None, alone.smooth = TRUE PROVE Told'
    BY <1>1 DEF Tale
  <2> DEFINE b == alone.button
  <2>1. Told BY DEF Tale
  <2>2. /\ Untold' = Untold /\ OnChip' = OnChip /\ Accounted' = Accounted
        /\ CardsOf(alone.on)' = CardsOf(alone.on) /\ Job' = Job
        /\ \A i : /\ Known(i)' = Known(i) /\ Entry(i)' = Entry(i)
                  /\ Rebalanced(i)' = Rebalanced(i)
    <3>1. job' = job BY DEF page
    <3> QED BY <1>1, <3>1, TellingFrame
  <2>3. RequestOf(b)' = RequestOf(b) BY <1>1, <2>2 DEF RequestOf, page
  <2>4. PageTold(step[b], mem[b])'
    <3>1. PageTold(step[b], mem[b]) BY <2>1 DEF Told
    <3> QED BY <1>1, <2>2, <3>1 DEF PageTold, Reading, Writing, Telling
  <2>5. pc[b] # "idle" => Served(b)'
    <3> SUFFICES ASSUME Served(b) PROVE Served(b)' BY <2>1 DEF Told
    <3>1. PayServed(b) => PayServed(b)' BY <1>1, <2>2 DEF PayServed
    <3>2. PostServed(b) => PostServed(b)' BY <1>1, <2>2 DEF PostServed
    <3>3. CreateServed(b) => CreateServed(b)' BY <1>1, <2>3 DEF CreateServed
    <3>4. PutServed(b) => PutServed(b)' BY <1>1, <2>3 DEF PutServed
    <3> QED BY <1>1, <2>3, <3>1, <3>2, <3>3, <3>4 DEF Served
  <2> QED BY <1>1, <2>1, <2>2, <2>4, <2>5 DEF Told
<1>3. EndsAgree BY <1>1 DEF EndsAgree, Resting
<1> QED BY <1>2, <1>3

LEMMA LogInTale ==
    ASSUME IInv, Tale, NEW b \in Buttons, LogIn(b)
    PROVE  Tale' /\ EndsAgree
<1>1. CASE Breaks(b) BY <1>1, RoughTale DEF Breaks
<1>2. CASE UNCHANGED page /\ Smoothly BY <1>2, RestTale DEF LogIn
<1> QED BY <1>1, <1>2 DEF LogIn

-----------------------------------------------------------------------------
\* The client of the backend

\* The list the page is given is the backend's, or something has gone wrong.
LEMMA FindCardTale ==
    ASSUME IInv, Tale, NEW b \in Buttons, FindCard(b)
    PROVE  Tale' /\ EndsAgree
<1>1. /\ step[b] \notin Resting \cup Asking /\ step[b] = "findCard"
      /\ UNCHANGED <<chips, field, backend>>
  BY DEF FindCard, Listed, Resting, Asking, reader
<1>2. CASE Roughly BY <1>2, RoughTale
<1>3. ASSUME alone # None, alone.smooth = TRUE, b = alone.button
      PROVE  Untold /\ PageTold("findCard", mem[b]) /\ mem[b].uid = alone.on
  <2>1. PageTold("findCard", mem[b]) BY <1>1, <1>3, ToldAt
  <2> QED BY <2>1 DEF PageTold, Telling
<1>4. CASE Fails(b) /\ Smoothly BY <1>1, <1>3, <1>4, FailingTale
<1>5. ASSUME NEW i \in CardsOf(mem[b].uid), Smoothly,
             GoesTo(b, "findTerminal", [mem[b] EXCEPT !.card = i])
      PROVE  Tale' /\ EndsAgree
  <2> DEFINE m == [mem[b] EXCEPT !.card = i]
  <2>1. m.card = i /\ m.uid = mem[b].uid /\ m.data = mem[b].data
    BY DEF IInv, Ready, IsMemory
  <2> HIDE DEF m
  <2>2. ASSUME alone # None, alone.smooth = TRUE, b = alone.button PROVE PageTold("findTerminal", m)
    <3>1. Known(i) BY <1>3, <2>2 DEF CardsOf, Untold, Known
    <3> QED BY <1>3, <2>1, <2>2, <3>1 DEF PageTold, Reading, Writing, Telling
  <2>3. GoesTo(b, "findTerminal", m) BY <1>5 DEF m
  <2> QED BY <1>1, <1>5, <2>2, <2>3, TaleStep
<1> QED BY <1>2, <1>4, <1>5 DEF FindCard, Listed, Expires, Breaks

LEMMA FindTerminalTale ==
    ASSUME IInv, Tale, NEW b \in Buttons, FindTerminal(b)
    PROVE  Tale' /\ EndsAgree
<1>1. /\ step[b] \notin Resting \cup Asking /\ step[b] = "findTerminal"
      /\ UNCHANGED <<chips, field, backend>>
  BY DEF FindTerminal, Listed, Resting, Asking, reader
<1>2. CASE Roughly BY <1>2, RoughTale
<1>3. ASSUME alone # None, alone.smooth = TRUE, b = alone.button
      PROVE  Untold /\ PageTold("post", mem[b])
  <2>1. PageTold("findTerminal", mem[b]) BY <1>1, <1>3, ToldAt
  <2> QED BY <2>1 DEF PageTold, Reading, Writing, Telling
<1>4. CASE Fails(b) /\ Smoothly BY <1>1, <1>3, <1>4, FailingTale
<1>5. CASE GoesTo(b, "post", mem[b]) /\ Smoothly
  <2> DEFINE m == mem[b]
  <2>1. GoesTo(b, "post", m) BY <1>5
  <2>2. alone # None /\ alone.smooth = TRUE /\ b = alone.button => PageTold("post", m) BY <1>3
  <2> HIDE DEF m
  <2> QED BY <1>1, <1>5, <2>1, <2>2, TaleStep
<1> QED BY <1>2, <1>4, <1>5 DEF FindTerminal, Listed, Expires, Breaks

\* A payment or a top-up has found its card in the backend, so synchronisation does.
LEMMA SyncTale ==
    ASSUME IInv, BackendInv, Tale, NEW b \in Buttons, Sync(b)
    PROVE  Tale' /\ EndsAgree
<1>1. /\ step[b] \notin Resting \cup Asking /\ step[b] = "sync"
      /\ UNCHANGED <<chips, field, backend>>
  BY DEF Sync, Listed, Resting, Asking, reader
<1>2. CASE Roughly BY <1>2, RoughTale
<1>3. ASSUME alone # None, alone.smooth = TRUE, b = alone.button
      PROVE  /\ Accounted /\ OnChip /\ mem[b].uid = alone.on /\ mem[b].data = chips[alone.on]
  <2>1. PageTold("sync", mem[b]) BY <1>1, <1>3, ToldAt
  <2> QED BY <2>1 DEF PageTold, Telling
<1>4. CASE CardsOf(mem[b].uid) = {} /\ GoesTo(b, "register", mem[b]) /\ Smoothly
  <2> DEFINE m == mem[b]
  <2>1. GoesTo(b, "register", m) BY <1>4
  <2>2. ASSUME alone # None, alone.smooth = TRUE, b = alone.button PROVE PageTold("register", m)
    <3>1. Job.op = "register" /\ Untold
      <4>1. ASSUME NEW i, Known(i), Rebalanced(i) PROVE FALSE
        <5>1. /\ i \in DOMAIN cards
              /\ cards[i] = [alone.cards[i] EXCEPT !.bal = cards[i].bal]
          BY <4>1 DEF Rebalanced, Put
        <5>2. cards[i].num = alone.cards[i].num \/ "num" \notin DOMAIN alone.cards[i] BY <5>1
        <5>3. IsRow(cards[i]) BY <5>1 DEF BackendInv, BackendTables, CardTable
        <5>4. cards[i].num = alone.on BY <4>1, <5>1, <5>2, <5>3 DEF Known, IsRow
        <5> QED BY <1>3, <1>4, <2>2, <5>1, <5>4 DEF CardsOf
      <4> QED BY <1>3, <2>2, <4>1 DEF Accounted
    <3> QED BY <1>3, <1>4, <2>2, <3>1 DEF PageTold, Reading, Writing, Telling
  <2> HIDE DEF m
  <2> QED BY <1>1, <1>4, <2>1, <2>2, TaleStep
<1>5. ASSUME NEW i \in CardsOf(mem[b].uid), Smoothly,
             GoesTo(b, "put", [mem[b] EXCEPT !.card = i, !.row = cards[i]])
      PROVE  Tale' /\ EndsAgree
  <2> DEFINE n == [mem[b] EXCEPT !.card = i]
             m == [n EXCEPT !.row = cards[i]]
  <2>1. n.card = i /\ n.uid = mem[b].uid /\ n.data = mem[b].data /\ IsMemory(n)
    <3>1. IsMemory(mem[b]) BY DEF IInv, Ready
    <3>2. IsMemory(n) BY <3>1, MemoryUpdates
    <3> QED BY <3>1, <3>2 DEF IsMemory
  <2>2. m = [mem[b] EXCEPT !.card = i, !.row = cards[i]] OBVIOUS
  <2> HIDE DEF n
  <2>3. m.card = i /\ m.uid = mem[b].uid /\ m.data = mem[b].data /\ m.row = cards[i]
    BY <2>1 DEF IsMemory
  <2> HIDE DEF m
  <2>4. alone # None /\ alone.smooth = TRUE /\ b = alone.button => PageTold("put", m)
    BY <1>3, <2>3 DEF PageTold, Reading, Writing, Telling
  <2>5. GoesTo(b, "put", m) BY <1>5, <2>2
  <2> QED BY <1>1, <1>5, <2>4, <2>5, TaleStep DEF Asking
<1>6. CASE Smoothly
  <2>1. \/ CardsOf(mem[b].uid) = {} /\ GoesTo(b, "register", mem[b])
        \/ \E i \in CardsOf(mem[b].uid) :
              GoesTo(b, "put", [mem[b] EXCEPT !.card = i, !.row = cards[i]])
        \/ Roughly
    BY DEF Sync, Listed, Expires, Breaks
  <2> QED BY <1>2, <1>4, <1>5, <1>6, <2>1
<1> QED BY <1>2, <1>6 DEF Sync, Listed, Expires, Breaks

LEMMA RegisterRowTale ==
    ASSUME IInv, Tale, NEW b \in Buttons, RegisterRow(b)
    PROVE  Tale' /\ EndsAgree
<1>1. /\ step[b] \notin Resting \cup Asking /\ step[b] = "register"
      /\ UNCHANGED <<chips, field, backend>>
  BY DEF RegisterRow, Listed, Resting, Asking, reader
<1>2. CASE Roughly BY <1>2, RoughTale
<1>3. ASSUME alone # None, alone.smooth = TRUE, b = alone.button
      PROVE  /\ PageTold("create", mem[b]) /\ CardsOf(alone.on) = {}
             /\ mem[b].uid = alone.on
  <2>1. PageTold("register", mem[b]) BY <1>1, <1>3, ToldAt
  <2> QED BY <2>1 DEF PageTold, Reading, Writing, Telling
<1>4. CASE GoesTo(b, "create", mem[b]) /\ Smoothly
  <2> DEFINE m == mem[b]
  <2>1. GoesTo(b, "create", m) BY <1>4
  <2>2. alone # None /\ alone.smooth = TRUE /\ b = alone.button => PageTold("create", m) BY <1>3
  <2> HIDE DEF m
  <2> QED BY <1>1, <1>4, <2>1, <2>2, TaleStep
<1>5. CASE CardsOf(mem[b].uid) # {} /\ Succeeds(b) /\ Smoothly
  <2>1. ~(alone # None /\ alone.smooth = TRUE /\ b = alone.button) BY <1>3, <1>5
  <2> QED BY <1>1, <1>5, <2>1, TaleStep DEF Succeeds
<1> QED BY <1>2, <1>4, <1>5 DEF RegisterRow, Listed, Expires, Breaks

-----------------------------------------------------------------------------
\* The requests of a lone action

\* A statement goes on with the page waiting,
LEMMA OngoingTale ==
    ASSUME IInv, BackendInv, Tale, NEW b \in Buttons, step[b] \in Asking, asked'[b] = TRUE,
           UNCHANGED <<reader, step, job, mem>>, Smoothly, NEW label, label # "idle",
           pc' = [pc EXCEPT ![b] = label],
           alone # None /\ alone.smooth = TRUE /\ b = alone.button =>
               PageTold(step[b], mem[b])' /\ Served(b)'
    PROVE  Tale' /\ EndsAgree
<1>1. step[b] \notin Resting /\ step'[b] \notin {"done", "failed"} BY DEF Asking, Resting
<1>2. ASSUME alone # None, alone.smooth = TRUE, b = alone.button PROVE Told'
  <2>1. Told /\ alone' = alone BY <1>2, ToldAt DEF Smoothly
  <2>2. pc'[b] = label /\ \A a \in Buttons \ {b} : pc'[a] = pc[a]
    BY DEF BackendInv, BackendWorkers
  <2> QED BY <1>2, <2>1, <2>2 DEF Told
<1> QED BY <1>1, <1>2, SmoothTale

\* or has been the last, and the page goes on or ends.
LEMMA AnswerTale ==
    ASSUME IInv, BackendInv, Tale, NEW b \in Buttons, step[b] \in Asking,
           NEW label \in {"sync", "failed", "done"}, NEW m, GoesTo(b, label, m),
           UNCHANGED reader, Smoothly, Backend!Ends(b),
           alone # None /\ alone.smooth = TRUE /\ b = alone.button =>
               /\ label = "sync" => Accounted' /\ OnChip /\ m.uid = alone.on /\ m.data = chips[alone.on]
               /\ label = "failed" => cards' = alone.cards /\ journal' = alone.journal
               /\ label = "done" =>
                    OnChip /\ Booked(Job, alone.on, chips[alone.on], alone.cards, alone.journal)
    PROVE  Tale' /\ EndsAgree
<1>1. /\ step' = [step EXCEPT ![b] = label] /\ mem' = [mem EXCEPT ![b] = m]
      /\ asked' = [asked EXCEPT ![b] = FALSE] /\ job' = job /\ chips' = chips
      /\ pc' = [pc EXCEPT ![b] = "idle"]
  BY DEF GoesTo, reader, Backend!Ends
<1>2. /\ step'[b] = label /\ mem'[b] = m /\ asked'[b] = FALSE /\ pc'[b] = "idle"
      /\ \A a \in Buttons \ {b} : step'[a] = step[a] /\ pc'[a] = pc[a]
  BY <1>1 DEF IInv, Shape, BackendInv, BackendWorkers
<1>3. ASSUME alone # None, alone.smooth = TRUE, b = alone.button
      PROVE  Told' /\ (step'[b] \in {"done", "failed"} => Ended)
  <2>1. Told /\ alone' = alone BY <1>3, ToldAt DEF Smoothly
  <2>2. label = "sync" => OnChip' BY <1>1, <1>3, <2>1 DEF OnChip, Job
  <2>3. PageTold(step[alone.button], mem[alone.button])'
    BY <1>1, <1>2, <1>3, <2>1, <2>2 DEF PageTold, Reading, Writing, Telling
  <2>4. Told' BY <1>1, <1>2, <1>3, <2>1, <2>3 DEF Told
  <2>5. step'[b] \in {"done", "failed"} => Ended BY <1>2, <1>3 DEF Ended, OnChip
  <2> QED BY <2>4, <2>5
<1>4. step[b] \notin Resting BY DEF Asking, Resting
<1> QED BY <1>2, <1>3, <1>4, SmoothTale

\* What the page makes of an answer.
LEMMA AnsweredTale ==
    ASSUME IInv, BackendInv, Tale, NEW b \in Buttons, step[b] \in Asking, NEW ok \in BOOLEAN,
           AfterAnswer(b, ok), UNCHANGED reader, Smoothly, Backend!Ends(b),
           alone # None /\ alone.smooth = TRUE /\ b = alone.button =>
               IF ~ok THEN cards' = alone.cards /\ journal' = alone.journal
               ELSE IF step[b] \in {"authorize", "post"} THEN Accounted'
               ELSE Booked(Job, alone.on, chips[alone.on], alone.cards, alone.journal)
    PROVE  Tale' /\ EndsAgree
<1>1. ASSUME alone # None, alone.smooth = TRUE, b = alone.button
      PROVE  OnChip /\ mem[b].uid = alone.on /\ mem[b].data = chips[alone.on]
  BY <1>1, ToldAt DEF PageTold, Telling, Asking
<1>2. CASE ~ok BY <1>2, AnswerTale DEF AfterAnswer, Fails
<1>3. CASE ok /\ step[b] \in {"authorize", "post"}
  <2> DEFINE m == [mem[b] EXCEPT !.card = 0]
  <2>1. m.uid = mem[b].uid /\ m.data = mem[b].data BY DEF IInv, Ready, IsMemory
  <2>2. GoesTo(b, "sync", m) BY <1>3 DEF AfterAnswer
  <2> HIDE DEF m
  <2> QED BY <1>1, <1>3, <2>1, <2>2, AnswerTale
<1>4. CASE ok /\ step[b] \notin {"authorize", "post"}
  BY <1>1, <1>4, AnswerTale DEF AfterAnswer, Succeeds
<1> QED BY <1>2, <1>3, <1>4

\* A request is taken by a worker that was idle.
LEMMA SendTale ==
    ASSUME IInv, BackendInv, Tale, NEW b \in Buttons, Send(b)
    PROVE  Tale' /\ EndsAgree
<1> DEFINE c == IF step[b] = "authorize" THEN None ELSE Admin
           r == RequestOf(b)
           l == Backend!FirstLocals(c, r)
           label == Backend!FirstStatement(c, r)
<1>1. step[b] \in Asking /\ UNCHANGED reader BY DEF Send, Asking
<1>2. CASE Roughly BY <1>2, RoughTale
<1>3. CASE /\ Backend!Accept(b, c, r) /\ asked' = [asked EXCEPT ![b] = TRUE]
           /\ Smoothly /\ UNCHANGED <<step, job, mem>>
  <2>1. /\ pc' = [pc EXCEPT ![b] = label] /\ loc' = [loc EXCEPT ![b] = l]
        /\ req' = [req EXCEPT ![b] = r] /\ cal' = [cal EXCEPT ![b] = c]
        /\ UNCHANGED <<cards, journal>> /\ pc[b] = "idle"
    BY <1>3 DEF Backend!Accept, Backend!tables
  <2>2. /\ label = CASE step[b] = "authorize" -> "findCard" [] step[b] = "post" -> "insertEntry"
                     [] step[b] = "put" -> "readCard" [] step[b] = "create" -> "insertCard"
        /\ step[b] = "post" => l.entry = r.entry
        /\ step[b] = "create" => l.row = r.row
    BY <1>1, AcceptedIs
  <2>3. step[b] = "post" => r.entry = [card |-> mem[b].card, amt |-> job[b].amt, st |-> "approved"]
    BY RequestsAre
  <2>4. step[b] # "authorize" => c = Admin OBVIOUS
  <2> HIDE DEF c, r, l, label
  <2>5. pc'[b] = label /\ loc'[b] = l /\ req'[b] = r /\ cal'[b] = c /\ asked'[b] = TRUE
    BY <1>3, <2>1 DEF BackendInv, BackendWorkers, IInv, Shape
  <2>6. ASSUME alone # None, alone.smooth = TRUE, b = alone.button
        PROVE  PageTold(step[b], mem[b])' /\ Served(b)'
    <3>1. Told /\ PageTold(step[b], mem[b]) /\ alone' = alone /\ Job = job[b]
      BY <1>3, <2>6, ToldAt DEF Smoothly, Job
    <3>2. chips' = chips BY <1>1 DEF reader
    <3>3. /\ Untold' = Untold /\ OnChip' = OnChip /\ Accounted' = Accounted
          /\ CardsOf(alone.on)' = CardsOf(alone.on) /\ Job' = Job
          /\ \A i : Known(i)' = Known(i) /\ Entry(i)' = Entry(i)
      BY <1>3, <2>1, <3>1, <3>2, TellingFrame
    <3>4. PageTold(step[b], mem[b])'
      BY <1>3, <2>1, <3>1, <3>2, <3>3 DEF PageTold, Reading, Writing, Telling
    <3>5. RequestOf(b)' = r BY <1>3 DEF RequestOf, r
    <3>6. step[b] = "authorize" => PayServed(b)'
      BY <2>1, <2>2, <2>5, <2>6, <3>1, <3>3 DEF PayServed, Told
    <3>7. step[b] = "post" => PostServed(b)'
      <4>1. step[b] = "post" => Job.op = "topUp" BY <3>1 DEF PageTold
      <4>2. step[b] = "post" => Entry(mem[b].card) = r.entry
        BY <2>3, <3>1, <4>1 DEF Entry, Allowed
      <4> QED BY <1>3, <2>2, <2>5, <3>3, <4>2 DEF PostServed
    <3>8. step[b] = "create" => CreateServed(b)' BY <2>2, <2>5, <3>5 DEF CreateServed
    <3>9. step[b] = "put" => PutServed(b)'
      BY <2>2, <2>4, <2>5 DEF PutServed
    <3> QED BY <1>3, <2>5, <3>4, <3>5, <3>6, <3>7, <3>8, <3>9 DEF Served
  <2>7. label # "idle" BY <1>1, <2>2 DEF Asking
  <2> QED BY <1>1, <1>3, <2>1, <2>5, <2>6, <2>7, OngoingTale
<1> QED BY <1>2, <1>3 DEF Send, Expires, Breaks

-----------------------------------------------------------------------------
\* The statements of a lone action's request

LEMMA PutSame ==
    ASSUME NEW c, c = [k \in DOMAIN c |-> c[k]], NEW i \in DOMAIN c, IsRow(c[i])
    PROVE  Put(c, i, [c[i] EXCEPT !.bal = c[i].bal]) = c
<1>1. [c[i] EXCEPT !.bal = c[i].bal] = c[i]
  <2> DEFINE r == c[i]
  <2>1. r = [num |-> r.num, bal |-> r.bal, blk |-> r.blk, own |-> r.own] BY DEF IsRow
  <2> HIDE DEF r
  <2>2. [r EXCEPT !.bal = r.bal] = r BY <2>1
  <2> QED BY <2>2 DEF r
<1>2. DOMAIN c \cup {i} = DOMAIN c OBVIOUS
<1>3. Put(c, i, c[i]) = [k \in DOMAIN c |-> c[k]] BY <1>2 DEF Put
<1> QED BY <1>1, <1>3

LEMMA PutTwice ==
    ASSUME NEW c, NEW i, NEW r, NEW s
    PROVE  Put(Put(c, i, r), i, s) = Put(c, i, s)
BY DEF Put

\* Of the handlers' statements a worker executes the one it is at.
LEMMA StatementIs ==
    ASSUME NEW w, Backend!StatementRuns(w)
    PROVE  /\ pc[w] # "idle"
           /\ pc[w] = "findCard" => Backend!FindCard(w)
           /\ pc[w] = "findTerminal" => Backend!FindTerminal(w)
           /\ pc[w] = "saveCard" => Backend!SaveCard(w)
           /\ pc[w] = "insertEntry" => Backend!InsertEntry(w)
           /\ pc[w] = "insertCard" => Backend!InsertCard(w)
           /\ pc[w] = "readCard" => Backend!ReadCard(w)
BY DEF Backend!StatementRuns, Backend!FindCard, Backend!FindTerminal, Backend!SaveCard,
       Backend!UpsertCard, Backend!InsertEntry, Backend!InsertCard, Backend!ReadCard,
       Backend!RemoveCard, Backend!ReadEntry, Backend!ReadEntryCard, Backend!ReadNewCard,
       Backend!SaveEntry, Backend!UpsertEntry, Backend!RemoveEntry, Backend!EditTerminals

\* The answer is given when the worker is idle again.
Answers(b) ==
    IF asked[b] /\ pc'[b] = "idle"
    THEN AfterAnswer(b, pc[b] \notin {"findCard", "findTerminal", "readCard"})
    ELSE UNCHANGED <<page, presses>>

\* A smooth step of the backend for a lone action.
Lonely(b) ==
    /\ IInv /\ BackendInv /\ Tale /\ b \in Buttons
    /\ alone # None /\ alone.smooth = TRUE /\ b = alone.button
    /\ pc[b] # "idle" /\ Backend!StatementRuns(b) /\ Smoothly /\ Answers(b) /\ UNCHANGED reader

LEMMA LonelyIs ==
    ASSUME NEW b, Lonely(b)
    PROVE  /\ asked[b] = TRUE /\ step[b] \in Asking /\ Served(b) /\ PageTold(step[b], mem[b])
           /\ OnChip /\ Job = job[b] /\ mem[b].uid = alone.on /\ mem[b].data = chips[alone.on]
           /\ alone' = alone /\ chips' = chips /\ Carries(b)
           /\ CardTable(cards, nextCard) /\ DOMAIN cards \subseteq Backend!CardIds
<1>1. /\ Told /\ PageTold(step[b], mem[b]) /\ alone' = alone /\ chips' = chips /\ Carries(b)
      /\ CardTable(cards, nextCard)
  BY ToldAt DEF Lonely, Smoothly, reader, BackendInv, BackendWorkers, BackendTables
<1>2. asked[b] = TRUE /\ Served(b) /\ step[b] \in Asking /\ Job = job[b]
  BY <1>1 DEF Lonely, Told, IInv, Ready, Job
<1>3. OnChip /\ mem[b].uid = alone.on /\ mem[b].data = chips[alone.on]
  BY <1>1, <1>2 DEF PageTold, Telling, Asking
<1>4. DOMAIN cards \subseteq Backend!CardIds
  <2>1. nextCard \in 1 .. MaxCard + 1 /\ MaxCard \in Nat
    BY KnownCardsAssumption DEF Lonely, BackendInv, BackendTables
  <2>2. 1 .. nextCard - 1 \subseteq 1 .. MaxCard BY <2>1
  <2> QED BY <1>1, <2>2 DEF CardTable, Backend!CardIds
<1> QED BY <1>1, <1>2, <1>3, <1>4

\* It goes on with the tables as they are, or with a card that has been charged.
LEMMA LonelyGoesOn ==
    ASSUME NEW b, Lonely(b), NEW label, label # "idle",
           pc' = [pc EXCEPT ![b] = label],
           PageTold(step[b], mem[b])' /\ (RequestOf(b)' = RequestOf(b) => Served(b)')
    PROVE  Tale' /\ EndsAgree
<1>1. pc'[b] = label BY DEF Lonely, BackendInv, BackendWorkers
<1>2. UNCHANGED <<page, presses>> BY <1>1 DEF Lonely, Answers
<1>3. RequestOf(b)' = RequestOf(b) BY <1>2 DEF RequestOf, page
<1>4. UNCHANGED <<step, job, mem>> /\ asked'[b] = TRUE BY <1>2, LonelyIs DEF page
<1> QED BY <1>3, <1>4, LonelyIs, OngoingTale DEF Lonely

\* It answers.
LEMMA LonelyEnds ==
    ASSUME NEW b, Lonely(b), Backend!Ends(b),
           IF pc[b] \in {"findCard", "findTerminal", "readCard"}
           THEN cards' = alone.cards /\ journal' = alone.journal
           ELSE IF step[b] \in {"authorize", "post"} THEN Accounted'
           ELSE Booked(Job, alone.on, chips[alone.on], alone.cards, alone.journal)
    PROVE  Tale' /\ EndsAgree
<1> DEFINE ok == pc[b] \notin {"findCard", "findTerminal", "readCard"}
<1>1. pc'[b] = "idle" BY DEF Lonely, BackendInv, BackendWorkers, Backend!Ends
<1>2. AfterAnswer(b, ok) BY <1>1, LonelyIs DEF Lonely, Answers
<1>3. ok \in BOOLEAN OBVIOUS
<1> HIDE DEF ok
<1>4. IF ~ok THEN cards' = alone.cards /\ journal' = alone.journal
      ELSE IF step[b] \in {"authorize", "post"} THEN Accounted'
      ELSE Booked(Job, alone.on, chips[alone.on], alone.cards, alone.journal)
  BY DEF ok
<1> QED BY <1>2, <1>3, <1>4, LonelyIs, AnsweredTale DEF Lonely

\* The row the journal gets is put under an id it did not have.
LEMMA LonelyEntry ==
    ASSUME NEW b, Lonely(b), pc[b] = "insertEntry", NEW i, Known(i), Rebalanced(i),
           i \in Backend!CardIds, journal = alone.journal, loc[b].entry = Entry(i),
           Job.op # "register"
    PROVE  Backend!Ends(b) /\ Accounted'
<1>1. Backend!InsertEntry(b) BY StatementIs DEF Lonely
<1>2. /\ nextEntry \in Backend!EntryIds \ DOMAIN journal
      /\ journal' = Put(journal, nextEntry, loc[b].entry)
      /\ Backend!Ends(b) /\ cards' = cards
  BY <1>1, EntryInserted DEF Lonely
<1>4. job' = job
  BY <1>2, LonelyIs DEF Lonely, Answers, AfterAnswer, Fails, Succeeds, GoesTo, page
<1>5. Job' = Job /\ Entry(i)' = Entry(i) /\ alone' = alone
  BY <1>4, LonelyIs DEF Job, Entry, Allowed
<1>6. Known(i)' /\ Rebalanced(i)' BY <1>2, <1>5 DEF Known, Rebalanced
<1>7. Journalled(i)'
  <2>1. journal' = Put(alone'.journal, nextEntry, Entry(i)')
        /\ nextEntry \in Backend!EntryIds \ DOMAIN alone'.journal
    BY <1>2, <1>5
  <2> QED BY <2>1 DEF Journalled, Backend!EntryIds
<1>8. Accounted' BY <1>5, <1>6, <1>7 DEF Accounted, Backend!CardIds
<1> QED BY <1>2, <1>8

LEMMA ServePost ==
    ASSUME NEW b, Lonely(b), step[b] = "post"
    PROVE  Tale' /\ EndsAgree
<1> DEFINE i == mem[b].card
<1>1. /\ pc[b] = "insertEntry" /\ loc[b].entry = Entry(i) /\ Untold /\ Known(i)
      /\ Job.op = "topUp"
  BY LonelyIs DEF Served, PostServed, PageTold, Reading, Writing
<1>2. Rebalanced(i) /\ i \in Backend!CardIds
  <2>1. /\ i \in DOMAIN cards /\ IsRow(cards[i]) /\ cards = [k \in DOMAIN cards |-> cards[k]]
        /\ cards = alone.cards
    BY <1>1, LonelyIs DEF Known, Untold, CardTable
  <2>2. Put(cards, i, [cards[i] EXCEPT !.bal = cards[i].bal]) = cards BY <2>1, PutSame
  <2> QED BY <2>1, <2>2, LonelyIs DEF Rebalanced
<1> HIDE DEF i
<1>3. Backend!Ends(b) /\ Accounted' BY <1>1, <1>2, LonelyEntry DEF Untold
<1> QED BY <1>1, <1>3, LonelyEnds

\* No card had the number, so the new one is the only one that has it.
LEMMA ServeCreate ==
    ASSUME NEW b, Lonely(b), step[b] = "create"
    PROVE  Tale' /\ EndsAgree
<1> DEFINE row == [num |-> alone.on, bal |-> chips[alone.on].bal, blk |-> FALSE, own |-> 1]
           n == nextCard
<1>1. /\ pc[b] = "insertCard" /\ loc[b].row = row /\ Untold /\ Job.op = "register"
      /\ CardsOf(alone.on) = {}
  <2>1. RequestOf(b) = [op |-> "createCard", id |-> 0, row |-> row] BY LonelyIs, RequestsAre DEF Lonely
  <2> HIDE DEF row
  <2>2. RequestOf(b).row = row BY <2>1
  <2> QED BY <2>2, LonelyIs DEF Served, CreateServed, PageTold, Reading, Writing
<1>2. /\ n \in Backend!CardIds \ DOMAIN cards /\ Backend!Ends(b) /\ journal' = journal
      /\ IF Backend!NumberFree(row.num, n) THEN cards' = Put(cards, n, row) /\ n' = n + 1
         ELSE UNCHANGED <<cards, nextCard>>
  BY <1>1, StatementIs, CardInserted DEF Lonely
<1>3. row.num = alone.on OBVIOUS
<1>4. Backend!NumberFree(row.num, n) BY <1>1, <1>3 DEF CardsOf, Backend!NumberFree
<1>5. cards' = Put(cards, n, row) /\ journal' = journal BY <1>2, <1>4
<1>6. n \in Backend!CardIds \ DOMAIN cards BY <1>2
<1>7. Booked(Job, alone.on, chips[alone.on], alone.cards, alone.journal)
  <2>1. cards = alone.cards /\ journal = alone.journal BY <1>1 DEF Untold
  <2>2. cards' = Put(alone.cards, n, row) /\ journal' = alone.journal /\ n \notin DOMAIN alone.cards
    BY <1>5, <1>6, <2>1
  <2>3. n \in Backend!CardIds BY <1>6
  <2> HIDE DEF n
  <2> QED BY <1>1, <2>2, <2>3 DEF Booked
<1> QED BY <1>1, <1>2, <1>7, LonelyEnds

\* What the card's row is once its balance has been put right.
LEMMA RebalancedRow ==
    ASSUME NEW i, Known(i), Rebalanced(i), CardTable(cards, nextCard)
    PROVE  /\ i \in DOMAIN cards /\ cards[i].num = alone.on
           /\ \A x : [cards[i] EXCEPT !.bal = x] = [alone.cards[i] EXCEPT !.bal = x]
           /\ \A r : Put(cards, i, r) = Put(alone.cards, i, r)
<1> DEFINE s == [alone.cards[i] EXCEPT !.bal = cards[i].bal]
<1>1. i \in DOMAIN cards /\ cards[i] = s BY DEF Rebalanced, Put
<1>2. IsRow(cards[i]) BY <1>1 DEF CardTable
<1>3. cards[i].num = alone.on BY <1>1, <1>2 DEF Known, IsRow
<1>4. ASSUME NEW x PROVE [cards[i] EXCEPT !.bal = x] = [alone.cards[i] EXCEPT !.bal = x]
  BY <1>1
<1>5. ASSUME NEW r PROVE Put(cards, i, r) = Put(alone.cards, i, r)
  <2>1. cards = Put(alone.cards, i, s) BY DEF Rebalanced
  <2> HIDE DEF s
  <2> QED BY <2>1, PutTwice
<1> QED BY <1>1, <1>3, <1>4, <1>5

\* updateCard: the row that was read is written back with the balance of the chip.
LEMMA ServePut ==
    ASSUME NEW b, Lonely(b), step[b] = "put"
    PROVE  Tale' /\ EndsAgree
<1> DEFINE id == mem[b].card
           row == [cards[id] EXCEPT !.bal = chips[alone.on].bal]
<1>1. /\ id \in CardsOf(alone.on) /\ Accounted /\ mem[b].row = cards[id]
      /\ pc[b] \in {"readCard", "saveCard"} /\ cal[b] = Admin /\ req[b] = RequestOf(b)
      /\ pc[b] = "saveCard" => loc[b].id = id /\ loc[b].row = RequestOf(b).row
  BY LonelyIs DEF Served, PutServed, PageTold
<1>2. id \in DOMAIN cards /\ cards[id].num = alone.on /\ IsRow(cards[id])
  BY <1>1, LonelyIs DEF CardsOf, CardTable
<1>3. RequestOf(b) = [op |-> "updateCard", id |-> id, row |-> row]
  BY <1>1, LonelyIs, RequestsAre DEF Lonely
<1>4. row.num = alone.on /\ row.own = cards[id].own /\ IsRow(row) BY <1>2 DEF IsRow
<1> HIDE DEF row
<1>5. RequestOf(b).op = "updateCard" /\ RequestOf(b).id = id /\ RequestOf(b).row = row BY <1>3
<1>6. CASE pc[b] = "readCard"
  <2> DEFINE merged == Backend!Merged(cal[b], req[b].row, cards[req[b].id])
             l == [Backend!NoLocals EXCEPT !.id = req[b].id, !.row = merged]
  <2>1. Backend!ReadCard(b) BY <1>6, StatementIs DEF Lonely
  <2>2. Backend!Sees(cal[b], cards[id].own) BY <1>1 DEF Backend!Sees, Admin
  <2>3. Backend!Reads(b, "saveCard", l) BY <1>1, <1>2, <1>5, <2>1, <2>2 DEF Backend!ReadCard
  <2>4. merged = row
    <3>1. [row EXCEPT !.own = cards[id].own] = row
      <4>1. row = [num |-> row.num, bal |-> row.bal, blk |-> row.blk, own |-> row.own]
        BY <1>4 DEF IsRow
      <4>2. [row EXCEPT !.own = row.own] = row BY <4>1
      <4> QED BY <1>4, <4>2
    <3> QED BY <1>1, <1>5, <3>1 DEF Backend!Merged
  <2> HIDE DEF merged
  <2>5. l.id = id /\ l.row = row
    <3>1. l = [id |-> req[b].id, row |-> merged, entry |-> None, nest |-> None, term |-> None]
      BY LocalsPut
    <3> QED BY <1>1, <1>5, <2>4, <3>1
  <2> HIDE DEF l
  <2>6. /\ pc' = [pc EXCEPT ![b] = "saveCard"] /\ loc' = [loc EXCEPT ![b] = l]
        /\ UNCHANGED <<cards, journal, cal, req>>
    BY <2>3 DEF Backend!Reads, Backend!GoesOn, Backend!tables
  <2>7. pc'[b] = "saveCard" /\ loc'[b] = l
    BY <2>6 DEF Lonely, BackendInv, BackendWorkers
  <2>8. UNCHANGED <<step, job, mem>> BY <2>7 DEF Lonely, Answers, page
  <2>9. PageTold(step[b], mem[b])'
    <3>1. /\ Untold' = Untold /\ OnChip' = OnChip /\ Accounted' = Accounted
          /\ CardsOf(alone.on)' = CardsOf(alone.on) /\ Job' = Job /\ alone' = alone /\ chips' = chips
          /\ \A k : Known(k)' = Known(k)
      BY <2>6, <2>8, LonelyIs, TellingFrame
    <3> QED BY <2>6, <2>8, <3>1, LonelyIs DEF PageTold, Reading, Writing, Telling
  <2>10. RequestOf(b)' = RequestOf(b) => Served(b)'
    BY <1>1, <1>5, <2>5, <2>6, <2>7, <2>8 DEF Served, PutServed
  <2> QED BY <2>6, <2>9, <2>10, LonelyGoesOn
<1>7. CASE pc[b] = "saveCard"
  <2>1. Backend!SaveCard(b) BY <1>7, StatementIs DEF Lonely
  <2>2. /\ Backend!WritesCard(b, id, row) /\ Backend!Ends(b)
    BY <1>1, <1>2, <1>5, <1>7, <2>1 DEF Backend!SaveCard, Backend!AfterCard
  <2>3. Backend!NumberFree(row.num, id)
    BY <1>2, <1>4, LonelyIs DEF Backend!NumberFree, CardTable
  <2>4. cards' = Put(cards, id, row) /\ journal' = journal
    BY <2>2, <2>3, PutIsPut DEF Backend!WritesCard
  <2>5. id \in Backend!CardIds BY <1>2, LonelyIs
  <2>6. CASE Job.op = "register"
    <3>1. cards = alone.cards /\ journal = alone.journal BY <1>1, <2>6 DEF Accounted, Untold
    <3>2. Booked(Job, alone.on, chips[alone.on], alone.cards, alone.journal)
      BY <1>2, <2>4, <2>5, <2>6, <3>1 DEF Booked, row
    <3> QED BY <1>7, <2>2, <3>2, LonelyEnds
  <2>7. CASE Job.op # "register"
    <3>1. PICK i \in Backend!CardIds : Known(i) /\ Rebalanced(i) /\ Journalled(i)
      BY <1>1, <2>7 DEF Accounted
    <3>2. /\ i \in DOMAIN cards /\ cards[i].num = alone.on
          /\ \A x : [cards[i] EXCEPT !.bal = x] = [alone.cards[i] EXCEPT !.bal = x]
          /\ \A r : Put(cards, i, r) = Put(alone.cards, i, r)
      BY <3>1, LonelyIs, RebalancedRow
    <3>3. i = id BY <1>2, <3>2, LonelyIs DEF CardTable
    <3>4. /\ cards' = Put(alone.cards, i, [alone.cards[i] EXCEPT !.bal = chips[alone.on].bal])
          /\ journal' = journal
      BY <2>4, <3>2, <3>3 DEF row
    <3>5. \E k \in Backend!EntryIds \ DOMAIN alone.journal, st \in {"approved", "declined"} :
            /\ Job.op = "topUp" \/ Payable(alone.cards[i], Job.amt) => st = "approved"
            /\ journal' = Put(alone.journal, k, [card |-> i, amt |-> Job.amt, st |-> st])
      <4>1. PICK k \in Backend!EntryIds \ DOMAIN alone.journal :
              journal = Put(alone.journal, k, Entry(i))
        BY <3>1 DEF Journalled
      <4> DEFINE st == IF Allowed(i) THEN "approved" ELSE "declined"
      <4>2. /\ st \in {"approved", "declined"}
            /\ Job.op = "topUp" \/ Payable(alone.cards[i], Job.amt) => st = "approved"
        BY DEF Allowed, Payable
      <4>3. journal' = Put(alone.journal, k, [card |-> i, amt |-> Job.amt, st |-> st])
        BY <3>4, <4>1 DEF Entry
      <4> HIDE DEF st
      <4> QED BY <4>2, <4>3
    <3>6. Booked(Job, alone.on, chips[alone.on], alone.cards, alone.journal)
      BY <2>7, <3>1, <3>4, <3>5 DEF Booked, Known
    <3> QED BY <1>7, <2>2, <3>6, LonelyEnds
  <2> QED BY <2>6, <2>7
<1> QED BY <1>1, <1>6, <1>7

\* AuthorizePayment, statement by statement.
LEMMA ServePay ==
    ASSUME NEW b, Lonely(b), step[b] = "authorize"
    PROVE  Tale' /\ EndsAgree
<1> DEFINE id == loc[b].id
<1>1. PayServed(b) /\ req[b] = RequestOf(b) /\ Job.op = "pay"
  BY LonelyIs DEF Served, PageTold
<1>2. /\ req[b].op = "pay" /\ req[b].num = alone.on /\ req[b].amt = Job.amt
  <2>1. RequestOf(b) = [op |-> "pay", num |-> mem[b].uid, amt |-> job[b].amt, term |-> job[b].term]
    BY LonelyIs, RequestsAre DEF Lonely
  <2>2. Job = job[b] /\ mem[b].uid = alone.on BY LonelyIs
  <2>3. req[b] = [op |-> "pay", num |-> alone.on, amt |-> Job.amt, term |-> job[b].term]
    BY <1>1, <2>1, <2>2
  <2> QED BY <2>3
<1>3. ASSUME UNCHANGED <<cards, journal, step, job, mem>>
      PROVE  /\ PageTold(step[b], mem[b])' /\ Untold' = Untold
             /\ Job' = Job
             /\ \A i : Known(i)' = Known(i) /\ Entry(i)' = Entry(i) /\ Rebalanced(i)' = Rebalanced(i)
  <2>1. /\ Untold' = Untold /\ OnChip' = OnChip /\ Accounted' = Accounted
        /\ CardsOf(alone.on)' = CardsOf(alone.on) /\ Job' = Job /\ alone' = alone /\ chips' = chips
        /\ \A i : Known(i)' = Known(i) /\ Entry(i)' = Entry(i) /\ Rebalanced(i)' = Rebalanced(i)
    BY <1>3, LonelyIs, TellingFrame
  <2>2. PageTold(step[b], mem[b])'
    BY <1>3, <2>1, LonelyIs DEF PageTold, Reading, Writing, Telling
  <2> QED BY <2>1, <2>2
<1>4. ASSUME NEW label, NEW l, Backend!Reads(b, label, l), label # "idle"
      PROVE  /\ pc' = [pc EXCEPT ![b] = label] /\ pc'[b] = label /\ loc'[b] = l
             /\ UNCHANGED <<cards, journal, step, job, mem, req, alone>>
  <2>1. /\ pc' = [pc EXCEPT ![b] = label] /\ loc' = [loc EXCEPT ![b] = l]
        /\ UNCHANGED <<cards, journal, req>>
    BY <1>4 DEF Backend!Reads, Backend!GoesOn, Backend!tables
  <2>2. pc'[b] = label /\ loc'[b] = l BY <2>1 DEF Lonely, BackendInv, BackendWorkers
  <2>3. UNCHANGED <<step, job, mem>> BY <1>4, <2>2 DEF Lonely, Answers, page
  <2> QED BY <2>1, <2>2, <2>3, LonelyIs
<1>5. ASSUME Backend!Refuses(b), pc[b] \in {"findCard", "findTerminal"} PROVE Tale' /\ EndsAgree
  <2>1. cards' = alone.cards /\ journal' = alone.journal
    BY <1>1, <1>5 DEF Backend!Refuses, Backend!tables, PayServed, Untold
  <2> QED BY <1>5, <2>1, LonelyEnds DEF Backend!Refuses
<1>6. CASE pc[b] = "findCard"
  <2>1. Backend!FindCard(b) BY <1>6, StatementIs DEF Lonely
  <2>2. ASSUME NEW i \in DOMAIN cards, cards[i].num = req[b].num,
               Backend!Reads(b, "findTerminal", [Backend!NoLocals EXCEPT !.id = i, !.row = cards[i]])
        PROVE  Tale' /\ EndsAgree
    <3> DEFINE l == [Backend!NoLocals EXCEPT !.id = i, !.row = cards[i]]
    <3>1. l.id = i /\ l.row = cards[i]
      <4> DEFINE row == cards[i]
      <4>1. [Backend!NoLocals EXCEPT !.id = i, !.row = row]
              = [id |-> i, row |-> row, entry |-> None, nest |-> None, term |-> None]
        <5> HIDE DEF row
        <5> QED BY LocalsPut
      <4> QED BY <4>1
    <3> HIDE DEF l
    <3>2. /\ pc' = [pc EXCEPT ![b] = "findTerminal"] /\ pc'[b] = "findTerminal" /\ loc'[b] = l
          /\ UNCHANGED <<cards, journal, step, job, mem, req, alone>>
      BY <1>4, <2>2 DEF l
    <3>3. Untold /\ Known(i) /\ cards[i] = alone.cards[i]
      BY <1>1, <1>2, <1>6, <2>2 DEF PayServed, Untold, Known
    <3>4. PayServed(b)' BY <1>3, <3>1, <3>2, <3>3 DEF PayServed
    <3>5. RequestOf(b)' = RequestOf(b) => Served(b)' BY <1>1, <3>2, <3>4 DEF Served
    <3> QED BY <1>3, <3>2, <3>5, LonelyGoesOn
  <2> QED BY <1>5, <1>6, <2>1, <2>2 DEF Backend!FindCard
<1>7. CASE pc[b] = "findTerminal"
  <2> DEFINE amt == req[b].amt
             row == loc[b].row
  <2>1. Backend!FindTerminal(b) BY <1>7, StatementIs DEF Lonely
  <2>2. Untold /\ Known(id) /\ row = alone.cards[id] /\ IsLocals(loc[b])
    BY <1>1, <1>7, LonelyIs DEF PayServed, Carries
  <2>3. ASSUME NEW label \in {"saveCard", "insertEntry"}, NEW l, Backend!Reads(b, label, l),
               l.id = id, l.entry = Entry(id),
               label = "saveCard" => l.row = [alone.cards[id] EXCEPT !.bal = alone.cards[id].bal - Job.amt]
        PROVE  Tale' /\ EndsAgree
    <3>1. /\ pc' = [pc EXCEPT ![b] = label] /\ pc'[b] = label /\ loc'[b] = l
          /\ UNCHANGED <<cards, journal, step, job, mem, req, alone>>
      BY <1>4, <2>3
    <3>2. Rebalanced(id) /\ journal = alone.journal
      <4>1. /\ id \in DOMAIN cards /\ IsRow(cards[id]) /\ cards = [k \in DOMAIN cards |-> cards[k]]
            /\ cards = alone.cards
        BY <2>2, LonelyIs DEF Known, Untold, CardTable
      <4> HIDE DEF id
      <4>2. Put(cards, id, [cards[id] EXCEPT !.bal = cards[id].bal]) = cards BY <4>1, PutSame
      <4> QED BY <2>2, <4>1, <4>2 DEF Rebalanced, Untold
    <3> HIDE DEF id
    <3>3. PayServed(b)' BY <1>3, <2>2, <2>3, <3>1, <3>2 DEF PayServed
    <3>4. RequestOf(b)' = RequestOf(b) => Served(b)' BY <1>1, <3>1, <3>3 DEF Served
    <3> QED BY <1>3, <2>3, <3>1, <3>4, LonelyGoesOn
  <2>4. Allowed(id) <=> Backend!Approves(row, amt)
    BY <1>1, <1>2, <2>2 DEF Allowed, Backend!Approves
  <2>5. CASE Backend!Approves(row, amt)
    <3> DEFINE paid == [row EXCEPT !.bal = row.bal - amt]
               entry == [card |-> id, amt |-> amt, st |-> "approved"]
               l == [loc[b] EXCEPT !.row = paid, !.entry = entry]
    <3>1. l.id = id /\ l.entry = Entry(id)
          /\ l.row = [alone.cards[id] EXCEPT !.bal = alone.cards[id].bal - Job.amt]
      <4>1. entry = Entry(id) BY <1>2, <2>4, <2>5 DEF Entry
      <4>2. paid = [alone.cards[id] EXCEPT !.bal = alone.cards[id].bal - Job.amt]
        BY <1>2, <2>2
      <4> HIDE DEF paid, entry
      <4>3. l = [id |-> id, row |-> paid, entry |-> entry, nest |-> None, term |-> None]
        BY <2>2, LocalsPaid
      <4> HIDE DEF l
      <4> QED BY <4>1, <4>2, <4>3
    <3>2. Backend!Refuses(b) \/ Backend!Reads(b, "saveCard", l)
      BY <2>1, <2>5 DEF Backend!FindTerminal
    <3> HIDE DEF l
    <3> QED BY <1>5, <1>7, <2>3, <3>1, <3>2
  <2>6. CASE ~Backend!Approves(row, amt)
    <3> DEFINE l == [loc[b] EXCEPT !.entry = [card |-> id, amt |-> amt, st |-> "declined"]]
    <3>1. l.id = id /\ l.entry = Entry(id)
      BY <1>2, <2>2, <2>4, <2>6 DEF Entry, IsLocals
    <3>2. Backend!Refuses(b) \/ Backend!Reads(b, "insertEntry", l)
      BY <2>1, <2>6 DEF Backend!FindTerminal
    <3> HIDE DEF l
    <3> QED BY <1>5, <1>7, <2>3, <3>1, <3>2
  <2> QED BY <2>5, <2>6
<1>8. CASE pc[b] = "saveCard"
  <2> DEFINE row == [alone.cards[id] EXCEPT !.bal = alone.cards[id].bal - Job.amt]
  <2>1. Backend!SaveCard(b) BY <1>8, StatementIs DEF Lonely
  <2>2. /\ cards = alone.cards /\ journal = alone.journal /\ Known(id) /\ loc[b].row = row
        /\ loc[b].entry = Entry(id)
    BY <1>1, <1>8 DEF PayServed, Untold
  <2>3. id \in DOMAIN cards /\ cards[id].num = alone.on /\ IsRow(cards[id])
    BY <2>2, LonelyIs DEF Known, CardTable
  <2>4. row.num = alone.on /\ [alone.cards[id] EXCEPT !.bal = row.bal] = row
    BY <2>2, <2>3 DEF IsRow
  <2>5. Backend!WritesCard(b, id, loc[b].row) /\ Backend!GoesOn(b, "insertEntry", loc[b])
    BY <1>2, <2>1, <2>3 DEF Backend!SaveCard, Backend!AfterCard
  <2>6. Backend!NumberFree(row.num, id)
    <3>1. CardTable(cards, nextCard) BY LonelyIs
    <3> HIDE DEF id, row
    <3>2. \A k \in DOMAIN cards \ {id} : cards[k].num # row.num
      BY <2>3, <2>4, <3>1 DEF CardTable
    <3> QED BY <3>2 DEF Backend!NumberFree
  <2>7. cards' = Put(cards, id, row) /\ journal' = journal
    BY <2>2, <2>5, <2>6, PutIsPut DEF Backend!WritesCard
  <2>8. /\ pc' = [pc EXCEPT ![b] = "insertEntry"] /\ pc'[b] = "insertEntry"
        /\ loc'[b] = loc[b] /\ req' = req
    BY <2>5 DEF Backend!GoesOn, Lonely, BackendInv, BackendWorkers
  <2>9. UNCHANGED <<step, job, mem>> BY <2>8 DEF Lonely, Answers, page
  <2>10. alone' = alone /\ chips' = chips /\ Job' = Job /\ OnChip' = OnChip
    BY <2>9, LonelyIs DEF Job, OnChip
  <2> HIDE DEF id, row
  <2>11. Known(id)' /\ Entry(id)' = Entry(id) /\ Rebalanced(id)'
    <3>1. cards'[id] = row BY <2>7 DEF Put
    <3>2. cards' = Put(alone.cards, id, [alone.cards[id] EXCEPT !.bal = cards'[id].bal])
      BY <2>2, <2>4, <2>7, <3>1
    <3>3. id' = id BY <2>8 DEF id
    <3> QED BY <2>2, <2>10, <3>2, <3>3 DEF Known, Entry, Allowed, Rebalanced
  <2>12. PageTold(step[b], mem[b])'
    BY <1>1, <2>9, <2>10, LonelyIs DEF PageTold, Reading, Writing, Telling
  <2>13. PayServed(b)' BY <2>2, <2>7, <2>8, <2>10, <2>11 DEF PayServed, id
  <2>14. RequestOf(b)' = RequestOf(b) => Served(b)' BY <1>1, <2>8, <2>9, <2>13 DEF Served
  <2> QED BY <2>8, <2>12, <2>14, LonelyGoesOn
<1>9. CASE pc[b] = "insertEntry"
  <2>1. Known(id) /\ Rebalanced(id) /\ journal = alone.journal /\ loc[b].entry = Entry(id)
    BY <1>1, <1>9 DEF PayServed
  <2>2. id \in Backend!CardIds BY <2>1, LonelyIs, RebalancedRow
  <2> HIDE DEF id
  <2>3. Backend!Ends(b) /\ Accounted' BY <1>1, <1>9, <2>1, <2>2, LonelyEntry
  <2> QED BY <1>9, <2>3, LonelyEnds
<1> QED BY <1>1, <1>6, <1>7, <1>8, <1>9 DEF PayServed

LEMMA ServeTale ==
    ASSUME IInv, BackendInv, Tale, NEW b \in Buttons, Serve(b)
    PROVE  Tale' /\ EndsAgree
<1>1. CASE Roughly BY <1>1, RoughTale
<1>2. CASE Smoothly /\ ~(alone # None /\ alone.smooth = TRUE)
  <2>1. alone' = alone /\ (alone' # None => alone'.smooth = FALSE)
    BY <1>2 DEF Smoothly, IInv, Recorded
  <2> QED BY <2>1 DEF Tale, EndsAgree
<1>3. CASE Backend!StatementRuns(b) /\ Smoothly /\ alone # None /\ alone.smooth = TRUE
  <2>1. pc[b] # "idle" BY <1>3, StatementIs
  <2>2. b = alone.button BY <1>3, <2>1 DEF Tale, Told
  <2>3. Lonely(b) BY <1>3, <2>1, <2>2 DEF Lonely, Answers, Serve
  <2>4. step[b] \in Asking BY <2>3, LonelyIs
  <2> QED BY <2>3, <2>4, ServePay, ServePost, ServeCreate, ServePut DEF Asking
<1> QED BY <1>1, <1>2, <1>3 DEF Serve

\* The world a lone action starts with is the one its record tells of.
LEMMA PressTale ==
    ASSUME IInv, BackendInv, Tale, NEW b \in Buttons, NEW j, Press(b, j)
    PROVE  Tale' /\ EndsAgree
<1>1. /\ step' = [step EXCEPT ![b] = "await"] /\ mem' = [mem EXCEPT ![b] = NoMemory]
      /\ step[b] \in Resting /\ UNCHANGED <<chips, field, asked, cards, journal, pc>>
  BY DEF Press, reader, backend
<1>2. step'[b] = "await" /\ mem'[b] = NoMemory /\ \A a \in Buttons \ {b} : step'[a] = step[a]
  BY <1>1 DEF IInv, Shape
<1>3. EndsAgree BY <1>1, <1>2 DEF EndsAgree, Resting
<1>4. CASE alone' = None BY <1>3, <1>4 DEF Tale
<1>5. CASE /\ \A a \in Buttons : pc[a] = "idle"
           /\ alone' = [button |-> b, on |-> field, smooth |-> token # "old",
                        chips |-> chips, cards |-> cards, journal |-> journal]
  <2>1. Untold' BY <1>1, <1>5 DEF Untold
  <2>2. asked'[b] # TRUE BY <1>1 DEF IInv, Ready, Resting, Asking
  <2>3. PageTold(step[alone.button], mem[alone.button])'
    BY <1>2, <1>5, <2>1 DEF PageTold, NoMemory, Reading, Writing, Telling
  <2>4. Told' BY <1>1, <1>2, <1>5, <2>1, <2>2, <2>3 DEF Told
  <2> QED BY <1>3, <2>4 DEF Tale
<1> QED BY <1>4, <1>5 DEF Press

LEMMA NextTale ==
    ASSUME IInv, BackendInv, Tale, [Next]_vars
    PROVE  Tale' /\ EndsAgree
<1>1. ASSUME NEW b \in Buttons, Step(b) PROVE Tale' /\ EndsAgree
  BY <1>1, AwaitTale, ReadUidTale, ReadBlocksTale, WriteTale, LogInTale, FindCardTale,
     FindTerminalTale, SyncTale, RegisterRowTale, SendTale DEF Step
<1>2. ASSUME NEW b \in Buttons, Serve(b) PROVE Tale' /\ EndsAgree BY <1>2, ServeTale
<1>3. ASSUME NEW b \in Buttons, LoseAnswer(b) PROVE Tale' /\ EndsAgree
  BY <1>3, RoughTale DEF LoseAnswer, Breaks
<1>4. ASSUME NEW b \in Buttons, NEW j \in JobsOf[b], Press(b, j) PROVE Tale' /\ EndsAgree
  BY <1>4, PressTale
<1>5. CASE MoveCard BY <1>5, RoughTale DEF MoveCard
<1>6. CASE RestartBackend BY <1>6, RoughTale DEF RestartBackend
<1>7. CASE Reopen BY <1>7, RoughTale DEF Reopen
<1>8. CASE UNCHANGED vars BY <1>8, RestTale DEF vars, Smoothly
<1> QED BY <1>1, <1>2, <1>3, <1>4, <1>5, <1>6, <1>7, <1>8 DEF Next

\* A lone action on a card that lies still, in a world without failures, leaves the
\* chip's balance in the card's row and one journal row of the amount if the page calls
\* it done, approved if the backend's row could pay, and the backend as it was if
\* failed, however earlier ones went (_runAction, api_client.dart, lab3 handlers.go).
THEOREM LoneActionsAreBooked == Spec => LoneActionsAgree
<1> DEFINE I == IInv /\ BackendInv /\ Tale
<1>1. Init => I
  <2>1. Init => Tale BY DEF Init, Tale
  <2> QED BY <2>1, InitKeeps, BackendStarts
<1>2. I /\ [Next]_vars => I' BY NextKeeps, BackendNext, NextTale
<1>3. I /\ [Next]_vars => [EndsAgree]_vars BY NextTale
<1> HIDE DEF I
<1> QED BY <1>1, <1>2, <1>3, PTL DEF Spec, LoneActionsAgree
=============================================================================
