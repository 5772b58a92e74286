----------------------------- MODULE NfcStation -----------------------------
(***************************************************************************)
(* The card station of lab4: a page with four buttons that reads, charges, *)
(* tops up and registers MIFARE cards on an NFC reader, then tells the     *)
(* lab3 backend.  The balance on the chip is the station's truth: the      *)
(* backend is asked after the chip is written, and its row is overwritten  *)
(* with what the chip says.                                                *)
(*                                                                         *)
(* The backend is TransportBackend itself, with a worker for each button:  *)
(* a button whose request the backend still serves after its answer was    *)
(* lost waits for that worker before it sends the next.                    *)
(***************************************************************************)
EXTENDS Tables, Integers, FiniteSets

CONSTANTS
    Uids,              \* the cards there are: a UID is the card's number
    Near,              \* those the operator has at hand; another may lie on the reader
    Names, Halves,     \* owner names, and what blocks 5 and 6 can hold of them
    Encoded,           \* Names -> Halves \X Halves: UTF-8, cut off after 32 bytes
    Decoded,           \* and back: NULs and blanks dropped, what is malformed replaced
    Serials,           \* serial numbers of terminals
    Amounts,           \* amounts and balances
    Buttons,           \* actions that can be in progress at a time
    Jobs,              \* what the operator asks for
    JobsOf,            \* Buttons -> SUBSET Jobs: what for with each button
    InitialChips,      \* what the cards hold at first
    InitialCards,      \* what the backend knows of them
    Failing,           \* may tools, requests and statements fail?
    MaxTries,          \* attempts of a tool that finds no tag: 6 in the code
    MaxPresses,        \* bound: how often a button is pressed
    MaxCard, MaxEntry, \* bounds: the largest ids of the backend's tables
    None

Admin == [id |-> 1, adm |-> TRUE]

\* What is in blocks 4, 5 and 6: the magic and the balance, two halves of a name.
Chips == [magic : BOOLEAN, bal : Int, lo : Halves, hi : Halves]
AllJobs == [op : {"read"}] \cup [op : {"register"}, name : Names, bal : Amounts]
           \cup [op : {"pay", "topUp"}, amt : Amounts \ {0}, term : Serials]

ASSUME StationAssumption ==
    /\ Amounts \subseteq Nat /\ None \notin Jobs \cup Uids \cup Int
    /\ Jobs \subseteq AllJobs /\ JobsOf \in [Buttons -> SUBSET Jobs]
    /\ Near \subseteq Uids /\ MaxTries \in Nat \ {0} /\ MaxPresses \in Nat
\* A name that was cut, or whose halves come from two names, need not come back as it is.
ASSUME NamesAssumption ==
    /\ Encoded \in [Names -> Halves \X Halves]
    /\ Decoded \in [Halves \X Halves -> Names]

ASSUME InitialChipsAssumption ==
    InitialChips \in [Uids -> Chips] /\ \A u \in Uids : InitialChips[u].bal >= 0

\* The backend has deleted no card, and its column of numbers is UNIQUE.
ASSUME KnownCardsAssumption ==
    /\ MaxCard \in Nat /\ MaxEntry \in Nat
    /\ \E n \in 0 .. MaxCard : DOMAIN InitialCards = 1 .. n
    /\ IsTable(InitialCards, 1 .. MaxCard, [num : Uids, bal : Int, blk : BOOLEAN, own : Nat])
    /\ \A i, k \in DOMAIN InitialCards : InitialCards[i].num = InitialCards[k].num => i = k

VARIABLES
    chips,    \* what each card holds
    field,    \* the card on the reader, or None
    step,     \* where each button's action is
    job,      \* what it is to do
    mem,      \* what it has read, and is to write or send
    asked,    \* is it waiting for the answer to a request?
    token,    \* the page's JWT: "none", "good" or "old"
    presses,  \* how often a button has been pressed
    alone,    \* history: the world when the last action began, if it has run alone
    cards, nextCard, journal, nextEntry, terminals, pc, cal, req, loc, given, his, before

Backend == INSTANCE TransportBackend
    WITH Numbers <- Uids, Callers <- {Admin}, Workers <- Buttons, Requests <- {}

page == <<step, job, mem, asked>>
reader == <<chips, field>>
backend == <<cards, nextCard, journal, nextEntry, terminals, pc, cal, req, loc, given, his, before>>
vars == <<reader, page, token, presses, alone, backend>>

Resting == {"idle", "done", "failed"}
Steps == Resting \cup {"await", "readUid", "readBlocks", "awaitWrite", "write", "authorize",
                       "findCard", "findTerminal", "post", "sync", "register", "create", "put"}
NoMemory == [uid |-> None, data |-> None, want |-> None, tries |-> 0, card |-> 0, row |-> None]

-----------------------------------------------------------------------------
\* How an action moves

GoesTo(b, label, m) ==
    /\ step' = [step EXCEPT ![b] = label]
    /\ mem' = [mem EXCEPT ![b] = m]
    /\ asked' = [asked EXCEPT ![b] = FALSE]
    /\ UNCHANGED <<job, presses>>

Fails(b) == GoesTo(b, "failed", NoMemory)
Succeeds(b) == GoesTo(b, "done", NoMemory)

\* Something that only a faulty world does: it is remembered of a lone action.
Smoothly == UNCHANGED alone
Roughly == alone' = IF alone = None THEN None ELSE [alone EXCEPT !.smooth = FALSE]
Breaks(b) == Failing /\ Fails(b) /\ Roughly

\* _runAction: the buttons are not disabled, so several actions may run.
Press(b, j) ==
    /\ step[b] \in Resting /\ presses < MaxPresses
    /\ presses' = presses + 1
    /\ step' = [step EXCEPT ![b] = "await"]
    /\ job' = [job EXCEPT ![b] = j]
    /\ mem' = [mem EXCEPT ![b] = NoMemory]
    /\ alone' = IF \A a \in Buttons : step[a] \in Resting /\ pc[a] = "idle"
                   THEN [button |-> b, on |-> field, smooth |-> token # "old",
                      chips |-> chips, cards |-> cards, journal |-> journal]
                ELSE None
    /\ UNCHANGED <<reader, asked, token, backend>>

-----------------------------------------------------------------------------
\* The reader and its tools.  A tool has the reader to itself while it runs.

\* _waitForTag: nfc-list is asked until it sees a card, or the time is over.
Await(b) ==
    /\ step[b] \in {"await", "awaitWrite"}
    /\ LET next == IF step[b] = "await" THEN "readUid" ELSE "write" IN
       \/ field # None /\ GoesTo(b, next, [mem[b] EXCEPT !.tries = 1]) /\ Smoothly
       \/ field = None /\ Fails(b) /\ Smoothly
       \/ Breaks(b)
    /\ UNCHANGED <<reader, token, backend>>

\* Fault: one attempt too many.
NoTagOnceMore(b, label) ==
    /\ field = None
    /\ IF mem[b].tries <= MaxTries
       THEN GoesTo(b, label, [mem[b] EXCEPT !.tries = @ + 1]) ELSE Fails(b)
    /\ Smoothly

\* Fault: the attempts are not counted.
NoTagForever(b, label) ==
    /\ field = None
    /\ GoesTo(b, label, mem[b])
    /\ Smoothly

\* An attempt that met no card is followed by another, the sixth is the last.
NoTag(b, label) ==
    /\ field = None
    /\ IF mem[b].tries < MaxTries
       THEN GoesTo(b, label, [mem[b] EXCEPT !.tries = @ + 1]) ELSE Fails(b)
    /\ Smoothly

ReadUid(b) ==
    /\ step[b] = "readUid"
    /\ \/ field # None /\ GoesTo(b, "readBlocks", [mem[b] EXCEPT !.uid = field]) /\ Smoothly
       \/ field = None /\ Fails(b) /\ Smoothly
       \/ Breaks(b)
    /\ UNCHANGED <<reader, token, backend>>

\* encodeBlocks, and the owner decode finds on a chip.
Blocks(name, bal) ==
    [magic |-> TRUE, bal |-> bal, lo |-> Encoded[name][1], hi |-> Encoded[name][2]]
OwnerName(d) == Decoded[<<d.lo, d.hi>>]

\* What a job makes of a chip: the whole of blocks 4 to 6 is written anew, the name
\* of a payment or a top-up as it was decoded.
Patched(j, d) ==
    CASE j.op = "register" -> Blocks(j.name, j.bal)
      [] j.op = "pay" -> Blocks(OwnerName(d), d.bal - j.amt)
      [] j.op = "topUp" -> Blocks(OwnerName(d), d.bal + j.amt)
      [] OTHER -> d

\* Fault: the balance on the chip is not compared with the amount.
PermitsAny(j, d) == j.op = "register" \/ d.magic

\* decode refuses a card without the magic, pay one that holds too little.
Permits(j, d) == j.op = "register" \/ (d.magic /\ (j.op = "pay" => d.bal >= j.amt))

\* What the page does with a chip it has read for the first time.
FirstRead(b, d) ==
    CASE ~Permits(job[b], d) -> Fails(b)
      [] Permits(job[b], d) /\ job[b].op = "read" -> Succeeds(b)
      [] OTHER -> GoesTo(b, "awaitWrite", [mem[b] EXCEPT !.data = Patched(job[b], d)])

\* _readBackAfterWrite: only the balance is compared.
ReadBack(b, d) ==
    IF d.magic /\ d.bal = mem[b].want
    THEN GoesTo(b, CASE job[b].op = "pay" -> "authorize"
                     [] job[b].op = "topUp" -> "findCard"
                     [] OTHER -> "sync", [mem[b] EXCEPT !.data = d])
    ELSE Fails(b)

\* nfc-mfsector1 r
ReadBlocks(b) ==
    /\ step[b] = "readBlocks"
    /\ \/ /\ field # None
          /\ IF mem[b].want = None THEN FirstRead(b, chips[field]) ELSE ReadBack(b, chips[field])
          /\ Smoothly
       \/ NoTag(b, "readUid")
       \/ Breaks(b)
    /\ UNCHANGED <<reader, token, backend>>

\* The chip after the first n of blocks 4, 5 and 6 have been written.
Written(old, new, n) ==
    [magic |-> IF n >= 1 THEN new.magic ELSE old.magic,
     bal |-> IF n >= 1 THEN new.bal ELSE old.bal,
     lo |-> IF n >= 2 THEN new.lo ELSE old.lo,
     hi |-> IF n >= 3 THEN new.hi ELSE old.hi]

\* Fault: after an error the card is read and charged again.
WriteRestarting(b) ==
    /\ step[b] = "write"
    /\ \/ /\ field # None
          /\ \E n \in IF Failing THEN 0 .. 3 ELSE {3} :
                /\ chips' = [chips EXCEPT ![field] = Written(@, mem[b].data, n)]
                /\ CASE n = 3 -> GoesTo(b, "await", [mem[b] EXCEPT !.want = mem[b].data.bal])
                     [] n < 3 /\ mem[b].tries < MaxTries ->
                            GoesTo(b, "readBlocks", [mem[b] EXCEPT !.tries = @ + 1])
                     [] OTHER -> Fails(b)
                /\ Smoothly
       \/ NoTag(b, "write") /\ UNCHANGED chips
    /\ UNCHANGED <<field, token, backend>>

\* nfc-mfsector1 w: it writes to whatever card is there, block by block, and an
\* error after the first is not one that is tried again.
Write(b) ==
    /\ step[b] = "write"
    /\ \/ /\ field # None
          /\ \E n \in 0 .. 3 :
                /\ chips' = [chips EXCEPT ![field] = Written(@, mem[b].data, n)]
                /\ IF n = 3
                   THEN GoesTo(b, "await", [mem[b] EXCEPT !.want = mem[b].data.bal]) /\ Smoothly
                   ELSE Breaks(b)
       \/ NoTag(b, "write") /\ UNCHANGED chips
    /\ UNCHANGED <<field, token, backend>>

\* The operator puts a card on the reader, or takes it away.
MoveCard ==
    /\ \E c \in (Near \cup {None}) \ {field} : field' = c
    /\ alone' = None
    /\ UNCHANGED <<chips, page, token, presses, backend>>

-----------------------------------------------------------------------------
\* The client of the backend

\* _ensureLoggedIn, before every request that needs a token.
LogIn(b) ==
    /\ step[b] \in {"findCard", "sync"} /\ token = "none"
    /\ \/ token' = "good" /\ Smoothly /\ UNCHANGED page
       \/ Breaks(b) /\ UNCHANGED token
    /\ UNCHANGED <<reader, presses, backend>>

\* The token is good for a day, and nothing asks for another: the request that
\* comes too late, and all after it, are answered with 401.
Expires(b) ==
    /\ token = "old" \/ Failing
    /\ token' = "old" /\ Roughly
    /\ Fails(b)

\* A list the backend answers at once; after an error it may be empty.
Listed(b, rows, Then(_)) ==
    /\ token # "none"
    /\ \/ token = "good" /\ Then(rows) /\ Smoothly /\ UNCHANGED token
       \/ token = "good" /\ Failing /\ Then({}) /\ Roughly /\ UNCHANGED token
       \/ Expires(b)
       \/ Breaks(b) /\ UNCHANGED token
    /\ UNCHANGED <<reader, backend>>

CardsOf(uid) == {i \in DOMAIN cards : cards[i].num = uid}

\* findCardByNumber, for the journal and for the synchronisation.
FindCard(b) ==
    /\ step[b] = "findCard"
    /\ Listed(b, CardsOf(mem[b].uid), LAMBDA found :
         IF found = {} THEN Fails(b)
         ELSE \E i \in found : GoesTo(b, "findTerminal", [mem[b] EXCEPT !.card = i]))

FindTerminal(b) ==
    /\ step[b] = "findTerminal"
    /\ Listed(b, terminals, LAMBDA found :
         IF job[b].term \in found THEN GoesTo(b, "post", mem[b]) ELSE Fails(b))

\* syncCardToBackend: the row there is is put back with the chip's balance.
Sync(b) ==
    /\ step[b] = "sync"
    /\ Listed(b, CardsOf(mem[b].uid), LAMBDA found :
         IF found = {} THEN GoesTo(b, "register", mem[b])
         ELSE \E i \in found : GoesTo(b, "put", [mem[b] EXCEPT !.card = i, !.row = cards[i]]))

\* registerCard looks again, and is content with a row that is there by now.
RegisterRow(b) ==
    /\ step[b] = "register"
    /\ Listed(b, CardsOf(mem[b].uid), LAMBDA found :
         IF found = {} THEN GoesTo(b, "create", mem[b]) ELSE Succeeds(b))

\* The request each step sends.
RequestOf(b) ==
    LET m == mem[b] IN
    CASE step[b] = "authorize" ->
            [op |-> "pay", num |-> m.uid, amt |-> job[b].amt, term |-> job[b].term]
      [] step[b] = "post" ->
            [op |-> "createEntry", id |-> 0, nest |-> None, term |-> None,
             entry |-> [card |-> m.card, amt |-> job[b].amt, st |-> "approved"]]
      [] step[b] = "put" ->
            [op |-> "updateCard", id |-> m.card, row |-> [m.row EXCEPT !.bal = m.data.bal]]
      [] step[b] = "create" ->
            [op |-> "createCard", id |-> 0,
             row |-> [num |-> m.uid, bal |-> m.data.bal, blk |-> FALSE, own |-> 1]]

Send(b) ==
    /\ step[b] \in {"authorize", "post", "put", "create"} /\ ~asked[b]
    /\ \/ /\ step[b] = "authorize" \/ token = "good"
          /\ Backend!Accept(b, IF step[b] = "authorize" THEN None ELSE Admin, RequestOf(b))
          /\ asked' = [asked EXCEPT ![b] = TRUE]
          /\ Smoothly /\ UNCHANGED <<step, job, mem, token, presses>>
       \/ step[b] # "authorize" /\ Expires(b) /\ UNCHANGED backend
       \/ Breaks(b) /\ UNCHANGED <<token, backend>>
    /\ UNCHANGED reader

\* Fault: a declined payment ends the action, and the backend is not told the
\* balance that is on the chip.
AfterAnswerTrusting(b, ok) ==
    CASE ~ok -> Fails(b)
      [] ok /\ step[b] \in {"authorize", "post"} /\ loc[b].entry.st # "declined" ->
            GoesTo(b, "sync", [mem[b] EXCEPT !.card = 0])
      [] OTHER -> Succeeds(b)

\* What the page does with an answer; that of authorizePayment is not looked at.
AfterAnswer(b, ok) ==
    CASE ~ok -> Fails(b)
      [] ok /\ step[b] \in {"authorize", "post"} -> GoesTo(b, "sync", [mem[b] EXCEPT !.card = 0])
      [] OTHER -> Succeeds(b)

\* The backend executes a statement, and answers after the last: 404 when a row
\* it needs is not found, else 200 or 201, even when its last write failed.
Serve(b) ==
    /\ \/ Backend!StatementRuns(b) /\ Smoothly
       \/ Backend!StatementFails(b) /\ Roughly
    /\ IF asked[b] /\ pc'[b] = "idle"
       THEN AfterAnswer(b, pc[b] \notin {"findCard", "findTerminal", "readCard"})
       ELSE UNCHANGED <<page, presses>>
    /\ UNCHANGED <<reader, token>>

\* The connection breaks, while the backend goes on with the request.
LoseAnswer(b) ==
    /\ asked[b]
    /\ Breaks(b)
    /\ UNCHANGED <<reader, token, backend>>

\* The backend is killed and started again: every connection breaks.
RestartBackend ==
    /\ Backend!Restart
    /\ step' = [b \in Buttons |-> IF asked[b] THEN "failed" ELSE step[b]]
    /\ mem' = [b \in Buttons |-> IF asked[b] THEN NoMemory ELSE mem[b]]
    /\ asked' = [b \in Buttons |-> FALSE]
    /\ Roughly
    /\ UNCHANGED <<reader, job, token, presses>>

\* The window is closed and opened again; what it has sent is served all the same.
Reopen ==
    /\ Failing
    /\ step' = [b \in Buttons |-> "idle"]
    /\ mem' = [b \in Buttons |-> NoMemory]
    /\ asked' = [b \in Buttons |-> FALSE]
    /\ token' = "none"
    /\ Roughly
    /\ UNCHANGED <<reader, job, presses, backend>>

-----------------------------------------------------------------------------
Init ==
    /\ chips = InitialChips
    /\ field \in Uids \cup {None}
    /\ step = [b \in Buttons |-> "idle"]
    /\ job = [b \in Buttons |-> None]
    /\ mem = [b \in Buttons |-> NoMemory]
    /\ asked = [b \in Buttons |-> FALSE]
    /\ token = "none"
    /\ presses = 0
    /\ alone = None
    /\ Backend!Init

Step(b) ==
    \/ Await(b) \/ ReadUid(b) \/ ReadBlocks(b) \/ Write(b)
    \/ LogIn(b) \/ FindCard(b) \/ FindTerminal(b) \/ Sync(b) \/ RegisterRow(b) \/ Send(b)

Next ==
    \/ \E b \in Buttons :
        Step(b) \/ Serve(b) \/ LoseAnswer(b) \/ \E j \in JobsOf[b] : Press(b, j)
    \/ MoveCard \/ RestartBackend \/ Reopen

Spec == Init /\ [][Next]_vars

\* Tools return, and the backend executes the statements of a request.
Fairness == \A b \in Buttons : WF_vars(Step(b) \/ Serve(b))
FairSpec == Spec /\ Fairness

-----------------------------------------------------------------------------
TypeOK ==
    /\ chips \in [Uids -> Chips] /\ field \in Uids \cup {None}
    /\ \A b \in Buttons :
        /\ step[b] \in Steps /\ job[b] \in Jobs \cup {None} /\ asked[b] \in BOOLEAN
        /\ mem[b].uid \in Uids \cup {None} /\ mem[b].data \in Chips \cup {None}
        /\ mem[b].want \in Int \cup {None} /\ mem[b].tries \in 0 .. MaxTries
        /\ asked[b] => step[b] \in {"authorize", "post", "put", "create"}
    /\ token \in {"none", "good", "old"} /\ presses \in 0 .. MaxPresses

\* No card is charged more than it holds, whatever is swapped on the reader, torn or
\* interleaved: pay subtracts from the balance it has compared, and writes the
\* difference, not a debit.
ChipsStayNonNegative == \A u \in Uids : chips[u].bal >= 0

\* While a card lies still and one action runs, its balance is the old one or the one
\* the action makes of it, once: whatever tool, request or statement fails, wherever the
\* write is torn, and even if the window closes.  The name is written after it, half by
\* half, so a torn write may leave the halves of two names, of which the next payment
\* makes a third; but a half is never anything else.  The other cards keep what they held.
ChipIsChargedOnce ==
    alone # None =>
        \A u \in Uids :
            \/ chips[u] = alone.chips[u]
            \/ /\ u = alone.on
               /\ LET new == Patched(job[alone.button], alone.chips[u]) IN
                  \E n \in 1 .. 3 : chips[u] = Written(alone.chips[u], new, n)

\* Could the backend's row pay?
Payable(row, amt) == ~row.blk /\ row.bal >= amt

\* What the backend's tables are after job j of card u, with chip d, found them as
\* c (cards) and t (journal), when nothing fails: the card's row has the balance of
\* the chip and keeps the rest, and the journal has one row for a payment or top-up,
\* approved.  Only when the chip held enough and the backend's row did not, or was
\* blocked, nothing is said of its status: the page asks the backend after it has
\* charged the chip, and does not look at the answer.
Booked(j, u, d, c, t) ==
    \E i \in Backend!CardIds :
        LET known == i \in DOMAIN c /\ c[i].num = u
            row == IF known THEN [c[i] EXCEPT !.bal = d.bal]
                   ELSE [num |-> u, bal |-> d.bal, blk |-> FALSE, own |-> 1]
        IN  /\ known \/ i \notin DOMAIN c
            /\ cards' = Put(c, i, row)
            /\ IF j.op = "register" THEN journal' = t
               ELSE \E k \in Backend!EntryIds \ DOMAIN t, st \in {"approved", "declined"} :
                        /\ known /\ (j.op = "topUp" \/ Payable(c[i], j.amt) => st = "approved")
                        /\ journal' = Put(t, k, [card |-> i, amt |-> j.amt, st |-> st])

\* An action that ran alone on a card that lay still, in a world without failures,
\* and that the page calls done, leaves the chip's balance in the card row and one
\* journal row of the amount, whatever earlier failures had made of them, and that row
\* approved if the backend's row could pay; one it calls failed has left the backend as
\* it was.
EndsAgree ==
    \A b \in Buttons :
        (/\ step[b] \notin Resting /\ step'[b] \in {"done", "failed"}
         /\ alone' # None /\ alone'.smooth)
        => IF step'[b] = "failed" \/ job[b].op = "read"
           THEN cards' = alone.cards /\ journal' = alone.journal
           ELSE /\ chips[alone.on] = Patched(job[b], alone.chips[alone.on])
                /\ Booked(job[b], alone.on, chips[alone.on], alone.cards, alone.journal)
LoneActionsAgree == [][EndsAgree]_vars

\* Every action ends, though tools find no card, requests fail and processes die.
EveryActionEnds == \A b \in Buttons : step[b] \notin Resting ~> step[b] \in Resting
=============================================================================
