----------------------- MODULE TransportBackendProofs -----------------------
(***************************************************************************)
(* Without any transaction, what the lab3 handlers write back still keeps  *)
(* every balance non-negative and every owner one that was given: both are *)
(* properties of the row a worker is about to write, checked when it read. *)
(* So is whose card it is, which is all that keeps a regular user to his   *)
(* own cards (EntitledInv).                                                *)
(***************************************************************************)
EXTENDS TransportBackend, FiniteSetTheorems, TLAPS

\* Rows whose balance is not negative.
GoodRows == [num : Numbers, bal : Nat, blk : BOOLEAN, own : Users]

Shapes ==
    /\ DOMAIN pc = Workers /\ DOMAIN cal = Workers
    /\ DOMAIN req = Workers /\ DOMAIN loc = Workers /\ DOMAIN his = Workers

\* What a worker has in hand; a card that came in the body of an entry is a good row.
Carries(l) ==
    /\ DOMAIN l = DOMAIN NoLocals
    /\ l.nest = None \/ l.nest.row \in GoodRows

\* What a worker holds is fit to be written.
Holds(w) ==
    /\ pc[w] \in PCs
    /\ pc[w] # "idle" => req[w] \in Requests /\ Carries(loc[w])
    /\ pc[w] = "findCard" => req[w].op = "pay"
    /\ pc[w] = "insertCard" => req[w].op = "createCard" /\ loc[w].row \in GoodRows
    /\ pc[w] = "readCard" =>
        req[w].op \in {"updateCard", "deleteCard"} /\ cal[w] \in Callers
    /\ pc[w] = "findTerminal" =>
        /\ req[w].op = "pay"
        /\ loc[w].row \in GoodRows /\ <<loc[w].id, loc[w].row.own>> \in given
    /\ pc[w] \in {"saveCard", "upsertCard"} =>
        /\ loc[w].row \in GoodRows
        /\ Gives(w) \/ <<loc[w].id, loc[w].row.own>> \in given

RowsGood == \A i \in DOMAIN cards : cards[i] \in GoodRows

IInv == Shapes /\ RowsGood /\ OwnersWereGiven /\ \A w \in Workers : Holds(w)

\* Only worker w moves.
Alone(w) ==
    \A v \in Workers \ {w} :
        /\ pc'[v] = pc[v] /\ cal'[v] = cal[v] /\ req'[v] = req[v] /\ loc'[v] = loc[v]
        /\ his'[v] = his[v]

-----------------------------------------------------------------------------
\* The requests of cards bring rows that are fit to be written.
LEMMA RequestRows ==
    ASSUME NEW r \in Requests, r.op \in {"createCard", "updateCard"}
    PROVE  r.row \in GoodRows
BY BackendRequestsAssumption, BalancesAssumption
   DEF AllRequests, CardRows, GoodRows

LEMMA RequestNests ==
    ASSUME NEW r \in Requests, r.op \in {"createEntry", "updateEntry"}, r.nest # None
    PROVE  r.nest.row \in GoodRows
BY BackendRequestsAssumption, BalancesAssumption
   DEF AllRequests, Nests, CardRows, GoodRows

\* What is read beside it leaves the card an entry brought as it is.
LEMMA StillCarries ==
    ASSUME NEW l, Carries(l), NEW f \in {"id", "row", "entry", "term"}, NEW x
    PROVE  Carries([l EXCEPT ![f] = x])
BY DEF Carries, NoLocals

LEMMA NoLocalsCarry == Carries(NoLocals)
BY DEF Carries, NoLocals

\* The amount of a payment is a natural number.
LEMMA PaymentAmounts ==
    ASSUME NEW r \in Requests, r.op = "pay"
    PROVE  r.amt \in Nat
BY BackendRequestsAssumption, BackendBoundsAssumption DEF AllRequests

\* A handler that goes on moves nobody else.
LEMMA GoingOn ==
    ASSUME Shapes, NEW w \in Workers, NEW label, NEW locals, GoesOn(w, label, locals)
    PROVE  /\ Shapes' /\ Alone(w)
           /\ pc'[w] = label /\ loc'[w] = locals /\ req'[w] = req[w] /\ cal'[w] = cal[w]
           /\ his'[w] = his[w] \cup Owned(w)
BY DEF Shapes, GoesOn, Alone

\* A handler that has answered moves nobody else.
LEMMA Ending ==
    ASSUME Shapes, NEW w \in Workers, Ends(w)
    PROVE  Shapes' /\ Alone(w) /\ pc'[w] = "idle"
BY DEF Shapes, Ends, Alone

\* An idle worker holds nothing.
LEMMA IdleHolds ==
    ASSUME NEW w \in Workers, pc'[w] = "idle"
    PROVE  Holds(w)'
BY DEF Holds, PCs

\* The invariant holds again once it does of the cards and of the worker that moved.
LEMMA OneMoves ==
    ASSUME IInv, NEW w \in Workers, Shapes', Alone(w), given \subseteq given',
           RowsGood', OwnersWereGiven', Holds(w)'
    PROVE  IInv'
<1>1. ASSUME NEW v \in Workers, v # w PROVE Holds(v)'
  <2>1. Holds(v) BY DEF IInv
  <2>2. pc'[v] = pc[v] /\ cal'[v] = cal[v] /\ req'[v] = req[v] /\ loc'[v] = loc[v]
    BY <1>1 DEF Alone
  <2>3. Gives(v)' <=> Gives(v) BY <2>2 DEF Gives
  <2> QED BY <2>1, <2>2, <2>3 DEF Holds
<1> QED BY <1>1 DEF IInv

\* As long as the cards and what was given stay.
LEMMA CardsStay ==
    ASSUME IInv, cards' = cards, given' = given
    PROVE  RowsGood' /\ OwnersWereGiven' /\ given \subseteq given'
BY DEF IInv, RowsGood, OwnersWereGiven

\* A good row with an owner that is, or is being, given keeps the cards good.
LEMMA Writing ==
    ASSUME IInv, NEW w \in Workers, NEW id, NEW row \in GoodRows, WritesCard(w, id, row),
           Gives(w) \/ <<id, row.own>> \in given
    PROVE  RowsGood' /\ OwnersWereGiven' /\ given \subseteq given'
<1>1. given \subseteq given' BY DEF WritesCard
<1>2. NumberFree(row.num, id) => <<id, row.own>> \in given' BY DEF WritesCard
<1>3. ASSUME NEW i \in DOMAIN cards' PROVE cards'[i] \in GoodRows /\ <<i, cards'[i].own>> \in given'
  <2>1. CASE NumberFree(row.num, id)
    <3>1. cards' = Put(cards, id, row) BY <2>1 DEF WritesCard
    <3>2. cards'[i] = IF i = id THEN row ELSE cards[i] BY <1>3, <3>1 DEF Put
    <3>3. i # id => i \in DOMAIN cards BY <1>3, <3>1 DEF Put
    <3> QED BY <1>1, <1>2, <2>1, <3>2, <3>3 DEF IInv, RowsGood, OwnersWereGiven
  <2>2. CASE ~NumberFree(row.num, id)
    <3>1. cards' = cards BY <2>2 DEF WritesCard
    <3> QED BY <1>1, <1>3, <3>1 DEF IInv, RowsGood, OwnersWereGiven
  <2> QED BY <2>1, <2>2
<1> QED BY <1>1, <1>3 DEF RowsGood, OwnersWereGiven

\* So does a good row that is new, and is given to whom it says.
LEMMA Inserting ==
    ASSUME IInv, NEW id, NEW row \in GoodRows, InsertsCard(id, row)
    PROVE  RowsGood' /\ OwnersWereGiven' /\ given \subseteq given'
<1>1. CASE Insertable(id, row.num)
  <2>1. /\ cards' = Put(cards, id, row) /\ given' = given \cup {<<id, row.own>>}
    BY <1>1 DEF InsertsCard
  <2>2. \A i \in DOMAIN cards' : IF i = id THEN cards'[i] = row
                                 ELSE i \in DOMAIN cards /\ cards'[i] = cards[i]
    BY <2>1 DEF Put
  <2> QED BY <2>1, <2>2 DEF IInv, RowsGood, OwnersWereGiven
<1>2. CASE ~Insertable(id, row.num)
  <2>1. cards' = cards /\ given' = given BY <1>2 DEF InsertsCard
  <2> QED BY <2>1, CardsStay
<1> QED BY <1>1, <1>2

LEMMA SavingNested ==
    ASSUME IInv, NEW w \in Workers, pc[w] # "idle", SavesNested(w)
    PROVE  RowsGood' /\ OwnersWereGiven' /\ given \subseteq given'
<1>1. Carries(loc[w]) BY DEF IInv, Holds
<1>2. CASE loc[w].nest = None
  <2>1. cards' = cards /\ given' = given BY <1>2 DEF SavesNested
  <2> QED BY <2>1, CardsStay
<1>3. CASE loc[w].nest # None
  BY <1>1, <1>3, Inserting DEF SavesNested, Carries
<1> QED BY <1>2, <1>3

\* A step that ends a handler, and leaves the cards.
LEMMA EndingStep ==
    ASSUME IInv, NEW w \in Workers, Ends(w), cards' = cards, given' = given
    PROVE  IInv'
<1>1. Shapes' /\ Alone(w) /\ pc'[w] = "idle" BY Ending DEF IInv
<1>2. Holds(w)' BY <1>1, IdleHolds
<1> QED BY <1>1, <1>2, CardsStay, OneMoves

\* A step that goes on to a statement that writes no card.
Harmless == {"insertEntry", "readEntry", "readEntryCard", "readNewCard", "saveEntry",
             "upsertEntry", "removeEntry", "removeCard"}

LEMMA HarmlessStep ==
    ASSUME IInv, NEW w \in Workers, pc[w] # "idle", NEW label \in Harmless, NEW locals,
           GoesOn(w, label, locals), Carries(locals), cards' = cards, given' = given
    PROVE  IInv'
<1>1. Shapes' /\ Alone(w) /\ pc'[w] = label /\ req'[w] = req[w] /\ loc'[w] = locals
  BY GoingOn DEF IInv
<1>2. Holds(w)' BY <1>1 DEF IInv, Holds, Harmless, PCs
<1> QED BY <1>1, <1>2, CardsStay, OneMoves

-----------------------------------------------------------------------------
LEMMA AcceptKeeps ==
    ASSUME IInv, NEW w \in Workers, NEW c \in Callers \cup {None}, NEW r \in Requests,
           Accept(w, c, r)
    PROVE  IInv'
<1>1. /\ Shapes' /\ Alone(w)
      /\ pc'[w] = FirstStatement(c, r) /\ req'[w] = r /\ cal'[w] = c
      /\ loc'[w] = FirstLocals(c, r)
  BY DEF IInv, Shapes, Alone, Accept
<1>2. r.op \in {"pay", "createCard", "updateCard", "deleteCard", "createEntry", "updateEntry",
                "deleteEntry", "createTerminal", "deleteTerminal"}
  BY BackendRequestsAssumption DEF AllRequests
<1>3. r.op # "pay" => c \in Callers BY DEF Accept
<1>4. r.op = "createCard" => FirstLocals(c, r).row \in GoodRows
  <2> SUFFICES ASSUME r.op = "createCard" PROVE FirstLocals(c, r).row \in GoodRows OBVIOUS
  <2>1. r.row \in GoodRows BY RequestRows
  <2>2. c.id \in Users BY <1>3 DEF Users
  <2>3. [r.row EXCEPT !.own = c.id] \in GoodRows BY <2>1, <2>2 DEF GoodRows
  <2>4. FirstLocals(c, r).row = IF c.adm THEN r.row ELSE [r.row EXCEPT !.own = c.id]
    BY DEF FirstLocals, NoLocals
  <2> QED BY <2>1, <2>3, <2>4
<1>5. FirstStatement(c, r) =
        IF r.op = "pay" THEN "findCard"
        ELSE IF r.op = "createCard" THEN "insertCard"
        ELSE IF r.op \in {"updateCard", "deleteCard"} THEN "readCard"
        ELSE IF r.op = "createEntry" THEN (IF c.adm THEN "insertEntry" ELSE "readNewCard")
        ELSE IF r.op \in {"updateEntry", "deleteEntry"} THEN "readEntry"
        ELSE r.op
  BY <1>2 DEF FirstStatement
<1>6. Carries(FirstLocals(c, r))
  <2>1. CASE r.op = "createCard"
    BY <2>1, NoLocalsCarry, StillCarries DEF FirstLocals
  <2>2. CASE r.op \in {"createEntry", "updateEntry"}
    BY <2>2, RequestNests DEF FirstLocals, Carries, NoLocals
  <2> QED BY <1>2, <2>1, <2>2, NoLocalsCarry DEF FirstLocals
<1>7. Holds(w)'
  BY <1>1, <1>2, <1>3, <1>4, <1>5, <1>6 DEF Holds, PCs
<1> QED BY <1>1, <1>7, CardsStay, OneMoves DEF Accept, tables

LEMMA FindCardKeeps ==
    ASSUME IInv, NEW w \in Workers, FindCard(w)
    PROVE  IInv'
<1>1. cards' = cards /\ given' = given BY DEF FindCard, Reads, Refuses, tables
<1>2. CASE Ends(w) BY <1>1, <1>2, EndingStep
<1>3. ASSUME NEW i \in DOMAIN cards,
             GoesOn(w, "findTerminal", [NoLocals EXCEPT !.id = i, !.row = cards[i]])
      PROVE  IInv'
  <2>1. /\ Shapes' /\ Alone(w) /\ pc'[w] = "findTerminal" /\ req'[w] = req[w]
        /\ loc'[w] = [NoLocals EXCEPT !.id = i, !.row = cards[i]]
    BY <1>3, GoingOn DEF IInv
  <2>2. loc'[w].id = i /\ loc'[w].row = cards[i] /\ Carries(loc'[w])
    BY <2>1 DEF NoLocals, Carries
  <2>3. cards[i] \in GoodRows /\ <<i, cards[i].own>> \in given
    BY <1>3 DEF IInv, RowsGood, OwnersWereGiven
  <2>4. req[w] \in Requests /\ req[w].op = "pay" BY DEF FindCard, IInv, Holds
  <2>5. Holds(w)' BY <1>1, <2>1, <2>2, <2>3, <2>4 DEF Holds, PCs
  <2> QED BY <1>1, <2>1, <2>5, CardsStay, OneMoves
<1> QED BY <1>2, <1>3 DEF FindCard, Reads, Refuses

LEMMA FindTerminalKeeps ==
    ASSUME IInv, NEW w \in Workers, FindTerminal(w)
    PROVE  IInv'
<1> DEFINE row == loc[w].row
           amt == req[w].amt
           Booked(st) == [card |-> loc[w].id, amt |-> amt, st |-> st]
           charged == [loc[w] EXCEPT !.row = [row EXCEPT !.bal = @ - amt],
                                     !.entry = Booked("approved")]
<1>1. cards' = cards /\ given' = given BY DEF FindTerminal, Reads, Refuses, tables
<1>2. /\ req[w] \in Requests /\ req[w].op = "pay"
      /\ row \in GoodRows /\ <<loc[w].id, row.own>> \in given /\ Carries(loc[w])
  BY DEF FindTerminal, IInv, Holds
<1>3. CASE Ends(w) BY <1>1, <1>3, EndingStep
<1>4. CASE GoesOn(w, "insertEntry", [loc[w] EXCEPT !.entry = Booked("declined")])
  BY <1>1, <1>2, <1>4, HarmlessStep, StillCarries DEF FindTerminal, Harmless
<1>5. CASE Approves(row, amt) /\ GoesOn(w, "saveCard", charged)
  <2>1. /\ Shapes' /\ Alone(w) /\ pc'[w] = "saveCard" /\ req'[w] = req[w] /\ cal'[w] = cal[w]
        /\ loc'[w] = charged
    BY <1>5, GoingOn DEF IInv
  <2>2. /\ loc'[w].id = loc[w].id /\ loc'[w].row = [row EXCEPT !.bal = @ - amt]
        /\ Carries(loc'[w])
    BY <1>2, <2>1 DEF Carries, NoLocals
  <2>3. amt \in Nat BY <1>2, PaymentAmounts
  <2>4. row.bal \in Nat /\ row.bal >= amt BY <1>2, <1>5 DEF Approves, GoodRows
  <2>5. row.bal - amt \in Nat BY <2>3, <2>4
  <2>6. [row EXCEPT !.bal = @ - amt] \in GoodRows BY <1>2, <2>5 DEF GoodRows
  <2>7. [row EXCEPT !.bal = @ - amt].own = row.own BY <1>2 DEF GoodRows
  <2>8. Holds(w)' BY <1>1, <1>2, <2>1, <2>2, <2>6, <2>7 DEF Holds, PCs
  <2> QED BY <1>1, <2>1, <2>8, CardsStay, OneMoves
<1> QED BY <1>3, <1>4, <1>5 DEF FindTerminal, Reads, Refuses

LEMMA WritingStep ==
    ASSUME IInv, NEW w \in Workers, pc[w] # "idle", NEW id, NEW row \in GoodRows,
           WritesCard(w, id, row), Gives(w) \/ <<id, row.own>> \in given,
           AfterCard(w) \/ Ends(w)
    PROVE  IInv'
<1>1. RowsGood' /\ OwnersWereGiven' /\ given \subseteq given' BY Writing
<1>2. CASE Ends(w) BY <1>1, <1>2, Ending, IdleHolds, OneMoves DEF IInv
<1>3. CASE GoesOn(w, "insertEntry", loc[w])
  <2>1. /\ Shapes' /\ Alone(w) /\ pc'[w] = "insertEntry" /\ req'[w] = req[w]
        /\ loc'[w] = loc[w]
    BY <1>3, GoingOn DEF IInv
  <2>2. Holds(w)' BY <2>1 DEF IInv, Holds, PCs
  <2> QED BY <1>1, <2>1, <2>2, OneMoves
<1> QED BY <1>2, <1>3 DEF AfterCard

LEMMA SaveCardKeeps ==
    ASSUME IInv, NEW w \in Workers, SaveCard(w) \/ UpsertCard(w)
    PROVE  IInv'
<1>1. /\ pc[w] \in {"saveCard", "upsertCard"}
      /\ loc[w].row \in GoodRows /\ (Gives(w) \/ <<loc[w].id, loc[w].row.own>> \in given)
  BY DEF SaveCard, UpsertCard, IInv, Holds
<1>2. CASE WritesCard(w, loc[w].id, loc[w].row) /\ AfterCard(w)
  BY <1>1, <1>2, WritingStep
<1>3. CASE pc[w] = "saveCard" /\ Reads(w, "upsertCard", loc[w])
  <2>1. cards' = cards /\ given' = given BY <1>3 DEF Reads, tables
  <2>2. /\ Shapes' /\ Alone(w) /\ pc'[w] = "upsertCard" /\ req'[w] = req[w] /\ cal'[w] = cal[w]
        /\ loc'[w] = loc[w]
    BY <1>3, GoingOn DEF IInv, Reads
  <2>3. Holds(w) /\ (Gives(w)' <=> Gives(w)) BY <2>2 DEF IInv, Gives
  <2>4. Holds(w)' BY <1>3, <2>1, <2>2, <2>3 DEF Holds, PCs
  <2> QED BY <2>1, <2>2, <2>4, CardsStay, OneMoves
<1> QED BY <1>2, <1>3 DEF SaveCard, UpsertCard

LEMMA InsertCardKeeps ==
    ASSUME IInv, NEW w \in Workers, InsertCard(w)
    PROVE  IInv'
<1>1. loc[w].row \in GoodRows BY DEF InsertCard, IInv, Holds
<1>2. RowsGood' /\ OwnersWereGiven' /\ given \subseteq given' BY <1>1, Inserting DEF InsertCard
<1> QED BY <1>2, Ending, IdleHolds, OneMoves DEF InsertCard, IInv

LEMMA ReadCardKeeps ==
    ASSUME IInv, NEW w \in Workers, ReadCard(w)
    PROVE  IInv'
<1> DEFINE id == req[w].id
           merged == Merged(cal[w], req[w].row, cards[id])
<1>1. cards' = cards /\ given' = given BY DEF ReadCard, Reads, Refuses, tables
<1>2. req[w] \in Requests /\ req[w].op \in {"updateCard", "deleteCard"}
  BY DEF ReadCard, IInv, Holds
<1>3. CASE Ends(w) BY <1>1, <1>3, EndingStep
<1>4. CASE GoesOn(w, "removeCard", NoLocals)
  BY <1>1, <1>4, HarmlessStep, NoLocalsCarry DEF ReadCard, Harmless
<1>5. CASE /\ id \in DOMAIN cards /\ req[w].op # "deleteCard"
           /\ GoesOn(w, "saveCard", [NoLocals EXCEPT !.id = id, !.row = merged])
  <2>1. /\ Shapes' /\ Alone(w) /\ pc'[w] = "saveCard" /\ req'[w] = req[w] /\ cal'[w] = cal[w]
        /\ loc'[w] = [NoLocals EXCEPT !.id = id, !.row = merged]
    BY <1>5, GoingOn DEF IInv
  <2>2. loc'[w].id = id /\ loc'[w].row = merged /\ Carries(loc'[w])
    BY <2>1 DEF NoLocals, Carries
  <2>3. req[w].op = "updateCard" BY <1>2, <1>5
  <2>4. req[w].row \in GoodRows BY <1>2, <2>3, RequestRows
  <2>5. cards[id] \in GoodRows /\ <<id, cards[id].own>> \in given
    BY <1>5 DEF IInv, RowsGood, OwnersWereGiven
  <2>6. cards[id].own \in Users BY <2>5 DEF GoodRows
  <2>7. merged \in GoodRows BY <2>4, <2>6 DEF Merged, GoodRows
  <2>8. cal[w].adm \/ merged.own = cards[id].own BY <2>4 DEF Merged, GoodRows
  <2>9. Gives(w)' <=> (cal[w].adm = TRUE) BY <2>1, <2>3, CallersAssumption DEF Gives, IInv, Holds, ReadCard
  <2>10. Gives(w)' \/ <<id, merged.own>> \in given
    BY <2>5, <2>8, <2>9, CallersAssumption DEF IInv, Holds, ReadCard
  <2>11. Holds(w)' BY <1>1, <1>2, <2>1, <2>2, <2>7, <2>10 DEF Holds, PCs
  <2> QED BY <1>1, <2>1, <2>11, CardsStay, OneMoves
<1> QED BY <1>3, <1>4, <1>5 DEF ReadCard, Reads, Refuses

LEMMA RemoveCardKeeps ==
    ASSUME IInv, NEW w \in Workers, RemoveCard(w)
    PROVE  IInv'
<1>1. RowsGood' /\ OwnersWereGiven' /\ given' = given
  BY DEF IInv, RowsGood, OwnersWereGiven, RemoveCard, Without
<1> QED BY <1>1, Ending, IdleHolds, OneMoves DEF RemoveCard, IInv

LEMMA JournalReadKeeps ==
    ASSUME IInv, NEW w \in Workers,
           \/ ReadEntry(w) \/ ReadEntryCard(w) \/ ReadNewCard(w)
           \/ RemoveEntry(w) \/ EditTerminals(w)
    PROVE  IInv'
<1>1. cards' = cards /\ given' = given
  BY DEF ReadEntry, ReadEntryCard, ReadNewCard, RemoveEntry, EditTerminals, Reads, Refuses, tables
<1>2. pc[w] # "idle" /\ Carries(loc[w])
  BY DEF ReadEntry, ReadEntryCard, ReadNewCard, RemoveEntry, EditTerminals, IInv, Holds
<1>3. CASE Ends(w) BY <1>1, <1>3, EndingStep
<1>4. ASSUME NEW label \in Harmless, NEW locals, GoesOn(w, label, locals), Carries(locals)
      PROVE  IInv'
  BY <1>1, <1>2, <1>4, HarmlessStep
<1>5. CASE ReadEntry(w)
  <2>1. CASE GoesOn(w, "readEntryCard", [loc[w] EXCEPT !.id = journal[req[w].id].card])
    BY <1>2, <1>4, <2>1, StillCarries DEF Harmless
  <2> QED BY <1>3, <1>5, <2>1 DEF ReadEntry, Reads, Refuses
<1>6. CASE ReadEntryCard(w)
  BY <1>2, <1>3, <1>4, <1>6 DEF ReadEntryCard, AfterEntry, Reads, Refuses, Harmless
<1>7. CASE ReadNewCard(w) BY <1>2, <1>3, <1>4, <1>7 DEF ReadNewCard, Reads, Refuses, Harmless
<1>8. CASE RemoveEntry(w) \/ EditTerminals(w) BY <1>3, <1>8 DEF RemoveEntry, EditTerminals
<1> QED BY <1>5, <1>6, <1>7, <1>8

LEMMA JournalWriteKeeps ==
    ASSUME IInv, NEW w \in Workers, InsertEntry(w) \/ SaveEntry(w) \/ UpsertEntry(w)
    PROVE  IInv'
<1>1. pc[w] # "idle" /\ Holds(w) /\ Carries(loc[w])
  BY DEF InsertEntry, SaveEntry, UpsertEntry, IInv, Holds
<1>2. RowsGood' /\ OwnersWereGiven' /\ given \subseteq given'
  <2>1. CASE SavesNested(w) BY <1>1, <2>1, SavingNested
  <2>2. CASE UNCHANGED <<tables, given>> BY <2>2, CardsStay DEF tables
  <2> QED BY <2>1, <2>2 DEF InsertEntry, SaveEntry, UpsertEntry
<1>3. CASE Ends(w) BY <1>2, <1>3, Ending, IdleHolds, OneMoves DEF IInv
<1>4. CASE SaveEntry(w) /\ ~Ends(w)
  <2> DEFINE l == IF loc[w].nest = None THEN loc[w]
                  ELSE [loc[w] EXCEPT !.nest = [@ EXCEPT !.id = NestedCard(w)]]
  <2>1. GoesOn(w, "upsertEntry", l) BY <1>4 DEF SaveEntry
  <2>2. Carries(l)
    <3>1. loc[w].nest # None => [loc[w].nest EXCEPT !.id = NestedCard(w)].row = loc[w].nest.row
      OBVIOUS
    <3> QED BY <1>1, <3>1 DEF Carries, NoLocals
  <2> HIDE DEF l
  <2>3. /\ Shapes' /\ Alone(w) /\ pc'[w] = "upsertEntry" /\ req'[w] = req[w] /\ loc'[w] = l
    BY <2>1, GoingOn DEF IInv
  <2>4. Holds(w)' BY <1>1, <2>2, <2>3 DEF Holds, PCs
  <2> QED BY <1>2, <2>3, <2>4, OneMoves
<1> QED BY <1>3, <1>4 DEF InsertEntry, UpsertEntry

LEMMA FailureKeeps ==
    ASSUME IInv, NEW w \in Workers, StatementFails(w)
    PROVE  IInv'
<1>1. cards' = cards /\ given' = given BY DEF StatementFails, tables
<1>2. CASE Ends(w) BY <1>1, <1>2, EndingStep
<1>3. CASE pc' = [pc EXCEPT ![w] = "insertEntry"] /\ UNCHANGED <<cal, req, loc, his>>
  <2>1. Shapes' /\ Alone(w) /\ pc'[w] = "insertEntry" /\ req'[w] = req[w] /\ loc'[w] = loc[w]
    BY <1>3 DEF IInv, Shapes, Alone
  <2>2. Holds(w)' BY <2>1 DEF StatementFails, IInv, Holds, PCs
  <2> QED BY <1>1, <2>1, <2>2, CardsStay, OneMoves
<1> QED BY <1>2, <1>3 DEF StatementFails

LEMMA RestartKeeps ==
    ASSUME IInv, Restart
    PROVE  IInv'
<1>1. cards' = cards /\ given' = given BY DEF Restart, tables
<1>2. Shapes' BY DEF Restart, Shapes
<1>3. ASSUME NEW w \in Workers PROVE Holds(w)'
  BY IdleHolds DEF Restart
<1> QED BY <1>1, <1>2, <1>3, CardsStay DEF IInv

-----------------------------------------------------------------------------
\* IInv is inductive: what a worker is about to write was fit to be written when
\* it read, and what was given stays given.
THEOREM Invariance == Spec => []IInv
<1>1. Init => IInv
  <2> SUFFICES ASSUME Init PROVE IInv OBVIOUS
  <2>1. Shapes BY DEF Init, Shapes
  <2>2. RowsGood
    <3> SUFFICES ASSUME NEW i \in DOMAIN InitialCards PROVE InitialCards[i] \in GoodRows
      BY DEF Init, RowsGood
    <3>1. InitialCards[i] \in CardRows /\ InitialCards[i].bal >= 0
      BY InitialCardsAssumption DEF IsTable
    <3> QED BY <3>1 DEF CardRows, GoodRows
  <2>3. OwnersWereGiven BY DEF Init, OwnersWereGiven
  <2>4. ASSUME NEW w \in Workers PROVE Holds(w) BY DEF Init, Holds, PCs
  <2> QED BY <2>1, <2>2, <2>3, <2>4 DEF IInv
<1>2. IInv /\ [Next]_vars => IInv'
  <2> SUFFICES ASSUME IInv, [Next]_vars PROVE IInv' OBVIOUS
  <2>1. CASE UNCHANGED vars
    BY <2>1 DEF vars, tables, workers, IInv, Shapes, RowsGood, OwnersWereGiven, Holds, Gives
  <2>2. ASSUME NEW w \in Workers, Statement(w) PROVE IInv'
    BY <2>2, FindCardKeeps, FindTerminalKeeps, SaveCardKeeps, InsertCardKeeps, ReadCardKeeps,
       RemoveCardKeeps, JournalReadKeeps, JournalWriteKeeps, FailureKeeps DEF Statement, StatementRuns
  <2>3. ASSUME NEW w \in Workers, NEW c \in Callers \cup {None}, NEW r \in Requests,
               Accept(w, c, r)
        PROVE  IInv'
    BY <2>3, AcceptKeeps
  <2> QED BY <2>1, <2>2, <2>3, RestartKeeps DEF Next
<1> QED BY <1>1, <1>2, PTL DEF Spec

\* Whatever interleaves, fails or restarts, no card is driven below zero.
THEOREM NoCardBelowZero == Spec => []BalancesStayNonNegative
<1>1. IInv => BalancesStayNonNegative BY DEF IInv, RowsGood, GoodRows, BalancesStayNonNegative
<1> QED BY <1>1, Invariance, PTL

\* Whatever interleaves, a card belongs to somebody it was given to.
THEOREM OwnersAreGivenOnes == Spec => []OwnersWereGiven
<1>1. IInv => OwnersWereGiven BY DEF IInv
<1> QED BY <1>1, Invariance, PTL

-----------------------------------------------------------------------------
\* Whose cards a regular user changes

\* A payment is nobody's.  What a regular user is about to write, remove or journal
\* on was his own at a statement of his request.
Entitled(w) ==
    /\ pc[w] # "idle" /\ req[w].op = "pay" => cal[w] = None
    /\ pc[w] # "idle" /\ ~BringsCard(w) => loc[w].nest = None
    /\ Regular(w) =>
        /\ pc[w] \in {"saveCard", "upsertCard"} => loc[w].id \in his[w]
        /\ pc[w] = "removeCard" => req[w].id \in his[w]
        /\ pc[w] \in {"insertEntry", "saveEntry", "upsertEntry"} /\ ~BringsCard(w) =>
             loc[w].entry.card \in his[w]

EntitledInv == IInv /\ \A w \in Workers : Entitled(w)

LEMMA OthersStayEntitled ==
    ASSUME NEW v \in Workers, Entitled(v),
           pc'[v] = pc[v], cal'[v] = cal[v], req'[v] = req[v], loc'[v] = loc[v], his'[v] = his[v]
    PROVE  Entitled(v)'
BY DEF Entitled, Regular, BringsCard

\* A worker that goes on with what its user may do.
LEMMA StaysEntitled ==
    ASSUME EntitledInv, NEW w \in Workers, pc[w] # "idle", NEW label, NEW locals,
           GoesOn(w, label, locals), ~BringsCard(w) => locals.nest = None,
           Regular(w) =>
               /\ label \in {"saveCard", "upsertCard"} => locals.id \in his[w] \cup Owned(w)
               /\ label = "removeCard" => req[w].id \in his[w] \cup Owned(w)
               /\ label \in {"insertEntry", "saveEntry", "upsertEntry"} /\ ~BringsCard(w) =>
                    locals.entry.card \in his[w] \cup Owned(w)
    PROVE  \A v \in Workers : Entitled(v)'
<1>1. /\ Alone(w) /\ pc'[w] = label /\ loc'[w] = locals /\ req'[w] = req[w] /\ cal'[w] = cal[w]
      /\ his'[w] = his[w] \cup Owned(w)
  BY GoingOn DEF EntitledInv, IInv
<1>2. Entitled(w)'
  BY <1>1 DEF EntitledInv, Entitled, Regular, BringsCard
<1> QED
  BY <1>1, <1>2, OthersStayEntitled DEF EntitledInv, Alone

LEMMA EndsEntitled ==
    ASSUME EntitledInv, NEW w \in Workers, Ends(w)
    PROVE  \A v \in Workers : Entitled(v)'
<1>1. Alone(w) /\ pc'[w] = "idle"
  BY Ending DEF EntitledInv, IInv
<1>2. Entitled(w)'
  BY <1>1 DEF Entitled
<1> QED
  BY <1>1, <1>2, OthersStayEntitled DEF EntitledInv, Alone

LEMMA StatementEntitled ==
    ASSUME EntitledInv, NEW w \in Workers, StatementRuns(w)
    PROVE  \A v \in Workers : Entitled(v)'
<1>1. CASE Ends(w)
  BY <1>1, EndsEntitled
<1>2. Entitled(w) /\ Holds(w)
  BY DEF EntitledInv, IInv
<1>3. CASE FindCard(w)
  BY <1>1, <1>3, StaysEntitled DEF FindCard, Reads, Refuses, NoLocals
<1>4. CASE FindTerminal(w)
  <2>1. cal[w] = None /\ pc[w] # "idle"
    BY <1>2, <1>4 DEF FindTerminal, Entitled, Holds
  <2>2. Carries(loc[w])
    BY <1>2, <2>1 DEF Holds
  <2>3. ASSUME NEW label, NEW locals, GoesOn(w, label, locals), locals.nest = loc[w].nest
        PROVE  \A v \in Workers : Entitled(v)'
    BY <1>2, <2>1, <2>3, StaysEntitled DEF Entitled, Regular
  <2> DEFINE Booked(st) == [card |-> loc[w].id, amt |-> req[w].amt, st |-> st]
             charged == [loc[w] EXCEPT !.row = [loc[w].row EXCEPT !.bal = @ - req[w].amt],
                                       !.entry = Booked("approved")]
             declined == [loc[w] EXCEPT !.entry = Booked("declined")]
  <2>4. charged.nest = loc[w].nest /\ declined.nest = loc[w].nest
    BY <2>2 DEF Carries, NoLocals
  <2>5. Ends(w) \/ GoesOn(w, "saveCard", charged) \/ GoesOn(w, "insertEntry", declined)
    BY <1>4 DEF FindTerminal, Reads, Refuses
  <2> HIDE DEF charged, declined
  <2> QED
    BY <1>1, <2>3, <2>4, <2>5
<1>5. CASE SaveCard(w) \/ UpsertCard(w)
  <2>1. pc[w] # "idle" /\ (Ends(w) \/ (pc[w] = "saveCard" /\ GoesOn(w, "upsertCard", loc[w]))
                           \/ (cal[w] = None /\ GoesOn(w, "insertEntry", loc[w])))
    BY <1>2, <1>5 DEF SaveCard, UpsertCard, AfterCard, Reads, Entitled
  <2> QED
    BY <1>1, <1>2, <2>1, StaysEntitled DEF Entitled, Regular
<1>6. CASE ReadCard(w) /\ ~Ends(w)
  <2> DEFINE id == req[w].id
             l == [NoLocals EXCEPT !.id = id, !.row = Merged(cal[w], req[w].row, cards[id])]
  <2>1. /\ pc[w] # "idle" /\ id \in DOMAIN cards /\ Sees(cal[w], cards[id].own)
        /\ GoesOn(w, "removeCard", NoLocals) \/ GoesOn(w, "saveCard", l)
    BY <1>6 DEF ReadCard, Reads, Refuses
  <2>2. Regular(w) => id \in Owned(w)
    BY <2>1 DEF Regular, Sees, Owned
  <2>3. l.id = id /\ l.nest = None /\ NoLocals.nest = None
    BY DEF NoLocals
  <2> HIDE DEF l
  <2> QED
    BY <2>1, <2>2, <2>3, StaysEntitled
<1>7. CASE ReadEntry(w) /\ ~Ends(w)
  <2> DEFINE l == [loc[w] EXCEPT !.id = journal[req[w].id].card]
  <2>1. pc[w] = "readEntry" /\ GoesOn(w, "readEntryCard", l)
    BY <1>7 DEF ReadEntry, Reads, Refuses
  <2>2. l.nest = loc[w].nest
    BY <1>2, <2>1 DEF Holds, Carries, NoLocals
  <2> HIDE DEF l
  <2> QED
    BY <1>2, <2>1, <2>2, StaysEntitled DEF Entitled
<1>8. CASE ReadEntryCard(w)
  BY <1>1, <1>2, <1>8, StaysEntitled DEF ReadEntryCard, AfterEntry, Reads, Refuses, Regular, Entitled
<1>9. CASE ReadNewCard(w) /\ ~Ends(w)
  <2> DEFINE card == loc[w].entry.card
  <2>1. card \in DOMAIN cards /\ cards[card].own = cal[w].id
    BY <1>9 DEF ReadNewCard, Refuses
  <2>2. Regular(w) => card \in Owned(w)
    BY <2>1 DEF Regular, Owned
  <2>3. /\ pc[w] # "idle"
        /\ GoesOn(w, "insertEntry", loc[w]) \/ GoesOn(w, "saveEntry", loc[w])
    BY <1>9 DEF ReadNewCard, Reads, Refuses
  <2> QED
    BY <1>2, <2>2, <2>3, StaysEntitled DEF Entitled
<1>10. CASE SaveEntry(w) /\ ~Ends(w)
  <2> DEFINE l == IF loc[w].nest = None THEN loc[w]
                  ELSE [loc[w] EXCEPT !.nest = [@ EXCEPT !.id = NestedCard(w)]]
  <2>1. pc[w] = "saveEntry" /\ GoesOn(w, "upsertEntry", l)
    BY <1>10 DEF SaveEntry
  <2>2. ~BringsCard(w) => loc[w].nest = None /\ l = loc[w]
    BY <1>2, <2>1 DEF Entitled
  <2> HIDE DEF l
  <2> QED
    BY <1>2, <2>1, <2>2, StaysEntitled DEF Entitled
<1>11. CASE InsertEntry(w) \/ InsertCard(w) \/ RemoveCard(w) \/ UpsertEntry(w) \/ RemoveEntry(w)
            \/ EditTerminals(w)
  BY <1>1, <1>11 DEF InsertEntry, InsertCard, RemoveCard, UpsertEntry, RemoveEntry, EditTerminals
<1> QED
  BY <1>1, <1>3, <1>4, <1>5, <1>6, <1>7, <1>8, <1>9, <1>10, <1>11 DEF StatementRuns

LEMMA StepEntitled == EntitledInv /\ IInv' /\ [Next]_vars => EntitledInv'
<1> SUFFICES ASSUME EntitledInv, IInv', [Next]_vars PROVE \A v \in Workers : Entitled(v)'
  BY DEF EntitledInv
<1>1. ASSUME NEW w \in Workers, StatementFails(w) PROVE \A v \in Workers : Entitled(v)'
  <2>1. CASE Ends(w)
    BY <2>1, EndsEntitled
  <2>2. CASE ~Ends(w)
    <3>1. /\ req[w].op = "pay" /\ pc[w] # "idle"
          /\ pc' = [pc EXCEPT ![w] = "insertEntry"] /\ UNCHANGED <<cal, req, loc, his>>
      BY <1>1, <2>2 DEF StatementFails
    <3>2. cal[w] = None
      BY <3>1 DEF EntitledInv, Entitled
    <3>3. Entitled(w)'
      BY <3>1, <3>2 DEF EntitledInv, Entitled, Regular, BringsCard
    <3>4. \A v \in Workers \ {w} : pc'[v] = pc[v]
      BY <3>1 DEF EntitledInv, IInv, Shapes
    <3> QED
      BY <3>1, <3>3, <3>4, OthersStayEntitled DEF EntitledInv
  <2> QED
    BY <2>1, <2>2
<1>2. ASSUME NEW w \in Workers, NEW c \in Callers \cup {None}, NEW r \in Requests, Accept(w, c, r)
      PROVE  \A v \in Workers : Entitled(v)'
  <2>1. /\ Alone(w) /\ pc'[w] = FirstStatement(c, r) /\ req'[w] = r /\ cal'[w] = c
    BY <1>2 DEF EntitledInv, IInv, Shapes, Alone, Accept
  <2>2. r.op = "pay" => c = None
    BY <1>2 DEF Accept
  <2>3. r.op \in {"pay", "createCard", "updateCard", "deleteCard", "createEntry", "updateEntry",
                  "deleteEntry", "createTerminal", "deleteTerminal"}
    BY BackendRequestsAssumption DEF AllRequests
  <2>4. /\ FirstStatement(c, r) = "insertEntry" => c.adm
        /\ FirstStatement(c, r) \notin {"saveCard", "upsertCard", "removeCard", "saveEntry",
                                        "upsertEntry"}
    BY <2>3 DEF FirstStatement
  <2>6. loc'[w] = FirstLocals(c, r) /\ (~BringsCard(w)' => FirstLocals(c, r).nest = None)
    <3>1. loc'[w] = FirstLocals(c, r)
      BY <1>2 DEF EntitledInv, IInv, Shapes, Accept
    <3>2. CASE r.op \in {"createEntry", "updateEntry"}
      BY <2>1, <3>1, <3>2 DEF FirstLocals, NoLocals, BringsCard
    <3>3. CASE r.op \notin {"createEntry", "updateEntry"}
      BY <3>1, <3>3 DEF FirstLocals, NoLocals
    <3> QED
      BY <3>1, <3>2, <3>3
  <2>5. Entitled(w)'
    BY <2>1, <2>2, <2>3, <2>4, <2>6 DEF Entitled, Regular
  <2> QED
    BY <2>1, <2>5, OthersStayEntitled DEF EntitledInv, Alone
<1>3. CASE Restart
  BY <1>3 DEF Restart, Entitled, Regular
<1>4. CASE UNCHANGED vars
  BY <1>4 DEF vars, workers, EntitledInv, Entitled, Regular, BringsCard
<1> QED
  BY <1>1, <1>2, <1>3, <1>4, StatementEntitled DEF Next, Statement

\* What a step of worker w changes.
OwnStep(w) ==
    LET mine == his[w] \cup Owned(w) IN
    pc'[w] # pc[w] /\ Regular(w) =>
        /\ \A i \in DOMAIN cards \ mine : i \in DOMAIN cards' /\ cards'[i] = cards[i]
        /\ ~BringsCard(w) =>
            \A k \in DOMAIN journal' :
                \/ k \in DOMAIN journal /\ journal'[k] = journal[k]
                \/ journal'[k].card \in mine

\* An INSERT changes no row there is.
LEMMA InsertChangesNothing ==
    ASSUME NEW id, NEW row, InsertsCard(id, row), NEW i \in DOMAIN cards
    PROVE  i \in DOMAIN cards' /\ cards'[i] = cards[i]
BY DEF InsertsCard, Insertable, Put

LEMMA NestChangesNothing ==
    ASSUME NEW w \in Workers, SavesNested(w), NEW i \in DOMAIN cards
    PROVE  i \in DOMAIN cards' /\ cards'[i] = cards[i]
BY InsertChangesNothing DEF SavesNested

LEMMA StatementOwns ==
    ASSUME EntitledInv, NEW w \in Workers, StatementRuns(w)
    PROVE  OwnStep(w)
<1> DEFINE mine == his[w] \cup Owned(w)
           CardsKept == \A i \in DOMAIN cards \ mine : i \in DOMAIN cards' /\ cards'[i] = cards[i]
           JournalKept == \A k \in DOMAIN journal' :
                            \/ k \in DOMAIN journal /\ journal'[k] = journal[k]
                            \/ journal'[k].card \in mine
<1> SUFFICES ASSUME Regular(w) PROVE CardsKept /\ (~BringsCard(w) => JournalKept)
  BY DEF OwnStep
<1>1. Entitled(w)
  BY DEF EntitledInv
<1>2. CASE cards' = cards /\ journal' = journal
  BY <1>2
<1>3. ASSUME WritesCard(w, loc[w].id, loc[w].row), pc[w] \in {"saveCard", "upsertCard"}
      PROVE  CardsKept /\ JournalKept
  <2>1. loc[w].id \in mine
    BY <1>1, <1>3 DEF Entitled
  <2> QED
    BY <1>3, <2>1 DEF WritesCard, Put
<1>4. CASE InsertCard(w)
  BY <1>4, InsertChangesNothing DEF InsertCard
<1>5. CASE RemoveCard(w)
  <2>1. req[w].id \in mine
    BY <1>1, <1>5 DEF Entitled, RemoveCard
  <2> QED
    BY <1>5, <2>1 DEF RemoveCard, Without
<1>6. CASE RemoveEntry(w)
  BY <1>6 DEF RemoveEntry, Without
<1>7. ASSUME NEW id, SavesNested(w), journal' = Put(journal, id, EntryRow(w)),
             pc[w] \in {"insertEntry", "saveEntry", "upsertEntry"}
      PROVE  CardsKept /\ (~BringsCard(w) => JournalKept)
  <2>1. ~BringsCard(w) => EntryRow(w).card \in mine
    BY <1>1, <1>7 DEF Entitled, EntryRow
  <2> QED
    BY <1>7, <2>1, NestChangesNothing DEF Put
<1>8. ASSUME SavesNested(w), journal' = journal PROVE CardsKept /\ JournalKept
  BY <1>8, NestChangesNothing
<1>9. CASE InsertEntry(w) \/ SaveEntry(w) \/ UpsertEntry(w)
  BY <1>2, <1>7, <1>8, <1>9 DEF InsertEntry, SaveEntry, UpsertEntry, tables
<1>10. CASE SaveCard(w) \/ UpsertCard(w)
  BY <1>2, <1>3, <1>10 DEF SaveCard, UpsertCard, Reads, tables
<1>11. CASE FindCard(w) \/ FindTerminal(w) \/ ReadCard(w) \/ ReadEntry(w) \/ ReadEntryCard(w)
            \/ ReadNewCard(w) \/ EditTerminals(w)
  BY <1>2, <1>11 DEF FindCard, FindTerminal, ReadCard, ReadEntry, ReadEntryCard, ReadNewCard,
     EditTerminals, Reads, Refuses, tables
<1> QED
  BY <1>4, <1>5, <1>6, <1>9, <1>10, <1>11 DEF StatementRuns

LEMMA StepOwns ==
    ASSUME EntitledInv, [Next]_vars, NEW v \in Workers
    PROVE  OwnStep(v)
<1>1. CASE UNCHANGED tables
  BY <1>1 DEF OwnStep, tables
<1>2. ASSUME NEW w \in Workers, StatementRuns(w) PROVE OwnStep(v)
  <2>1. CASE v = w
    BY <1>2, <2>1, StatementOwns
  <2>2. CASE v # w
    <3>1. Alone(w)
      <4>1. Ends(w) \/ \E label, locals : GoesOn(w, label, locals)
        BY <1>2 DEF StatementRuns, FindCard, FindTerminal, SaveCard, UpsertCard, InsertEntry,
           InsertCard, ReadCard, RemoveCard, ReadEntry, ReadEntryCard, ReadNewCard, SaveEntry,
           UpsertEntry, RemoveEntry, EditTerminals, AfterCard, Reads, Refuses
      <4> QED
        BY <4>1, GoingOn, Ending DEF EntitledInv, IInv
    <3> QED
      BY <2>2, <3>1 DEF Alone, OwnStep
  <2> QED
    BY <2>1, <2>2
<1>3. ASSUME NEW w \in Workers, StatementFails(w) PROVE OwnStep(v)
  BY <1>1, <1>3 DEF StatementFails
<1>4. ASSUME NEW w \in Workers, NEW c \in Callers \cup {None}, NEW r \in Requests, Accept(w, c, r)
      PROVE  OwnStep(v)
  BY <1>1, <1>4 DEF Accept
<1>5. CASE Restart \/ UNCHANGED vars
  BY <1>1, <1>5 DEF Restart, vars
<1> QED
  BY <1>2, <1>3, <1>4, <1>5 DEF Next, Statement

\* Whatever changes hands under a handler, a regular user changes and deletes only cards
\* that were his own while his request ran, and journals only on them, but for the card
\* an entry of his brings along.
THEOREM RegularUsersKeepToTheirOwn == Spec => KeepsToOwnCards
<1>1. Init => \A w \in Workers : Entitled(w)
  BY DEF Init, Entitled, Regular
<1>2. EntitledInv /\ [Next]_vars => [\A w \in Workers : OwnStep(w)]_vars
  BY StepOwns
<1>3. IInv /\ (\A w \in Workers : Entitled(w)) <=> EntitledInv
  BY DEF EntitledInv
<1>4. Spec => []EntitledInv
  BY <1>1, <1>3, StepEntitled, Invariance, PTL DEF Spec
<1>5. (\A w \in Workers : OwnStep(w)) =>
        \A w \in Workers :
          LET mine == his[w] \cup Owned(w) IN
          pc'[w] # pc[w] /\ Regular(w) =>
            /\ \A i \in DOMAIN cards \ mine : i \in DOMAIN cards' /\ cards'[i] = cards[i]
            /\ ~BringsCard(w) =>
                \A k \in DOMAIN journal' :
                    \/ k \in DOMAIN journal /\ journal'[k] = journal[k]
                    \/ journal'[k].card \in mine
  BY DEF OwnStep
<1> QED
  BY <1>2, <1>4, <1>5, PTL DEF Spec, KeepsToOwnCards

-----------------------------------------------------------------------------
\* Types

Tabled ==
    /\ IsTable(cards, CardIds, CardRows) /\ nextCard \in 1 .. MaxCard + 1
    /\ IsTable(journal, EntryIds, Entries) /\ nextEntry \in 1 .. MaxEntry + 1
    /\ terminals \subseteq Serials
    /\ given \subseteq CardIds \X Users

Noted ==
    /\ his \in [Workers -> SUBSET CardIds]
    /\ before \in {None} \/ DOMAIN before = {"cards", "journal", "terminals"}

\* The statement a worker is at writes rows of the right type.
Fits(w) ==
    /\ cal[w] \in Callers \cup {None} /\ req[w] \in Requests \cup {None} /\ loc[w] \in Locals
    /\ pc[w] \in {"findTerminal", "saveCard", "upsertCard"} =>
        loc[w].id \in CardIds /\ loc[w].row \in CardRows
    /\ pc[w] \in {"saveCard", "upsertCard"} /\ req[w].op = "pay" => loc[w].entry \in Entries
    /\ pc[w] \in {"readEntry", "readEntryCard"} => req[w].op \in {"updateEntry", "deleteEntry"}
    /\ pc[w] = "readNewCard" => req[w].op \in {"createEntry", "updateEntry"}
    /\ pc[w] \in {"saveEntry", "upsertEntry"} => req[w].op = "updateEntry"
    /\ pc[w] = "insertEntry" => loc[w].entry \in Entries
    /\ pc[w] \in {"readEntry", "readEntryCard", "readNewCard", "saveEntry", "upsertEntry"}
       /\ req[w].op # "deleteEntry" => loc[w].entry \in Entries
    /\ pc[w] \in {"createTerminal", "deleteTerminal"} => req[w].op = pc[w]

Typed == IInv /\ Tabled /\ Noted /\ \A w \in Workers : Fits(w)

LEMMA TypedIsTypeOK == Typed => TypeOK
BY DEF Typed, Tabled, Noted, Fits, IInv, Holds, TypeOK

\* What the fields of a request are.
LEMMA RequestFields ==
    ASSUME NEW r \in Requests
    PROVE  /\ r.op = "pay" => r.amt \in Amounts
           /\ r.op \in {"createCard", "updateCard"} => r.row \in CardRows
           /\ r.op \in {"updateCard", "deleteCard"} => r.id \in CardIds
           /\ r.op \in {"createEntry", "updateEntry"} => r.entry \in Entries
           /\ r.op \in {"updateEntry", "deleteEntry"} => r.id \in EntryIds
           /\ r.op = "createCard" => r.id \in CardIds \cup {0}
           /\ r.op = "createEntry" => r.id \in EntryIds \cup {0}
           /\ r.op \in {"createEntry", "updateEntry"} =>
                r.nest \in Nests \cup {None} /\ r.term \in Serials \cup {None}
           /\ r.op \in {"createTerminal", "deleteTerminal"} => r.term \in Serials
BY BackendRequestsAssumption DEF AllRequests

\* Putting a row in a table and taking one out.
LEMMA PutTyped ==
    ASSUME NEW f, NEW Ids, NEW Rows, IsTable(f, Ids, Rows), NEW i \in Ids, NEW row \in Rows
    PROVE  IsTable(Put(f, i, row), Ids, Rows)
BY DEF IsTable, Put

LEMMA WithoutTyped ==
    ASSUME NEW f, NEW Ids, NEW Rows, IsTable(f, Ids, Rows), NEW i
    PROVE  IsTable(Without(f, i), Ids, Rows)
BY DEF IsTable, Without

LEMMA NoLocalsTyped == NoLocals \in Locals
BY DEF NoLocals, Locals

\* When one worker moves, its own statement is all there is to show.
LEMMA OneFits ==
    ASSUME Typed, NEW w \in Workers, Alone(w), Fits(w)'
    PROVE  \A v \in Workers : Fits(v)'
BY DEF Typed, Alone, Fits

LEMMA EndFits ==
    ASSUME Typed, NEW w \in Workers, Ends(w)
    PROVE  (\A v \in Workers : Fits(v)') /\ Noted'
<1>1. Alone(w) /\ pc'[w] = "idle"
  BY Ending DEF Typed, IInv
<1>2. /\ cal'[w] = None /\ req'[w] = None /\ loc'[w] = NoLocals /\ before' = None
      /\ his' \in [Workers -> SUBSET CardIds]
  BY DEF Ends, Typed, Noted, IInv, Shapes
<1>3. Fits(w)'
  BY <1>1, <1>2, NoLocalsTyped DEF Fits
<1> QED
  BY <1>1, <1>2, <1>3, OneFits DEF Noted

LEMMA GoOnFits ==
    ASSUME Typed, NEW w \in Workers, NEW label, NEW locals \in Locals, GoesOn(w, label, locals),
           label \in {"findTerminal", "saveCard", "upsertCard"} =>
               locals.id \in CardIds /\ locals.row \in CardRows,
           label \in {"saveCard", "upsertCard"} /\ req[w].op = "pay" => locals.entry \in Entries,
           label \in {"readEntry", "readEntryCard"} => req[w].op \in {"updateEntry", "deleteEntry"},
           label = "readNewCard" => req[w].op \in {"createEntry", "updateEntry"},
           label \in {"saveEntry", "upsertEntry"} => req[w].op = "updateEntry",
           label = "insertEntry" => locals.entry \in Entries,
           label \in {"readEntry", "readEntryCard", "readNewCard", "saveEntry", "upsertEntry"}
               /\ req[w].op # "deleteEntry" => locals.entry \in Entries,
           label \notin {"createTerminal", "deleteTerminal"}
    PROVE  (\A v \in Workers : Fits(v)') /\ Noted'
<1>1. /\ Alone(w) /\ pc'[w] = label /\ loc'[w] = locals /\ req'[w] = req[w] /\ cal'[w] = cal[w]
  BY GoingOn DEF Typed, IInv
<1>2. Fits(w)'
  BY <1>1 DEF Typed, Fits
<1>3. Noted'
  <2>1. Owned(w) \subseteq CardIds
    BY DEF Owned, Typed, Tabled, IsTable
  <2> QED
    BY <2>1 DEF GoesOn, Typed, Noted
<1> QED
  BY <1>1, <1>2, <1>3, OneFits

LEMMA CardWriteTyped ==
    ASSUME Typed, NEW w \in Workers, NEW id \in CardIds, NEW row \in CardRows,
           WritesCard(w, id, row), nextCard' \in 1 .. MaxCard + 1
    PROVE  Tabled'
<1>1. row.own \in Users
  BY DEF CardRows
<1>2. IsTable(cards', CardIds, CardRows)
  BY PutTyped DEF WritesCard, Typed, Tabled
<1> QED
  BY <1>1, <1>2 DEF WritesCard, Typed, Tabled

\* An INSERT, and the card an entry brings.
LEMMA PastTyped ==
    ASSUME NEW max \in Nat, NEW next \in 1 .. max + 1, NEW id \in 1 .. max
    PROVE  Past(next, id) \in 1 .. max + 1 /\ Past(next, id) >= next /\ id < Past(next, id)
BY DEF Past

LEMMA InsertTyped ==
    ASSUME Typed, NEW i \in CardIds \cup {0}, NEW row \in CardRows, InsertsCard(IdFor(i), row)
    PROVE  /\ IdFor(i) \in CardIds
           /\ IsTable(cards', CardIds, CardRows) /\ nextCard' \in 1 .. MaxCard + 1
           /\ given' \subseteq CardIds \X Users
<1>1. IdFor(i) \in CardIds
  BY BackendBoundsAssumption DEF InsertsCard, IdFor, Typed, Tabled, CardIds
<1>2. Past(nextCard, IdFor(i)) \in 1 .. MaxCard + 1
  BY <1>1, PastTyped, BackendBoundsAssumption DEF Typed, Tabled, CardIds
<1>3. row.own \in Users
  BY DEF CardRows
<1>4. IsTable(Put(cards, IdFor(i), row), CardIds, CardRows)
  BY <1>1, PutTyped DEF Typed, Tabled
<1> QED
  BY <1>1, <1>2, <1>3, <1>4 DEF InsertsCard, Typed, Tabled

LEMMA NestTyped ==
    ASSUME Typed, NEW w \in Workers, SavesNested(w), loc[w].entry \in Entries
    PROVE  /\ IsTable(cards', CardIds, CardRows) /\ nextCard' \in 1 .. MaxCard + 1
           /\ given' \subseteq CardIds \X Users /\ terminals' \subseteq Serials
           /\ EntryRow(w) \in Entries
           /\ loc[w].nest # None => NestedCard(w) \in CardIds \cup {0}
<1> DEFINE n == loc[w].nest
<1>1. /\ n \in Nests \cup {None} /\ loc[w].term \in Serials \cup {None}
  BY DEF Typed, Fits, Locals
<1>2. terminals' \subseteq Serials
  BY <1>1 DEF SavesNested, Typed, Tabled
<1>3. CASE n = None
  BY <1>2, <1>3 DEF SavesNested, EntryRow, Typed, Tabled
<1>4. CASE n # None
  <2>1. n.id \in CardIds \cup {0} /\ n.row \in CardRows /\ InsertsCard(IdFor(n.id), n.row)
    BY <1>1, <1>4 DEF Nests, SavesNested
  <2>2. NestedCard(w) \in CardIds \cup {0}
    BY <2>1, InsertTyped DEF NestedCard
  <2>3. EntryRow(w) \in Entries
    BY <1>4, <2>2 DEF EntryRow, Entries
  <2> QED
    BY <1>2, <2>1, <2>2, <2>3, InsertTyped
<1> QED
  BY <1>3, <1>4

LEMMA TablesStay == ASSUME Typed, UNCHANGED <<tables, given>> PROVE Tabled'
BY DEF Typed, Tabled, tables

-----------------------------------------------------------------------------
LEMMA CardStatementTyped ==
    ASSUME Typed, NEW w \in Workers,
           FindCard(w) \/ FindTerminal(w) \/ ReadCard(w) \/ SaveCard(w) \/ UpsertCard(w)
           \/ InsertCard(w) \/ RemoveCard(w)
    PROVE  Tabled' /\ (\A v \in Workers : Fits(v)') /\ Noted'
<1>1. Fits(w) /\ Holds(w) /\ loc[w] \in Locals
  BY DEF Typed, IInv, Fits
<1>2. \A i \in DOMAIN cards : i \in CardIds /\ cards[i] \in CardRows
  BY DEF Typed, Tabled, IsTable
<1>3. CASE FindCard(w)
  <2>1. ASSUME NEW i \in DOMAIN cards
        PROVE  LET l == [NoLocals EXCEPT !.id = i, !.row = cards[i]] IN
               l \in Locals /\ l.id = i /\ l.row = cards[i]
    BY <1>2 DEF NoLocals, Locals
  <2>2. ASSUME NEW i \in DOMAIN cards, NEW l, l = [NoLocals EXCEPT !.id = i, !.row = cards[i]],
               Reads(w, "findTerminal", l)
        PROVE  Tabled' /\ (\A v \in Workers : Fits(v)') /\ Noted'
    <3>1. l \in Locals /\ l.id \in CardIds /\ l.row \in CardRows
      BY <1>2, <2>1, <2>2
    <3>2. GoesOn(w, "findTerminal", l) /\ UNCHANGED <<tables, given>>
      BY <2>2 DEF Reads
    <3> QED
      BY <3>1, <3>2, GoOnFits, TablesStay
  <2>3. CASE Refuses(w)
    BY <2>3, EndFits, TablesStay DEF Refuses
  <2> QED
    BY <1>3, <2>2, <2>3 DEF FindCard
<1>4. CASE FindTerminal(w)
  <2> DEFINE Booked(st) == [card |-> loc[w].id, amt |-> req[w].amt, st |-> st]
             charged == [loc[w] EXCEPT !.row = [loc[w].row EXCEPT !.bal = @ - req[w].amt],
                                       !.entry = Booked("approved")]
             declined == [loc[w] EXCEPT !.entry = Booked("declined")]
  <2>1. /\ req[w].amt \in Amounts /\ req[w].amt \in Int
        /\ loc[w].id \in CardIds /\ loc[w].row \in CardRows
    BY <1>1, <1>4, RequestFields, BackendBoundsAssumption DEF FindTerminal, Fits, Holds
  <2>2. Booked("approved") \in Entries /\ Booked("declined") \in Entries
    BY <2>1 DEF Entries
  <2>3. [loc[w].row EXCEPT !.bal = @ - req[w].amt] \in CardRows
    BY <2>1 DEF CardRows
  <2>4. /\ charged \in Locals /\ charged.id \in CardIds /\ charged.row \in CardRows
        /\ charged.entry \in Entries
    BY <1>1, <2>1, <2>2, <2>3 DEF Locals
  <2>5. declined \in Locals /\ declined.entry \in Entries
    BY <1>1, <2>2 DEF Locals
  <2>6. \/ Refuses(w) \/ Reads(w, "saveCard", charged) \/ Reads(w, "insertEntry", declined)
    BY <1>4 DEF FindTerminal
  <2> HIDE DEF charged, declined
  <2>7. CASE Refuses(w)
    BY <2>7, EndFits, TablesStay DEF Refuses
  <2>8. CASE Reads(w, "saveCard", charged)
    BY <2>4, <2>8, GoOnFits, TablesStay DEF Reads
  <2>9. CASE Reads(w, "insertEntry", declined)
    BY <2>5, <2>9, GoOnFits, TablesStay DEF Reads
  <2> QED
    BY <2>6, <2>7, <2>8, <2>9
<1>5. CASE ReadCard(w)
  <2> DEFINE id == req[w].id
             merged == Merged(cal[w], req[w].row, cards[id])
             l == [NoLocals EXCEPT !.id = id, !.row = merged]
  <2>1. req[w] \in Requests /\ req[w].op \in {"updateCard", "deleteCard"} /\ id \in CardIds
    BY <1>1, <1>5, RequestFields DEF ReadCard, Holds
  <2>2. CASE Refuses(w)
    BY <2>2, EndFits, TablesStay DEF Refuses
  <2>3. CASE Reads(w, "removeCard", NoLocals)
    BY <2>3, NoLocalsTyped, GoOnFits, TablesStay DEF Reads
  <2>4. CASE id \in DOMAIN cards /\ req[w].op # "deleteCard" /\ Reads(w, "saveCard", l)
    <3>1. req[w].row \in CardRows /\ cards[id].own \in Users
      BY <1>2, <2>1, <2>4, RequestFields DEF CardRows
    <3>2. merged \in CardRows
      BY <3>1 DEF Merged, CardRows
    <3>3. l \in Locals /\ l.id \in CardIds /\ l.row \in CardRows
      BY <2>1, <3>2 DEF NoLocals, Locals
    <3> HIDE DEF l
    <3> QED
      BY <2>1, <2>4, <3>3, GoOnFits, TablesStay DEF Reads
  <2> QED
    BY <1>5, <2>2, <2>3, <2>4 DEF ReadCard
<1>6. CASE SaveCard(w) \/ UpsertCard(w)
  <2>1. /\ loc[w].id \in CardIds /\ loc[w].row \in CardRows
        /\ req[w].op = "pay" => loc[w].entry \in Entries
    BY <1>1, <1>6 DEF SaveCard, UpsertCard, Fits
  <2>2. CASE Reads(w, "upsertCard", loc[w])
    BY <1>1, <2>1, <2>2, GoOnFits, TablesStay DEF Reads
  <2>3. CASE WritesCard(w, loc[w].id, loc[w].row) /\ AfterCard(w) /\ UNCHANGED nextCard
    <3>1. Tabled'
      BY <2>1, <2>3, CardWriteTyped DEF Typed, Tabled
    <3>2. (\A v \in Workers : Fits(v)') /\ Noted'
      BY <1>1, <2>1, <2>3, EndFits, GoOnFits DEF AfterCard
    <3> QED
      BY <3>1, <3>2
  <2> QED
    BY <1>6, <2>2, <2>3 DEF SaveCard, UpsertCard
<1>7. CASE InsertCard(w)
  <2>1. loc[w].row \in CardRows /\ req[w].id \in CardIds \cup {0}
    BY <1>1, <1>7, RequestFields DEF InsertCard, Holds, GoodRows, CardRows
  <2> QED
    BY <1>7, <2>1, InsertTyped, EndFits DEF InsertCard, Typed, Tabled
<1>8. CASE RemoveCard(w)
  BY <1>8, WithoutTyped, EndFits DEF RemoveCard, Typed, Tabled
<1> QED
  BY <1>3, <1>4, <1>5, <1>6, <1>7, <1>8

LEMMA JournalStatementTyped ==
    ASSUME Typed, NEW w \in Workers,
           \/ InsertEntry(w) \/ ReadEntry(w) \/ ReadEntryCard(w) \/ ReadNewCard(w)
           \/ SaveEntry(w) \/ UpsertEntry(w) \/ RemoveEntry(w) \/ EditTerminals(w)
    PROVE  Tabled' /\ (\A v \in Workers : Fits(v)') /\ Noted'
<1>1. Fits(w) /\ Holds(w) /\ loc[w] \in Locals
  BY DEF Typed, IInv, Fits
<1>2. CASE Refuses(w)
  BY <1>2, EndFits, TablesStay DEF Refuses
<1>3. CASE InsertEntry(w)
  <2> DEFINE id == NewEntry(w)
  <2>1. loc[w].entry \in Entries /\ id \in EntryIds
    BY <1>1, <1>3, RequestFields, BackendBoundsAssumption
       DEF InsertEntry, NewEntry, Fits, Holds, Typed, Tabled, EntryIds
  <2>2. Past(nextEntry, id) \in 1 .. MaxEntry + 1
    BY <2>1, PastTyped, BackendBoundsAssumption DEF Typed, Tabled, EntryIds
  <2>3. CASE UNCHANGED <<tables, given>> /\ Ends(w)
    BY <2>3, TablesStay, EndFits
  <2>4. CASE /\ SavesNested(w) /\ Ends(w)
             /\ journal' = Put(journal, id, EntryRow(w)) /\ nextEntry' = Past(nextEntry, id)
    <3>1. IsTable(journal', EntryIds, Entries)
      BY <2>1, <2>4, NestTyped, PutTyped DEF Typed, Tabled
    <3> QED
      BY <2>1, <2>2, <2>4, <3>1, NestTyped, EndFits DEF Tabled
  <2> QED
    BY <1>3, <2>3, <2>4 DEF InsertEntry
<1>4. CASE ReadEntry(w) /\ ~Refuses(w)
  <2> DEFINE l == [loc[w] EXCEPT !.id = journal[req[w].id].card]
  <2>1. /\ Reads(w, "readEntryCard", l) /\ journal[req[w].id] \in Entries
        /\ req[w].op \in {"updateEntry", "deleteEntry"}
        /\ req[w].op # "deleteEntry" => loc[w].entry \in Entries
    BY <1>1, <1>4 DEF ReadEntry, Fits, Typed, Tabled, IsTable
  <2>2. l \in Locals /\ l.entry = loc[w].entry
    BY <1>1, <2>1 DEF Locals, Entries
  <2> HIDE DEF l
  <2> QED
    BY <2>1, <2>2, GoOnFits, TablesStay DEF Reads
<1>5. CASE ReadEntryCard(w) /\ ~Refuses(w)
  <2>1. /\ req[w].op \in {"updateEntry", "deleteEntry"}
        /\ req[w].op # "deleteEntry" => loc[w].entry \in Entries
        /\ \/ Reads(w, "readNewCard", loc[w]) /\ req[w].op # "deleteEntry"
           \/ Reads(w, "saveEntry", loc[w]) /\ req[w].op # "deleteEntry"
           \/ Reads(w, "removeEntry", loc[w])
    BY <1>1, <1>5 DEF ReadEntryCard, AfterEntry, Fits
  <2> QED
    BY <1>1, <2>1, GoOnFits, TablesStay DEF Reads
<1>6. CASE ReadNewCard(w) /\ ~Refuses(w)
  <2>1. /\ req[w].op \in {"createEntry", "updateEntry"} /\ loc[w].entry \in Entries
        /\ \/ Reads(w, "insertEntry", loc[w])
           \/ Reads(w, "saveEntry", loc[w]) /\ req[w].op = "updateEntry"
    BY <1>1, <1>6 DEF ReadNewCard, Fits
  <2> QED
    BY <1>1, <2>1, GoOnFits, TablesStay DEF Reads
<1>7. CASE SaveEntry(w) \/ UpsertEntry(w)
  <2>1. req[w].op = "updateEntry" /\ loc[w].entry \in Entries
    BY <1>1, <1>7 DEF SaveEntry, UpsertEntry, Fits
  <2>2. req[w].id \in EntryIds
    BY <1>1, <1>7, <2>1, RequestFields DEF SaveEntry, UpsertEntry, Holds
  <2>3. SavesNested(w) /\ nextEntry' = nextEntry
    BY <1>7 DEF SaveEntry, UpsertEntry
  <2>4. CASE journal' = Put(journal, req[w].id, EntryRow(w)) /\ Ends(w)
    <3>1. IsTable(journal', EntryIds, Entries)
      BY <2>1, <2>2, <2>3, <2>4, NestTyped, PutTyped DEF Typed, Tabled
    <3> QED
      BY <2>1, <2>3, <2>4, <3>1, NestTyped, EndFits DEF Typed, Tabled
  <2> DEFINE l == IF loc[w].nest = None THEN loc[w]
                  ELSE [loc[w] EXCEPT !.nest = [@ EXCEPT !.id = NestedCard(w)]]
  <2>5. CASE journal' = journal /\ GoesOn(w, "upsertEntry", l)
    <3>1. l \in Locals /\ l.entry \in Entries
      <4>1. CASE loc[w].nest = None
        BY <1>1, <2>1, <4>1
      <4>2. CASE loc[w].nest # None
        <5>1. loc[w].nest \in Nests /\ NestedCard(w) \in CardIds \cup {0}
          BY <1>1, <2>1, <2>3, <4>2, NestTyped DEF Locals
        <5>2. [loc[w].nest EXCEPT !.id = NestedCard(w)] \in Nests
          BY <5>1 DEF Nests
        <5> QED
          BY <1>1, <2>1, <4>2, <5>2 DEF Locals
      <4> QED
        BY <4>1, <4>2
    <3> HIDE DEF l
    <3>2. (\A v \in Workers : Fits(v)') /\ Noted'
      BY <2>1, <2>5, <3>1, GoOnFits
    <3> QED
      BY <2>1, <2>3, <2>5, <3>2, NestTyped DEF Typed, Tabled
  <2> QED
    BY <1>7, <2>4, <2>5 DEF SaveEntry, UpsertEntry
<1>8. CASE RemoveEntry(w)
  BY <1>8, WithoutTyped, EndFits DEF RemoveEntry, Typed, Tabled
<1>9. CASE EditTerminals(w)
  <2>1. req[w].term \in Serials
    BY <1>1, <1>9, RequestFields DEF EditTerminals, Fits, Holds
  <2> QED
    BY <1>9, <2>1, EndFits DEF EditTerminals, Typed, Tabled
<1> QED
  BY <1>2, <1>3, <1>4, <1>5, <1>6, <1>7, <1>8, <1>9

LEMMA AcceptTyped ==
    ASSUME Typed, NEW w \in Workers, NEW c \in Callers \cup {None}, NEW r \in Requests,
           Accept(w, c, r)
    PROVE  Tabled' /\ (\A v \in Workers : Fits(v)') /\ Noted'
<1>1. /\ Alone(w) /\ pc'[w] = FirstStatement(c, r) /\ req'[w] = r /\ cal'[w] = c
      /\ loc'[w] = FirstLocals(c, r)
  BY DEF Typed, IInv, Shapes, Alone, Accept
<1>2. r.op \in {"pay", "createCard", "updateCard", "deleteCard", "createEntry", "updateEntry",
                "deleteEntry", "createTerminal", "deleteTerminal"}
  BY BackendRequestsAssumption DEF AllRequests
<1>3. /\ r.op = "pay" => FirstStatement(c, r) = "findCard"
      /\ r.op = "createCard" => FirstStatement(c, r) = "insertCard"
      /\ r.op \in {"updateCard", "deleteCard"} => FirstStatement(c, r) = "readCard"
      /\ r.op = "createEntry" => FirstStatement(c, r) \in {"insertEntry", "readNewCard"}
      /\ r.op \in {"updateEntry", "deleteEntry"} => FirstStatement(c, r) = "readEntry"
      /\ r.op \in {"createTerminal", "deleteTerminal"} => FirstStatement(c, r) = r.op
  BY <1>2 DEF FirstStatement
<1>4. r.op \in {"createEntry", "updateEntry"} =>
        FirstLocals(c, r) \in Locals /\ FirstLocals(c, r).entry \in Entries
  BY RequestFields DEF FirstLocals, NoLocals, Locals
<1>5. r.op = "createCard" => FirstLocals(c, r) \in Locals
  <2> SUFFICES ASSUME r.op = "createCard" PROVE FirstLocals(c, r) \in Locals
    OBVIOUS
  <2>1. r.row \in CardRows
    BY RequestFields
  <2>2. c \in Callers /\ c.id \in Users
    BY DEF Accept, Users
  <2>3. [r.row EXCEPT !.own = c.id] \in CardRows
    BY <2>1, <2>2 DEF CardRows
  <2>4. FirstLocals(c, r) =
          [NoLocals EXCEPT !.row = IF c.adm THEN r.row ELSE [r.row EXCEPT !.own = c.id]]
    BY DEF FirstLocals
  <2> QED
    BY <2>1, <2>3, <2>4 DEF NoLocals, Locals
<1>6. r.op \notin {"createCard", "createEntry", "updateEntry"} => FirstLocals(c, r) \in Locals
  BY NoLocalsTyped DEF FirstLocals
<1>7. Fits(w)'
  BY <1>1, <1>2, <1>3, <1>4, <1>5, <1>6 DEF Fits
<1>8. Noted'
  BY DEF Accept, Typed, Noted, Database
<1> QED
  BY <1>1, <1>7, <1>8, OneFits, TablesStay DEF Accept

LEMMA FailureTyped ==
    ASSUME Typed, NEW w \in Workers, StatementFails(w)
    PROVE  Tabled' /\ (\A v \in Workers : Fits(v)') /\ Noted'
<1>1. Tabled'
  BY TablesStay DEF StatementFails
<1>2. CASE Ends(w)
  BY <1>1, <1>2, EndFits
<1>3. CASE /\ pc[w] \in {"saveCard", "upsertCard"} /\ req[w].op = "pay"
           /\ pc' = [pc EXCEPT ![w] = "insertEntry"] /\ before' = None
           /\ UNCHANGED <<cal, req, loc, his>>
  <2>1. Alone(w) /\ pc'[w] = "insertEntry"
    BY <1>3 DEF Alone, Typed, IInv, Shapes
  <2>2. Fits(w)'
    BY <1>3, <2>1 DEF Typed, Fits
  <2> QED
    BY <1>1, <1>3, <2>1, <2>2, OneFits DEF Typed, Noted
<1> QED
  BY <1>2, <1>3 DEF StatementFails

LEMMA TypedInvariance == Spec => []Typed
<1>1. Init /\ IInv => Typed
  <2> SUFFICES ASSUME Init PROVE Tabled /\ Noted /\ \A w \in Workers : Fits(w)
    BY DEF Typed
  <2>1. IsFiniteSet(CardIds) /\ Cardinality(CardIds) = MaxCard
    BY FS_Interval, BackendBoundsAssumption DEF CardIds
  <2>2. DOMAIN InitialCards \in SUBSET CardIds
    BY InitialCardsAssumption DEF IsTable
  <2>3. Cardinality(DOMAIN InitialCards) \in Nat /\ Cardinality(DOMAIN InitialCards) <= MaxCard
    BY <2>1, <2>2, FS_Subset, FS_CardinalityType
  <2>4. nextCard \in 1 .. MaxCard + 1 /\ nextEntry \in 1 .. MaxEntry + 1
    BY <2>3, BackendBoundsAssumption DEF Init
  <2>5. IsTable(journal, EntryIds, Entries) /\ IsTable(cards, CardIds, CardRows)
    BY InitialCardsAssumption DEF Init, IsTable
  <2>6. given \subseteq CardIds \X Users
    BY <2>5 DEF Init, IsTable, CardRows
  <2> QED
    BY <2>4, <2>5, <2>6, NoLocalsTyped DEF Init, Tabled, Noted, Fits
<1>2. Typed /\ IInv' /\ [Next]_vars => Typed'
  <2> SUFFICES ASSUME Typed, [Next]_vars
               PROVE  Tabled' /\ Noted' /\ \A w \in Workers : Fits(w)'
    BY DEF Typed
  <2>1. CASE UNCHANGED vars
    BY <2>1 DEF vars, tables, workers, Typed, Tabled, Noted, Fits
  <2>2. ASSUME NEW w \in Workers, Statement(w) PROVE Tabled' /\ Noted' /\ \A v \in Workers : Fits(v)'
    BY <2>2, CardStatementTyped, JournalStatementTyped, FailureTyped DEF Statement, StatementRuns
  <2>3. CASE Restart
    BY <2>3, NoLocalsTyped, TablesStay DEF Restart, Fits, Noted
  <2> QED
    BY <2>1, <2>2, <2>3, AcceptTyped DEF Next
<1> QED
  BY <1>1, <1>2, Invariance, PTL DEF Spec

\* Every variable keeps its type, however the statements interleave.
THEOREM TypeCorrect == Spec => []TypeOK
  BY TypedInvariance, TypedIsTypeOK, PTL

-----------------------------------------------------------------------------
\* A payment by itself

\* The UNIQUE index on the card number, and AUTOINCREMENT.
UniqueNumbers == \A i, j \in DOMAIN cards : cards[i].num = cards[j].num => i = j
FreshEntry == \A i \in DOMAIN journal : i < nextEntry

\* The entry a worker edits was once there.
Known(w) ==
    /\ pc[w] \in {"readEntryCard", "readNewCard", "saveEntry", "upsertEntry"}
    /\ req[w].op = "updateEntry"
    => req[w].id < nextEntry

\* A request that has run alone is the only one.
Sole == before # None => \A u, v \in Workers : pc[u] # "idle" /\ pc[v] # "idle" => u = v

\* What a payment that has run alone has found, and what it has made of it.
Chosen(w, i) == i \in DOMAIN cards /\ cards[i].num = req[w].num
Charged(w) ==
    LET i == loc[w].id
        amt == req[w].amt
        ok == Approves(before.cards[i], amt)
    IN  /\ req[w].term \in before.terminals
        /\ i \in DOMAIN before.cards /\ before.cards[i].num = req[w].num
        /\ cards = IF ok THEN [before.cards EXCEPT ![i].bal = @ - amt] ELSE before.cards
        /\ journal = before.journal /\ terminals = before.terminals
        /\ loc[w].entry = [card |-> i, amt |-> amt, st |-> IF ok THEN "approved" ELSE "declined"]
        /\ loc[w].nest = None /\ loc[w].term = None

Paid(w) ==
    before # None /\ pc[w] # "idle" /\ req[w].op = "pay" =>
        /\ pc[w] \in {"findCard", "findTerminal", "saveCard", "insertEntry"}
        /\ pc[w] # "insertEntry" => before = Database
        /\ loc[w].nest = None /\ loc[w].term = None
        /\ pc[w] = "findTerminal" => Chosen(w, loc[w].id) /\ loc[w].row = cards[loc[w].id]
        /\ pc[w] = "saveCard" =>
            /\ Chosen(w, loc[w].id) /\ req[w].term \in terminals
            /\ Approves(cards[loc[w].id], req[w].amt)
            /\ loc[w].row = [cards[loc[w].id] EXCEPT !.bal = @ - req[w].amt]
            /\ loc[w].entry = [card |-> loc[w].id, amt |-> req[w].amt, st |-> "approved"]
        /\ pc[w] = "insertEntry" => Charged(w)

LoneInv ==
    /\ Typed /\ UniqueNumbers /\ FreshEntry /\ Sole
    /\ \A w \in Workers : Known(w) /\ Paid(w)

LEMMA UniqueKept ==
    ASSUME UniqueNumbers, [Next]_vars
    PROVE  UniqueNumbers'
<1>1. ASSUME NEW w \in Workers, NEW id, NEW row, WritesCard(w, id, row) PROVE UniqueNumbers'
  BY <1>1 DEF WritesCard, NumberFree, Put, UniqueNumbers
<1>8. ASSUME NEW id, NEW row, InsertsCard(id, row) PROVE UniqueNumbers'
  BY <1>8 DEF InsertsCard, Insertable, NumberFree, Put, UniqueNumbers
<1>9. ASSUME NEW w \in Workers, SavesNested(w) PROVE UniqueNumbers'
  BY <1>8, <1>9 DEF SavesNested, UniqueNumbers
<1>2. CASE UNCHANGED cards
  BY <1>2 DEF UniqueNumbers
<1>3. ASSUME NEW w \in Workers, RemoveCard(w) PROVE UniqueNumbers'
  BY <1>3 DEF RemoveCard, Without, UniqueNumbers
<1>4. ASSUME NEW w \in Workers, StatementRuns(w) PROVE UniqueNumbers'
  BY <1>1, <1>2, <1>3, <1>4, <1>8, <1>9 DEF StatementRuns, FindCard, FindTerminal, SaveCard,
     UpsertCard, InsertEntry, InsertCard, ReadCard, ReadEntry, ReadEntryCard,
     ReadNewCard, SaveEntry, UpsertEntry, RemoveEntry, EditTerminals, Reads, Refuses, tables
<1>5. ASSUME NEW w \in Workers, StatementFails(w) PROVE UniqueNumbers'
  BY <1>2, <1>5 DEF StatementFails, tables
<1>6. ASSUME NEW w \in Workers, NEW c \in Callers \cup {None}, NEW r \in Requests, Accept(w, c, r)
      PROVE  UniqueNumbers'
  BY <1>2, <1>6 DEF Accept, tables
<1>7. CASE Restart \/ UNCHANGED vars
  BY <1>2, <1>7 DEF Restart, vars, tables
<1> QED
  BY <1>4, <1>5, <1>6, <1>7 DEF Next, Statement

\* Worker w puts a row of the journal back.
EditsEntry(w) ==
    /\ pc[w] \in {"saveEntry", "upsertEntry"}
    /\ Ends(w) /\ journal' = Put(journal, req[w].id, EntryRow(w)) /\ nextEntry' = nextEntry

\* An edit of the journal puts a row only where one was.
LEMMA FreshKept ==
    ASSUME LoneInv, Typed', [Next]_vars
    PROVE  FreshEntry' /\ \A v \in Workers : Known(v)'
<1> DEFINE Kept == FreshEntry' /\ \A v \in Workers : Known(v)'
<1>1. nextEntry \in Nat
  BY DEF LoneInv, Typed, Tabled
<1>2. ASSUME NEW w \in Workers, Ends(w), FreshEntry', nextEntry' \in Nat, nextEntry' >= nextEntry
      PROVE  Kept
  <2>1. Alone(w) /\ pc'[w] = "idle"
    BY <1>2, Ending DEF LoneInv, Typed, IInv
  <2>2. ASSUME NEW v \in Workers PROVE Known(v)'
    <3>1. Known(v) /\ Fits(v) /\ Holds(v)
      BY DEF LoneInv, Typed, IInv
    <3>2. pc[v] # "idle" /\ req[v].op = "updateEntry" => req[v].id \in Nat
      BY <3>1, RequestFields DEF Holds, EntryIds
    <3> QED
      BY <1>1, <1>2, <2>1, <3>1, <3>2 DEF Alone, Known
  <2> QED
    BY <1>2, <2>2
<1>3. ASSUME NEW w \in Workers, NEW label, NEW locals, GoesOn(w, label, locals),
             journal' = journal, nextEntry' = nextEntry,
             \/ label \notin {"readEntryCard", "readNewCard", "saveEntry", "upsertEntry"}
             \/ req[w].op # "updateEntry" \/ req[w].id < nextEntry
      PROVE  Kept
  <2>1. /\ Alone(w) /\ pc'[w] = label /\ req'[w] = req[w]
    BY <1>3, GoingOn DEF LoneInv, Typed, IInv
  <2>2. ASSUME NEW v \in Workers PROVE Known(v)'
    BY <1>3, <2>1 DEF LoneInv, Alone, Known
  <2> QED
    BY <1>3, <2>2 DEF LoneInv, FreshEntry
<1>4. CASE UNCHANGED <<journal, nextEntry>>
  <2>1. FreshEntry'
    BY <1>4 DEF LoneInv, FreshEntry
  <2>2. ASSUME NEW w \in Workers, Ends(w) PROVE Kept
    BY <1>1, <1>2, <1>4, <2>1, <2>2
  <2>3. ASSUME NEW w \in Workers, StatementRuns(w) PROVE Kept
    <3>1. Known(w) /\ FreshEntry
      BY DEF LoneInv
    <3>2. Ends(w) \/ \E label, locals :
            /\ GoesOn(w, label, locals)
            /\ \/ label \notin {"readEntryCard", "readNewCard", "saveEntry", "upsertEntry"}
               \/ req[w].op # "updateEntry" \/ req[w].id < nextEntry
      <4>1. CASE ReadEntry(w)
        BY <3>1, <4>1 DEF ReadEntry, FreshEntry, Reads, Refuses
      <4>2. CASE ReadEntryCard(w) \/ ReadNewCard(w) \/ SaveEntry(w) \/ UpsertEntry(w)
        <5>1. pc[w] \in {"readEntryCard", "readNewCard", "saveEntry", "upsertEntry"}
          BY <4>2 DEF ReadEntryCard, ReadNewCard, SaveEntry, UpsertEntry
        <5>2. req[w].op # "updateEntry" \/ req[w].id < nextEntry
          BY <3>1, <5>1 DEF Known
        <5>3. Ends(w) \/ \E label, locals : GoesOn(w, label, locals)
          BY <4>2 DEF ReadEntryCard, ReadNewCard, SaveEntry, UpsertEntry,
             Reads, Refuses
        <5> QED
          BY <5>2, <5>3
      <4>3. CASE FindCard(w) \/ FindTerminal(w) \/ SaveCard(w) \/ UpsertCard(w) \/ InsertCard(w)
                 \/ ReadCard(w) \/ RemoveCard(w)
        <5>1. ASSUME NEW label \in {"findTerminal", "saveCard", "upsertCard", "insertEntry",
                                    "removeCard"},
                     NEW locals, GoesOn(w, label, locals)
              PROVE  \E m, l : GoesOn(w, m, l)
                       /\ m \notin {"readEntryCard", "readNewCard", "saveEntry", "upsertEntry"}
          BY <5>1
        <5>2. CASE FindCard(w)
          BY <5>1, <5>2 DEF FindCard, Reads, Refuses
        <5>3. CASE FindTerminal(w)
          BY <5>1, <5>3 DEF FindTerminal, Reads, Refuses
        <5>4. CASE SaveCard(w) \/ UpsertCard(w)
          BY <5>1, <5>4 DEF SaveCard, UpsertCard, AfterCard, Reads
        <5>5. CASE ReadCard(w)
          BY <5>1, <5>5 DEF ReadCard, Reads, Refuses
        <5> QED
          BY <4>3, <5>2, <5>3, <5>4, <5>5 DEF InsertCard, RemoveCard
      <4> QED
        BY <2>3, <4>1, <4>2, <4>3 DEF StatementRuns, InsertEntry, RemoveEntry, EditTerminals
    <3> QED
      BY <1>3, <1>4, <2>2, <3>2
  <2>4. ASSUME NEW w \in Workers, StatementFails(w) PROVE Kept
    <3>1. CASE ~Ends(w)
      <4>1. pc' = [pc EXCEPT ![w] = "insertEntry"] /\ UNCHANGED <<cal, req, loc, his>>
        BY <2>4, <3>1 DEF StatementFails
      <4>2. DOMAIN pc = Workers
        BY DEF LoneInv, Typed, IInv, Shapes
      <4>3. ASSUME NEW v \in Workers PROVE Known(v)'
        BY <1>4, <4>1, <4>2 DEF LoneInv, Known
      <4> QED
        BY <2>1, <4>3
    <3> QED
      BY <2>2, <3>1
  <2>5. ASSUME NEW w \in Workers, NEW c \in Callers \cup {None}, NEW r \in Requests, Accept(w, c, r)
        PROVE  Kept
    <3>1. Alone(w) /\ pc'[w] = FirstStatement(c, r) /\ req'[w] = r
      BY <2>5 DEF LoneInv, Typed, IInv, Shapes, Alone, Accept
    <3>2. r.op = "updateEntry" => FirstStatement(c, r) = "readEntry"
      BY DEF FirstStatement
    <3>3. ASSUME NEW v \in Workers PROVE Known(v)'
      BY <1>4, <3>1, <3>2 DEF LoneInv, Alone, Known
    <3> QED
      BY <2>1, <3>3
  <2>6. CASE Restart
    BY <2>1, <2>6 DEF Restart, Known
  <2>7. CASE UNCHANGED vars
    BY <2>7 DEF vars, workers, tables, LoneInv, Known, FreshEntry
  <2> QED
    BY <2>3, <2>4, <2>5, <2>6, <2>7 DEF Next, Statement
<1>5. ASSUME NEW w \in Workers, InsertEntry(w), ~UNCHANGED <<journal, nextEntry>> PROVE Kept
  <2> DEFINE id == NewEntry(w)
  <2>1. /\ Ends(w) /\ journal' = Put(journal, id, EntryRow(w)) /\ nextEntry' = Past(nextEntry, id)
        /\ pc[w] = "insertEntry" /\ id <= MaxEntry
    BY <1>5 DEF InsertEntry, tables
  <2>2. id \in EntryIds
    <3>1. Holds(w) /\ nextEntry \in 1 .. MaxEntry + 1
      BY DEF LoneInv, Typed, Tabled, IInv
    <3> QED
      BY <2>1, <3>1, RequestFields, BackendBoundsAssumption DEF NewEntry, Holds, EntryIds
  <2>3. nextEntry' \in Nat /\ nextEntry' >= nextEntry /\ id < nextEntry'
    BY <2>1, <2>2, PastTyped, BackendBoundsAssumption DEF LoneInv, Typed, Tabled, EntryIds
  <2>4. DOMAIN journal' = DOMAIN journal \cup {id} /\ DOMAIN journal \subseteq EntryIds
    BY <2>1 DEF Put, LoneInv, Typed, Tabled, IsTable
  <2>5. FreshEntry'
    BY <1>1, <2>3, <2>4 DEF LoneInv, FreshEntry, EntryIds
  <2> QED
    BY <1>1, <1>2, <2>1, <2>3, <2>5
<1>6. ASSUME NEW w \in Workers, EditsEntry(w) PROVE Kept
  <2>1. req[w].op = "updateEntry" /\ req[w].id < nextEntry
    BY <1>6 DEF EditsEntry, LoneInv, Typed, Fits, Known
  <2>2. /\ Ends(w) /\ journal' = Put(journal, req[w].id, EntryRow(w)) /\ nextEntry' = nextEntry
    BY <1>6 DEF EditsEntry
  <2>3. FreshEntry'
    BY <2>1, <2>2 DEF Put, LoneInv, FreshEntry
  <2> QED
    BY <1>1, <1>2, <2>2, <2>3
<1>7. ASSUME NEW w \in Workers, RemoveEntry(w) PROVE Kept
  <2>1. FreshEntry' /\ nextEntry' = nextEntry /\ Ends(w)
    BY <1>7 DEF RemoveEntry, Without, LoneInv, FreshEntry
  <2> QED
    BY <1>1, <1>2, <2>1
<1>8. UNCHANGED <<journal, nextEntry>> \/ \E w \in Workers :
        InsertEntry(w) \/ RemoveEntry(w) \/ EditsEntry(w)
  <2>1. ASSUME NEW w \in Workers, StatementRuns(w)
        PROVE  \/ UNCHANGED <<journal, nextEntry>> \/ InsertEntry(w) \/ RemoveEntry(w)
               \/ EditsEntry(w)
    BY <2>1 DEF StatementRuns, FindCard, FindTerminal, SaveCard, UpsertCard, InsertCard, ReadCard,
       RemoveCard, ReadEntry, ReadEntryCard, ReadNewCard, SaveEntry, UpsertEntry, EditTerminals,
       EditsEntry,
       WritesCard, Reads, Refuses, tables
  <2>2. ASSUME NEW w \in Workers, StatementFails(w) PROVE UNCHANGED <<journal, nextEntry>>
    BY <2>2 DEF StatementFails, tables
  <2>3. ASSUME NEW w \in Workers, NEW c \in Callers \cup {None}, NEW r \in Requests, Accept(w, c, r)
        PROVE  UNCHANGED <<journal, nextEntry>>
    BY <2>3 DEF Accept, tables
  <2>4. CASE Restart \/ UNCHANGED vars
    BY <2>4 DEF Restart, vars, tables
  <2> QED
    BY <2>1, <2>2, <2>3, <2>4 DEF Next, Statement
<1> QED
  BY <1>4, <1>5, <1>6, <1>7, <1>8

LEMMA SoleKept ==
    ASSUME LoneInv, [Next]_vars
    PROVE  Sole'
<1>1. CASE before' = None
  BY <1>1 DEF Sole
<1>2. ASSUME NEW w \in Workers, StatementRuns(w), ~Ends(w) PROVE Sole'
  <2>1. pc[w] # "idle" /\ \E label, locals : GoesOn(w, label, locals)
    BY <1>2 DEF StatementRuns, FindCard, FindTerminal, SaveCard,
       UpsertCard, InsertEntry, InsertCard, ReadCard, RemoveCard, ReadEntry, ReadEntryCard,
       ReadNewCard, SaveEntry, UpsertEntry, RemoveEntry, EditTerminals,
       AfterCard, Reads, Refuses
  <2>2. Alone(w) /\ before' = before
    BY <2>1, GoingOn DEF LoneInv, Typed, IInv, GoesOn
  <2> QED
    BY <2>1, <2>2 DEF LoneInv, Sole, Alone
<1>3. ASSUME NEW w \in Workers, NEW c \in Callers \cup {None}, NEW r \in Requests, Accept(w, c, r)
      PROVE  Sole'
  <2>1. Alone(w)
    BY <1>3 DEF LoneInv, Typed, IInv, Shapes, Alone, Accept
  <2>2. before' = None \/ \A v \in Workers : pc[v] = "idle"
    BY <1>3 DEF Accept
  <2> QED
    BY <2>1, <2>2 DEF Sole, Alone
<1>4. ASSUME NEW w \in Workers, Ends(w) \/ StatementFails(w) \/ Restart PROVE Sole'
  BY <1>1, <1>4 DEF Ends, StatementFails, Restart
<1>5. CASE Restart
  BY <1>1, <1>5 DEF Restart
<1>6. CASE UNCHANGED vars
  BY <1>6 DEF vars, workers, LoneInv, Sole
<1> QED
  BY <1>2, <1>3, <1>4, <1>5, <1>6 DEF Next, Statement

\* A payment goes on: what it has found, and has made of it, is what it should.
LEMMA PaymentGoesOn ==
    ASSUME LoneInv, NEW w \in Workers, StatementRuns(w), ~Ends(w), before # None, req[w].op = "pay"
    PROVE  Paid(w)'
<1> DEFINE i == loc[w].id
           amt == req[w].amt
<1>1. Paid(w) /\ Holds(w) /\ Fits(w) /\ pc[w] \in PCs
  BY DEF LoneInv, Typed, IInv, Holds
<1>2. /\ pc[w] # "idle" /\ Alone(w) /\ before' = before /\ req'[w] = req[w]
      /\ \E label, locals : GoesOn(w, label, locals)
  <2>1. pc[w] # "idle" /\ \E label, locals : GoesOn(w, label, locals)
    BY DEF StatementRuns, FindCard, FindTerminal, SaveCard,
       UpsertCard, InsertEntry, InsertCard, ReadCard, RemoveCard, ReadEntry, ReadEntryCard,
       ReadNewCard, SaveEntry, UpsertEntry, RemoveEntry, EditTerminals,
       AfterCard, Reads, Refuses
  <2> QED
    BY <2>1, GoingOn DEF LoneInv, Typed, IInv, GoesOn
<1>3. pc[w] \in {"findCard", "findTerminal", "saveCard"}
  <2>1. pc[w] \in {"findCard", "findTerminal", "saveCard", "insertEntry"}
    BY <1>1, <1>2 DEF Paid
  <2> QED
    BY <2>1 DEF StatementRuns, FindCard, FindTerminal, SaveCard,
       UpsertCard, InsertEntry, InsertCard, ReadCard, RemoveCard, ReadEntry, ReadEntryCard,
       ReadNewCard, SaveEntry, UpsertEntry, RemoveEntry, EditTerminals
<1>4. /\ before = Database
      /\ before.cards = cards /\ before.journal = journal /\ before.terminals = terminals
  BY <1>1, <1>2, <1>3 DEF Paid, Database
<1>5. FindCard(w) \/ FindTerminal(w) \/ SaveCard(w)
  BY <1>3 DEF StatementRuns, UpsertCard, InsertEntry, InsertCard, ReadCard, RemoveCard, ReadEntry,
     ReadEntryCard, ReadNewCard, SaveEntry, UpsertEntry, RemoveEntry, EditTerminals
<1>6. CASE FindCard(w)
  <2>1. PICK k \in DOMAIN cards : /\ cards[k].num = req[w].num
           /\ Reads(w, "findTerminal", [NoLocals EXCEPT !.id = k, !.row = cards[k]])
    BY <1>6 DEF FindCard, Refuses
  <2>2. /\ pc'[w] = "findTerminal" /\ loc'[w] = [NoLocals EXCEPT !.id = k, !.row = cards[k]]
        /\ UNCHANGED tables
    BY <2>1, GoingOn DEF Reads, LoneInv, Typed, IInv
  <2>3. /\ loc'[w].id = k /\ loc'[w].row = cards[k]
        /\ loc'[w].nest = None /\ loc'[w].term = None
    BY <2>2 DEF NoLocals
  <2> QED
    BY <1>2, <1>4, <2>1, <2>2, <2>3 DEF Paid, Chosen, Database, tables
<1>7. CASE FindTerminal(w)
  <2> DEFINE row == loc[w].row
             Booked(st) == [card |-> i, amt |-> amt, st |-> st]
  <2>1. Chosen(w, i) /\ row = cards[i]
    BY <1>1, <1>2, <1>7 DEF Paid, FindTerminal
  <2>2. req[w].term \in terminals
    BY <1>7 DEF FindTerminal, Refuses
  <2>3. CASE /\ Approves(row, amt)
             /\ Reads(w, "saveCard", [loc[w] EXCEPT !.row = [row EXCEPT !.bal = @ - amt],
                                                    !.entry = Booked("approved")])
    <3>1. /\ pc'[w] = "saveCard" /\ UNCHANGED tables
          /\ loc'[w] = [loc[w] EXCEPT !.row = [row EXCEPT !.bal = @ - amt],
                                      !.entry = Booked("approved")]
      BY <2>3, GoingOn DEF Reads, LoneInv, Typed, IInv
    <3>2. loc'[w].id = i /\ loc'[w].row = [row EXCEPT !.bal = @ - amt]
          /\ loc'[w].entry = Booked("approved") /\ loc'[w].nest = None /\ loc'[w].term = None
      BY <1>1, <1>2, <3>1 DEF Fits, Locals, Paid
    <3> QED
      BY <1>2, <1>4, <2>1, <2>2, <2>3, <3>1, <3>2 DEF Paid, Chosen, Database, tables
  <2>4. CASE /\ ~Approves(row, amt)
             /\ Reads(w, "insertEntry", [loc[w] EXCEPT !.entry = Booked("declined")])
    <3>1. /\ pc'[w] = "insertEntry" /\ UNCHANGED tables
          /\ loc'[w] = [loc[w] EXCEPT !.entry = Booked("declined")]
      BY <2>4, GoingOn DEF Reads, LoneInv, Typed, IInv
    <3>2. /\ loc'[w].id = i /\ loc'[w].entry = Booked("declined")
          /\ loc'[w].nest = None /\ loc'[w].term = None
      BY <1>1, <1>2, <3>1 DEF Fits, Locals, Paid
    <3>3. Charged(w)'
      BY <1>2, <1>4, <2>1, <2>2, <2>4, <3>1, <3>2 DEF Charged, Chosen, tables
    <3> QED
      BY <3>1, <3>2, <3>3 DEF Paid
  <2> QED
    BY <1>7, <2>2, <2>3, <2>4 DEF FindTerminal
<1>8. CASE SaveCard(w)
  <2>1. /\ Chosen(w, i) /\ req[w].term \in terminals
        /\ Approves(cards[i], amt)
        /\ loc[w].row = [cards[i] EXCEPT !.bal = @ - amt]
        /\ loc[w].entry = [card |-> i, amt |-> amt, st |-> "approved"]
        /\ loc[w].nest = None /\ loc[w].term = None
    BY <1>1, <1>2, <1>8 DEF Paid, SaveCard
  <2>2. WritesCard(w, i, loc[w].row) /\ GoesOn(w, "insertEntry", loc[w])
    BY <1>8, <2>1 DEF SaveCard, AfterCard, Chosen
  <2>3. pc'[w] = "insertEntry" /\ loc'[w] = loc[w]
    BY <2>2, GoingOn DEF LoneInv, Typed, IInv
  <2>4. cards[i] \in CardRows /\ loc[w].row.num = cards[i].num /\ cards \in [DOMAIN cards -> CardRows]
    BY <2>1 DEF Chosen, CardRows, LoneInv, Typed, Tabled, IsTable
  <2>5. NumberFree(loc[w].row.num, i)
    BY <2>1, <2>4 DEF NumberFree, LoneInv, UniqueNumbers, Chosen
  <2>6. cards' = Put(cards, i, loc[w].row)
    BY <2>2, <2>5 DEF WritesCard
  <2>7. cards' = [cards EXCEPT ![i].bal = @ - amt]
    BY <2>1, <2>4, <2>6 DEF Put, Chosen
  <2>8. journal' = journal /\ terminals' = terminals
    BY <2>2 DEF WritesCard
  <2>9. Charged(w)'
    BY <1>2, <1>4, <2>1, <2>3, <2>7, <2>8 DEF Charged, Chosen
  <2> QED
    BY <2>1, <2>3, <2>9 DEF Paid
<1> QED
  BY <1>5, <1>6, <1>7, <1>8

LEMMA PaidKept ==
    ASSUME LoneInv, [Next]_vars
    PROVE  \A v \in Workers : Paid(v)'
<1>1. CASE before' = None
  BY <1>1 DEF Paid
<1>2. ASSUME NEW w \in Workers, StatementRuns(w), ~Ends(w) PROVE \A v \in Workers : Paid(v)'
  <2>1. pc[w] # "idle" /\ \E label, locals : GoesOn(w, label, locals)
    BY <1>2 DEF StatementRuns, FindCard, FindTerminal, SaveCard,
       UpsertCard, InsertEntry, InsertCard, ReadCard, RemoveCard, ReadEntry, ReadEntryCard,
       ReadNewCard, SaveEntry, UpsertEntry, RemoveEntry, EditTerminals,
       AfterCard, Reads, Refuses
  <2>2. Alone(w) /\ before' = before /\ req'[w] = req[w]
    BY <2>1, GoingOn DEF LoneInv, Typed, IInv, GoesOn
  <2>3. before # None => \A v \in Workers \ {w} : pc[v] = "idle" /\ pc'[v] = "idle"
    BY <2>1, <2>2 DEF LoneInv, Sole, Alone
  <2>4. before # None /\ req[w].op = "pay" => Paid(w)'
    BY <1>2, PaymentGoesOn
  <2> QED
    BY <2>2, <2>3, <2>4 DEF Paid
<1>3. ASSUME NEW w \in Workers, NEW c \in Callers \cup {None}, NEW r \in Requests, Accept(w, c, r)
      PROVE  \A v \in Workers : Paid(v)'
  <2>1. Alone(w) /\ pc'[w] = FirstStatement(c, r) /\ req'[w] = r
    BY <1>3 DEF LoneInv, Typed, IInv, Shapes, Alone, Accept
  <2>2. before' = None \/ (before' = Database' /\ \A v \in Workers : pc[v] = "idle")
    BY <1>3 DEF Accept, Database, tables
  <2>3. r.op = "pay" => FirstStatement(c, r) = "findCard" /\ FirstLocals(c, r) = NoLocals
    BY DEF FirstStatement, FirstLocals
  <2>4. loc'[w] = FirstLocals(c, r) /\ NoLocals.nest = None /\ NoLocals.term = None
    BY <1>3 DEF LoneInv, Typed, IInv, Shapes, Accept, NoLocals
  <2> QED
    BY <2>1, <2>2, <2>3, <2>4 DEF Paid, Alone
<1>4. ASSUME NEW w \in Workers, Ends(w) \/ StatementFails(w) PROVE \A v \in Workers : Paid(v)'
  BY <1>1, <1>4 DEF Ends, StatementFails
<1>5. CASE Restart
  BY <1>1, <1>5 DEF Restart
<1>6. CASE UNCHANGED vars
  BY <1>6 DEF vars, workers, tables, LoneInv, Paid, Chosen, Charged, Database
<1> QED
  BY <1>2, <1>3, <1>4, <1>5, <1>6 DEF Next, Statement

\* The payment a step ends.
BookedStep(w) ==
    (/\ before # None /\ pc[w] = "insertEntry" /\ pc'[w] = "idle"
     /\ req[w].op = "pay" /\ journal' # journal)
    => Books(req[w], before, Database')

LEMMA StepBooks ==
    ASSUME LoneInv, [Next]_vars, NEW w \in Workers
    PROVE  BookedStep(w)
<1> SUFFICES ASSUME before # None, pc[w] = "insertEntry", pc'[w] = "idle", req[w].op = "pay",
                    journal' # journal
             PROVE  Books(req[w], before, Database')
  BY DEF BookedStep
<1> DEFINE i == loc[w].id
           amt == req[w].amt
           ok == Approves(before.cards[i], amt)
<1>1. InsertEntry(w)
  <2>1. \A v \in Workers : v # w => pc[v] = "idle"
    BY DEF LoneInv, Sole
  <2>2. ASSUME NEW v \in Workers, Statement(v) PROVE v = w
    BY <2>1, <2>2 DEF Statement, StatementRuns, StatementFails, FindCard, FindTerminal, SaveCard,
       UpsertCard, InsertEntry, InsertCard, ReadCard, RemoveCard, ReadEntry, ReadEntryCard,
       ReadNewCard, SaveEntry, UpsertEntry, RemoveEntry, EditTerminals
  <2>3. CASE Statement(w)
    BY <2>3 DEF Statement, StatementRuns, StatementFails, FindCard, FindTerminal, SaveCard,
       UpsertCard, InsertCard, ReadCard, RemoveCard, ReadEntry, ReadEntryCard,
       ReadNewCard, SaveEntry, UpsertEntry, RemoveEntry, EditTerminals, tables
  <2>4. ASSUME NEW v \in Workers, NEW c \in Callers \cup {None}, NEW r \in Requests, Accept(v, c, r)
        PROVE  journal' = journal
    BY <2>4 DEF Accept, tables
  <2>5. CASE Restart \/ UNCHANGED vars
    BY <2>5 DEF Restart, vars, tables
  <2> QED
    BY <2>2, <2>3, <2>4, <2>5 DEF Next
<1>2. Charged(w) /\ nextEntry \in EntryIds /\ nextEntry \notin DOMAIN journal
  <2>1. Charged(w)
    BY DEF LoneInv, Paid
  <2>2. nextEntry \in EntryIds
    BY <1>1, BackendBoundsAssumption DEF InsertEntry, NewEntry, LoneInv, Typed, Tabled, EntryIds
  <2>3. nextEntry \notin DOMAIN journal
    BY <2>2 DEF LoneInv, FreshEntry, EntryIds
  <2> QED
    BY <2>1, <2>2, <2>3
<1>3. /\ cards' = cards /\ terminals' = terminals
      /\ journal' = Put(before.journal, nextEntry,
                        [card |-> i, amt |-> amt, st |-> IF ok THEN "approved" ELSE "declined"])
  <2>1. NewEntry(w) = nextEntry /\ loc[w].nest = None /\ loc[w].term = None
    BY <1>2 DEF NewEntry, Charged
  <2>2. /\ SavesNested(w) /\ journal' = Put(journal, nextEntry, EntryRow(w))
    BY <1>1, <1>2, <2>1 DEF InsertEntry
  <2> QED
    BY <1>2, <2>1, <2>2 DEF SavesNested, EntryRow, Charged
<1>4. Database'.cards = cards' /\ Database'.journal = journal'
  BY DEF Database
<1>5. ok <=> ~before.cards[i].blk /\ before.cards[i].bal >= amt
  BY DEF Approves
<1>6. /\ req[w].term \in before.terminals
      /\ i \in DOMAIN before.cards /\ nextEntry \in EntryIds \ DOMAIN before.journal
      /\ before.cards[i].num = req[w].num
      /\ cards' = IF ok THEN [before.cards EXCEPT ![i].bal = @ - amt] ELSE before.cards
  BY <1>2, <1>3 DEF Charged
<1> QED
  BY <1>3, <1>4, <1>5, <1>6 DEF Books

\* A payment nothing overlaps, and nothing fails for, is decided, charged and journalled
\* as one step would have done it.
THEOREM LonePaymentsAreOne == Spec => LonePaymentsAreBooked
<1>1. Init /\ Typed => LoneInv
  <2> SUFFICES ASSUME Init, Typed PROVE LoneInv
    OBVIOUS
  <2>1. UniqueNumbers
    BY InitialCardsAssumption DEF Init, UniqueNumbers
  <2> QED
    BY <2>1 DEF Init, LoneInv, FreshEntry, Sole, Known, Paid
<1>2. LoneInv /\ Typed' /\ [Next]_vars => LoneInv'
  BY UniqueKept, FreshKept, SoleKept, PaidKept DEF LoneInv
<1>3. LoneInv /\ [Next]_vars => [\A w \in Workers : BookedStep(w)]_vars
  BY StepBooks
<1>4. (\A w \in Workers : BookedStep(w)) =>
        \A w \in Workers :
          (/\ before # None /\ pc[w] = "insertEntry" /\ pc'[w] = "idle"
           /\ req[w].op = "pay" /\ journal' # journal)
          => Books(req[w], before, Database')
  BY DEF BookedStep
<1>5. Spec => []LoneInv
  BY <1>1, <1>2, TypedInvariance, PTL DEF Spec
<1> QED
  BY <1>3, <1>4, <1>5, PTL DEF Spec, LonePaymentsAreBooked
=============================================================================
