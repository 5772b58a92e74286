---------------------------- MODULE LedgerProofs ----------------------------
(***************************************************************************)
(* What the SQL statements keep: each takes a database to a database, and  *)
(* those a payment is made of leave the rest of it alone.  Then what the   *)
(* requests keep, one at a time and undisturbed: the references between    *)
(* the tables, the balance of a card that has just paid, and, after what   *)
(* sums over the rows of a table needs, the money of each card number.     *)
(***************************************************************************)
EXTENDS Ledger, FiniteSetTheorems, WellFoundedInduction, TLAPS

-----------------------------------------------------------------------------
\* The statements

\* Writing a row of the right kind under an id of the table keeps a table.
LEMMA PutTable ==
    ASSUME NEW f, NEW Ids, NEW Rows, IsTable(f, Ids, Rows),
           NEW id \in Ids, NEW row \in Rows
    PROVE  IsTable(Put(f, id, row), Ids, Rows)
BY DEF IsTable, Put

\* So does deleting one.
LEMMA WithoutTable ==
    ASSUME NEW f, NEW Ids, NEW Rows, IsTable(f, Ids, Rows), NEW id
    PROVE  IsTable(Without(f, id), Ids, Rows)
BY DEF IsTable, Without

\* A change of balance keeps every card row a card row, and changes nothing but
\* balances: ids, numbers, owners, transactions and terminals stay.
LEMMA CreditDatabase ==
    ASSUME NEW d, IsDatabase(d), NEW n, NEW a \in Int
    PROVE  /\ IsDatabase(Credit(d, n, a))
           /\ Credit(d, n, a).txns = d.txns
           /\ Credit(d, n, a).nextTxn = d.nextTxn
           /\ Credit(d, n, a).terms = d.terms
           /\ DOMAIN Credit(d, n, a).cards = DOMAIN d.cards
           /\ \A m : CardsNumbered(Credit(d, n, a), m) = CardsNumbered(d, m)
<1> DEFINE e == Credit(d, n, a)
<1>1. /\ e.cards = [i \in DOMAIN d.cards |->
                      IF d.cards[i].num = n
                        THEN [d.cards[i] EXCEPT !.bal = d.cards[i].bal + a]
                        ELSE d.cards[i]]
      /\ e.nextCard = d.nextCard /\ e.txns = d.txns /\ e.nextTxn = d.nextTxn
      /\ e.terms = d.terms
  BY DEF Credit, IsDatabase
<1>2. \A i \in DOMAIN d.cards : d.cards[i] \in CardRows
  BY DEF IsDatabase, IsTable
<1>3. \A i \in DOMAIN d.cards : e.cards[i] \in CardRows /\ e.cards[i].num = d.cards[i].num
  BY <1>1, <1>2 DEF CardRows
<1>4. IsTable(e.cards, 1 .. e.nextCard - 1, CardRows)
  BY <1>1, <1>3 DEF IsDatabase, IsTable
<1>5. e \in [cards : {e.cards}, nextCard : 1 .. MaxCard + 1,
             txns : {e.txns}, nextTxn : 1 .. MaxTxn + 1, terms : SUBSET Terminals]
  BY <1>1 DEF Credit, IsDatabase
<1>6. IsDatabase(e)
  BY <1>1, <1>4, <1>5 DEF IsDatabase
<1>7. \A m : CardsNumbered(e, m) = CardsNumbered(d, m)
  BY <1>1, <1>3 DEF CardsNumbered
<1> QED
  BY <1>1, <1>6, <1>7

\* INSERT INTO transactions keeps a database one, while ids last.
LEMMA InsertTxnDatabase ==
    ASSUME NEW d, IsDatabase(d), NEW row \in TxnRows, TxnRoom(d)
    PROVE  IsDatabase(InsertTxn(d, row))
<1> DEFINE e == InsertTxn(d, row)
<1>1. /\ d.nextTxn \in 1 .. MaxTxn /\ d.nextTxn + 1 \in 1 .. MaxTxn + 1
      /\ d.nextTxn \in 1 .. d.nextTxn + 1 - 1
      /\ 1 .. d.nextTxn - 1 \subseteq 1 .. d.nextTxn + 1 - 1
  BY BoundsAssumption DEF IsDatabase, TxnRoom
<1>2. /\ e.txns = Put(d.txns, d.nextTxn, row) /\ e.nextTxn = d.nextTxn + 1
      /\ e.cards = d.cards /\ e.nextCard = d.nextCard /\ e.terms = d.terms
  BY DEF InsertTxn, IsDatabase
<1>3. IsTable(e.txns, 1 .. e.nextTxn - 1, TxnRows)
  <2>1. IsTable(d.txns, 1 .. d.nextTxn - 1, TxnRows)
    BY DEF IsDatabase
  <2>2. IsTable(d.txns, 1 .. e.nextTxn - 1, TxnRows)
    BY <1>1, <1>2, <2>1 DEF IsTable
  <2>3. d.nextTxn \in 1 .. e.nextTxn - 1
    BY <1>1, <1>2
  <2> QED
    BY <1>2, <2>2, <2>3, PutTable
<1>4. e \in [cards : {e.cards}, nextCard : 1 .. MaxCard + 1,
             txns : {e.txns}, nextTxn : 1 .. MaxTxn + 1, terms : SUBSET Terminals]
  BY <1>1, <1>2 DEF InsertTxn, IsDatabase
<1> QED
  BY <1>2, <1>3, <1>4 DEF IsDatabase

\* INSERT INTO cards keeps a database one, while ids last.
LEMMA InsertCardDatabase ==
    ASSUME NEW d, IsDatabase(d), NEW row \in CardRows, CardRoom(d)
    PROVE  IsDatabase(InsertCard(d, row))
<1> DEFINE e == InsertCard(d, row)
<1>1. /\ d.nextCard \in 1 .. MaxCard /\ d.nextCard + 1 \in 1 .. MaxCard + 1
      /\ d.nextCard \in 1 .. d.nextCard + 1 - 1
      /\ 1 .. d.nextCard - 1 \subseteq 1 .. d.nextCard + 1 - 1
  BY BoundsAssumption DEF IsDatabase, CardRoom
<1>2. /\ e.cards = Put(d.cards, d.nextCard, row) /\ e.nextCard = d.nextCard + 1
      /\ e.txns = d.txns /\ e.nextTxn = d.nextTxn /\ e.terms = d.terms
  BY DEF InsertCard, IsDatabase
<1>3. IsTable(e.cards, 1 .. e.nextCard - 1, CardRows)
  <2>1. IsTable(d.cards, 1 .. d.nextCard - 1, CardRows)
    BY DEF IsDatabase
  <2>2. IsTable(d.cards, 1 .. e.nextCard - 1, CardRows)
    BY <1>1, <1>2, <2>1 DEF IsTable
  <2>3. d.nextCard \in 1 .. e.nextCard - 1
    BY <1>1, <1>2
  <2> QED
    BY <1>2, <2>2, <2>3, PutTable
<1>4. e \in [cards : {e.cards}, nextCard : 1 .. MaxCard + 1,
             txns : {e.txns}, nextTxn : 1 .. MaxTxn + 1, terms : SUBSET Terminals]
  BY <1>1, <1>2 DEF InsertCard, IsDatabase
<1> QED
  BY <1>2, <1>3, <1>4 DEF IsDatabase

\* UPDATE transactions ... WHERE id = t keeps a database one.
LEMMA SetTxnDatabase ==
    ASSUME NEW d, IsDatabase(d), NEW t, NEW row \in TxnRows
    PROVE  IsDatabase(SetTxn(d, t, row))
<1> DEFINE e == [d EXCEPT !.txns = Put(d.txns, t, row)]
<1> SUFFICES ASSUME t \in DOMAIN d.txns PROVE IsDatabase(e)
  BY DEF SetTxn
<1>1. /\ e.txns = Put(d.txns, t, row) /\ e.nextTxn = d.nextTxn
      /\ e.cards = d.cards /\ e.nextCard = d.nextCard /\ e.terms = d.terms
  BY DEF IsDatabase
<1>2. IsTable(e.txns, 1 .. e.nextTxn - 1, TxnRows)
  <2>1. t \in 1 .. d.nextTxn - 1
    BY DEF IsDatabase, IsTable
  <2> QED
    BY <1>1, <2>1, PutTable DEF IsDatabase
<1>3. e \in [cards : {e.cards}, nextCard : 1 .. MaxCard + 1,
             txns : {e.txns}, nextTxn : 1 .. MaxTxn + 1, terms : SUBSET Terminals]
  BY <1>1 DEF IsDatabase
<1> QED
  BY <1>1, <1>2, <1>3 DEF IsDatabase

\* UPDATE cards ... WHERE id = i keeps a database one.
LEMMA SetCardDatabase ==
    ASSUME NEW d, IsDatabase(d), NEW i, NEW row \in CardRows
    PROVE  IsDatabase(SetCard(d, i, row))
<1> DEFINE e == [d EXCEPT !.cards = Put(d.cards, i, row)]
<1> SUFFICES ASSUME i \in DOMAIN d.cards PROVE IsDatabase(e)
  BY DEF SetCard
<1>1. /\ e.cards = Put(d.cards, i, row) /\ e.nextTxn = d.nextTxn
      /\ e.txns = d.txns /\ e.nextCard = d.nextCard /\ e.terms = d.terms
  BY DEF IsDatabase
<1>2. IsTable(e.cards, 1 .. e.nextCard - 1, CardRows)
  <2>1. i \in 1 .. d.nextCard - 1
    BY DEF IsDatabase, IsTable
  <2> QED
    BY <1>1, <2>1, PutTable DEF IsDatabase
<1>3. e \in [cards : {e.cards}, nextCard : 1 .. MaxCard + 1,
             txns : {e.txns}, nextTxn : 1 .. MaxTxn + 1, terms : SUBSET Terminals]
  BY <1>1 DEF IsDatabase
<1> QED
  BY <1>1, <1>2, <1>3 DEF IsDatabase

\* DELETE FROM transactions keeps a database one.
LEMMA DropTxnDatabase ==
    ASSUME NEW d, IsDatabase(d), NEW t
    PROVE  IsDatabase(DropTxn(d, t))
<1> DEFINE e == DropTxn(d, t)
<1>1. /\ e.txns = Without(d.txns, t) /\ e.nextTxn = d.nextTxn
      /\ e.cards = d.cards /\ e.nextCard = d.nextCard /\ e.terms = d.terms
  BY DEF DropTxn, IsDatabase
<1>2. IsTable(e.txns, 1 .. e.nextTxn - 1, TxnRows)
  BY <1>1, WithoutTable DEF IsDatabase
<1>3. e \in [cards : {e.cards}, nextCard : 1 .. MaxCard + 1,
             txns : {e.txns}, nextTxn : 1 .. MaxTxn + 1, terms : SUBSET Terminals]
  BY <1>1 DEF DropTxn, IsDatabase
<1> QED
  BY <1>1, <1>2, <1>3 DEF IsDatabase

\* DELETE FROM cards keeps a database one.
LEMMA DropCardDatabase ==
    ASSUME NEW d, IsDatabase(d), NEW i
    PROVE  IsDatabase(DropCard(d, i))
<1> DEFINE e == DropCard(d, i)
<1>1. /\ e.cards = Without(d.cards, i) /\ e.nextTxn = d.nextTxn
      /\ e.txns = d.txns /\ e.nextCard = d.nextCard /\ e.terms = d.terms
  BY DEF DropCard, IsDatabase
<1>2. IsTable(e.cards, 1 .. e.nextCard - 1, CardRows)
  BY <1>1, WithoutTable DEF IsDatabase
<1>3. e \in [cards : {e.cards}, nextCard : 1 .. MaxCard + 1,
             txns : {e.txns}, nextTxn : 1 .. MaxTxn + 1, terms : SUBSET Terminals]
  BY <1>1 DEF DropCard, IsDatabase
<1> QED
  BY <1>1, <1>2, <1>3 DEF IsDatabase

\* Any set of known terminals makes a database with the other tables.
LEMMA TermsDatabase ==
    ASSUME NEW d, IsDatabase(d), NEW T \in SUBSET Terminals
    PROVE  IsDatabase([d EXCEPT !.terms = T])
<1> DEFINE e == [d EXCEPT !.terms = T]
<1>1. /\ e.terms = T /\ e.cards = d.cards /\ e.nextCard = d.nextCard
      /\ e.txns = d.txns /\ e.nextTxn = d.nextTxn
  BY DEF IsDatabase
<1>2. e \in [cards : {e.cards}, nextCard : 1 .. MaxCard + 1,
             txns : {e.txns}, nextTxn : 1 .. MaxTxn + 1, terms : SUBSET Terminals]
  BY <1>1 DEF IsDatabase
<1> QED
  BY <1>1, <1>2 DEF IsDatabase

-----------------------------------------------------------------------------
\* The requests

\* A statement that changes balances only touches no reference.
LEMMA CreditReferences ==
    ASSUME NEW d, IsDatabase(d), ReferencesExist(d), NEW n, NEW a \in Int
    PROVE  ReferencesExist(Credit(d, n, a))
<1> DEFINE e == Credit(d, n, a)
<1>1. /\ e.txns = d.txns /\ e.terms = d.terms /\ DOMAIN e.cards = DOMAIN d.cards
      /\ \A m : CardsNumbered(e, m) = CardsNumbered(d, m)
  BY CreditDatabase
<1>2. \A i \in DOMAIN d.cards : e.cards[i].num = d.cards[i].num
  BY <1>1 DEF CardsNumbered
<1> QED
  BY <1>1, <1>2 DEF ReferencesExist, TxnKeysExist

\* A row whose keys exist may be inserted,
LEMMA InsertTxnReferences ==
    ASSUME NEW d, IsDatabase(d), ReferencesExist(d), NEW row, TxnKeysExist(d, row)
    PROVE  ReferencesExist(InsertTxn(d, row))
<1> DEFINE e == InsertTxn(d, row)
<1>1. e.txns = Put(d.txns, d.nextTxn, row) /\ e.cards = d.cards /\ e.terms = d.terms
  BY DEF InsertTxn, IsDatabase
<1> QED
  BY <1>1 DEF ReferencesExist, TxnKeysExist, CardsNumbered, Put

\* ... or take the place of another,
LEMMA SetTxnReferences ==
    ASSUME NEW d, IsDatabase(d), ReferencesExist(d), NEW t, NEW row, TxnKeysExist(d, row)
    PROVE  ReferencesExist(SetTxn(d, t, row))
<1> DEFINE e == [d EXCEPT !.txns = Put(d.txns, t, row)]
<1>1. e.txns = Put(d.txns, t, row) /\ e.cards = d.cards /\ e.terms = d.terms
  BY DEF IsDatabase
<1> QED
  BY <1>1 DEF ReferencesExist, TxnKeysExist, CardsNumbered, Put, SetTxn

\* ... and deleting a row of the journal leaves no reference dangling.
LEMMA DropTxnReferences ==
    ASSUME NEW d, IsDatabase(d), ReferencesExist(d), NEW t
    PROVE  ReferencesExist(DropTxn(d, t))
<1> DEFINE e == DropTxn(d, t)
<1>1. e.txns = Without(d.txns, t) /\ e.cards = d.cards /\ e.terms = d.terms
  BY DEF DropTxn, IsDatabase
<1> QED
  BY <1>1 DEF ReferencesExist, TxnKeysExist, CardsNumbered, Without

\* A new card's number is free, and its id is none of the old ones.
LEMMA InsertCardReferences ==
    ASSUME NEW d, IsDatabase(d), ReferencesExist(d), NEW row,
           NumberFree(d, d.nextCard, row.num)
    PROVE  ReferencesExist(InsertCard(d, row))
<1> DEFINE e == InsertCard(d, row)
           id == d.nextCard
<1>1. e.cards = Put(d.cards, id, row) /\ e.txns = d.txns /\ e.terms = d.terms
  BY DEF InsertCard, IsDatabase
<1>2. id \notin DOMAIN d.cards
  BY DEF IsDatabase, IsTable
<1>3. CardsNumbered(d, row.num) = {}
  BY <1>2 DEF NumberFree, CardsNumbered
<1>4. \A n : CardsNumbered(e, n) =
               CardsNumbered(d, n) \cup (IF n = row.num THEN {id} ELSE {})
  BY <1>1, <1>2 DEF CardsNumbered, Put
<1>5. \A i \in DOMAIN e.cards : CardsNumbered(e, e.cards[i].num) = {i}
  <2> SUFFICES ASSUME NEW i \in DOMAIN e.cards
               PROVE  CardsNumbered(e, e.cards[i].num) = {i}
    OBVIOUS
  <2>1. CASE i = id
    BY <1>1, <1>3, <1>4, <2>1 DEF Put
  <2>2. CASE i # id
    <3>1. i \in DOMAIN d.cards /\ e.cards[i] = d.cards[i]
      BY <1>1, <2>2 DEF Put
    <3>2. i \in CardsNumbered(d, d.cards[i].num)
      BY <3>1 DEF CardsNumbered
    <3>3. d.cards[i].num # row.num
      BY <1>3, <3>2
    <3> QED
      BY <1>4, <3>1, <3>3 DEF ReferencesExist
  <2> QED
    BY <2>1, <2>2
<1>6. \A t \in DOMAIN e.txns : TxnKeysExist(e, e.txns[t])
  BY <1>1, <1>4 DEF ReferencesExist, TxnKeysExist
<1> QED
  BY <1>5, <1>6 DEF ReferencesExist

\* An edited card takes a free number, and only a card no transaction refers to
\* takes another one than it had.
LEMMA SetCardReferences ==
    ASSUME NEW d, IsDatabase(d), ReferencesExist(d), NEW i, NEW row,
           CardUpdateAllowed(d, i, row.num)
    PROVE  ReferencesExist(SetCard(d, i, row))
<1> DEFINE e == [d EXCEPT !.cards = Put(d.cards, i, row)]
<1> SUFFICES ASSUME i \in DOMAIN d.cards PROVE ReferencesExist(e)
  BY DEF SetCard
<1>1. e.cards = Put(d.cards, i, row) /\ e.txns = d.txns /\ e.terms = d.terms
  BY DEF IsDatabase
<1>2. CardsNumbered(d, row.num) \subseteq {i}
  BY DEF CardUpdateAllowed, NumberFree
<1>3. \A n : CardsNumbered(e, n) =
               (CardsNumbered(d, n) \ {i}) \cup (IF n = row.num THEN {i} ELSE {})
  BY <1>1 DEF CardsNumbered, Put
<1>4. \A j \in DOMAIN e.cards : CardsNumbered(e, e.cards[j].num) = {j}
  <2> SUFFICES ASSUME NEW j \in DOMAIN e.cards
               PROVE  CardsNumbered(e, e.cards[j].num) = {j}
    OBVIOUS
  <2>1. CASE j = i
    BY <1>1, <1>2, <1>3, <2>1 DEF Put
  <2>2. CASE j # i
    <3>1. j \in DOMAIN d.cards /\ e.cards[j] = d.cards[j]
      BY <1>1, <2>2 DEF Put
    <3>2. j \in CardsNumbered(d, d.cards[j].num)
      BY <3>1 DEF CardsNumbered
    <3>3. d.cards[j].num # row.num
      BY <1>2, <2>2, <3>2
    <3> QED
      BY <1>3, <2>2, <3>1, <3>3 DEF ReferencesExist
  <2> QED
    BY <2>1, <2>2
<1>5. \A t \in DOMAIN e.txns : TxnKeysExist(e, e.txns[t])
  <2> SUFFICES ASSUME NEW t \in DOMAIN d.txns
               PROVE  CardsNumbered(e, d.txns[t].num) # {}
    BY <1>1 DEF ReferencesExist, TxnKeysExist
  <2>1. CardsNumbered(d, d.txns[t].num) # {}
    BY DEF ReferencesExist, TxnKeysExist
  <2>2. CASE d.cards[i].num = row.num
    <3>1. i \in CardsNumbered(d, d.txns[t].num) => d.txns[t].num = row.num
      BY <2>2 DEF CardsNumbered
    <3>2. d.txns[t].num = row.num => i \in CardsNumbered(e, d.txns[t].num)
      BY <1>3
    <3> QED
      BY <1>3, <2>1, <3>1, <3>2
  <2>3. CASE ~CardReferenced(d, i)
    <3>1. i \notin CardsNumbered(d, d.txns[t].num)
      BY <2>3 DEF CardReferenced, CardsNumbered
    <3> QED
      BY <1>3, <2>1, <3>1
  <2> QED
    BY <2>2, <2>3 DEF CardUpdateAllowed
<1> QED
  BY <1>4, <1>5 DEF ReferencesExist

\* A card no transaction refers to may go.
LEMMA DropCardReferences ==
    ASSUME NEW d, IsDatabase(d), ReferencesExist(d), NEW i, ~CardReferenced(d, i)
    PROVE  ReferencesExist(DropCard(d, i))
<1> DEFINE e == DropCard(d, i)
<1>1. e.cards = Without(d.cards, i) /\ e.txns = d.txns /\ e.terms = d.terms
  BY DEF DropCard, IsDatabase
<1>2. \A n : CardsNumbered(e, n) = CardsNumbered(d, n) \ {i}
  BY <1>1 DEF CardsNumbered, Without
<1>3. \A t \in DOMAIN d.txns : i \notin CardsNumbered(d, d.txns[t].num)
  BY DEF CardReferenced, CardsNumbered
<1>4. \A t \in DOMAIN e.txns : TxnKeysExist(e, e.txns[t])
  BY <1>1, <1>2, <1>3 DEF ReferencesExist, TxnKeysExist
<1>5. \A j \in DOMAIN e.cards : CardsNumbered(e, e.cards[j].num) = {j}
  BY <1>1, <1>2 DEF ReferencesExist, Without
<1> QED
  BY <1>4, <1>5 DEF ReferencesExist

\* A terminal may be added, or removed when no transaction refers to it.
LEMMA TermsReferences ==
    ASSUME NEW d, IsDatabase(d), ReferencesExist(d), NEW T,
           \A t \in DOMAIN d.txns : d.txns[t].term \in T
    PROVE  ReferencesExist([d EXCEPT !.terms = T])
<1> DEFINE e == [d EXCEPT !.terms = T]
<1>1. e.terms = T /\ e.cards = d.cards /\ e.txns = d.txns
  BY DEF IsDatabase
<1> QED
  BY <1>1 DEF ReferencesExist, TxnKeysExist, CardsNumbered

-----------------------------------------------------------------------------
\* The shape of a request follows from its operation.
LEMMA RequestShapes ==
    ASSUME NEW r \in Requests
    PROVE  /\ r.op = "authorize" => r \in AuthorizeRequests
           /\ r.op = "createTxn" => r \in CreateRequests
           /\ r.op = "updateTxn" => r \in AmendRequests
           /\ r.op = "createCard" => r \in NewCardRequests
           /\ r.op = "updateCard" => r \in EditCardRequests
           /\ r.op \in {"createTerminal", "deleteTerminal"} => r \in TerminalRequests
BY RequestsAssumption
   DEF AllRequests, AuthorizeRequests, CreateRequests, AmendRequests, DropTxnRequests,
       NewCardRequests, EditCardRequests, DropCardRequests, TerminalRequests, ListRequests

\* The row a payment request journals has the right kind.
LEMMA RowTyped ==
    ASSUME NEW r \in Requests, NEW b \in BOOLEAN,
           r.op \in {"authorize", "createTxn", "updateTxn"}
    PROVE  RowOf(r, b) \in TxnRows
BY RequestShapes DEF RowOf, TxnRows, AuthorizeRequests, CreateRequests, AmendRequests

\* The amount of a payment request is an integer, so that it can be taken back.
LEMMA AmountTyped ==
    ASSUME NEW r \in Requests, r.op \in {"authorize", "createTxn", "updateTxn"}
    PROVE  r.amt \in Int /\ -r.amt \in Int
BY RequestShapes DEF AuthorizeRequests, CreateRequests, AmendRequests

\* Giving the old amount of a transaction back leaves a database with the same
\* journal, terminals and card numbers,
LEMMA RefundedDatabase ==
    ASSUME NEW d, IsDatabase(d), NEW t \in DOMAIN d.txns
    PROVE  /\ d.txns[t].amt \in Int /\ d.txns[t].ok \in BOOLEAN /\ d.txns[t] \in TxnRows
           /\ IsDatabase(Refunded(d, t))
           /\ Refunded(d, t).txns = d.txns /\ Refunded(d, t).terms = d.terms
           /\ \A m : CardsNumbered(Refunded(d, t), m) = CardsNumbered(d, m)
           /\ ReferencesExist(d) => ReferencesExist(Refunded(d, t))
<1>1. d.txns[t] \in TxnRows
  BY DEF IsDatabase, IsTable
<1>2. d.txns[t].amt \in Int /\ d.txns[t].ok \in BOOLEAN
  BY <1>1 DEF TxnRows
<1> QED
  BY <1>1, <1>2, CreditDatabase, CreditReferences DEF Refunded

\* ... and so does taking the new one.
LEMMA RechargedDatabase ==
    ASSUME NEW d, IsDatabase(d), NEW r \in Requests, r.op = "updateTxn",
           r.txn \in DOMAIN d.txns
    PROVE  /\ IsDatabase(Recharged(r, d)) /\ Recharged(r, d).txns = d.txns
           /\ Recharged(r, d).terms = d.terms
           /\ \A m : CardsNumbered(Recharged(r, d), m) = CardsNumbered(d, m)
           /\ ReferencesExist(d) => ReferencesExist(Recharged(r, d))
BY RefundedDatabase, CreditDatabase, CreditReferences, AmountTyped DEF Recharged

-----------------------------------------------------------------------------
\* No request leaves a reference to a row that does not exist.
LEMMA EffectKeepsReferences ==
    ASSUME NEW d, IsDatabase(d), ReferencesExist(d), NEW r \in Requests, NEW s, NEW o, NEW e,
           Effect(r, s, o, d, e)
    PROVE  ReferencesExist(e)
<1>1. CASE e = d
  BY <1>1
<1>2. CASE r.op = "authorize" /\ (Authorized(r, d, e) \/ Declined(r, d, e))
  <2>1. CardsNumbered(d, r.num) # {} /\ r.term \in d.terms
    BY <1>2 DEF Authorized, Declined
  <2>2. CASE Authorized(r, d, e)
    <3> DEFINE c == Credit(d, r.num, -r.amt)
    <3>1. /\ IsDatabase(c) /\ ReferencesExist(c) /\ c.terms = d.terms
          /\ CardsNumbered(c, r.num) = CardsNumbered(d, r.num)
      BY <1>2, AmountTyped, CreditDatabase, CreditReferences
    <3>2. TxnKeysExist(c, RowOf(r, TRUE))
      BY <2>1, <3>1 DEF TxnKeysExist, RowOf
    <3> QED
      BY <2>2, <3>1, <3>2, InsertTxnReferences DEF Authorized
  <2>3. CASE Declined(r, d, e)
    BY <2>1, <2>3, InsertTxnReferences DEF Declined, TxnKeysExist, RowOf
  <2> QED
    BY <1>2, <2>2, <2>3
<1>3. CASE r.op = "createTxn" /\ Recorded(r, d, e)
  <2> DEFINE c == IF r.ok THEN Credit(d, r.num, -r.amt) ELSE d
  <2>1. /\ IsDatabase(c) /\ ReferencesExist(c) /\ c.terms = d.terms
        /\ CardsNumbered(c, r.num) = CardsNumbered(d, r.num)
    BY <1>3, AmountTyped, CreditDatabase, CreditReferences
  <2>2. TxnKeysExist(c, RowOf(r, r.ok))
    BY <1>3, <2>1 DEF TxnKeysExist, RowOf, Recorded
  <2> QED
    BY <1>3, <2>1, <2>2, InsertTxnReferences DEF Recorded
<1>4. CASE r.op = "updateTxn" /\ Amended(r, d, e)
  <2> DEFINE c == Recharged(r, d)
  <2>1. /\ IsDatabase(c) /\ ReferencesExist(c) /\ c.terms = d.terms
        /\ CardsNumbered(c, r.num) = CardsNumbered(d, r.num)
    BY <1>4, RechargedDatabase DEF Amended
  <2>2. TxnKeysExist(c, RowOf(r, r.ok))
    BY <1>4, <2>1 DEF TxnKeysExist, RowOf, Amended
  <2> QED
    BY <1>4, <2>1, <2>2, SetTxnReferences DEF Amended
<1>5. CASE TxnDropped(r, s, d, e)
  BY <1>5, DropTxnReferences DEF TxnDropped
<1>6. CASE CardAdded(r, d, e)
  BY <1>6, InsertCardReferences DEF CardAdded, CardRow
<1>7. CASE CardEdited(r, s, d, e)
  BY <1>7, SetCardReferences DEF CardEdited, CardRow
<1>8. CASE CardDropped(r, s, d, e)
  BY <1>8, DropCardReferences DEF CardDropped
<1>9. CASE TerminalAdded(r, d, e) \/ TerminalDropped(r, d, e)
  <2>1. \A t \in DOMAIN d.txns : d.txns[t].term \in d.terms
    BY DEF ReferencesExist, TxnKeysExist
  <2>2. CASE TerminalAdded(r, d, e)
    BY <2>1, <2>2, TermsReferences DEF TerminalAdded
  <2>3. CASE TerminalDropped(r, d, e)
    BY <2>1, <2>3, TermsReferences DEF TerminalDropped, TerminalReferenced
  <2> QED
    BY <1>9, <2>2, <2>3
<1> QED
  BY <1>1, <1>2, <1>3, <1>4, <1>5, <1>6, <1>7, <1>8, <1>9 DEF Effect

\* Taking an amount that a card has leaves it no debt, and no other card has
\* its number.
LEMMA DebitCovered ==
    ASSUME NEW d, IsDatabase(d), ReferencesExist(d), NEW n, NEW a \in Int,
           \E i \in CardsNumbered(d, n) : d.cards[i].bal >= a
    PROVE  \A i \in CardsNumbered(d, n) : Credit(d, n, -a).cards[i].bal >= 0
<1>1. PICK i \in CardsNumbered(d, n) : d.cards[i].bal >= a
  OBVIOUS
<1>2. i \in DOMAIN d.cards /\ d.cards[i].num = n /\ CardsNumbered(d, n) = {i}
  BY DEF CardsNumbered, ReferencesExist
<1>3. d.cards[i] \in CardRows /\ d.cards[i].bal \in Int
  BY <1>2 DEF IsDatabase, IsTable, CardRows
<1>4. Credit(d, n, -a).cards[i].bal = d.cards[i].bal + (-a)
  BY <1>2, <1>3 DEF Credit, IsDatabase, CardRows
<1> QED
  BY <1>1, <1>2, <1>3, <1>4

\* A request that takes money from a card does not overdraw it.
LEMMA EffectNoOverdraft ==
    ASSUME NEW d, IsDatabase(d), ReferencesExist(d), NEW r \in Requests, NEW s, NEW o, NEW e,
           Effect(r, s, o, d, e), o \in {"approved", "done"},
           r.op \in {"authorize", "createTxn", "updateTxn"},
           r.op \in {"createTxn", "updateTxn"} => r.ok
    PROVE  \A i \in CardsNumbered(e, r.num) : e.cards[i].bal >= 0
<1> DEFINE Paid(c, f) == /\ f.cards = Credit(c, r.num, -r.amt).cards
                         /\ IsDatabase(c) /\ ReferencesExist(c)
                         /\ \E i \in CardsNumbered(c, r.num) : c.cards[i].bal >= r.amt
<1>1. ASSUME NEW c, Paid(c, e)
      PROVE  \A i \in CardsNumbered(e, r.num) : e.cards[i].bal >= 0
  <2>1. CardsNumbered(e, r.num) = CardsNumbered(c, r.num)
    <3>1. CardsNumbered(Credit(c, r.num, -r.amt), r.num) = CardsNumbered(c, r.num)
      BY <1>1, AmountTyped, CreditDatabase
    <3> QED
      BY <1>1, <3>1 DEF CardsNumbered
  <2> QED
    BY <1>1, <2>1, AmountTyped, DebitCovered
<1>2. CASE r.op = "authorize" /\ Authorized(r, d, e)
  <2>1. Paid(d, e)
    BY <1>2, AmountTyped, CreditDatabase DEF Authorized, InsertTxn, IsDatabase
  <2> QED
    BY <1>1, <2>1
<1>3. CASE r.op = "createTxn" /\ Recorded(r, d, e)
  <2>1. Paid(d, e)
    BY <1>3, AmountTyped, CreditDatabase DEF Recorded, InsertTxn, IsDatabase
  <2> QED
    BY <1>1, <2>1
<1>4. CASE r.op = "updateTxn" /\ Amended(r, d, e)
  <2> DEFINE c == Refunded(d, r.txn)
  <2>1. IsDatabase(c) /\ ReferencesExist(c)
    BY <1>4, RefundedDatabase DEF Amended
  <2>2. e.cards = Credit(c, r.num, -r.amt).cards
    <3>1. e = SetTxn(Credit(c, r.num, -r.amt), r.txn, RowOf(r, r.ok))
      BY <1>4 DEF Amended, Recharged
    <3> QED
      BY <2>1, <3>1, AmountTyped, CreditDatabase DEF SetTxn, IsDatabase
  <2>3. Paid(c, e)
    BY <1>4, <2>1, <2>2 DEF Amended
  <2> QED
    BY <1>1, <2>3
<1> QED
  BY <1>2, <1>3, <1>4 DEF Effect
-----------------------------------------------------------------------------
\* Sums over finite sets.  The lemmas take sets where a rule of induction would
\* take a predicate: the members of G are the sets the induction is about.

\* Induction on the subsets of a finite set.
LEMMA SetInductive ==
    ASSUME NEW S, IsFiniteSet(S), NEW G,
           \A T \in SUBSET S : (\A U \in SUBSET T : U # T => U \in G) => T \in G
    PROVE  \A T \in SUBSET S : T \in G
<1> DEFINE R == StrictSubsetOrdering(S)
           Others == {T \in SUBSET S : T \notin G}
<1>1. Others # {} => \E T \in Others : \A U \in Others : ~ (<<U, T>> \in R)
  <2>1. Others \subseteq SUBSET S
    OBVIOUS
  <2>2. IsWellFoundedOn(R, SUBSET S)
    BY FS_StrictSubsetOrderingWellFounded, FS_FiniteSubsetsOfFinite
  <2> HIDE DEF Others, R
  <2> QED
    BY <2>1, <2>2, WFMin
<1>2. \A T, U \in SUBSET S : U \subseteq T /\ U # T => <<U, T>> \in R
  BY DEF StrictSubsetOrdering
<1> HIDE DEF R
<1> SUFFICES ASSUME Others # {} PROVE FALSE
  OBVIOUS
<1>3. PICK T \in Others : \A U \in Others : ~ (<<U, T>> \in R)
  BY <1>1
<1>4. PICK U \in SUBSET T : U # T /\ U \notin G
  BY <1>3
<1>5. U \in Others /\ <<U, T>> \in R
  BY <1>2, <1>3, <1>4
<1> QED
  BY <1>3, <1>5

\* The element a sum takes out first.
First(S) == CHOOSE x \in S : TRUE

\* The sums of f over the subsets of S, one element after the other.
Unfolds(g, f, S) ==
    /\ g[{}] = 0
    /\ \A T \in SUBSET S : T # {} => g[T] = f[First(T)] + g[T \ {First(T)}]
Sums(g, f, S) == g \in [SUBSET S -> Int] /\ Unfolds(g, f, S)

\* They are the same whoever takes them.
LEMMA SumsAgree ==
    ASSUME NEW S, IsFiniteSet(S), NEW f, NEW g, NEW h, Unfolds(g, f, S), Unfolds(h, f, S)
    PROVE  \A T \in SUBSET S : g[T] = h[T]
<1> DEFINE G == {T \in SUBSET S : g[T] = h[T]}
<1>1. ASSUME NEW T \in SUBSET S, \A U \in SUBSET T : U # T => U \in G PROVE T \in G
  <2>1. CASE T = {}
    BY <2>1 DEF Unfolds
  <2>2. CASE T # {}
    <3> DEFINE x == First(T)
    <3>1. x \in T
      BY <2>2 DEF First
    <3>2. T \ {x} \in G
      BY <1>1, <3>1
    <3>3. g[T] = f[x] + g[T \ {x}] /\ h[T] = f[x] + h[T \ {x}]
      BY <2>2 DEF Unfolds
    <3> HIDE DEF x
    <3> QED
      BY <3>2, <3>3
  <2> QED
    BY <2>1, <2>2
<1> HIDE DEF G
<1>2. \A T \in SUBSET S : T \in G
  BY <1>1, SetInductive
<1> QED
  BY <1>2 DEF G

\* There are such sums, of integers.
LEMMA SumsExist ==
    ASSUME NEW S, IsFiniteSet(S), NEW f, \A x \in S : f[x] \in Int
    PROVE  \E g : Sums(g, f, S)
<1> DEFINE G == {T \in SUBSET S : \E g : Sums(g, f, T)}
           Sum(U) == (CHOOSE g : Sums(g, f, U))[U]
<1>1. ASSUME NEW T \in SUBSET S, \A U \in SUBSET T : U # T => U \in G PROVE T \in G
  <2>1. ASSUME NEW U \in SUBSET T, U # T
        PROVE  /\ Sum(U) \in Int
               /\ U = {} => Sum(U) = 0
               /\ U # {} => Sum(U) = f[First(U)] + Sum(U \ {First(U)})
    <3> DEFINE g == CHOOSE g : Sums(g, f, U)
    <3>1. Sums(g, f, U)
      BY <1>1, <2>1
    <3>2. U # {} => Sum(U) = f[First(U)] + Sum(U \ {First(U)})
      <4> SUFFICES ASSUME U # {} PROVE Sum(U) = f[First(U)] + Sum(U \ {First(U)})
        OBVIOUS
      <4> DEFINE V == U \ {First(U)}
                 h == CHOOSE h : Sums(h, f, V)
      <4>1. First(U) \in U
        BY DEF First
      <4>2. V \in SUBSET T /\ V # T /\ V \in SUBSET U
        BY <4>1
      <4>3. Sums(h, f, V)
        BY <1>1, <4>2
      <4>4. IsFiniteSet(V)
        BY <4>2, FS_Subset
      <4>5. Unfolds(g, f, V) /\ Unfolds(h, f, V)
        BY <3>1, <4>2, <4>3 DEF Sums, Unfolds
      <4>6. g[V] = h[V]
        <5> HIDE DEF g, h, V
        <5> QED
          BY <4>4, <4>5, SumsAgree
      <4>7. g[U] = f[First(U)] + g[V]
        BY <3>1 DEF Sums, Unfolds
      <4> QED
        BY <4>6, <4>7
    <3> HIDE DEF g
    <3>3. g[U] \in Int /\ (U = {} => g[U] = 0)
      BY <3>1 DEF Sums, Unfolds
    <3> QED
      BY <3>2, <3>3 DEF g
  <2> HIDE DEF Sum
  <2>2. CASE T = {}
    <3> DEFINE g == [U \in SUBSET T |-> 0]
    <3>1. Sums(g, f, T)
      BY <2>2 DEF Sums, Unfolds
    <3> QED
      BY <3>1
  <2>3. CASE T # {}
    <3> DEFINE all == f[First(T)] + Sum(T \ {First(T)})
               g == [U \in SUBSET T |-> IF U = T THEN all ELSE Sum(U)]
    <3>1. First(T) \in T
      BY <2>3 DEF First
    <3>2. Sum(T \ {First(T)}) \in Int /\ f[First(T)] \in Int
      BY <2>1, <3>1
    <3>3. all \in Int
      BY <3>2
    <3> HIDE DEF all
    <3>4. g \in [SUBSET T -> Int]
      BY <2>1, <3>3
    <3>5. g[{}] = 0
      BY <2>1, <2>3
    <3>6. ASSUME NEW U \in SUBSET T, U # {}
          PROVE  g[U] = f[First(U)] + g[U \ {First(U)}]
      <4>1. First(U) \in U
        BY <3>6 DEF First
      <4>2. U \ {First(U)} \in SUBSET T /\ U \ {First(U)} # T
        BY <4>1
      <4>3. g[U \ {First(U)}] = Sum(U \ {First(U)})
        BY <4>2
      <4>4. CASE U = T
        BY <4>3, <4>4 DEF all
      <4>5. CASE U # T
        BY <2>1, <3>6, <4>3, <4>5
      <4> QED
        BY <4>4, <4>5
    <3> HIDE DEF g
    <3>7. Sums(g, f, T)
      BY <3>4, <3>5, <3>6 DEF Sums, Unfolds
    <3> QED
      BY <3>7
  <2> QED
    BY <2>2, <2>3
<1> HIDE DEF G
<1>2. \A T \in SUBSET S : T \in G
  BY <1>1, SetInductive
<1> QED
  BY <1>2 DEF G

\* The sum of the community modules is one of them.
LEMMA SumIs ==
    ASSUME NEW S, IsFiniteSet(S), NEW f, NEW g, Sums(g, f, S)
    PROVE  SumFunctionOnSet(f, S) = g[S]
<1> DEFINE Filled(it) ==
               [s \in SUBSET S |-> IF s = {} THEN 0
                                   ELSE LET x == CHOOSE x \in s : TRUE IN f[x] + it[s \ {x}]]
           iter == CHOOSE it : it = Filled(it)
<1>1. SumFunctionOnSet(f, S) = iter[S]
  BY DEF SumFunctionOnSet, FoldFunctionOnSet, MapThenFoldSet
<1>2. \A s \in SUBSET S :
         Filled(g)[s] = IF s = {} THEN 0 ELSE f[First(s)] + g[s \ {First(s)}]
  BY DEF First
<1>3. \A s \in SUBSET S :
         Filled(iter)[s] = IF s = {} THEN 0 ELSE f[First(s)] + iter[s \ {First(s)}]
  <2> HIDE DEF iter
  <2> QED
    BY DEF First
<1>4. g = Filled(g)
  <2>1. \A s \in SUBSET S : g[s] = Filled(g)[s]
    <3>1. \A s \in SUBSET S : g[s] = IF s = {} THEN 0 ELSE f[First(s)] + g[s \ {First(s)}]
      BY DEF Sums, Unfolds
    <3> QED
      BY <1>2, <3>1, Zenon
  <2> QED
    BY <2>1 DEF Sums
<1> HIDE DEF Filled
<1>5. iter = Filled(iter)
  BY <1>4
<1>6. Unfolds(iter, f, S)
  <2> HIDE DEF iter
  <2>1. \A s \in SUBSET S :
           iter[s] = IF s = {} THEN 0 ELSE f[First(s)] + iter[s \ {First(s)}]
    BY <1>5, <1>3, Zenon
  <2> QED
    BY <2>1 DEF Unfolds
<1> HIDE DEF iter
<1>7. iter[S] = g[S]
  BY <1>6, SumsAgree DEF Sums
<1> QED
  BY <1>1, <1>7

\* A sum over part of a set is among the sums over its subsets.
LEMMA SumOfPart ==
    ASSUME NEW S, IsFiniteSet(S), NEW f, NEW g, Sums(g, f, S), NEW T \in SUBSET S
    PROVE  SumFunctionOnSet(f, T) = g[T]
<1> DEFINE h == [U \in SUBSET T |-> g[U]]
<1>1. Sums(h, f, T)
  <2>1. h \in [SUBSET T -> Int] /\ h[{}] = 0
    BY DEF Sums, Unfolds
  <2>2. ASSUME NEW U \in SUBSET T, U # {} PROVE h[U] = f[First(U)] + h[U \ {First(U)}]
    BY <2>2 DEF Sums, Unfolds
  <2> QED
    BY <2>1, <2>2 DEF Sums, Unfolds
<1>2. IsFiniteSet(T) /\ h[T] = g[T]
  BY FS_Subset
<1> HIDE DEF h
<1> QED
  BY <1>1, <1>2, SumIs

\* Any element may be taken out first.
LEMMA AnyFirst ==
    ASSUME NEW S, IsFiniteSet(S), NEW f, \A x \in S : f[x] \in Int, NEW g, Sums(g, f, S)
    PROVE  \A T \in SUBSET S : \A x \in T : g[T] = f[x] + g[T \ {x}]
<1> DEFINE G == {T \in SUBSET S : \A x \in T : g[T] = f[x] + g[T \ {x}]}
<1>1. ASSUME NEW T \in SUBSET S, \A U \in SUBSET T : U # T => U \in G PROVE T \in G
  <2> SUFFICES ASSUME NEW x \in T PROVE g[T] = f[x] + g[T \ {x}]
    OBVIOUS
  <2> DEFINE c == First(T)
  <2>1. c \in T
    BY DEF First
  <2>2. g[T] = f[c] + g[T \ {c}]
    BY DEF Sums, Unfolds
  <2> HIDE DEF c
  <2>3. CASE c = x
    BY <2>2, <2>3
  <2>4. CASE c # x
    <3> DEFINE U == T \ {c}
               V == T \ {x}
               W == (T \ {c}) \ {x}
    <3>1. g[U] = f[x] + g[W]
      <4>1. U \in G /\ x \in U
        BY <1>1, <2>1, <2>4
      <4> QED
        BY <4>1
    <3>2. g[V] = f[c] + g[W]
      <4>1. V \in G /\ c \in V /\ V \ {c} = W
        BY <1>1, <2>1, <2>4
      <4> HIDE DEF U, W
      <4> QED
        BY <4>1
    <3>3. f[x] \in Int /\ f[c] \in Int /\ g[W] \in Int
      BY <2>1 DEF Sums
    <3> HIDE DEF U, V, W, G
    <3>4. g[T] = f[c] + g[U]
      BY <2>2 DEF U
    <3>5. g[T] = f[x] + g[V]
      BY <3>1, <3>2, <3>3, <3>4
    <3> QED
      BY <3>5 DEF V
  <2> QED
    BY <2>3, <2>4
<1> HIDE DEF G
<1>2. \A T \in SUBSET S : T \in G
  BY <1>1, SetInductive
<1> QED
  BY <1>2 DEF G

\* A sum is a number, and may be split at any element.
LEMMA SumSplits ==
    ASSUME NEW S, IsFiniteSet(S), NEW f, \A x \in S : f[x] \in Int
    PROVE  /\ SumFunctionOnSet(f, S) \in Int
           /\ S = {} => SumFunctionOnSet(f, S) = 0
           /\ \A x \in S : SumFunctionOnSet(f, S) = f[x] + SumFunctionOnSet(f, S \ {x})
<1>1. PICK g : Sums(g, f, S)
  BY SumsExist
<1>2. \A T \in SUBSET S : SumFunctionOnSet(f, T) = g[T]
  BY <1>1, SumOfPart
<1>3. \A x \in S : g[S] = f[x] + g[S \ {x}]
  BY <1>1, AnyFirst
<1>4. g[S] \in Int /\ g[{}] = 0
  BY <1>1 DEF Sums, Unfolds
<1> QED
  BY <1>2, <1>3, <1>4

\* Only what f says of the elements counts.
LEMMA SumAgrees ==
    ASSUME NEW S, IsFiniteSet(S), NEW f, NEW h, \A x \in S : f[x] \in Int /\ f[x] = h[x]
    PROVE  SumFunctionOnSet(f, S) = SumFunctionOnSet(h, S)
<1>1. PICK g : Sums(g, f, S)
  BY SumsExist
<1>2. Sums(g, h, S)
  <2>1. \A T \in SUBSET S : T # {} => First(T) \in S /\ f[First(T)] = h[First(T)]
    BY DEF First
  <2> QED
    BY <1>1, <2>1 DEF Sums, Unfolds
<1>3. SumFunctionOnSet(f, S) = g[S]
  BY <1>1, SumIs
<1>4. SumFunctionOnSet(h, S) = g[S]
  BY <1>2, SumIs
<1> QED
  BY <1>3, <1>4

-----------------------------------------------------------------------------
\* The worth of a card number

\* The tables are finite.
LEMMA TablesFinite ==
    ASSUME NEW d, IsDatabase(d)
    PROVE  /\ IsFiniteSet(DOMAIN d.cards) /\ IsFiniteSet(DOMAIN d.txns)
           /\ \A i \in DOMAIN d.cards : d.cards[i].bal \in Int
           /\ \A t \in DOMAIN d.txns : d.txns[t].amt \in Int
<1>1. d.nextCard - 1 \in Int /\ d.nextTxn - 1 \in Int
  BY BoundsAssumption DEF IsDatabase
<1>2. IsFiniteSet(1 .. d.nextCard - 1) /\ IsFiniteSet(1 .. d.nextTxn - 1)
  BY <1>1, FS_Interval
<1>3. DOMAIN d.cards \subseteq 1 .. d.nextCard - 1 /\ DOMAIN d.txns \subseteq 1 .. d.nextTxn - 1
  BY DEF IsDatabase, IsTable
<1>4. \A i \in DOMAIN d.cards : d.cards[i].bal \in Int
  BY DEF IsDatabase, IsTable, CardRows
<1>5. \A t \in DOMAIN d.txns : d.txns[t].amt \in Int
  BY DEF IsDatabase, IsTable, TxnRows
<1> QED
  BY <1>2, <1>3, <1>4, <1>5, FS_Subset

\* The balance of a card number is that of the card that has it, if one does.
LEMMA BalanceIs ==
    ASSUME NEW d, IsDatabase(d), ReferencesExist(d), NEW n
    PROVE  /\ CardsNumbered(d, n) = {} => Balance(d, n) = 0
           /\ \A i \in CardsNumbered(d, n) : Balance(d, n) = d.cards[i].bal
<1> DEFINE f == [i \in DOMAIN d.cards |-> d.cards[i].bal]
           C == CardsNumbered(d, n)
<1>1. C \subseteq DOMAIN d.cards /\ IsFiniteSet(C)
  BY TablesFinite, FS_Subset DEF CardsNumbered
<1>2. \A i \in C : f[i] = d.cards[i].bal /\ f[i] \in Int /\ C \ {i} = {}
  BY <1>1, TablesFinite DEF CardsNumbered, ReferencesExist
<1>3. Balance(d, n) = SumFunctionOnSet(f, C)
  BY DEF Balance
<1> HIDE DEF f, C
<1>4. C = {} => SumFunctionOnSet(f, C) = 0
  BY <1>1, <1>2, SumSplits
<1>5. SumFunctionOnSet(f, {}) = 0
  BY FS_EmptySet, SumSplits
<1>6. \A i \in C : SumFunctionOnSet(f, C) = f[i] + SumFunctionOnSet(f, C \ {i})
  BY <1>1, <1>2, SumSplits
<1>7. \A i \in C : SumFunctionOnSet(f, C) = d.cards[i].bal
  BY <1>2, <1>5, <1>6
<1> QED
  BY <1>3, <1>4, <1>7 DEF C

\* A credit is worth its amount, if there is a card to take it.
LEMMA CreditBalance ==
    ASSUME NEW d, IsDatabase(d), ReferencesExist(d), NEW m, CardsNumbered(d, m) # {},
           NEW a \in Int, NEW n
    PROVE  /\ Balance(d, n) \in Int
           /\ Balance(Credit(d, m, a), n) = Balance(d, n) + (IF n = m THEN a ELSE 0)
           /\ Spent(Credit(d, m, a), n) = Spent(d, n)
<1> DEFINE e == Credit(d, m, a)
<1>1. /\ IsDatabase(e) /\ ReferencesExist(e) /\ e.txns = d.txns
      /\ CardsNumbered(e, n) = CardsNumbered(d, n)
  BY CreditDatabase, CreditReferences
<1>2. Spent(e, n) = Spent(d, n)
  BY <1>1 DEF Spent, Approved
<1>3. CASE CardsNumbered(d, n) = {}
  BY <1>1, <1>2, <1>3, BalanceIs
<1>4. CASE CardsNumbered(d, n) # {}
  <2>1. PICK i : i \in CardsNumbered(d, n)
    BY <1>4
  <2>2. i \in DOMAIN d.cards /\ d.cards[i].num = n /\ d.cards[i] \in CardRows
    BY <2>1 DEF CardsNumbered, IsDatabase, IsTable
  <2>3. d.cards[i].bal \in Int
    BY <2>2 DEF CardRows
  <2>4. e.cards[i].bal = d.cards[i].bal + (IF n = m THEN a ELSE 0)
    BY <2>2, <2>3 DEF Credit, IsDatabase, CardRows
  <2>5. Balance(d, n) = d.cards[i].bal /\ Balance(e, n) = e.cards[i].bal
    BY <1>1, <2>1, BalanceIs
  <2> QED
    BY <1>2, <2>3, <2>4, <2>5
<1> QED
  BY <1>3, <1>4

\* What row t of the journal takes from card number n.
TakenBy(d, t, n) == IF t \in Approved(d, n) THEN d.txns[t].amt ELSE 0

\* What the other rows take.
SpentBeside(d, t, n) ==
    SumFunctionOnSet([u \in DOMAIN d.txns |-> d.txns[u].amt], Approved(d, n) \ {t})

\* Together they are what is spent.
LEMMA SpentParts ==
    ASSUME NEW d, IsDatabase(d), NEW t, NEW n
    PROVE  /\ SpentBeside(d, t, n) \in Int /\ TakenBy(d, t, n) \in Int
           /\ Spent(d, n) \in Int
           /\ Spent(d, n) = TakenBy(d, t, n) + SpentBeside(d, t, n)
<1> DEFINE f == [u \in DOMAIN d.txns |-> d.txns[u].amt]
           A == Approved(d, n)
<1>1. A \subseteq DOMAIN d.txns /\ IsFiniteSet(A) /\ IsFiniteSet(A \ {t})
  BY TablesFinite, FS_Subset DEF Approved
<1>2. \A u \in A : f[u] = d.txns[u].amt /\ f[u] \in Int
  BY <1>1, TablesFinite
<1>3. Spent(d, n) = SumFunctionOnSet(f, A) /\ SpentBeside(d, t, n) = SumFunctionOnSet(f, A \ {t})
  BY DEF Spent, SpentBeside
<1>4. TakenBy(d, t, n) = IF t \in A THEN f[t] ELSE 0
  BY <1>2 DEF TakenBy
<1> HIDE DEF f, A
<1>5. SumFunctionOnSet(f, A) \in Int /\ SumFunctionOnSet(f, A \ {t}) \in Int
  BY <1>1, <1>2, SumSplits
<1>6. t \in A => SumFunctionOnSet(f, A) = f[t] + SumFunctionOnSet(f, A \ {t})
  BY <1>1, <1>2, SumSplits
<1>7. t \notin A => SumFunctionOnSet(f, A \ {t}) = SumFunctionOnSet(f, A)
  <2> SUFFICES ASSUME t \notin A PROVE A \ {t} = A
    BY Zenon
  <2> QED
    OBVIOUS
<1>8. TakenBy(d, t, n) \in Int
  BY <1>2, <1>4
<1>9. Spent(d, n) = TakenBy(d, t, n) + SpentBeside(d, t, n)
  BY <1>3, <1>4, <1>5, <1>6, <1>7
<1> QED
  BY <1>3, <1>5, <1>8, <1>9

\* Writing one row of the journal changes what is spent by what it took before
\* and what it takes then.
LEMMA SpentChanges ==
    ASSUME NEW d, IsDatabase(d), NEW e, IsDatabase(e), NEW t, NEW row,
           e.txns = Put(d.txns, t, row), NEW n
    PROVE  /\ Spent(e, n) = (Spent(d, n) - TakenBy(d, t, n))
                              + (IF row.num = n /\ row.ok THEN row.amt ELSE 0)
           /\ Spent(d, n) \in Int /\ Spent(e, n) \in Int /\ TakenBy(d, t, n) \in Int
<1> DEFINE f == [u \in DOMAIN d.txns |-> d.txns[u].amt]
           h == [u \in DOMAIN e.txns |-> e.txns[u].amt]
           S == Approved(d, n) \ {t}
<1>1. \A u : u # t => (u \in DOMAIN e.txns <=> u \in DOMAIN d.txns)
  BY DEF Put
<1>2. \A u \in DOMAIN d.txns : u # t => e.txns[u] = d.txns[u]
  BY DEF Put
<1>3. t \in DOMAIN e.txns /\ e.txns[t] = row
  BY DEF Put
<1>4. Approved(e, n) \ {t} = S
  BY <1>1, <1>2 DEF Approved
<1>5. \A u \in S : f[u] \in Int /\ f[u] = h[u]
  BY <1>1, <1>2, TablesFinite DEF Approved
<1>6. IsFiniteSet(S)
  BY TablesFinite, FS_Subset DEF Approved
<1>7. SpentBeside(d, t, n) = SumFunctionOnSet(f, S) /\ SpentBeside(e, t, n) = SumFunctionOnSet(h, S)
  BY <1>4 DEF SpentBeside
<1> HIDE DEF f, h, S
<1>8. SpentBeside(e, t, n) = SpentBeside(d, t, n)
  BY <1>5, <1>6, <1>7, SumAgrees
<1>9. TakenBy(e, t, n) = IF row.num = n /\ row.ok THEN row.amt ELSE 0
  BY <1>3 DEF TakenBy, Approved
<1> QED
  BY <1>8, <1>9, SpentParts

\* A payment request that takes effect moves money between a balance and the
\* journal, and neither makes nor loses any.
LEMMA EffectConserves ==
    ASSUME NEW d, IsDatabase(d), ReferencesExist(d), NEW r \in Requests, NEW s, NEW o, NEW e,
           Effect(r, s, o, d, e), r.op \in {"authorize", "createTxn", "updateTxn"}, NEW n
    PROVE  Worth(e, n) = Worth(d, n)
<1> DEFINE Charge(ok) == IF ok /\ n = r.num THEN r.amt ELSE 0
<1>1. CASE e = d
  BY <1>1
<1>2. ASSUME NEW ok \in BOOLEAN, TxnRoom(d), CardsNumbered(d, r.num) # {},
             e = InsertTxn(IF ok THEN Credit(d, r.num, -r.amt) ELSE d, RowOf(r, ok))
      PROVE  Worth(e, n) = Worth(d, n)
  <2> DEFINE c == IF ok THEN Credit(d, r.num, -r.amt) ELSE d
             row == RowOf(r, ok)
             id == d.nextTxn
  <2>1. r.amt \in Int /\ -r.amt \in Int /\ row \in TxnRows
    BY AmountTyped, RowTyped
  <2>2. IsDatabase(c) /\ c.txns = d.txns /\ c.nextTxn = d.nextTxn
    BY <2>1, CreditDatabase
  <2>3. /\ Balance(c, n) = Balance(d, n) - Charge(ok) /\ Spent(c, n) = Spent(d, n)
        /\ Balance(d, n) \in Int
    BY <1>2, <2>1, CreditBalance
  <2>4. e = InsertTxn(c, row)
    BY <1>2
  <2> HIDE DEF c, row
  <2>5. IsDatabase(e)
    BY <2>1, <2>2, <2>4, <1>2, InsertTxnDatabase DEF TxnRoom
  <2>6. e.txns = Put(c.txns, id, row) /\ e.cards = c.cards
    BY <2>2, <2>4 DEF InsertTxn, IsDatabase
  <2>7. Balance(e, n) = Balance(c, n)
    BY <2>6 DEF Balance, CardsNumbered
  <2>8. TakenBy(c, id, n) = 0
    BY <2>2 DEF TakenBy, Approved, IsDatabase, IsTable
  <2>9. (IF row.num = n /\ row.ok THEN row.amt ELSE 0) = Charge(ok)
    BY DEF row, RowOf
  <2>10. Spent(e, n) = Spent(c, n) + Charge(ok) /\ Spent(c, n) \in Int
    BY <2>2, <2>5, <2>6, <2>8, <2>9, SpentChanges
  <2>11. Charge(ok) \in Int
    BY <2>1
  <2> HIDE DEF Charge
  <2> QED
    BY <2>3, <2>7, <2>10, <2>11 DEF Worth
<1>3. CASE r.op = "updateTxn" /\ Amended(r, d, e)
  <2> DEFINE t == r.txn
             old == d.txns[t]
             b == Refunded(d, t)
             c == Recharged(r, d)
             row == RowOf(r, r.ok)
             Back == IF old.ok /\ n = old.num THEN old.amt ELSE 0
  <2>1. r.amt \in Int /\ -r.amt \in Int /\ r.ok \in BOOLEAN /\ row \in TxnRows
    BY <1>3, AmountTyped, RowTyped, RequestShapes DEF AmendRequests
  <2>2. /\ t \in DOMAIN d.txns /\ CardsNumbered(d, r.num) # {}
        /\ e = SetTxn(c, t, row)
    BY <1>3 DEF Amended
  <2>3. old.amt \in Int /\ old.ok \in BOOLEAN /\ CardsNumbered(d, old.num) # {}
    BY <2>2, RefundedDatabase DEF ReferencesExist, TxnKeysExist
  <2>4. /\ IsDatabase(b) /\ ReferencesExist(b) /\ b.txns = d.txns
        /\ CardsNumbered(b, r.num) # {}
    BY <2>2, RefundedDatabase
  <2>5. /\ Balance(b, n) = Balance(d, n) + Back /\ Spent(b, n) = Spent(d, n)
        /\ Balance(d, n) \in Int
    BY <2>3, CreditBalance DEF Refunded
  <2>6. IsDatabase(c) /\ c.txns = d.txns
    BY <1>3, <2>2, RechargedDatabase
  <2>7. Balance(c, n) = Balance(b, n) - Charge(r.ok) /\ Spent(c, n) = Spent(b, n)
    BY <2>1, <2>4, CreditBalance DEF Recharged
  <2>8. TakenBy(c, t, n) = Back
    BY <2>2, <2>3, <2>6 DEF TakenBy, Approved
  <2>9. (IF row.num = n /\ row.ok THEN row.amt ELSE 0) = Charge(r.ok)
    BY DEF RowOf
  <2>10. Charge(r.ok) \in Int /\ Back \in Int
    BY <2>1, <2>3
  <2> HIDE DEF b, c, row, Back, Charge
  <2>11. IsDatabase(e)
    BY <2>1, <2>2, <2>6, SetTxnDatabase
  <2>12. e.txns = Put(c.txns, t, row) /\ e.cards = c.cards
    BY <2>2, <2>6 DEF SetTxn, IsDatabase
  <2>13. Balance(e, n) = Balance(c, n)
    BY <2>12 DEF Balance, CardsNumbered
  <2>14. Spent(e, n) = (Spent(c, n) - Back) + Charge(r.ok) /\ Spent(c, n) \in Int
    BY <2>6, <2>8, <2>9, <2>11, <2>12, SpentChanges
  <2> QED
    BY <2>5, <2>7, <2>10, <2>13, <2>14 DEF Worth
<1>4. CASE r.op = "authorize" /\ (Authorized(r, d, e) \/ Declined(r, d, e))
  BY <1>2, <1>4 DEF Authorized, Declined
<1>5. CASE r.op = "createTxn" /\ Recorded(r, d, e)
  <2>1. r.ok \in BOOLEAN
    BY <1>5, RequestShapes DEF CreateRequests
  <2> QED
    BY <1>2, <1>5, <2>1 DEF Recorded
<1> QED
  BY <1>1, <1>3, <1>4, <1>5 DEF Effect
=============================================================================
