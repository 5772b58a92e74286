--------------------------- MODULE PaymentServer ---------------------------
(***************************************************************************)
(* The lab2 HTTP server (src/lab2/internal/http) at the grain at which its *)
(* requests interleave: one action per SQL statement a handler issues.     *)
(* Every request runs in a goroutine of its own, a worker here, with its   *)
(* own connection to one SQLite file in rollback-journal mode.             *)
(*                                                                         *)
(* SQLite's file lock is modelled from how the handlers use it.  A read    *)
(* inside a transaction takes SHARED and keeps it; the first write takes   *)
(* RESERVED, which one connection at a time can hold; COMMIT takes PENDING *)
(* (no new reader) and waits until it is alone.  A connection that already *)
(* reads and finds RESERVED taken is told SQLITE_BUSY at once; one that    *)
(* holds nothing waits for up to five seconds, and then is told the same.  *)
(* Uncommitted pages belong to the one writer: dirty.                      *)
(***************************************************************************)
EXTENDS Ledger

CONSTANT NoLocals    \* a handler that has read nothing it needs later

VARIABLES
    db,     \* the database file: what is committed
    dirty,  \* what the holder of RESERVED or PENDING will commit, else db
    lock,   \* the file lock of each worker's connection
    pc,     \* the next statement of each worker
    req,    \* the request it serves
    old,    \* what an earlier SELECT of the handler put in its locals
    out     \* the outcome its client is told

vars == <<db, dirty, lock, pc, req, old, out>>

PCs == {"idle", "start", "debit", "decline", "journal", "refund", "redebit",
        "rewrite", "write", "listing", "commit", "commitDeclined", "answer",
        "answerDeclined"}
Locks == {"none", "shared", "reserved", "pending"}

-----------------------------------------------------------------------------
\* The file lock
Others(w) == Workers \ {w}
WriteLocks == {"reserved", "pending"}
CanRead(w) == \A v \in Others(w) : lock[v] # "pending"
CanWrite(w) == \A v \in Others(w) : lock[v] \notin WriteLocks
Alone(w) == \A v \in Others(w) : lock[v] = "none"

\* What worker w reads: its own uncommitted writes, or the file.
Seen(w) == IF lock[w] \in WriteLocks THEN dirty ELSE db

\* The uncommitted pages once w has given up its own.
Unwritten(w) == IF lock[w] \in WriteLocks THEN db ELSE dirty

Goto(w, label) == pc' = [pc EXCEPT ![w] = label]

\* Fault: the handler reads through the pool, outside its transaction.
SelectedOutsideTx(w, label) ==
    Goto(w, label) /\ UNCHANGED <<db, dirty, lock, req, out>>

\* A SELECT inside a transaction: SHARED is kept, and the handler goes on.
Selected(w, label) ==
    /\ lock' = [lock EXCEPT ![w] = "shared"]
    /\ Goto(w, label)
    /\ UNCHANGED <<db, dirty, req, out>>

\* A write statement: e is what it makes of the database.
Wrote(w, e, label) ==
    /\ dirty' = e
    /\ lock' = [lock EXCEPT ![w] = "reserved"]
    /\ Goto(w, label)
    /\ UNCHANGED <<db, req, out, old>>

\* The request is over: the handler returns with outcome o.
Return(w, o) ==
    /\ out' = [out EXCEPT ![w] = o]
    /\ lock' = [lock EXCEPT ![w] = "none"]
    /\ req' = [req EXCEPT ![w] = NoRequest]
    /\ old' = [old EXCEPT ![w] = NoLocals]
    /\ Goto(w, "idle")

\* Fault: the deferred Rollback is missing, and the connection keeps its lock.
FinishWithoutRollback(w, o) ==
    /\ out' = [out EXCEPT ![w] = o]
    /\ req' = [req EXCEPT ![w] = NoRequest]
    /\ old' = [old EXCEPT ![w] = NoLocals]
    /\ Goto(w, "idle")
    /\ UNCHANGED <<db, dirty, lock>>

\* It returns without a commit: the deferred Rollback, or the end of the
\* autocommit statement, gives up the uncommitted pages.
Finish(w, o) ==
    /\ Return(w, o)
    /\ dirty' = Unwritten(w)
    /\ UNCHANGED db

\* Worker w serves a request for handler h and is at statement label.
At(w, h, label) == pc[w] = label /\ req[w].op = h

-----------------------------------------------------------------------------
\* Requests a handler refuses before it touches the database: a negative
\* amount, another user as the owner of a card, a regular user's terminal.
RefusedUnread(r) ==
    \/ r.op \in {"createTxn", "updateTxn"} /\ r.amt < 0
    \/ r.op = "createCard" /\ r.usr \notin Admins /\ r.own \notin {Absent, r.usr}
    \/ r.op \in {"createTerminal", "deleteTerminal"} /\ r.usr \notin Admins

\* The handlers whose first statement is the write.
WritesFirst(r) ==
    \/ r.op \in {"createTerminal", "deleteTerminal"}
    \/ r.op \in {"deleteTxn", "deleteCard"} /\ r.usr \in Admins

\* A request arrives: router and authMiddleware hand it to its handler with
\* the claims of its token.
Accept(w, r) ==
    /\ pc[w] = "idle"
    /\ IF RefusedUnread(r)
         THEN out' = [out EXCEPT ![w] = "refused"] /\ UNCHANGED <<pc, req>>
         ELSE /\ req' = [req EXCEPT ![w] = r]
              /\ out' = [out EXCEPT ![w] = "pending"]
              /\ Goto(w, IF WritesFirst(r) THEN "write" ELSE "start")
    /\ UNCHANGED <<db, dirty, lock, old>>

-----------------------------------------------------------------------------
\* POST /terminal/authorize

\* The two SELECTs: terminal and card are read in one transaction.
AuthorizeRead(w) ==
    LET r == req[w]
        mine == {i \in CardsNumbered(db, r.num) : MayUse(r.usr, db, i)}
    IN
    /\ At(w, "authorize", "start") /\ CanRead(w)
    /\ \/ (r.term \notin db.terms \/ mine = {}) /\ Finish(w, "declined")
       \/ /\ r.term \in db.terms
          /\ \E i \in mine :
                IF db.cards[i].blk \/ db.cards[i].bal < r.amt
                  THEN Selected(w, "decline")
                  ELSE Selected(w, "debit")
          /\ UNCHANGED old

\* Blocked or too poor: the INSERT's error is ignored, and then the COMMIT's.
AuthorizeDecline(w) ==
    /\ At(w, "authorize", "decline")
    /\ IF CanWrite(w) /\ TxnKeysExist(db, RowOf(req[w], FALSE)) /\ TxnRoom(db)
         THEN Wrote(w, InsertTxn(db, RowOf(req[w], FALSE)), "commitDeclined")
         ELSE Finish(w, "declined")

\* UPDATE cards SET balance = balance - ?, in authorizePayment and createTransaction
Debit(w) ==
    /\ pc[w] = "debit"
    /\ IF CanWrite(w)
         THEN Wrote(w, Credit(Seen(w), req[w].num, -req[w].amt), "journal")
         ELSE Finish(w, "failed")

\* Fault: the error of the INSERT is ignored, as authorizePayment's decline does.
JournalErrorIgnored(w) ==
    LET row == RowOf(req[w], req[w].op = "authorize" \/ req[w].ok) IN
    /\ pc[w] = "journal"
    /\ IF CanWrite(w) /\ TxnKeysExist(Seen(w), row) /\ TxnRoom(Seen(w))
         THEN Wrote(w, InsertTxn(Seen(w), row), "commit")
         ELSE Goto(w, "commit") /\ UNCHANGED <<db, dirty, lock, req, old, out>>

\* INSERT INTO transactions, in authorizePayment and createTransaction
Journal(w) ==
    LET row == RowOf(req[w], req[w].op = "authorize" \/ req[w].ok) IN
    /\ pc[w] = "journal"
    /\ IF CanWrite(w) /\ TxnKeysExist(Seen(w), row) /\ TxnRoom(Seen(w))
         THEN Wrote(w, InsertTxn(Seen(w), row), "commit")
         ELSE Finish(w, "failed")

-----------------------------------------------------------------------------
\* POST /transactions
CreateTxnRead(w) ==
    LET r == req[w]
        mine == {i \in CardsNumbered(db, r.num) : MayUse(r.usr, db, i)}
    IN
    /\ At(w, "createTxn", "start") /\ CanRead(w)
    /\ \/ /\ \A i \in mine : r.ok /\ db.cards[i].bal < r.amt
          /\ Finish(w, "refused")
       \/ /\ \E i \in mine : r.ok => db.cards[i].bal >= r.amt
          /\ Selected(w, IF r.ok THEN "debit" ELSE "journal")
          /\ UNCHANGED old

-----------------------------------------------------------------------------
\* PUT /transactions/{id}

\* The SELECTs of the transaction, of its owner and of the new card.
UpdateTxnRead(w) ==
    LET r == req[w] IN
    /\ At(w, "updateTxn", "start") /\ CanRead(w)
    /\ IF /\ r.txn \in DOMAIN db.txns
          /\ MayUseTxn(r.usr, db, r.txn)
          /\ \E i \in CardsNumbered(db, r.num) : MayUse(r.usr, db, i)
         THEN /\ old' = [old EXCEPT ![w] = db.txns[r.txn]]
              /\ Selected(w, IF db.txns[r.txn].ok THEN "refund"
                             ELSE IF r.ok THEN "redebit" ELSE "rewrite")
         ELSE Finish(w, "refused")

\* Fault: the new amount is given back instead of the old one.
RefundNewAmount(w) ==
    /\ pc[w] = "refund"
    /\ IF CanWrite(w)
         THEN Wrote(w, Credit(Seen(w), old[w].num, req[w].amt),
                    IF req[w].ok THEN "redebit" ELSE "rewrite")
         ELSE Finish(w, "failed")

\* The old amount goes back to the old card.
UpdateTxnRefund(w) ==
    /\ pc[w] = "refund"
    /\ IF CanWrite(w)
         THEN Wrote(w, Credit(Seen(w), old[w].num, old[w].amt),
                    IF req[w].ok THEN "redebit" ELSE "rewrite")
         ELSE Finish(w, "failed")

\* The balance is read again, and the new amount taken from the new card.
UpdateTxnDebit(w) ==
    LET r == req[w] IN
    /\ pc[w] = "redebit"
    /\ IF \A i \in CardsNumbered(Seen(w), r.num) : Seen(w).cards[i].bal < r.amt
         THEN Finish(w, "refused")
         ELSE IF CanWrite(w)
           THEN Wrote(w, Credit(Seen(w), r.num, -r.amt), "rewrite")
           ELSE Finish(w, "failed")

UpdateTxnRewrite(w) ==
    LET r == req[w] IN
    /\ pc[w] = "rewrite"
    /\ IF CanWrite(w) /\ TxnKeysExist(Seen(w), RowOf(r, r.ok))
         THEN Wrote(w, SetTxn(Seen(w), r.txn, RowOf(r, r.ok)), "commit")
         ELSE Finish(w, "failed")

-----------------------------------------------------------------------------
\* The handlers without a transaction check first and write later, each in an
\* autocommit statement: no lock is held in between.

\* The check passed: go on to the write, holding nothing.
Checked(w) == Goto(w, "write") /\ UNCHANGED <<db, dirty, lock, req, out>>

\* An autocommit write takes RESERVED and commits; a constraint fails it.
Autocommit(w, allowed, e) ==
    /\ CanWrite(w)
    /\ IF allowed THEN Wrote(w, e, "commit") ELSE Finish(w, "refused")

\* The owner read here decides what the handler may do, and what updateCard
\* writes back as user_id.
OwnerRead(w, permits(_)) ==
    \/ \E o \in Shown(req[w], db) :
          permits(o) /\ old' = [old EXCEPT ![w] = o] /\ Checked(w)
    \/ (\A o \in Shown(req[w], db) : ~permits(o)) /\ Finish(w, "refused")

\* DELETE /transactions/{id}: only a regular user's request reads the owner.
DeleteTxnCheck(w) ==
    /\ At(w, "deleteTxn", "start") /\ CanRead(w)
    /\ OwnerRead(w, LAMBDA o : o = req[w].usr)

DeleteTxnWrite(w) ==
    At(w, "deleteTxn", "write") /\ Autocommit(w, TRUE, DropTxn(db, req[w].txn))

\* POST /cards: the owner is looked up, then the card inserted.
CreateCardCheck(w) ==
    At(w, "createCard", "start") /\ CanRead(w) /\ Checked(w) /\ UNCHANGED old

CreateCardWrite(w) ==
    LET r == req[w]
        owner == IF r.usr \in Admins /\ r.own # Absent THEN r.own ELSE r.usr
        row == [num |-> r.num, bal |-> r.bal, blk |-> r.blk, own |-> owner]
    IN
    /\ At(w, "createCard", "write")
    /\ Autocommit(w, NumberFree(db, db.nextCard, r.num) /\ CardRoom(db),
                  InsertCard(db, row))

\* Fault: the owner that was read is not compared with the caller.
UpdateCardUnchecked(w) ==
    /\ At(w, "updateCard", "start") /\ CanRead(w)
    /\ OwnerRead(w, LAMBDA o : TRUE)

\* PUT /cards/{id}
UpdateCardCheck(w) ==
    /\ At(w, "updateCard", "start") /\ CanRead(w)
    /\ OwnerRead(w, LAMBDA o : MayEdit(req[w], o))

UpdateCardWrite(w) ==
    LET r == req[w]
        owner == IF r.usr \in Admins /\ r.own # Absent THEN r.own ELSE old[w]
        row == [num |-> r.num, bal |-> r.bal, blk |-> r.blk, own |-> owner]
    IN
    /\ At(w, "updateCard", "write")
    /\ Autocommit(w, CardUpdateAllowed(db, r.card, r.num), SetCard(db, r.card, row))

\* DELETE /cards/{id}
DeleteCardCheck(w) ==
    /\ At(w, "deleteCard", "start") /\ CanRead(w)
    /\ OwnerRead(w, LAMBDA o : o = req[w].usr)

DeleteCardWrite(w) ==
    /\ At(w, "deleteCard", "write")
    /\ Autocommit(w, ~CardReferenced(db, req[w].card), DropCard(db, req[w].card))

\* POST and DELETE /terminals, for administrators
CreateTerminal(w) ==
    LET s == req[w].term IN
    /\ At(w, "createTerminal", "write")
    /\ Autocommit(w, s \notin db.terms, [db EXCEPT !.terms = db.terms \cup {s}])

DeleteTerminal(w) ==
    LET s == req[w].term IN
    /\ At(w, "deleteTerminal", "write")
    /\ Autocommit(w, ~TerminalReferenced(db, s), [db EXCEPT !.terms = db.terms \ {s}])

\* The GET handlers read row by row under one SHARED lock.
ListOpen(w) ==
    At(w, "list", "start") /\ CanRead(w) /\ Selected(w, "listing") /\ UNCHANGED old
ListClose(w) == pc[w] = "listing" /\ Finish(w, "done")

-----------------------------------------------------------------------------
\* COMMIT, explicit or at the end of an autocommit statement

CommitPCs == {"commit", "commitDeclined"}
AnswerPCs == {"answer", "answerDeclined"}

\* What the handler answers once its commit has succeeded.
AnswerAt(label, r) == IF label \in {"commitDeclined", "answerDeclined"} THEN "declined"
                      ELSE IF r.op = "authorize" THEN "approved" ELSE "done"
Answer(w) == AnswerAt(pc[w], req[w])

CommitBegin(w) ==
    /\ pc[w] \in CommitPCs /\ lock[w] = "reserved"
    /\ lock' = [lock EXCEPT ![w] = "pending"]
    /\ UNCHANGED <<db, dirty, pc, req, old, out>>

\* The pages are in the file and the lock is given up; nobody has been told yet.
CommitEnd(w) ==
    /\ pc[w] \in CommitPCs /\ lock[w] = "pending" /\ Alone(w)
    /\ db' = dirty
    /\ lock' = [lock EXCEPT ![w] = "none"]
    /\ Goto(w, IF pc[w] = "commit" THEN "answer" ELSE "answerDeclined")
    /\ UNCHANGED <<dirty, req, old, out>>

\* writeJSON, after the commit
Reply(w) ==
    /\ pc[w] \in AnswerPCs
    /\ Return(w, Answer(w))
    /\ UNCHANGED <<db, dirty>>

\* Fault: no handler looks at the error of Commit.
CommitErrorIgnored(w) ==
    /\ pc[w] \in CommitPCs /\ lock[w] = "pending" /\ ~Alone(w)
    /\ Finish(w, Answer(w))

\* The readers did not go away in time: everything is rolled back, and only
\* the decline path does not look at the error.
CommitBusy(w) ==
    /\ pc[w] \in CommitPCs /\ lock[w] = "pending" /\ ~Alone(w)
    /\ Finish(w, IF pc[w] = "commitDeclined" THEN "declined" ELSE "failed")

\* Five seconds have passed in a statement of a connection without a lock.
\* authorizePayment takes any error of its first SELECT for an unknown terminal.
WaitTimeout(w) ==
    /\ \/ pc[w] = "start" /\ ~CanRead(w)
       \/ pc[w] = "write" /\ ~CanWrite(w)
    /\ Finish(w, IF req[w].op = "authorize" THEN "declined" ELSE "failed")

\* The client goes away: the request's context ends a transaction that is still
\* open, but nothing takes back one that has been committed.  Either way nobody is
\* there to be told.
Cancel(w) ==
    \/ /\ pc[w] \notin {"idle"} \cup AnswerPCs /\ lock[w] # "pending"
       /\ req[w].op \in {"authorize", "createTxn", "updateTxn"}
       /\ Finish(w, "lost")
    \/ /\ pc[w] \in AnswerPCs
       /\ Return(w, "lost")
       /\ UNCHANGED <<db, dirty>>

\* The process stops, at a crash or when Shutdown has waited long enough; the
\* next one rolls the hot journal back.
Crash ==
    /\ out' = [w \in Workers |-> IF out[w] = "pending" THEN "lost" ELSE out[w]]
    /\ pc' = [w \in Workers |-> "idle"]
    /\ lock' = [w \in Workers |-> "none"]
    /\ req' = [w \in Workers |-> NoRequest]
    /\ old' = [w \in Workers |-> NoLocals]
    /\ dirty' = db
    /\ UNCHANGED db

-----------------------------------------------------------------------------
Init ==
    /\ db = InitialDb
    /\ dirty = InitialDb
    /\ lock = [w \in Workers |-> "none"]
    /\ pc = [w \in Workers |-> "idle"]
    /\ req = [w \in Workers |-> NoRequest]
    /\ old = [w \in Workers |-> NoLocals]
    /\ out = [w \in Workers |-> "none"]

\* The next statement of worker w's handler.
Step(w) ==
    \/ AuthorizeRead(w) \/ AuthorizeDecline(w) \/ Debit(w) \/ Journal(w)
    \/ CreateTxnRead(w)
    \/ UpdateTxnRead(w) \/ UpdateTxnRefund(w) \/ UpdateTxnDebit(w) \/ UpdateTxnRewrite(w)
    \/ DeleteTxnCheck(w) \/ DeleteTxnWrite(w)
    \/ CreateCardCheck(w) \/ CreateCardWrite(w)
    \/ UpdateCardCheck(w) \/ UpdateCardWrite(w)
    \/ DeleteCardCheck(w) \/ DeleteCardWrite(w)
    \/ CreateTerminal(w) \/ DeleteTerminal(w)
    \/ ListOpen(w) \/ ListClose(w)
    \/ CommitBegin(w) \/ CommitEnd(w) \/ Reply(w) \/ CommitBusy(w) \/ WaitTimeout(w)

Next ==
    \/ \E w \in Workers : Step(w) \/ Cancel(w) \/ \E r \in Requests : Accept(w, r)
    \/ Crash

Spec == Init /\ [][Next]_vars

\* A goroutine that can run does run, and a wait for the file ends.
Fairness == \A w \in Workers : WF_vars(Step(w))
FairSpec == Spec /\ Fairness

-----------------------------------------------------------------------------
\* Properties

\* A request of the service takes effect when its worker commits; what it has done
\* is settled from there on, and told by Reply.
Settled == [w \in Workers |-> IF pc[w] \in AnswerPCs THEN Answer(w) ELSE "none"]
S == INSTANCE AtomicService WITH seen <- old, verdict <- Settled, Nothing <- NoLocals

TypeOK ==
    /\ IsDatabase(db) /\ IsDatabase(dirty)
    /\ lock \in [Workers -> Locks]
    /\ pc \in [Workers -> PCs]
    /\ req \in [Workers -> Requests \cup {NoRequest}]
    /\ old \in [Workers -> TxnRows \cup Users \cup {NoLocals}]
    /\ out \in [Workers -> S!Outcomes]

\* What a handler decided on when it read is still so when it writes: until its
\* transaction ends, no other request has changed the card it found able to
\* pay, or unable to, or the transaction it is replacing (the checks at
\* terminal_api_handler.go:45-51 and transactions_handler.go:96, 155).
DecisionsStand ==
    \A w \in Workers :
        LET r == req[w]
            mine == {i \in CardsNumbered(db, r.num) : MayUse(r.usr, db, i)}
        IN
        /\ pc[w] = "debit" =>
              \E i \in mine : /\ db.cards[i].bal >= r.amt
                              /\ r.op = "authorize" => ~db.cards[i].blk
        /\ pc[w] = "decline" =>
              \E i \in mine : db.cards[i].blk \/ db.cards[i].bal < r.amt
        /\ pc[w] \in {"refund", "redebit", "rewrite"} =>
              r.txn \in DOMAIN db.txns /\ old[w] = db.txns[r.txn]

\* Where a handler stands between its statements: what it knows of the committed
\* database d, and what its uncommitted pages e have become, at statement label
\* with lock k, request r and locals o.
CanPay(r, d) ==
    /\ \E i \in CardsNumbered(d, r.num) :
        /\ MayUse(r.usr, d, i) /\ d.cards[i].bal >= r.amt
        /\ r.op = "authorize" => ~d.cards[i].blk
    /\ r.op = "authorize" => r.term \in d.terms
    /\ r.op \in {"authorize", "createTxn"}
    /\ r.op = "createTxn" => r.ok

CanAmend(r, d, o) ==
    /\ r.op = "updateTxn"
    /\ r.txn \in DOMAIN d.txns /\ o = d.txns[r.txn] /\ MayUseTxn(r.usr, d, r.txn)
    /\ \E i \in CardsNumbered(d, r.num) : MayUse(r.usr, d, i)

CanRecharge(r, d) ==
    \E i \in CardsNumbered(Refunded(d, r.txn), r.num) :
        Refunded(d, r.txn).cards[i].bal >= r.amt

Stands(label, k, r, o, d, e) ==
    /\ label # "idle" => r \in Requests /\ ~RefusedUnread(r)
    /\ label \in {"idle", "start"} => o = NoLocals
    /\ label = "debit" => k = "shared" /\ CanPay(r, d)
    /\ label = "decline" =>
          /\ k = "shared" /\ r.op = "authorize" /\ r.term \in d.terms
          /\ \E i \in CardsNumbered(d, r.num) :
                MayUse(r.usr, d, i) /\ (d.cards[i].blk \/ d.cards[i].bal < r.amt)
    /\ label = "journal" =>
          \/ k = "reserved" /\ CanPay(r, d) /\ e = Credit(d, r.num, -r.amt)
          \/ /\ k = "shared" /\ r.op = "createTxn" /\ ~r.ok
             /\ \E i \in CardsNumbered(d, r.num) : MayUse(r.usr, d, i)
    /\ label = "refund" => k = "shared" /\ CanAmend(r, d, o) /\ o.ok
    /\ label = "redebit" =>
          /\ CanAmend(r, d, o) /\ r.ok
          /\ IF o.ok THEN k = "reserved" /\ e = Refunded(d, r.txn) ELSE k = "shared"
    /\ label = "rewrite" =>
          /\ CanAmend(r, d, o) /\ (r.ok => CanRecharge(r, d))
          /\ IF o.ok \/ r.ok THEN k = "reserved" /\ e = Recharged(r, d) ELSE k = "shared"
    /\ label = "write" /\ r.op \in {"updateCard", "deleteCard", "deleteTxn"} =>
          MayWrite(r, o)
    /\ label = "listing" => k = "shared" /\ r.op = "list"
    /\ label \in CommitPCs =>
          k \in WriteLocks /\ Effect(r, o, AnswerAt(label, r), d, e)

\* The uncommitted pages of a request are at each statement what the request has
\* made so far of the database as it is now committed, and at its commit they
\* are its whole effect: nobody else's work is in them, and none is lost.
WorkStands ==
    \A w \in Workers : Stands(pc[w], lock[w], req[w], old[w], db, dirty)

\* Uncommitted pages have exactly one owner, who holds RESERVED or PENDING; a
\* worker that serves nothing holds no lock, whichever way its handler returned.
LocksOwned ==
    /\ \A v, w \in Workers : lock[v] \in WriteLocks /\ lock[w] \in WriteLocks => v = w
    /\ (\A w \in Workers : lock[w] \notin WriteLocks) => dirty = db
    /\ \A w \in Workers :
          pc[w] \in {"idle", "start", "write"} \cup AnswerPCs <=> lock[w] = "none"

\* The committed journal and cards refer to rows that exist.
ReferentialIntegrity == ReferencesExist(db)

PaymentOps == {"authorize", "createTxn", "updateTxn"}

\* Worker w commits: its request takes effect, whether its client learns of it or not.
Commits(w) == Settled[w] = "none" /\ Settled'[w] # "none"

\* Payments move money between balances and the journal and make or lose none:
\* each step that completes a payment leaves the worth of every card number as
\* it was, whatever the other handlers were doing (authorizePayment,
\* createTransaction, updateTransaction).
PaymentsConserve ==
    [][\A w \in Workers : Commits(w) /\ req[w].op \in PaymentOps =>
         \A n \in Numbers : Worth(db', n) = Worth(db, n)]_vars

\* A card that pays can afford it: the step that completes an approved payment
\* leaves the card it charges with no negative balance ("insufficient funds").
ChargesCovered ==
    \A w \in Workers :
        /\ Commits(w) /\ req[w].op \in PaymentOps
        /\ IF req[w].op = "authorize" THEN Settled'[w] = "approved" ELSE req[w].ok
        => \A i \in CardsNumbered(db', req[w].num) : db'.cards[i].bal >= 0
NoOverdraft == [][ChargesCovered]_vars

\* Statement by statement and lock by lock, the handlers do what AtomicService does
\* in one step each: a request takes effect at one instant, at most once, and an
\* answer that is given says what it did; one whose client or process is gone may
\* have taken effect all the same.  Payments are judged by the database they change.
\* The edits and deletions of a regular user are judged by the owner they read
\* before (Look): that it may no longer be the owner is EditsOwnCard, below.
ImplementsAtomicService == S!Spec

\* Every request is answered, and its locks are given up: no two transactions
\* wait for each other for ever.
EveryRequestEnds ==
    \A w \in Workers : pc[w] # "idle" ~> (pc[w] = "idle" /\ lock[w] = "none")

-----------------------------------------------------------------------------
\* What the repository says and the handlers do not do: the code violates it.

\* "cannot edit other users cards" (cards_handler.go:120): when a regular user's
\* edit of a card takes effect, the card is his.  updateCard reads the owner in
\* one statement and writes, the owner included, in another.
EditsOwnCard ==
    [][\A w \in Workers :
         Commits(w) /\ req[w].op = "updateCard" /\ req[w].usr \notin Admins
           /\ req[w].card \in DOMAIN db.cards =>
         db.cards[req[w].card].own = req[w].usr]_vars

=============================================================================
