------------------------ MODULE PaymentServerProofs ------------------------
(***************************************************************************)
(* The safety of PaymentServer for any number of workers, any requests and *)
(* any tables.  IInv is inductive: TypeOK and LocksOwned alone are not,    *)
(* since what a commit writes is right only because every statement before *)
(* it was (WorkStands).                                                    *)
(***************************************************************************)
EXTENDS PaymentServer, LedgerProofs

AnsweredIffIdle == \A w \in Workers : pc[w] = "idle" <=> out[w] # "pending"

IInv == TypeOK /\ LocksOwned /\ WorkStands /\ AnsweredIffIdle

Final == {"approved", "declined", "done", "refused", "failed", "lost"}
Inside == PCs \ ({"idle", "start", "write"} \cup AnswerPCs)

-----------------------------------------------------------------------------
\* Only the holder of a write lock cares what the uncommitted pages are.
LEMMA StandsShared ==
    ASSUME NEW label, NEW k, NEW r, NEW o, NEW d, NEW e, NEW f,
           k \notin WriteLocks, Stands(label, k, r, o, d, e)
    PROVE  Stands(label, k, r, o, d, f)
BY DEF Stands, WriteLocks

-----------------------------------------------------------------------------
\* The four ways a handler moves, each keeping IInv.

\* It returns without a commit: its uncommitted pages and its lock are given up.
LEMMA FinishKeeps ==
    ASSUME IInv, NEW w \in Workers, pc[w] # "idle", NEW o \in Final, Finish(w, o)
    PROVE  IInv'
<1> USE DEF IInv, Finish, Return, Goto, Unwritten
<1>1. TypeOK'
  BY DEF TypeOK, PCs, Locks, Final, S!Outcomes, S!Verdicts
<1>2. LocksOwned'
  BY DEF LocksOwned, TypeOK, WriteLocks, AnswerPCs
<1>3. WorkStands'
  <2> SUFFICES ASSUME NEW v \in Workers
               PROVE  Stands(pc[v], lock[v], req[v], old[v], db, dirty)'
    BY DEF WorkStands
  <2>1. CASE v = w
    BY <2>1 DEF Stands, TypeOK, CommitPCs
  <2>2. CASE v # w
    <3>1. /\ pc'[v] = pc[v] /\ lock'[v] = lock[v] /\ req'[v] = req[v]
          /\ old'[v] = old[v] /\ db' = db
      BY <2>2 DEF TypeOK
    <3>2. Stands(pc[v], lock[v], req[v], old[v], db, dirty)
      BY DEF WorkStands
    <3>3. CASE lock[v] \in WriteLocks
      <4>1. dirty' = dirty
        BY <2>2, <3>3 DEF LocksOwned
      <4> QED
        BY <3>1, <3>2, <4>1
    <3>4. CASE lock[v] \notin WriteLocks
      <4>1. Stands(pc[v], lock[v], req[v], old[v], db, dirty')
        BY <3>2, <3>4, StandsShared
      <4> QED
        BY <3>1, <4>1
    <3> QED
      BY <3>3, <3>4
  <2> QED
    BY <2>1, <2>2
<1>4. AnsweredIffIdle'
  BY DEF AnsweredIffIdle, TypeOK, Final
<1> QED
  BY <1>1, <1>2, <1>3, <1>4

\* It reads inside its transaction, and keeps SHARED.
LEMMA SelectedKeeps ==
    ASSUME IInv, NEW w \in Workers, pc[w] = "start", NEW label \in Inside,
           Selected(w, label),
           NEW o \in TxnRows \cup Users \cup {NoLocals},
           old' = [old EXCEPT ![w] = o],
           Stands(label, "shared", req[w], o, db, dirty)
    PROVE  IInv'
<1> USE DEF IInv, Selected, Goto
<1>1. TypeOK'
  BY DEF TypeOK, Locks, Inside
<1>2. LocksOwned'
  <2>1. lock[w] = "none"
    BY DEF LocksOwned
  <2> QED
    BY <2>1 DEF LocksOwned, TypeOK, WriteLocks, Inside
<1>3. WorkStands'
  <2> SUFFICES ASSUME NEW v \in Workers
               PROVE  Stands(pc[v], lock[v], req[v], old[v], db, dirty)'
    BY DEF WorkStands
  <2>1. CASE v = w
    BY <2>1 DEF TypeOK
  <2>2. CASE v # w
    <3>1. /\ pc'[v] = pc[v] /\ lock'[v] = lock[v] /\ req'[v] = req[v]
          /\ old'[v] = old[v] /\ db' = db /\ dirty' = dirty
      BY <2>2 DEF TypeOK
    <3> QED
      BY <3>1 DEF WorkStands
  <2> QED
    BY <2>1, <2>2
<1>4. AnsweredIffIdle'
  BY DEF AnsweredIffIdle, TypeOK, Inside
<1> QED
  BY <1>1, <1>2, <1>3, <1>4

\* It writes: RESERVED is its own, and e is what its request has made so far.
LEMMA WroteKeeps ==
    ASSUME IInv, NEW w \in Workers, pc[w] # "idle", CanWrite(w),
           NEW label \in Inside, NEW e, IsDatabase(e), Wrote(w, e, label),
           Stands(label, "reserved", req[w], old[w], db, e)
    PROVE  IInv'
<1> USE DEF IInv, Wrote, Goto
<1>1. TypeOK'
  BY DEF TypeOK, Locks, Inside
<1>2. LocksOwned'
  BY DEF LocksOwned, TypeOK, WriteLocks, Inside, CanWrite, Others
<1>3. WorkStands'
  <2> SUFFICES ASSUME NEW v \in Workers
               PROVE  Stands(pc[v], lock[v], req[v], old[v], db, dirty)'
    BY DEF WorkStands
  <2>1. CASE v = w
    BY <2>1 DEF TypeOK
  <2>2. CASE v # w
    <3>1. /\ pc'[v] = pc[v] /\ lock'[v] = lock[v] /\ req'[v] = req[v]
          /\ old'[v] = old[v] /\ db' = db /\ lock[v] \notin WriteLocks
      BY <2>2 DEF TypeOK, CanWrite, Others
    <3>2. Stands(pc[v], lock[v], req[v], old[v], db, dirty')
      BY <3>1, StandsShared DEF WorkStands
    <3> QED
      BY <3>1, <3>2
  <2> QED
    BY <2>1, <2>2
<1>4. AnsweredIffIdle'
  BY DEF AnsweredIffIdle, TypeOK, Inside
<1> QED
  BY <1>1, <1>2, <1>3, <1>4

\* It has checked in an autocommit statement and goes on with no lock.
LEMMA CheckedKeeps ==
    ASSUME IInv, NEW w \in Workers, pc[w] = "start", Checked(w),
           NEW o \in TxnRows \cup Users \cup {NoLocals},
           old' = [old EXCEPT ![w] = o],
           req[w].op \in {"updateCard", "deleteCard", "deleteTxn"} => MayWrite(req[w], o)
    PROVE  IInv'
<1> USE DEF IInv, Checked, Goto
<1>1. TypeOK'
  BY DEF TypeOK, PCs
<1>2. LocksOwned'
  BY DEF LocksOwned, TypeOK
<1>3. WorkStands'
  <2> SUFFICES ASSUME NEW v \in Workers
               PROVE  Stands(pc[v], lock[v], req[v], old[v], db, dirty)'
    BY DEF WorkStands
  <2>1. CASE v = w
    <3>1. Stands("start", lock[w], req[w], old[w], db, dirty)
      BY DEF WorkStands
    <3>2. Stands("write", lock[w], req[w], o, db, dirty)
      BY <3>1 DEF Stands, CommitPCs
    <3>3. pc'[w] = "write" /\ old'[w] = o
      BY DEF TypeOK
    <3> QED
      BY <2>1, <3>2, <3>3
  <2>2. CASE v # w
    <3>1. pc'[v] = pc[v] /\ old'[v] = old[v]
      BY <2>2 DEF TypeOK
    <3> QED
      BY <3>1 DEF WorkStands
  <2> QED
    BY <2>1, <2>2
<1>4. AnsweredIffIdle'
  BY DEF AnsweredIffIdle, TypeOK
<1> QED
  BY <1>1, <1>2, <1>3, <1>4
-----------------------------------------------------------------------------
\* What a worker in the middle of a request knows.
LEMMA AtWork ==
    ASSUME IInv, NEW w \in Workers, pc[w] # "idle"
    PROVE  /\ req[w] \in Requests /\ ~RefusedUnread(req[w])
           /\ IsDatabase(db) /\ IsDatabase(dirty)
           /\ old[w] \in TxnRows \cup Users \cup {NoLocals}
           /\ old = [old EXCEPT ![w] = old[w]]
           /\ Stands(pc[w], lock[w], req[w], old[w], db, dirty)
<1>1. Stands(pc[w], lock[w], req[w], old[w], db, dirty)
  BY DEF IInv, WorkStands
<1> QED
  BY <1>1 DEF IInv, TypeOK, Stands

\* One lemma for each handler: the steps of authorizePayment, ...
LEMMA AuthorizeKeeps ==
    ASSUME IInv, NEW w \in Workers, AuthorizeRead(w) \/ AuthorizeDecline(w)
    PROVE  IInv'
<1> DEFINE r == req[w]
<1>1. CASE AuthorizeRead(w)
  <2> DEFINE mine == {i \in CardsNumbered(db, r.num) : MayUse(r.usr, db, i)}
  <2>1. pc[w] = "start" /\ r.op = "authorize"
    BY <1>1 DEF AuthorizeRead, At
  <2>2. CASE Finish(w, "declined")
    BY <2>1, <2>2, FinishKeeps DEF Final
  <2>3. CASE /\ r.term \in db.terms
             /\ \E i \in mine :
                  IF db.cards[i].blk \/ db.cards[i].bal < r.amt
                    THEN Selected(w, "decline") ELSE Selected(w, "debit")
             /\ UNCHANGED old
    <3>1. PICK i \in mine :
            IF db.cards[i].blk \/ db.cards[i].bal < r.amt
              THEN Selected(w, "decline") ELSE Selected(w, "debit")
      BY <2>3
    <3>2. CASE db.cards[i].blk \/ db.cards[i].bal < r.amt
      <4>1. Stands("decline", "shared", r, old[w], db, dirty)
        BY <2>1, <2>3, <3>2, AtWork DEF Stands, CommitPCs
      <4> QED
        BY <2>1, <2>3, <3>1, <3>2, <4>1, AtWork, SelectedKeeps DEF Inside, PCs, AnswerPCs
    <3>3. CASE ~(db.cards[i].blk \/ db.cards[i].bal < r.amt)
      <4>1. db.cards[i].bal \in Int /\ r.amt \in Int
        BY <2>1, AtWork, AmountTyped DEF IsDatabase, IsTable, CardRows, CardsNumbered
      <4>2. Stands("debit", "shared", r, old[w], db, dirty)
        BY <2>1, <2>3, <3>3, <4>1, AtWork DEF Stands, CommitPCs, CanPay
      <4> QED
        BY <2>1, <2>3, <3>1, <3>3, <4>2, AtWork, SelectedKeeps DEF Inside, PCs, AnswerPCs
    <3> QED
      BY <3>2, <3>3
  <2> QED
    BY <1>1, <2>2, <2>3 DEF AuthorizeRead
<1>2. CASE AuthorizeDecline(w)
  <2> DEFINE row == RowOf(r, FALSE)
  <2>1. /\ pc[w] = "decline" /\ r.op = "authorize" /\ r.term \in db.terms
        /\ \E i \in CardsNumbered(db, r.num) :
              MayUse(r.usr, db, i) /\ (db.cards[i].blk \/ db.cards[i].bal < r.amt)
    BY <1>2, AtWork DEF AuthorizeDecline, At, Stands
  <2>2. CASE Finish(w, "declined")
    BY <2>1, <2>2, FinishKeeps DEF Final
  <2>3. CASE CanWrite(w) /\ TxnRoom(db) /\ Wrote(w, InsertTxn(db, row), "commitDeclined")
    <3>1. IsDatabase(InsertTxn(db, row))
      BY <2>1, <2>3, AtWork, RowTyped, InsertTxnDatabase
    <3>2. Declined(r, db, InsertTxn(db, row))
      BY <2>1, <2>3 DEF Declined
    <3>3. Stands("commitDeclined", "reserved", r, old[w], db, InsertTxn(db, row))
      BY <2>1, <3>2, AtWork DEF Stands, CommitPCs, WriteLocks, AnswerAt, Effect
    <3> QED
      BY <2>1, <2>3, <3>1, <3>3, WroteKeeps DEF Inside, PCs, AnswerPCs
  <2> QED
    BY <1>2, <2>2, <2>3 DEF AuthorizeDecline
<1> QED
  BY <1>1, <1>2

\* ... the debit and the journal row it shares with createTransaction, ...
LEMMA PayKeeps ==
    ASSUME IInv, NEW w \in Workers, CreateTxnRead(w) \/ Debit(w) \/ Journal(w)
    PROVE  IInv'
<1> DEFINE r == req[w]
<1>1. CASE CreateTxnRead(w)
  <2> DEFINE mine == {i \in CardsNumbered(db, r.num) : MayUse(r.usr, db, i)}
  <2>1. pc[w] = "start" /\ r.op = "createTxn"
    BY <1>1 DEF CreateTxnRead, At
  <2>2. CASE Finish(w, "refused")
    BY <2>1, <2>2, FinishKeeps DEF Final
  <2>3. CASE /\ \E i \in mine : r.ok => db.cards[i].bal >= r.amt
             /\ Selected(w, IF r.ok THEN "debit" ELSE "journal")
             /\ UNCHANGED old
    <3>1. CASE r.ok
      <4>1. Stands("debit", "shared", r, old[w], db, dirty)
        BY <2>1, <2>3, <3>1, AtWork DEF Stands, CommitPCs, CanPay
      <4> QED
        BY <2>1, <2>3, <3>1, <4>1, AtWork, SelectedKeeps DEF Inside, PCs, AnswerPCs
    <3>2. CASE ~r.ok
      <4>1. Stands("journal", "shared", r, old[w], db, dirty)
        BY <2>1, <2>3, <3>2, AtWork DEF Stands, CommitPCs
      <4> QED
        BY <2>1, <2>3, <3>2, <4>1, AtWork, SelectedKeeps DEF Inside, PCs, AnswerPCs
    <3> QED
      BY <3>1, <3>2
  <2> QED
    BY <1>1, <2>2, <2>3 DEF CreateTxnRead
<1>2. CASE Debit(w)
  <2> DEFINE e == Credit(db, r.num, -r.amt)
  <2>1. pc[w] = "debit" /\ lock[w] = "shared" /\ CanPay(r, db)
    BY <1>2, AtWork DEF Debit, Stands
  <2>2. CASE Finish(w, "failed")
    BY <2>1, <2>2, FinishKeeps DEF Final
  <2>3. CASE CanWrite(w) /\ Wrote(w, e, "journal")
    <3>1. -r.amt \in Int
      BY <2>1, AtWork, AmountTyped DEF CanPay
    <3>2. IsDatabase(e)
      BY <3>1, <2>1, AtWork, CreditDatabase
    <3>3. Stands("journal", "reserved", r, old[w], db, e)
      BY <2>1, AtWork DEF Stands, CommitPCs
    <3> QED
      BY <2>1, <2>3, <3>2, <3>3, WroteKeeps DEF Inside, PCs, AnswerPCs
  <2> QED
    BY <1>2, <2>1, <2>2, <2>3 DEF Debit, Seen, WriteLocks
<1>3. CASE Journal(w)
  <2> DEFINE approved == r.op = "authorize" \/ r.ok
             row == RowOf(r, approved)
             e == InsertTxn(Seen(w), row)
  <2>1. pc[w] = "journal"
    BY <1>3 DEF Journal
  <2>2. CASE Finish(w, "failed")
    BY <2>1, <2>2, FinishKeeps DEF Final
  <2>3. CASE /\ CanWrite(w) /\ TxnKeysExist(Seen(w), row) /\ TxnRoom(Seen(w))
             /\ Wrote(w, e, "commit")
    <3>1. CASE lock[w] = "reserved" /\ CanPay(r, db) /\ dirty = Credit(db, r.num, -r.amt)
      <4>1. Seen(w) = dirty
        BY <3>1 DEF Seen, WriteLocks
      <4>2. -r.amt \in Int /\ r.amt \in Int
        BY <2>1, <3>1, AtWork, AmountTyped DEF CanPay
      <4>3. TxnRoom(db) /\ r.term \in db.terms
        BY <2>1, <2>3, <3>1, <4>1, <4>2, AtWork, CreditDatabase
           DEF TxnRoom, TxnKeysExist, RowOf
      <4>4. r \in Requests /\ ~RefusedUnread(r)
        BY <2>1, AtWork
      <4>5. CASE r.op = "authorize"
        <5>1. row = RowOf(r, TRUE)
          BY <4>5
        <5>2. Authorized(r, db, e)
          BY <3>1, <4>1, <4>3, <4>5, <5>1 DEF Authorized, CanPay
        <5>3. Stands("commit", "reserved", r, old[w], db, e)
          BY <4>4, <4>5, <5>2 DEF Stands, CommitPCs, WriteLocks, AnswerAt, Effect
        <5>4. IsDatabase(e)
          BY <2>1, <2>3, <4>1, <4>5, <5>1, AtWork, RowTyped, InsertTxnDatabase
        <5> QED
          BY <2>1, <2>3, <5>3, <5>4, WroteKeeps DEF Inside, PCs, AnswerPCs
      <4>6. CASE r.op = "createTxn"
        <5>1. r.ok /\ r.ok \in BOOLEAN
          BY <3>1, <4>4, <4>6, RequestShapes DEF CanPay, CreateRequests
        <5>2. row = RowOf(r, TRUE) /\ row = RowOf(r, r.ok)
          BY <4>6, <5>1 DEF RowOf
        <5>3. r.amt >= 0
          BY <4>2, <4>4, <4>6 DEF RefusedUnread
        <5>4. Recorded(r, db, e)
          BY <3>1, <4>1, <4>3, <5>1, <5>2, <5>3 DEF Recorded, CanPay
        <5>5. Stands("commit", "reserved", r, old[w], db, e)
          BY <4>4, <4>6, <5>4 DEF Stands, CommitPCs, WriteLocks, AnswerAt, Effect
        <5>6. IsDatabase(e)
          BY <2>1, <2>3, <4>1, <4>6, <5>2, AtWork, RowTyped, InsertTxnDatabase
        <5> QED
          BY <2>1, <2>3, <5>5, <5>6, WroteKeeps DEF Inside, PCs, AnswerPCs
      <4> QED
        BY <3>1, <4>5, <4>6 DEF CanPay
    <3>2. CASE /\ lock[w] = "shared" /\ r.op = "createTxn" /\ ~r.ok
               /\ \E i \in CardsNumbered(db, r.num) : MayUse(r.usr, db, i)
      <4>1. Seen(w) = db
        BY <3>2 DEF Seen, WriteLocks
      <4>2. r \in Requests /\ ~RefusedUnread(r)
        BY <2>1, AtWork
      <4>3. r.ok = FALSE
        BY <3>2, <4>2, RequestShapes DEF CreateRequests
      <4>4. row = RowOf(r, FALSE) /\ row = RowOf(r, r.ok)
        BY <3>2, <4>3 DEF RowOf
      <4>5. r.amt >= 0
        BY <2>1, <3>2, <4>2, AmountTyped DEF RefusedUnread
      <4>6. r.term \in db.terms
        BY <2>3, <4>1 DEF TxnKeysExist, RowOf
      <4>7. Recorded(r, db, e)
        BY <2>3, <3>2, <4>1, <4>3, <4>4, <4>5, <4>6 DEF Recorded
      <4>8. Stands("commit", "reserved", r, old[w], db, e)
        BY <3>2, <4>2, <4>7 DEF Stands, CommitPCs, WriteLocks, AnswerAt, Effect
      <4>9. IsDatabase(e)
        BY <2>1, <2>3, <3>2, <4>1, <4>4, AtWork, RowTyped, InsertTxnDatabase
      <4> QED
        BY <2>1, <2>3, <4>8, <4>9, WroteKeeps DEF Inside, PCs, AnswerPCs
    <3> QED
      BY <2>1, <3>1, <3>2, AtWork DEF Stands
  <2> QED
    BY <1>3, <2>2, <2>3 DEF Journal
<1> QED
  BY <1>1, <1>2, <1>3

\* ... updateTransaction, from its reads to the row it rewrites, ...
LEMMA AmendKeeps ==
    ASSUME IInv, NEW w \in Workers,
           UpdateTxnRead(w) \/ UpdateTxnRefund(w) \/ UpdateTxnDebit(w) \/ UpdateTxnRewrite(w)
    PROVE  IInv'
<1> DEFINE r == req[w]
           o == old[w]
<1>1. CASE UpdateTxnRead(w)
  <2> DEFINE t == db.txns[r.txn]
             label == IF t.ok THEN "refund" ELSE IF r.ok THEN "redebit" ELSE "rewrite"
  <2>1. pc[w] = "start" /\ r.op = "updateTxn"
    BY <1>1 DEF UpdateTxnRead, At
  <2>2. CASE Finish(w, "refused")
    BY <2>1, <2>2, FinishKeeps DEF Final
  <2>3. CASE /\ r.txn \in DOMAIN db.txns
             /\ MayUseTxn(r.usr, db, r.txn)
             /\ \E i \in CardsNumbered(db, r.num) : MayUse(r.usr, db, i)
             /\ old' = [old EXCEPT ![w] = t]
             /\ Selected(w, label)
    <3>1. CanAmend(r, db, t)
      BY <2>1, <2>3 DEF CanAmend
    <3>2. t \in TxnRows
      BY <2>1, <2>3, AtWork, RefundedDatabase
    <3>3. Stands(label, "shared", r, t, db, dirty)
      BY <2>1, <3>1, AtWork DEF Stands, CommitPCs
    <3> QED
      BY <2>1, <2>3, <3>2, <3>3, SelectedKeeps DEF Inside, PCs, AnswerPCs
  <2> QED
    BY <1>1, <2>2, <2>3 DEF UpdateTxnRead
<1>2. CASE UpdateTxnRefund(w)
  <2> DEFINE e == Credit(db, o.num, o.amt)
             label == IF r.ok THEN "redebit" ELSE "rewrite"
  <2>1. pc[w] = "refund" /\ lock[w] = "shared" /\ CanAmend(r, db, o) /\ o.ok
    BY <1>2, AtWork DEF UpdateTxnRefund, Stands
  <2>2. CASE Finish(w, "failed")
    BY <2>1, <2>2, FinishKeeps DEF Final
  <2>3. CASE CanWrite(w) /\ Wrote(w, e, label)
    <3>1. e = Refunded(db, r.txn)
      BY <2>1 DEF Refunded, CanAmend
    <3>2. ~r.ok => e = Recharged(r, db)
      BY <3>1 DEF Recharged
    <3>3. IsDatabase(e)
      BY <2>1, <3>1, AtWork, RefundedDatabase DEF CanAmend
    <3>4. Stands(label, "reserved", r, o, db, e)
      BY <2>1, <3>1, <3>2, AtWork DEF Stands, CommitPCs
    <3> QED
      BY <2>1, <2>3, <3>3, <3>4, WroteKeeps DEF Inside, PCs, AnswerPCs
  <2> QED
    BY <1>2, <2>1, <2>2, <2>3 DEF UpdateTxnRefund, Seen, WriteLocks
<1>3. CASE UpdateTxnDebit(w)
  <2> DEFINE e == Credit(Seen(w), r.num, -r.amt)
  <2>1. /\ pc[w] = "redebit" /\ CanAmend(r, db, o) /\ r.ok
        /\ IF o.ok THEN lock[w] = "reserved" /\ dirty = Refunded(db, r.txn)
                    ELSE lock[w] = "shared"
    BY <1>3, AtWork DEF UpdateTxnDebit, Stands
  <2>2. CASE Finish(w, "failed") \/ Finish(w, "refused")
    BY <2>1, <2>2, FinishKeeps DEF Final
  <2>3. CASE /\ ~(\A i \in CardsNumbered(Seen(w), r.num) : Seen(w).cards[i].bal < r.amt)
             /\ CanWrite(w) /\ Wrote(w, e, "rewrite")
    <3>1. Seen(w) = Refunded(db, r.txn)
      BY <2>1 DEF Seen, WriteLocks, Refunded, CanAmend
    <3>2. IsDatabase(Seen(w)) /\ r.amt \in Int
      BY <2>1, <3>1, AtWork, RefundedDatabase, AmountTyped DEF CanAmend
    <3>3. \A i \in DOMAIN Seen(w).cards : Seen(w).cards[i].bal \in Int
      BY <3>2 DEF IsDatabase, IsTable, CardRows
    <3>4. CanRecharge(r, db)
      BY <2>3, <3>1, <3>2, <3>3 DEF CanRecharge, CardsNumbered
    <3>5. e = Recharged(r, db)
      BY <2>1, <3>1 DEF Recharged
    <3>6. IsDatabase(e)
      BY <2>1, <3>5, AtWork, RechargedDatabase DEF CanAmend
    <3>7. Stands("rewrite", "reserved", r, o, db, e)
      BY <2>1, <3>4, <3>5, AtWork DEF Stands, CommitPCs
    <3> QED
      BY <2>1, <2>3, <3>6, <3>7, WroteKeeps DEF Inside, PCs, AnswerPCs
  <2> QED
    BY <1>3, <2>2, <2>3 DEF UpdateTxnDebit
<1>4. CASE UpdateTxnRewrite(w)
  <2> DEFINE row == RowOf(r, r.ok)
             e == SetTxn(Seen(w), r.txn, row)
  <2>1. /\ pc[w] = "rewrite" /\ CanAmend(r, db, o) /\ (r.ok => CanRecharge(r, db))
        /\ IF o.ok \/ r.ok THEN lock[w] = "reserved" /\ dirty = Recharged(r, db)
                            ELSE lock[w] = "shared"
    BY <1>4, AtWork DEF UpdateTxnRewrite, Stands
  <2>2. CASE Finish(w, "failed")
    BY <2>1, <2>2, FinishKeeps DEF Final
  <2>3. CASE CanWrite(w) /\ TxnKeysExist(Seen(w), row) /\ Wrote(w, e, "commit")
    <3>1. Seen(w) = Recharged(r, db)
      BY <2>1 DEF Seen, WriteLocks, Recharged, Refunded, CanAmend
    <3>2. r \in Requests /\ ~RefusedUnread(r) /\ r.op = "updateTxn" /\ r.ok \in BOOLEAN
      BY <2>1, AtWork, RequestShapes DEF CanAmend, AmendRequests
    <3>3. r.amt >= 0
      BY <3>2, AmountTyped DEF RefusedUnread
    <3>4. IsDatabase(Seen(w)) /\ Seen(w).terms = db.terms
      BY <2>1, <3>1, <3>2, AtWork, RechargedDatabase DEF CanAmend
    <3>5. r.term \in db.terms
      BY <2>3, <3>4 DEF TxnKeysExist, RowOf
    <3>6. Amended(r, db, e)
      BY <2>1, <3>1, <3>3, <3>5 DEF Amended, CanAmend, CanRecharge
    <3>7. Stands("commit", "reserved", r, o, db, e)
      BY <3>2, <3>6 DEF Stands, CommitPCs, WriteLocks, AnswerAt, Effect
    <3>8. IsDatabase(e)
      BY <3>2, <3>4, RowTyped, SetTxnDatabase
    <3> QED
      BY <2>1, <2>3, <3>7, <3>8, WroteKeeps DEF Inside, PCs, AnswerPCs
  <2> QED
    BY <1>4, <2>2, <2>3 DEF UpdateTxnRewrite
<1> QED
  BY <1>1, <1>2, <1>3, <1>4

\* The owner a handler reads is a user.
LEMMA ShownOwner ==
    ASSUME NEW d, IsDatabase(d), NEW r, r.op \in {"updateCard", "deleteCard", "deleteTxn"},
           NEW o \in Shown(r, d)
    PROVE  o \in Users
<1>1. PICK i \in DOMAIN d.cards : o = d.cards[i].own
  <2>1. CASE r.op \in {"updateCard", "deleteCard"}
    BY <2>1 DEF Shown
  <2>2. CASE r.op = "deleteTxn"
    BY <2>2 DEF Shown
  <2> QED
    BY <2>1, <2>2
<1> QED
  BY <1>1 DEF IsDatabase, IsTable, CardRows

\* ... the checks of the handlers without a transaction, and the lists, ...
LEMMA CheckKeeps ==
    ASSUME IInv, NEW w \in Workers,
           \/ DeleteTxnCheck(w) \/ CreateCardCheck(w) \/ UpdateCardCheck(w)
           \/ DeleteCardCheck(w) \/ ListOpen(w) \/ ListClose(w)
    PROVE  IInv'
<1> DEFINE r == req[w]
<1>1. CASE CreateCardCheck(w)
  BY <1>1, AtWork, CheckedKeeps DEF CreateCardCheck, At
<1>2. CASE DeleteTxnCheck(w) \/ UpdateCardCheck(w) \/ DeleteCardCheck(w)
  <2>1. /\ pc[w] = "start" /\ r.op \in {"updateCard", "deleteCard", "deleteTxn"}
        /\ \/ Finish(w, "refused")
           \/ \E o \in Shown(r, db) :
                /\ IF r.op = "updateCard" THEN MayEdit(r, o) ELSE o = r.usr
                /\ old' = [old EXCEPT ![w] = o] /\ Checked(w)
    BY <1>2 DEF DeleteTxnCheck, UpdateCardCheck, DeleteCardCheck, OwnerRead, At
  <2>2. CASE Finish(w, "refused")
    BY <2>1, <2>2, FinishKeeps DEF Final
  <2>3. ASSUME NEW o \in Shown(r, db),
               IF r.op = "updateCard" THEN MayEdit(r, o) ELSE o = r.usr,
               old' = [old EXCEPT ![w] = o], Checked(w)
        PROVE  IInv'
    <3>1. IsDatabase(db)
      BY <2>1, AtWork
    <3>2. o \in Users
      BY <2>1, <2>3, <3>1, ShownOwner
    <3>3. MayWrite(r, o)
      BY <2>1, <2>3, <3>2 DEF MayWrite
    <3> QED
      BY <2>1, <2>3, <3>2, <3>3, CheckedKeeps
  <2> QED
    BY <2>1, <2>2, <2>3
<1>3. CASE ListOpen(w)
  <2>1. pc[w] = "start" /\ r.op = "list" /\ Selected(w, "listing") /\ UNCHANGED old
    BY <1>3 DEF ListOpen, At
  <2>2. Stands("listing", "shared", r, old[w], db, dirty)
    BY <2>1, AtWork DEF Stands, CommitPCs
  <2> QED
    BY <2>1, <2>2, AtWork, SelectedKeeps DEF Inside, PCs, AnswerPCs
<1>4. CASE ListClose(w)
  BY <1>4, FinishKeeps DEF ListClose, Final
<1> QED
  BY <1>1, <1>2, <1>3, <1>4

\* ... their writes, each one autocommit statement, ...
LEMMA AutocommitKeeps ==
    ASSUME IInv, NEW w \in Workers, pc[w] = "write", req[w].op # "authorize",
           NEW allowed \in BOOLEAN, NEW e, Autocommit(w, allowed, e),
           allowed => IsDatabase(e) /\ Effect(req[w], old[w], "done", db, e)
    PROVE  IInv'
<1>1. CASE allowed
  <2>1. Stands("commit", "reserved", req[w], old[w], db, e)
    BY <1>1, AtWork DEF Stands, CommitPCs, WriteLocks, AnswerAt
  <2> QED
    BY <1>1, <2>1, WroteKeeps DEF Autocommit, Inside, PCs, AnswerPCs
<1>2. CASE ~allowed
  BY <1>2, FinishKeeps DEF Autocommit, Final
<1> QED
  BY <1>1, <1>2

\* The autocommit writes of the other handlers keep IInv.
LEMMA WriteKeeps ==
    ASSUME IInv, NEW w \in Workers,
           \/ DeleteTxnWrite(w) \/ CreateCardWrite(w) \/ UpdateCardWrite(w)
           \/ DeleteCardWrite(w) \/ CreateTerminal(w) \/ DeleteTerminal(w)
    PROVE  IInv'
<1> DEFINE r == req[w]
<1>1. pc[w] = "write" /\ r.op # "authorize" /\ r \in Requests /\ IsDatabase(db)
  BY AtWork DEF DeleteTxnWrite, CreateCardWrite, UpdateCardWrite, DeleteCardWrite,
                CreateTerminal, DeleteTerminal, At
<1>2. CASE DeleteTxnWrite(w)
  <2> DEFINE e == DropTxn(db, r.txn)
  <2>1. r.op = "deleteTxn" /\ Autocommit(w, TRUE, e)
    BY <1>2 DEF DeleteTxnWrite, At
  <2>2. MayWrite(r, old[w])
    BY <1>1, <2>1, AtWork DEF Stands
  <2>3. IsDatabase(e) /\ Effect(r, old[w], "done", db, e)
    BY <1>1, <2>1, <2>2, DropTxnDatabase DEF Effect, TxnDropped
  <2> QED
    BY <1>1, <2>1, <2>3, AutocommitKeeps
<1>3. CASE CreateCardWrite(w)
  <2> DEFINE owner == IF r.usr \in Admins /\ r.own # Absent THEN r.own ELSE r.usr
             row == [num |-> r.num, bal |-> r.bal, blk |-> r.blk, own |-> owner]
             allowed == NumberFree(db, db.nextCard, r.num) /\ CardRoom(db)
             e == InsertCard(db, row)
  <2>1. r.op = "createCard" /\ Autocommit(w, allowed, e)
    BY <1>3 DEF CreateCardWrite, At
  <2>2. owner \in Users /\ row \in CardRows
    BY <1>1, <2>1, RequestShapes DEF NewCardRequests, CardRows
  <2>3. allowed => IsDatabase(e)
    BY <1>1, <2>2, InsertCardDatabase
  <2>4. allowed => Effect(r, old[w], "done", db, e)
    BY <2>1 DEF Effect, CardAdded, CardRow
  <2>5. allowed \in BOOLEAN
    BY DEF NumberFree, CardRoom
  <2> QED
    BY <1>1, <2>1, <2>3, <2>4, <2>5, AutocommitKeeps
<1>4. CASE UpdateCardWrite(w)
  <2> DEFINE owner == IF r.usr \in Admins /\ r.own # Absent THEN r.own ELSE old[w]
             row == [num |-> r.num, bal |-> r.bal, blk |-> r.blk, own |-> owner]
             allowed == CardUpdateAllowed(db, r.card, r.num)
             e == SetCard(db, r.card, row)
  <2>1. r.op = "updateCard" /\ Autocommit(w, allowed, e)
    BY <1>4 DEF UpdateCardWrite, At
  <2>2. MayWrite(r, old[w]) /\ old[w] \in Users
    BY <1>1, <2>1, AtWork DEF Stands, MayWrite
  <2>3. owner \in Users /\ row \in CardRows
    BY <1>1, <2>1, <2>2, RequestShapes DEF EditCardRequests, CardRows
  <2>4. IsDatabase(e)
    BY <1>1, <2>3, SetCardDatabase
  <2>5. allowed => Effect(r, old[w], "done", db, e)
    BY <2>1, <2>2 DEF Effect, CardEdited, CardRow
  <2>6. allowed \in BOOLEAN
    BY DEF CardUpdateAllowed
  <2> QED
    BY <1>1, <2>1, <2>4, <2>5, <2>6, AutocommitKeeps
<1>5. CASE DeleteCardWrite(w)
  <2> DEFINE allowed == ~CardReferenced(db, r.card)
             e == DropCard(db, r.card)
  <2>1. r.op = "deleteCard" /\ Autocommit(w, allowed, e)
    BY <1>5 DEF DeleteCardWrite, At
  <2>2. MayWrite(r, old[w])
    BY <1>1, <2>1, AtWork DEF Stands
  <2>3. IsDatabase(e) /\ (allowed => Effect(r, old[w], "done", db, e))
    BY <1>1, <2>1, <2>2, DropCardDatabase DEF Effect, CardDropped
  <2>4. allowed \in BOOLEAN
    OBVIOUS
  <2> QED
    BY <1>1, <2>1, <2>3, <2>4, AutocommitKeeps
<1>6. CASE CreateTerminal(w)
  <2> DEFINE allowed == r.term \notin db.terms
             T == db.terms \cup {r.term}
             e == [db EXCEPT !.terms = T]
  <2>1. r.op = "createTerminal" /\ Autocommit(w, allowed, e)
    BY <1>6 DEF CreateTerminal, At
  <2>2. T \in SUBSET Terminals
    BY <1>1, <2>1, RequestShapes DEF TerminalRequests, IsDatabase
  <2>3. IsDatabase(e)
    BY <1>1, <2>2, TermsDatabase
  <2>4. allowed => Effect(r, old[w], "done", db, e)
    BY <2>1 DEF Effect, TerminalAdded
  <2>5. allowed \in BOOLEAN
    OBVIOUS
  <2> QED
    BY <1>1, <2>1, <2>3, <2>4, <2>5, AutocommitKeeps
<1>7. CASE DeleteTerminal(w)
  <2> DEFINE allowed == ~TerminalReferenced(db, r.term)
             T == db.terms \ {r.term}
             e == [db EXCEPT !.terms = T]
  <2>1. r.op = "deleteTerminal" /\ Autocommit(w, allowed, e)
    BY <1>7 DEF DeleteTerminal, At
  <2>2. T \in SUBSET Terminals
    BY <1>1 DEF IsDatabase
  <2>3. IsDatabase(e)
    BY <1>1, <2>2, TermsDatabase
  <2>4. allowed => Effect(r, old[w], "done", db, e)
    BY <2>1 DEF Effect, TerminalDropped
  <2>5. allowed \in BOOLEAN
    OBVIOUS
  <2> QED
    BY <1>1, <2>1, <2>3, <2>4, <2>5, AutocommitKeeps
<1> QED
  BY <1>2, <1>3, <1>4, <1>5, <1>6, <1>7

\* ... the two stages of COMMIT, and the ways a request is cut short.
LEMMA CommitKeeps ==
    ASSUME IInv, NEW w \in Workers, CommitBegin(w) \/ CommitEnd(w)
    PROVE  IInv'
<1> USE DEF IInv
<1>1. CASE CommitBegin(w)
  <2> USE <1>1 DEF CommitBegin
  <2>1. TypeOK'
    BY DEF TypeOK, Locks
  <2>2. LocksOwned'
    BY DEF LocksOwned, TypeOK, WriteLocks, CommitPCs
  <2>3. WorkStands'
    <3> SUFFICES ASSUME NEW v \in Workers
                 PROVE  Stands(pc[v], lock[v], req[v], old[v], db, dirty)'
      BY DEF WorkStands
    <3>1. Stands(pc[v], lock[v], req[v], old[v], db, dirty)
      BY DEF WorkStands
    <3>2. CASE v = w
      <4>1. Stands(pc[w], "pending", req[w], old[w], db, dirty)
        BY <3>1, <3>2 DEF Stands, CommitPCs, WriteLocks
      <4> QED
        BY <3>2, <4>1 DEF TypeOK
    <3>3. CASE v # w
      BY <3>1, <3>3 DEF TypeOK
    <3> QED
      BY <3>2, <3>3
  <2>4. AnsweredIffIdle'
    BY DEF AnsweredIffIdle
  <2> QED
    BY <2>1, <2>2, <2>3, <2>4
<1>2. CASE CommitEnd(w)
  <2> USE <1>2 DEF CommitEnd, Goto
  <2>1. TypeOK'
    BY DEF TypeOK, PCs, Locks
  <2>2. \A v \in Workers :
          lock'[v] = "none" /\ pc'[v] \in {"idle", "start", "write"} \cup AnswerPCs
    BY DEF LocksOwned, TypeOK, Alone, Others, AnswerPCs
  <2>3. LocksOwned'
    BY <2>2 DEF LocksOwned, WriteLocks
  <2>4. WorkStands'
    <3> SUFFICES ASSUME NEW v \in Workers
                 PROVE  Stands(pc[v], lock[v], req[v], old[v], db, dirty)'
      BY DEF WorkStands
    <3>1. CASE v = w
      <4>1. pc[w] # "idle"
        BY DEF CommitPCs
      <4> QED
        BY <3>1, <4>1, AtWork DEF Stands, TypeOK, CommitPCs
    <3>2. CASE v # w
      <4>1. /\ pc'[v] = pc[v] /\ req'[v] = req[v] /\ old'[v] = old[v]
            /\ lock'[v] = lock[v]
        BY <3>2 DEF TypeOK
      <4>2. Stands(pc[v], lock[v], req[v], old[v], db, dirty)
        BY DEF WorkStands
      <4>3. Stands(pc[v], lock[v], req[v], old[v], dirty, dirty)
        BY <2>2, <4>1, <4>2 DEF Stands, CommitPCs, AnswerPCs
      <4> QED
        BY <4>1, <4>3
    <3> QED
      BY <3>1, <3>2
  <2>5. AnsweredIffIdle'
    BY DEF AnsweredIffIdle, TypeOK, CommitPCs
  <2> QED
    BY <2>1, <2>3, <2>4, <2>5
<1> QED
  BY <1>1, <1>2

\* The end of a request that has committed, told to its client or not, keeps IInv.
LEMMA ReplyKeeps ==
    ASSUME IInv, NEW w \in Workers, pc[w] \in AnswerPCs, NEW o \in Final, Return(w, o),
           UNCHANGED <<db, dirty>>
    PROVE  IInv'
<1>1. lock[w] = "none" /\ pc[w] # "idle"
  BY DEF IInv, LocksOwned, AnswerPCs
<1>2. Finish(w, o)
  BY <1>1 DEF Finish, Unwritten, WriteLocks
<1> QED
  BY <1>1, <1>2, FinishKeeps

\* So does the arrival of a request,
LEMMA AcceptKeeps ==
    ASSUME IInv, NEW w \in Workers, NEW r \in Requests, Accept(w, r)
    PROVE  IInv'
<1> USE DEF IInv, Accept, Goto
<1>1. TypeOK'
  BY DEF TypeOK, PCs, S!Outcomes, S!Verdicts
<1>2. LocksOwned'
  BY DEF LocksOwned, TypeOK
<1>3. WorkStands'
  <2> SUFFICES ASSUME NEW v \in Workers
               PROVE  Stands(pc[v], lock[v], req[v], old[v], db, dirty)'
    BY DEF WorkStands
  <2>1. Stands(pc[v], lock[v], req[v], old[v], db, dirty)
    BY DEF WorkStands
  <2>2. CASE v # w \/ RefusedUnread(r)
    BY <2>1, <2>2 DEF TypeOK
  <2>3. CASE v = w /\ ~RefusedUnread(r)
    <3>1. /\ req'[w] = r
          /\ \/ pc'[w] = "start"
             \/ pc'[w] = "write" /\ r.op # "updateCard" /\
                (r.op \in {"deleteCard", "deleteTxn"} => r.usr \in Admins)
      BY <2>3 DEF TypeOK, WritesFirst
    <3>2. old'[w] = NoLocals
      BY <2>1, <2>3 DEF Stands
    <3> QED
      BY <2>3, <3>1, <3>2 DEF Stands, CommitPCs, MayWrite
  <2> QED
    BY <2>2, <2>3
<1>4. AnsweredIffIdle'
  BY DEF AnsweredIffIdle, TypeOK
<1> QED
  BY <1>1, <1>2, <1>3, <1>4

\* ... and so does the end of the process.
LEMMA CrashKeeps ==
    ASSUME IInv, Crash
    PROVE  IInv'
<1> USE DEF IInv, Crash
<1>1. TypeOK'
  BY DEF TypeOK, PCs, Locks, S!Outcomes, S!Verdicts
<1>2. LocksOwned'
  BY DEF LocksOwned, WriteLocks
<1>3. WorkStands'
  BY DEF WorkStands, Stands, CommitPCs
<1>4. AnsweredIffIdle'
  BY DEF AnsweredIffIdle
<1> QED
  BY <1>1, <1>2, <1>3, <1>4

\* Every step keeps the invariant.
LEMMA NextKeeps ==
    ASSUME IInv, [Next]_vars
    PROVE  IInv'
<1>1. CASE UNCHANGED vars
  BY <1>1 DEF vars, IInv, TypeOK, LocksOwned, WorkStands, AnsweredIffIdle
<1>2. CASE Crash
  BY <1>2, CrashKeeps
<1>3. ASSUME NEW w \in Workers, NEW r \in Requests, Accept(w, r) PROVE IInv'
  BY <1>3, AcceptKeeps
<1>4. ASSUME NEW w \in Workers, Cancel(w) PROVE IInv'
  BY <1>4, FinishKeeps, ReplyKeeps DEF Cancel, Final
<1>5. ASSUME NEW w \in Workers, Step(w) PROVE IInv'
  <2>1. CASE AuthorizeRead(w) \/ AuthorizeDecline(w)
    BY <2>1, AuthorizeKeeps
  <2>2. CASE CreateTxnRead(w) \/ Debit(w) \/ Journal(w)
    BY <2>2, PayKeeps
  <2>3. CASE \/ UpdateTxnRead(w) \/ UpdateTxnRefund(w) \/ UpdateTxnDebit(w)
             \/ UpdateTxnRewrite(w)
    BY <2>3, AmendKeeps
  <2>4. CASE \/ DeleteTxnCheck(w) \/ CreateCardCheck(w) \/ UpdateCardCheck(w)
             \/ DeleteCardCheck(w) \/ ListOpen(w) \/ ListClose(w)
    BY <2>4, CheckKeeps
  <2>5. CASE \/ DeleteTxnWrite(w) \/ CreateCardWrite(w) \/ UpdateCardWrite(w)
             \/ DeleteCardWrite(w) \/ CreateTerminal(w) \/ DeleteTerminal(w)
    BY <2>5, WriteKeeps
  <2>6. CASE CommitBegin(w) \/ CommitEnd(w)
    BY <2>6, CommitKeeps
  <2>7. CASE CommitBusy(w)
    BY <2>7, FinishKeeps DEF CommitBusy, CommitPCs, Final
  <2>8. CASE WaitTimeout(w)
    BY <2>8, FinishKeeps DEF WaitTimeout, Final
  <2>9. CASE Reply(w)
    BY <2>9, ReplyKeeps DEF Reply, Answer, AnswerAt, Final
  <2> QED
    BY <1>5, <2>1, <2>2, <2>3, <2>4, <2>5, <2>6, <2>7, <2>8, <2>9 DEF Step
<1> QED
  BY <1>1, <1>2, <1>3, <1>4, <1>5 DEF Next

\* It holds of the file the server opens, with no request being served.
LEMMA InitHolds ==
    ASSUME Init
    PROVE  IInv
<1>1. TypeOK
  BY InitialDbAssumption DEF Init, TypeOK, PCs, Locks, S!Outcomes, S!Verdicts
<1>2. LocksOwned /\ AnsweredIffIdle
  BY DEF Init, LocksOwned, WriteLocks, AnsweredIffIdle
<1>3. WorkStands
  BY DEF Init, WorkStands, Stands, CommitPCs
<1> QED
  BY <1>1, <1>2, <1>3 DEF IInv

\* The inductive invariant holds in every reachable state.
THEOREM Invariance == Spec => []IInv
<1>1. Init => IInv
  BY InitHolds
<1>2. IInv /\ [Next]_vars => IInv'
  BY NextKeeps
<1> QED
  BY <1>1, <1>2, PTL DEF Spec

\* Every variable keeps to its type.
THEOREM TypeCorrect == Spec => []TypeOK
<1>1. IInv => TypeOK
  BY DEF IInv
<1> QED
  BY <1>1, Invariance, PTL

\* The file lock: one writer, no lock left behind by a handler that returned.
THEOREM LocksAreOwned == Spec => []LocksOwned
<1>1. IInv => LocksOwned
  BY DEF IInv
<1> QED
  BY <1>1, Invariance, PTL

\* The uncommitted pages are at each statement what the request has made so far
\* of the database as it is committed now.
THEOREM WorkIsRight == Spec => []WorkStands
<1>1. IInv => WorkStands
  BY DEF IInv
<1> QED
  BY <1>1, Invariance, PTL

\* No decision of a handler goes stale before its transaction ends.
THEOREM NoStaleDecision == Spec => []DecisionsStand
<1>1. ASSUME IInv PROVE DecisionsStand
  <2> SUFFICES ASSUME NEW w \in Workers
               PROVE  LET r == req[w]
                          mine == {i \in CardsNumbered(db, r.num) : MayUse(r.usr, db, i)}
                      IN /\ pc[w] = "debit" =>
                              \E i \in mine : /\ db.cards[i].bal >= r.amt
                                              /\ r.op = "authorize" => ~db.cards[i].blk
                         /\ pc[w] = "decline" =>
                              \E i \in mine : db.cards[i].blk \/ db.cards[i].bal < r.amt
                         /\ pc[w] \in {"refund", "redebit", "rewrite"} =>
                              r.txn \in DOMAIN db.txns /\ old[w] = db.txns[r.txn]
    BY DEF DecisionsStand
  <2>1. Stands(pc[w], lock[w], req[w], old[w], db, dirty)
    BY <1>1 DEF IInv, WorkStands
  <2> QED
    BY <2>1 DEF Stands, CanPay, CanAmend
<1> QED
  BY <1>1, Invariance, PTL

-----------------------------------------------------------------------------
\* The handlers implement AtomicService.

\* A worker that moves to another statement has settled what the statement says.
LEMMA SettledMoves ==
    ASSUME IInv, NEW w \in Workers, NEW label \in PCs, Goto(w, label),
           \A v \in Workers \ {w} : req'[v] = req[v]
    PROVE  Settled' = [Settled EXCEPT ![w] =
                IF label \in AnswerPCs THEN AnswerAt(label, req'[w]) ELSE "none"]
<1>1. \A v \in Workers : pc'[v] = IF v = w THEN label ELSE pc[v]
  BY DEF IInv, TypeOK, Goto
<1> QED
  BY <1>1 DEF Settled, Answer

\* One that has not committed has settled nothing, and moves on as undecided.
LEMMA SettledStays ==
    ASSUME IInv, NEW w \in Workers, NEW label \in PCs \ AnswerPCs, Goto(w, label),
           \A v \in Workers \ {w} : req'[v] = req[v]
    PROVE  /\ Settled' = [Settled EXCEPT ![w] = "none"]
           /\ pc[w] \notin AnswerPCs => Settled[w] = "none" /\ Settled' = Settled
<1>1. Settled' = [Settled EXCEPT ![w] = "none"]
  BY SettledMoves
<1>2. pc[w] \notin AnswerPCs => Settled[w] = "none"
  BY DEF Settled
<1>3. Settled[w] = "none" => [Settled EXCEPT ![w] = "none"] = Settled
  BY DEF Settled
<1> QED
  BY <1>1, <1>2, <1>3

\* A handler that returns closes its request.
LEMMA ReturnCloses ==
    ASSUME IInv, NEW w \in Workers, NEW o, Return(w, o), db' = db
    PROVE  S!Close(w, o)
<1>1. "idle" \in PCs \ AnswerPCs
  BY DEF PCs, AnswerPCs
<1>2. \A v \in Workers \ {w} : req'[v] = req[v]
  BY DEF Return, IInv, TypeOK
<1>3. Settled' = [Settled EXCEPT ![w] = "none"]
  BY <1>1, <1>2, SettledStays DEF Return
<1> QED
  BY <1>3 DEF S!Close, Return

\* One that returns without a commit has been turned away, was a list, or
\* declined a payment; the database is as it was.
LEMMA FinishRefines ==
    ASSUME IInv, NEW w \in Workers, pc[w] \notin {"idle"} \cup AnswerPCs, NEW o,
           Finish(w, o),
           \/ o \in {"refused", "failed"}
           \/ o = "declined" /\ req[w].op = "authorize"
           \/ o = "done" /\ req[w].op = "list"
    PROVE  S!Dismiss(w)
<1>1. out[w] = "pending" /\ Settled[w] = "none"
  BY DEF IInv, AnsweredIffIdle, Settled
<1>2. S!Close(w, o)
  BY ReturnCloses DEF Finish
<1>3. Effect(req[w], old[w], o, db, db)
  BY DEF Effect
<1>4. o \in S!Verdicts \cup {"refused", "failed"}
  BY DEF S!Verdicts
<1> QED
  BY <1>1, <1>2, <1>3, <1>4 DEF S!Dismiss

\* The statements in between are stuttering steps, ...
LEMMA StatementRefines ==
    ASSUME IInv, NEW w \in Workers, pc[w] \notin AnswerPCs,
           NEW label \in Inside \cup {"write"}, NEW e,
           \/ Selected(w, label) /\ UNCHANGED old
           \/ Wrote(w, e, label)
           \/ Checked(w) /\ UNCHANGED old
    PROVE  UNCHANGED S!serviceVars
<1>1. UNCHANGED <<db, req, old, out>>
  BY DEF Selected, Wrote, Checked
<1>2. Goto(w, label) \/ Goto(w, "write")
  BY DEF Selected, Wrote, Checked
<1>3. label \in PCs \ AnswerPCs /\ "write" \in PCs \ AnswerPCs
  BY DEF Inside, PCs, AnswerPCs
<1>4. Settled' = Settled
  BY <1>1, <1>2, <1>3, SettledStays
<1> QED
  BY <1>1, <1>4 DEF S!serviceVars

\* ... but for those that read what the handler goes by later.
LEMMA ReadRefines ==
    ASSUME IInv, NEW w \in Workers, pc[w] = "start", NEW label \in Inside,
           Selected(w, label) \/ Checked(w),
           NEW s \in Shown(req[w], db), old' = [old EXCEPT ![w] = s]
    PROVE  S!Look(w)
<1>1. UNCHANGED <<db, req, out>>
  BY DEF Selected, Checked
<1>2. Goto(w, label) \/ Goto(w, "write")
  BY DEF Selected, Checked
<1>3. label \in PCs \ AnswerPCs /\ "write" \in PCs \ AnswerPCs /\ pc[w] \notin AnswerPCs
  BY DEF Inside, PCs, AnswerPCs
<1>4. Settled' = Settled /\ Settled[w] = "none"
  BY <1>1, <1>2, <1>3, SettledStays
<1>5. out[w] = "pending" /\ old[w] = NoLocals
  BY AtWork DEF IInv, AnsweredIffIdle, Stands
<1> QED
  BY <1>1, <1>4, <1>5 DEF S!Look

\* A request takes effect when its commit ends.
LEMMA CommitRefines ==
    ASSUME IInv, NEW w \in Workers, CommitEnd(w)
    PROVE  S!TakeEffect(w)
<1> DEFINE label == IF pc[w] = "commit" THEN "answer" ELSE "answerDeclined"
           o == AnswerAt(pc[w], req[w])
<1>1. /\ pc[w] \in CommitPCs /\ db' = dirty /\ Goto(w, label)
      /\ UNCHANGED <<req, old, out>>
  BY DEF CommitEnd
<1>2. AnswerAt(label, req'[w]) = o /\ label \in PCs /\ label \in AnswerPCs
  BY <1>1 DEF AnswerAt, CommitPCs, AnswerPCs, PCs
<1>3. Settled' = [Settled EXCEPT ![w] = o]
  <2>1. \A v \in Workers \ {w} : req'[v] = req[v]
    BY <1>1
  <2> HIDE DEF label, o
  <2> QED
    BY <1>1, <1>2, <2>1, SettledMoves
<1>4. out[w] = "pending" /\ Settled[w] = "none"
  BY <1>1 DEF IInv, AnsweredIffIdle, CommitPCs, AnswerPCs, Settled
<1>5. Effect(req[w], old[w], o, db, db')
  BY <1>1, AtWork DEF Stands, CommitPCs
<1>6. o \in S!Verdicts
  BY DEF AnswerAt, S!Verdicts
<1> QED
  BY <1>1, <1>3, <1>4, <1>5, <1>6 DEF S!TakeEffect

\* What the service does for worker w.
Served(w) == S!Look(w) \/ S!TakeEffect(w) \/ S!Tell(w) \/ S!Dismiss(w) \/ S!Abandon(w)

\* A statement of a handler is a step of the service, or changes nothing its
\* clients see.
LEMMA StepRefines ==
    ASSUME IInv, NEW w \in Workers, Step(w) \/ Cancel(w)
    PROVE  Served(w) \/ UNCHANGED S!serviceVars
<1> DEFINE Works == pc[w] \notin {"idle"} \cup AnswerPCs
           Moves == Works /\ \E label \in Inside : \E e :
                        \/ Selected(w, label) /\ UNCHANGED old
                        \/ Wrote(w, e, label)
                        \/ Checked(w) /\ UNCHANGED old
           Looks == /\ pc[w] = "start"
                    /\ \E label \in Inside : Selected(w, label) \/ Checked(w)
                    /\ \E s \in Shown(req[w], db) : old' = [old EXCEPT ![w] = s]
           TurnedAway == /\ Works
                         /\ \/ Finish(w, "refused") \/ Finish(w, "failed")
                            \/ Finish(w, "declined") /\ req[w].op = "authorize"
                            \/ Finish(w, "done") /\ req[w].op = "list"
<1>1. Moves => UNCHANGED S!serviceVars
  BY StatementRefines
<1>2. TurnedAway => Served(w)
  BY FinishRefines DEF Served
<1>3. Looks => Served(w)
  BY ReadRefines DEF Served
<1> USE DEF Inside, PCs, AnswerPCs
<1>4. CASE AuthorizeRead(w) \/ AuthorizeDecline(w) \/ CreateTxnRead(w)
  <2>1. Moves \/ TurnedAway
    BY <1>4 DEF AuthorizeRead, AuthorizeDecline, CreateTxnRead, At
  <2> QED
    BY <1>1, <1>2, <2>1
<1>5. CASE Debit(w) \/ Journal(w)
  <2>1. Moves \/ TurnedAway
    BY <1>5 DEF Debit, Journal
  <2> QED
    BY <1>1, <1>2, <2>1
<1>6. CASE UpdateTxnRead(w)
  <2>1. Looks \/ TurnedAway
    BY <1>6 DEF UpdateTxnRead, At, Shown
  <2> QED
    BY <1>2, <1>3, <2>1
<1>7. CASE UpdateTxnRefund(w) \/ UpdateTxnDebit(w) \/ UpdateTxnRewrite(w)
  <2>1. Moves \/ TurnedAway
    BY <1>7 DEF UpdateTxnRefund, UpdateTxnDebit, UpdateTxnRewrite
  <2> QED
    BY <1>1, <1>2, <2>1
<1>8. CASE DeleteTxnCheck(w) \/ UpdateCardCheck(w) \/ DeleteCardCheck(w)
  <2>1. Looks \/ TurnedAway
    BY <1>8 DEF DeleteTxnCheck, UpdateCardCheck, DeleteCardCheck, OwnerRead, At
  <2> QED
    BY <1>2, <1>3, <2>1
<1>9. CASE CreateCardCheck(w) \/ ListOpen(w)
  <2>1. Moves
    BY <1>9 DEF CreateCardCheck, ListOpen, At
  <2> QED
    BY <1>1, <2>1
<1>10. CASE \/ DeleteTxnWrite(w) \/ CreateCardWrite(w) \/ UpdateCardWrite(w)
            \/ DeleteCardWrite(w) \/ CreateTerminal(w) \/ DeleteTerminal(w)
  <2>1. Moves \/ TurnedAway
    BY <1>10 DEF DeleteTxnWrite, CreateCardWrite, UpdateCardWrite, DeleteCardWrite,
                 CreateTerminal, DeleteTerminal, At, Autocommit
  <2> QED
    BY <1>1, <1>2, <2>1
<1>11. CASE ListClose(w)
  <2>1. req[w].op = "list" /\ pc[w] = "listing"
    BY <1>11, AtWork DEF ListClose, Stands
  <2> QED
    BY <1>2, <1>11, <2>1 DEF ListClose
<1>12. CASE CommitBegin(w)
  BY <1>12 DEF CommitBegin, S!serviceVars, Settled, Answer
<1>13. CASE CommitEnd(w)
  BY <1>13, CommitRefines DEF Served
<1>14. CASE CommitBusy(w)
  <2>1. pc[w] \in CommitPCs
    BY <1>14 DEF CommitBusy
  <2>2. pc[w] = "commitDeclined" => req[w].op = "authorize"
    BY AtWork DEF Stands, CommitPCs, AnswerAt, Effect
  <2> QED
    BY <1>2, <1>14, <2>1, <2>2 DEF CommitBusy, CommitPCs
<1>15. CASE WaitTimeout(w)
  BY <1>2, <1>15 DEF WaitTimeout
<1>16. CASE Reply(w)
  <2>1. pc[w] \in AnswerPCs /\ Return(w, Answer(w)) /\ db' = db
    BY <1>16 DEF Reply
  <2>2. out[w] = "pending"
    BY <2>1 DEF IInv, AnsweredIffIdle
  <2>3. Settled[w] = Answer(w) /\ Answer(w) # "none"
    BY <2>1 DEF Settled, Answer, AnswerAt
  <2>4. S!Close(w, Settled[w])
    BY <2>1, <2>3, ReturnCloses
  <2> QED
    BY <2>2, <2>3, <2>4 DEF S!Tell, Served
<1>17. CASE Cancel(w)
  <2>1. pc[w] # "idle" /\ Return(w, "lost") /\ db' = db
    BY <1>17 DEF Cancel, Finish
  <2>2. S!Close(w, "lost")
    BY <2>1, ReturnCloses
  <2> QED
    BY <2>1, <2>2 DEF S!Abandon, Served, IInv, AnsweredIffIdle
<1> QED
  BY <1>4, <1>5, <1>6, <1>7, <1>8, <1>9, <1>10, <1>11, <1>12, <1>13, <1>14, <1>15,
     <1>16, <1>17 DEF Step

\* Every step of the server is a step of the service or a stutter.
LEMMA NextRefines ==
    ASSUME IInv, [Next]_vars
    PROVE  [S!Next]_(S!serviceVars)
<1>1. CASE UNCHANGED vars
  BY <1>1 DEF vars, S!serviceVars, Settled, Answer
<1>2. CASE Crash
  <2>1. Settled' = [w \in Workers |-> "none"]
    BY <1>2 DEF Crash, Settled, AnswerPCs
  <2>2. S!Lose
    BY <1>2, <2>1 DEF Crash, S!Lose
  <2> QED
    BY <2>2 DEF S!Next
<1>3. ASSUME NEW w \in Workers, NEW r \in Requests, Accept(w, r)
      PROVE  S!TurnAway(w) \/ S!Submit(w, r)
  <2>1. out[w] # "pending" /\ pc[w] \notin AnswerPCs
    BY <1>3 DEF IInv, AnsweredIffIdle, Accept, AnswerPCs
  <2>2. CASE UNCHANGED <<pc, req>>
    BY <1>3, <2>1, <2>2 DEF Accept, S!TurnAway, S!Submit, Settled, Answer
  <2>3. CASE req' = [req EXCEPT ![w] = r] /\ (Goto(w, "write") \/ Goto(w, "start"))
    <3>1. {"write", "start"} \subseteq PCs \ AnswerPCs
      BY DEF PCs, AnswerPCs
    <3>2. \A v \in Workers \ {w} : req'[v] = req[v]
      BY <2>3 DEF IInv, TypeOK
    <3>3. Settled' = Settled
      BY <2>1, <2>3, <3>1, <3>2, SettledStays
    <3> QED
      BY <1>3, <2>1, <2>3, <3>3 DEF Accept, S!TurnAway, S!Submit
  <2> QED
    BY <1>3, <2>2, <2>3 DEF Accept
<1>4. ASSUME NEW w \in Workers, Step(w) \/ Cancel(w)
      PROVE  Served(w) \/ UNCHANGED S!serviceVars
  BY <1>4, StepRefines
<1> QED
  BY <1>1, <1>2, <1>3, <1>4 DEF Next, S!Next, Served

\* Every request takes effect at one instant, at most once, and its answer, if it
\* gets one, says what it did: PaymentServer implements AtomicService.
THEOREM Refinement == Spec => ImplementsAtomicService
<1>1. Init => S!Init
  BY DEF Init, S!Init, Settled, AnswerPCs
<1>2. IInv /\ [Next]_vars => [S!Next]_(S!serviceVars)
  BY NextRefines
<1> QED
  BY <1>1, <1>2, Invariance, PTL DEF Spec, ImplementsAtomicService, S!Spec

-----------------------------------------------------------------------------
\* What follows for the tables and the money, from what each request does alone.

\* A worker at work serves one of the requests clients send.
LEMMA ServesRequest ==
    ASSUME IInv, NEW w \in Workers, out[w] = "pending"
    PROVE  req[w] \in Requests
BY DEF IInv, AnsweredIffIdle, WorkStands, Stands

\* The step at which the request of worker w takes effect.
LEMMA CommitIsEffect ==
    ASSUME IInv, [Next]_vars, NEW w \in Workers, Commits(w)
    PROVE  /\ req[w] \in Requests /\ Settled'[w] \in S!Verdicts
           /\ Effect(req[w], old[w], Settled'[w], db, db')
<1>1. Settled[w] = "none" /\ Settled'[w] # "none" /\ DOMAIN Settled = Workers
  BY DEF Commits, Settled
<1>2. S!Next
  BY <1>1, NextRefines DEF S!serviceVars
<1>3. ~S!Lose
  BY <1>1 DEF S!Lose
<1>4. PICK v \in Workers : Served(v) \/ S!TurnAway(v) \/ \E r \in Requests : S!Submit(v, r)
  BY <1>2, <1>3 DEF S!Next, Served
<1>5. v = w /\ S!TakeEffect(w)
  <2>1. ~S!Close(v, "lost") /\ \A o : ~S!Close(v, o)
    BY <1>1 DEF S!Close
  <2>2. Settled' # Settled
    BY <1>1
  <2>3. S!TakeEffect(v)
    BY <1>4, <2>1, <2>2
       DEF Served, S!Look, S!Tell, S!Dismiss, S!Abandon, S!TurnAway, S!Submit
  <2>4. v = w
    BY <1>1, <2>3 DEF S!TakeEffect
  <2> QED
    BY <2>3, <2>4
<1>6. PICK o \in S!Verdicts :
         Effect(req[w], old[w], o, db, db') /\ Settled' = [Settled EXCEPT ![w] = o]
  BY <1>5 DEF S!TakeEffect
<1>7. Settled'[w] = o
  BY <1>1, <1>6
<1> QED
  BY <1>5, <1>6, <1>7, ServesRequest DEF S!TakeEffect

\* No step breaks a reference of the committed tables.
LEMMA ReferencesKept ==
    ASSUME IInv, ReferentialIntegrity, [Next]_vars
    PROVE  ReferentialIntegrity'
<1>1. CASE db' = db
  BY <1>1 DEF ReferentialIntegrity
<1>2. ASSUME NEW w \in Workers, S!TakeEffect(w)
      PROVE  ReferentialIntegrity'
  <2>1. PICK o : Effect(req[w], old[w], o, db, db')
    BY <1>2 DEF S!TakeEffect
  <2>2. req[w] \in Requests /\ IsDatabase(db)
    BY <1>2, ServesRequest DEF S!TakeEffect, IInv, TypeOK
  <2>3. ReferencesExist(db')
    BY <2>1, <2>2, EffectKeepsReferences DEF ReferentialIntegrity
  <2> QED
    BY <2>3 DEF ReferentialIntegrity, ReferencesExist, TxnKeysExist, CardsNumbered
<1>3. [S!Next]_(S!serviceVars)
  BY NextRefines
<1>4. (\E w \in Workers : S!TakeEffect(w)) \/ db' = db
  BY <1>3 DEF S!Next, S!Lose, S!TurnAway, S!Submit, S!Look, S!Tell, S!Dismiss, S!Abandon,
              S!Close, S!serviceVars
<1> QED
  BY <1>1, <1>2, <1>4

\* The committed journal and cards never refer to a row that does not exist, nor
\* do two cards share a number, whatever is edited under a payment.
THEOREM ReferencesHold == Spec => []ReferentialIntegrity
<1>1. Init => ReferentialIntegrity
  BY InitialReferencesAssumption DEF Init, ReferentialIntegrity
<1>2. IInv /\ ReferentialIntegrity /\ [Next]_vars => ReferentialIntegrity'
  BY ReferencesKept
<1> QED
  BY <1>1, <1>2, Invariance, PTL DEF Spec

\* A payment that is approved leaves the card it charges without a debt, however
\* many requests compete for the card.
THEOREM NothingOverdrawn == Spec => NoOverdraft
<1>1. ASSUME IInv, ReferentialIntegrity, [Next]_vars
      PROVE  [ChargesCovered]_vars
  <2> SUFFICES ASSUME NEW w \in Workers, Commits(w), req[w].op \in PaymentOps,
                      IF req[w].op = "authorize" THEN Settled'[w] = "approved"
                                                 ELSE req[w].ok
               PROVE  \A i \in CardsNumbered(db', req[w].num) : db'.cards[i].bal >= 0
    BY DEF ChargesCovered
  <2>1. /\ req[w] \in Requests /\ Settled'[w] \in S!Verdicts
        /\ Effect(req[w], old[w], Settled'[w], db, db')
    BY <1>1, CommitIsEffect
  <2>2. Settled'[w] \in {"approved", "done"}
    BY <2>1 DEF S!Verdicts, PaymentOps, Effect
  <2>3. IsDatabase(db) /\ ReferencesExist(db)
    BY <1>1 DEF IInv, TypeOK, ReferentialIntegrity
  <2> QED
    BY <2>1, <2>2, <2>3, EffectNoOverdraft DEF PaymentOps
<1> QED
  BY <1>1, Invariance, ReferencesHold, PTL DEF Spec, NoOverdraft

\* A payment moves money between the balances and the journal and makes or loses
\* none, whatever the other handlers were doing meanwhile.
THEOREM MoneyConserved == Spec => PaymentsConserve
<1> DEFINE Kept == \A w \in Workers : Commits(w) /\ req[w].op \in PaymentOps =>
                       \A n \in Numbers : Worth(db', n) = Worth(db, n)
<1>1. ASSUME IInv, ReferentialIntegrity, [Next]_vars
      PROVE  [Kept]_vars
  <2> SUFFICES ASSUME NEW w \in Workers, Commits(w), req[w].op \in PaymentOps,
                      NEW n \in Numbers
               PROVE  Worth(db', n) = Worth(db, n)
    OBVIOUS
  <2>1. req[w] \in Requests /\ Effect(req[w], old[w], Settled'[w], db, db')
    BY <1>1, CommitIsEffect
  <2>2. IsDatabase(db) /\ ReferencesExist(db)
    BY <1>1 DEF IInv, TypeOK, ReferentialIntegrity
  <2> QED
    BY <2>1, <2>2, EffectConserves DEF PaymentOps
<1> QED
  BY <1>1, Invariance, ReferencesHold, PTL DEF Spec, PaymentsConserve
=============================================================================
