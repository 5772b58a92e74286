# A verification project for the RPO laboratory works

The repository holds four laboratory works around one theme, the electronic
transport card: an Android payment client (`lab1`), a Go server with cards,
payments and accounts (`lab2`), a second server with a web console (`lab3`), and a
desktop station that writes NFC cards (`lab4`). This directory holds TLA+ modules
of the parts where the order of things matters, TLC configurations that check
them on small instances, and TLAPS proofs of what matters most for every instance.

## 1. Inventory

| component | code | state it keeps | operations | what is hard | what makes it correct |
|---|---|---|---|---|---|
| lab1 PIN dialogue | `MainActivity.java`, `PinpadActivity.java`, `native-lib.cpp:206-294` | field `pin`, monitor of `MainActivity`, stack of activities, results in flight, attempts left, keys and digits of a pinpad | tap, `enterPin`, keys, Clear, OK, back, result callback, `transactionResult`, re-creation | native threads beside the UI thread, wait/notify without a condition, overlapping taps, stale field | nothing is approved without the right PIN; no lost notification; every tap answered |
| lab1 cryptography and amounts | `native-lib.cpp:70-203`, `:224-230`, `PinpadActivity.java:86-101` | none | 3DES with padding, random bytes, BCD amount, key shuffle | boundaries | decrypt inverts encrypt; every digit has a key; the amount shown is the one asked for |
| lab2 payments | `terminal_api_handler.go`, `transactions_handler.go` | `cards.balance`, `transactions` in SQLite | authorize, create/update/delete a transaction, lists | SQLite locks and BUSY, a debit and a journal row that belong together, cancelled clients, crashes | each request is atomic; money is conserved; no overdraft; no dangling reference |
| lab2 cards and terminals | `cards_handler.go`, `terminals_handler.go` | `cards`, `terminals` | create, update, delete | check and write in two autocommit statements | only an owner or an administrator edits |
| lab2 accounts | `users_handler.go`, `keys_handler.go`, `auth_handler.go`, `middleware.go`, `server.go` | `users`, `card_keys`, tokens in the hands of clients | login, CRUD, token check | read-then-write edits, tokens that outlive accounts, deletion under a reference | nobody promotes himself; a token never changes hands; owners exist |
| lab2 process | `cmd/server/main.go` | up, draining, down | start with the seeded administrator, SIGTERM, 10 s shutdown, kill | clients that never finish | shutdown ends |
| lab3 backend: cards, journal, payments | `handlers.go`, `db.go`, `models.go` | `cards`, `transactions`, `terminals` | authorize a payment, CRUD through GORM | no transactions, whole-row `Save`, ignored errors, no foreign keys | a payment by itself is whole; owners are given, not taken; no negative balance |
| lab3 backend: accounts | `handlers.go:18-130`, `middleware/auth.go` | `users`, tokens | login, list, create, update, delete | the same, and tokens that outlive a demotion | rights are granted, never picked up from an old row |
| lab3 console | `App.jsx`, `entityApi.js`, `useApi.js`, `useMainTabs.js` | token and profile (in `localStorage` too), tab, rows of its table, requests in flight | login, logout, tabs, lists, modal edits, removal, reload | answers out of order, handlers that have closed over an older state | the table is of the tab it stands under; token and profile are of one account |
| lab4 station | `nfc_admin_page.dart`, `api_client.dart`, `mifare_libnfc.dart`, `card_codec.dart` | what is on the card, the session with the backend | read, register, pay, top up | two stores with no common transaction, torn writes, retries, buttons that stay enabled | a card is charged once or not at all; card and backend agree when nothing fails |
| lab4 sector tool | `nfc-mfsector1.c` | the three blocks of sector 1 | read, write | a card taken away between two blocks | a torn write of a payment has charged the balance once or not at all |

The lab3 console and the lab4 station call the lab3 backend over HTTP; inside a
server the handlers share nothing but the database file. The rest of the tree (mbedtls,
spdlog, node_modules, platform runners, build output, container files) is vendored,
generated or configuration. `PROJECT.json` lists every component with its status,
and every hazard with its line.

## 2. Plan

The order is by what would hurt most; all of it is done.

1. **lab2 payments** - `BankTables`, `Ledger`, `AtomicService` (the abstract
   specification), `PaymentServer`, their proofs.
2. **lab2 accounts and process** - `Registry`, its proofs.
3. **lab1 PIN dialogue** - `PinTerminal`, its proofs.
4. **lab3 backend, cards and journal** - `TransportBackend`, its proofs.
5. **lab4 station** - `NfcStation`, composed with `TransportBackend`, its proofs.
6. **lab3 accounts and console** - `TransportAccounts`, composed by `AdminConsole`
   with the page, their proofs.
7. **lab1 keys, amount and codec** - `TripleDes`, `PinEntry`, which implements
   `PinTerminal`; its proofs.

## 3. Modules

`Tables` (an SQL table is a function from ids to rows) is shared by all databases.

### lab2: `BankTables`, `Ledger`, `AtomicService`, `PaymentServer`

* `BankTables` - the schema of `migrations/00001_init.sql` and what one SQL statement
  does: `InsertTxn`, `SetCard`, `Credit`, the UNIQUE and FOREIGN KEY checks, AUTOINCREMENT.
* `Ledger` - what a request as a whole makes of the database (`Effect`), and the
  `Worth` of a card number: its balance plus what its journal says was spent. An effect is
  a relation between what the request was shown, the database it found and the one it
  left. The payments compare everything with the database they find. An edit or a
  deletion by a regular user goes by the owner it was *shown* (`MayWrite`), who may not
  be the owner any more: that is all `updateCard`, `deleteCard` and `deleteTransaction`
  promise, and the run `reassigned_card` shows the difference.
* `AtomicService` - the abstract specification. A request may look at the database once
  (`Look`); it takes effect at one instant (`TakeEffect`), or never, and never twice; the
  answer, if there is one, tells which (`Tell`, `Dismiss`). A client that hears nothing
  (`Abandon`, `Lose`) knows nothing: its request may have taken effect.
* `PaymentServer` - the handlers, one action per SQL statement. `pc` is the next statement
  of a goroutine, `old` its locals, `lock` its connection's SQLite lock, `dirty` the
  uncommitted pages. Commit and answer are two steps: between `CommitEnd` and `Reply`
  the effect stands and nobody has been told, and a crash (`Crash`) or a client that has
  gone (`Cancel`) leaves it at that. SHARED, RESERVED and PENDING are modelled from how the handlers use
  them: a transaction that reads and finds RESERVED taken is told BUSY at once; one that
  holds nothing waits up to the busy timeout. `Cancel` is a client that goes away
  (`r.Context()`), `Crash` the end of the process; `defer tx.Rollback()` is in `Finish`.
  The refinement mapping is in the module: `S == INSTANCE AtomicService WITH ...`
  gives it the committed database, what each handler has read (`old`), the verdict of what
  it has committed (`Settled`) and what its client was told (`out`).

  | action | code |
  |---|---|
  | `Accept` | `middleware.go`, `router.go` |
  | the `Authorize...`, debit, journal and decline actions | `terminal_api_handler.go:19-71` |
  | the create, refund, redebit and rewrite actions | `transactions_handler.go:73-116`, `:145-235` |
  | the inserts and deletions that check nothing first | `cards_handler.go`, `terminals_handler.go` |
  | `OwnerRead`, and the check and write actions built on it | the owner's SELECT of `updateCard`, `deleteCard`, `deleteTransaction`, and their write |
  | `CommitBegin`, `CommitEnd`, `CommitBusy` | `tx.Commit()`, or the end of an autocommit statement, on SQLite |
  | `Reply` | `writeJSON` after the commit (`terminal_api_handler.go:48`, `:54`, `:71`, and in the other handlers) |
  | `WaitTimeout` | the busy timeout of a connection that holds no lock |
  | `Cancel`, `Crash` | `r.Context()` of a client that has gone; the end of the process |

### lab2: `Registry`

Users, keys, cards as far as they refer to both, and the claims of tokens. No handler
here opens a transaction, so each statement is an action: `ReadHash`, `ReadFlag`,
`UpdateUser` are the three statements of `updateUser`; `FindOwner` and `WriteCard` the
two of `createCard`. `server` is the process: `Terminate`, `Drained`, `ShutdownDeadline`,
`Kill`, `Start`. A password stands for its bcrypt hash. `granted` is history: whom an
administrator, or the start of the server, made one.

### lab1: `PinTerminal`, `TripleDes`, `PinEntry`

* `PinTerminal` - a tap is a native thread with a program counter through `enterPin`:
  clear the field, launch inside the monitor, wait, wake, return. The UI thread delivers
  results (`Resume`, `SetPin`, `Notify`), and Android may re-create the activity
  (`Recreate`). Keys typed one by one are one `Enter`. `InterruptedException` is left
  out: nothing in the program interrupts a thread.
* `TripleDes` - `encrypt` and `decrypt`, padding and early returns included. The DES of
  mbedtls is an ideal cipher: a block is opened by the key it was sealed with, and is
  some other block under any other.
* `PinEntry` - `PinTerminal` with what the user sees and touches: the toast of a tap, the
  amount, `shuffleKeys` one exchange at a time, keys, Clear, OK, back, and a pinpad that
  is turned. It is built on `T == INSTANCE PinTerminal WITH ...`, and shown to implement
  it. Records are well-formed: the early return of `native-lib.cpp:219` is not reached by
  the only caller. The generator returns any bytes, those that were in the buffer before
  included, because its errors are not looked at.

### lab3: `TransportBackend`, `TransportAccounts`, `AdminConsole`

* `TransportBackend` - the handlers of `handlers.go` that touch cards, transactions and
  terminals, one action per statement GORM issues, with the two faces of `Save`: an UPDATE
  of every column by id, and, when it met no row, an INSERT with ON CONFLICT. `loc` is
  what a handler has read and is to write. The body of a journal entry may bring a card
  and a terminal of its own (`models.go:49`), which GORM inserts first, on conflict doing
  nothing, putting the id of that card over the `card_id` the handler has checked:
  `SavesNested`, `NestedCard` and `EntryRow` are part of `InsertEntry`, `SaveEntry` and
  `UpsertEntry`. Bodies may also name the id of a new card or entry. `StatementFails` is an ignored error, `Restart`
  the end of the process. History: `given`, whom a card was given to, `his`, the cards a
  regular user owned at the statements of the request being served, and `before`, the
  database a request found that has run alone so far. `Books` states what one payment
  should do, as a relation between the database it found and the one it leaves. The
  terminal a journal row names is left out, since nothing here depends on it.
* `TransportAccounts` - users and tokens in the same way: `Login`, the list, `CreateUser`,
  `UpdateUser`, removal, the seed (only into an empty table), tokens and their expiry.
  Errors of `Save` and `Create` are ignored here too: a duplicate login is answered with
  what was to be written. A body may name the id of a new account. Lists and changes of
  the other tables change no account, but need the rights they need: keys are an
  administrator's to see and to change (`AdminLists`, `AdminChanges`). `Made` states what a
  request makes of the accounts as one step.
* `AdminConsole` - the React page beside those accounts. `Becomes` is a change of state
  with the effects it triggers (`useMainTabs`, the list of the tab); `call` is a request
  in flight with what its handler has closed over; `Deliver` and `Lose` apply an answer
  to the page as it is by then. `localStorage` mirrors token and profile, which the code
  always writes together, so `Reload` starts from them. Saving on the other tabs, and
  paying, is one request that changes nothing the page keeps but its list.

### lab4: `NfcStation`

The four buttons, `_waitForTag`, the tools with their retries, and the client of the
backend; the backend is `TransportBackend` itself, one worker for each button, with the
page's requests sent through its `Accept`. A run of a tool is a step, which has the
reader to itself; a write is a step after which the first n of three blocks are written,
and any n < 3 is an error that is not tried again (only "No tag found" is, and that is
said before anything is written). A write is of the whole sector: a payment and a top-up
  write back the owner's name as they decoded it, and decoding what was encoded is not
  the identity - a name is cut after 32 bytes, and a malformed end is replaced
  (`Encoded`, `Decoded`, `Blocks`, `OwnerName`) - so the two blocks of the name may
  change, and be torn, too. Cards are swapped on the reader (`MoveCard`), answers
are lost, the backend is restarted, the window is closed and opened (`Reopen`). A token is
fetched once, and when it has expired every further request is refused. `alone` is
history: the world when an action began that has run alone, on a card that lies still,
and whether anything has failed since.

## 4. Runs

| run | instance | shows |
|---|---|---|
| `payments` | 2 workers, 2 cards, amounts -1..3, journal of at most 3 rows, every kind of payment request, fair | types, `DecisionsStand`, `WorkStands`, `LocksOwned`, `PaymentsConserve`, `NoOverdraft`, `ImplementsAtomicService`, `EveryRequestEnds` |
| `maintenance` | the same with edits and deletions of cards, terminals and journal under a payment | `ReferentialIntegrity`, `ImplementsAtomicService` |
| `accounts` | 2 logins, at most 3 user ids, 2 workers | `TypeOK`, `AdminsWereGranted`, `DeadTokensStayDead` |
| `references` | 2 logins, 1 key, 1 card number, fair | `OwnersExist`, `ShutdownEnds` |
| `pin_overlap` | 2 overlapping taps, spurious wakeups, a re-creation | `TypeOK`, `ApprovedByPin`, `NoStrandedThread` |
| `pin_entry` | 2 taps one after the other, 3 keys, PINs of 2 digits, a re-creation, fair | `VerdictMatchesEntries`, `EveryDigitHasAKey`, `AmountShownIsAsked`, `ToastShowsData`, `ImplementsPinTerminal`, `EveryTapAnswered` |
| `transport` | 2 workers, 2 card ids, 1 journal row, edits, entries that bring a card, failures, restarts | `TypeOK`, `BalancesStayNonNegative`, `OwnersWereGiven`, `KeepsToOwnCards`, `LonePaymentsAreBooked` |
| `station` | 2 cards, 2 actions of which the second is a payment, 2 attempts of a tool, every failure, fair | `TypeOK`, `ChipsStayNonNegative`, `ChipIsChargedOnce`, `LoneActionsAgree`, `EveryActionEnds` |
| `console` | 2 seeded accounts, 3 acts of the user, 1 request of another client, 1 failure, 2 workers, fair | `TypeOK`, `AdminsWereGranted`, `PageIsOfOneAccount`, `TableIsOfItsTab`, `LoneRequestsAreWhole`, `LoadingEnds` |
| `reassigned_card` | violation | an edit takes effect on a card that has changed hands |
| `pin_attempts` | violation | a pinpad says two attempts are left before one PIN was typed for it |
| `lost_update` | violation | two approvals, one charge |

**Bounds.** `MaxCard`, `MaxTxn`, `MaxEntry`, `MaxUser` and `MaxKey` cap AUTOINCREMENT
counters; in the models an INSERT past a cap fails, as it would on a full disk. Two
workers are enough for every race here: each hazard is one request between two
statements of another, and two connections are also what it takes to meet BUSY. `Taps = 2`
gives two threads on one monitor; `MaxInstance` caps re-creations; `Patient` and
`Spurious` say whether the user waits for an answer and whether `wait()` may return for no
reason, and each run states which it assumes. `Failing` says the same of statements and of
the process in `TransportBackend`, and of tools and requests in `NfcStation`: it is off in
`lost_update` to show the race by itself. The workers of `transport` are symmetric: its
properties quantify over all.

In `pin_entry` three keys, PINs of two digits and random bytes 0, 1 and 254 give every
residue of every exchange of the shuffle and a PIN that is full, short, empty and wrong; one
tap has an amount of decimal digits and data of one whole block, the other a nibble that is
no digit and data of a byte more. In `station` the backend believes the card empty, so that
one payment is declined and written back all the same; two attempts stand for six. The
name that is registered is too long, and is cut in the middle of a letter, so that a payment
after it changes a block of the name. In
`console` three acts are a login and two more, which is what it takes for one answer to
overtake another (the proofs are for any number of them); `MaxOthers` and `MaxFaults` cap what others do and what fails. `Workers`
there is the browser's limit of connections too.

**Fairness.** Weak fairness of each goroutine's own step (`PaymentServer`, `Registry`) and of
each thread and the looper (`PinTerminal`, `PinEntry`) is what the Go and Android schedulers
give. Nothing is assumed of clients: in `references` a client may never send its body, and
`ShutdownEnds` holds by the deadline. A wait for a lock is not assumed to end well, only
to end: `WaitTimeout` is part of the step. `EveryTapAnswered` assumes as its own
hypothesis that pinpads do not stay open for ever. In `station` a tool returns and a started
request is served or breaks; `EveryActionEnds` then rests on the attempts being counted. In
`console` a `fetch` is answered or rejected, and `LoadingEnds` on the page resetting
`loading` in both cases. Nobody is assumed to press or type anything.

## 5. What the code does not do

* `updateCard` (lab2) checks the owner in one statement and writes the row, owner
  included, in another: a regular user's edit can take effect after the card was given
  to somebody else, and takes it back (`reassigned_card`).
* Overlapping taps (lab1) share one field and one monitor, so an attempt is counted
  against a transaction no PIN was typed for (`pin_attempts`).
* `AuthorizePayment` (lab3) loses one of two overlapping charges, and journals both
  (`lost_update`).

Met while modelling, not judged by a run because no line of the repository promises
otherwise:

* lab2: a payment that has committed and whose client is gone, or whose process dies, is
  charged and unanswered, and the client that asks again pays again: there is no
  idempotency key. `authorizePayment` compares the balance with the amount and never looks at its
  sign, as the handlers that edit the journal do; `updateUser` undoes a concurrent
  demotion or password change; `requireAdmin` believes a token for a day after the account
  was demoted.
* lab1: a re-created `MainActivity` strands the thread that waits on the old one.
* lab3: an approval whose `Save` or `Create` failed is answered as one; a regular
  user's journal entry whose body brings a card lands on that card, whoever owns it, since
  the check is of `card_id` and GORM overwrites it; `UpdateUser` inserts
  an account again that was deleted after it was read. On the console a list that
  overtakes a later one stands under the wrong tab, and a user who logs out while an edit of
  his own account is in flight finds the profile, and `localStorage`, set again by its answer:
  `TableIsOfItsTab` and `PageIsOfOneAccount` are about users who wait.
* lab4: the card pays before the backend is asked, so a failure in between leaves a charge
  nobody has journalled; a payment the backend declines, because its row is behind or
  blocked, is a charge all the same, and `syncCardToBackend` then writes the charged balance
  into the row, beside a journal that says "declined"; two overlapping payments may charge a card once; a card swapped
  before the write gets the balance of the other; a payment rewrites an owner's name that
  was cut, and its name blocks with it; an expired token is not renewed.

## 6. Proofs

Assumptions are those the modules name: constants are sets of the right shape, requests
have the fields their handler decodes, the cards there are at first have different
numbers (and, in `NfcStation`, ids from 1 on, as AUTOINCREMENT gave them:
`KnownCardsAssumption`), and in `TransportBackend` nobody writes a negative balance himself
(`BalancesAssumption`; `updateCard` stores what it is sent).

Every safety invariant and every action property of a passing run is proved for all values
of the constants; liveness is model-checked only.

* **`PaymentServerProofs`** - `IInv` is types, `LocksOwned`, `WorkStands` and "a worker is
  idle exactly when it has answered". `LocksOwned` alone is not inductive: that only
  the holder of RESERVED has uncommitted pages needs to know at which statements it is
  held, which is `WorkStands`; and that needs what was read to stay true, which is
  the lock again. From `IInv`: `TypeCorrect`, `LocksAreOwned`, `WorkIsRight`,
  `NoStaleDecision`, and `Refinement`: the handlers implement `AtomicService` for every
  set of users, cards, terminals, requests and workers. A commit is `TakeEffect`, the answer
  after it is `Tell`, and a crash or a cancellation in between is `Lose` or `Abandon` of a
  request that has taken effect; the owner read by a check is its `Look`. From the refinement and lemmas
  on `Effect` in `LedgerProofs`: `ReferencesHold`, `NothingOverdrawn` and
  `MoneyConserved` (`PaymentsConserve`).
* **`LedgerProofs`** - what a whole request does to the tables. `EffectConserves` is that no
  request but the edits of cards changes the `Worth` of a number: a balance goes down by
  what the rows of its journal go up. What a number has spent is a sum over a finite set of
  rows, so this rests on lemmas about `SumFunctionOnSet` - one row more, one less, one
  changed, the same rows - each proved by induction over the set. The library's induction
  takes an operator; `SetInductive` takes the set of the sets for which the claim holds
  instead, and a smallest counterexample is found with `WFMin`.
* **`RegistryProofs`** - `IInv` is one part about the tables and one about the workers.
  Tables: types, `AdminsWereGranted`, `OwnersExist`, every token's id was once given out
  (so AUTOINCREMENT never hands it to another account), and the seeded administrator is
  granted. Workers: the request fits the statement, only an administrator's token creates
  a user, and an `is_admin` that is about to be written was granted before or is what an
  administrator asks for. That last one is what `AdminsWereGranted` lacks to be inductive:
  the flag was read two statements ago. It gives `TypeCorrect`, `AdminsAreMade`,
  `ReferencesHold` and the action property `DeadStayDead`.
* **`PinTerminalProofs`** - `ApprovedByPin` is not inductive: the field may hold the right
  PIN, or a result with it may be on its way, and `Fresh` says that every thread that can
  still read it already ran when it was typed (a later one clears the field first).
  `NoStrandedThread` needs that a thread between launch and wait is inside the monitor
  (`Inside`), so that no notification falls in between. It gives `TypeCorrect`,
  `ApprovalsArePaidFor`, `NobodyIsStranded`. `AnswersAreTyped` is about a patient user and
  no spurious wakeups: `OneAtATime` says that at most one thread lives, that no pinpad or
  result is about when none does, and (`Turn`) where its own pinpad, or what was typed on it,
  is at each statement, and how many PINs that makes.
* **`PinEntryProofs`** - the codec: `RoundTrip` says `decrypt` undoes `encrypt` for data of any
  length, because a position is in one block and one offset, and the last byte of the
  padding is always its length; hence `ToastIsRight`. `EveryPinCanBeTyped`: the face of
  a pinpad is a permutation at every exchange. `DialogueIsImplemented`: every step is one
  of `PinTerminal`'s or touches what it does not see; the invariant adds that pads are a
  sequence whose typed digits make a PIN. `AnswersAreTyped` is `VerdictMatchesEntries`: the
  lemmas on one-at-a-time dialogues of `PinTerminalProofs`, instantiated at the refinement
  mapping. `AmountsAreShown` is by induction over the digits: the number a pinpad shows,
  read off nibble by nibble, is the amount asked for.
* **`TransportBackendProofs`** - nothing is known of the database at the moment of a write
  (there is no lock), so the invariant is about the row in the worker's hands
  (`Holds`): it had a non-negative balance and a given owner when it was read, and
  `given` only grows. It gives `NoCardBelowZero` and `OwnersAreGivenOnes`. `Entitled` adds
  that a worker about to write for a regular user is about to write to a card that was his
  at one of the request's statements (`his`), for `RegularUsersKeepToTheirOwn`
  (`KeepsToOwnCards`): no other card there is, is changed or removed, and a journal row he
  writes is on such a card unless its body brought one. `Fits`, that a statement has a row of the type it
  writes, for `TypeCorrect`. `LonePaymentsAreOne`: as long as a payment has run alone no
  other worker is busy (`Sole`), so what it read still is what there is (`Paid`); that its
  UPDATE is not refused by the UNIQUE number and its row of the journal is a new one needs
  `UniqueNumbers` and `FreshEntry`, the latter because an edit of the journal can put back
  only what was once there (`Known`).
* **`NfcStationProofs`** - what an action is about to write is a difference it has compared
  (`Ready`), hence `ChipsAreNeverOverdrawn`. For `LoneChipIsChargedOnce`: while an action is
  alone only its button works and the reader keeps its card (`Recorded`); until it writes,
  the chips are as it found them (`Lone`); and a write torn before its first block leaves the
  old chip (`NothingWritten`), one torn later has the new balance, which is in the first,
  whatever it has of the name. `TypeCorrect` adds
  that attempts are counted.
  `LoneActionsAreBooked` is about two stores and the requests between them. `BackendInv` says
  of the backend, whatever runs and fails, that numbers are unique, that ids not yet given out
  are in no table, and what a worker at each statement carries (the station's own requests
  bring no card and ask for no id: `EntryInserted`, `CardInserted`). `Tale` says of a lone action
  that nothing has gone wrong for what the backend has been told by then: at each label of the
  page (`PageTold`) and each statement of its request (`Served`), the tables are those it
  found (`Untold`), or have its charge (`Rebalanced`) and its row of the journal (`Journalled`);
  from the moment it has read back, the chip is the patched one (`OnChip`). No step of a
  lone action leaves it, and the step that ends one ends it as `Booked` says: chip and row
  are charged alike, with one new row of the journal, which says "approved" if the row the
  backend had could pay. If it could not, the code charges chip and row and journals the
  payment as declined; `Booked` claims no agreement of that status. That
  `syncCardToBackend` never registers a card after a payment, and that the row it writes
  back is the charged one, is what makes the two stores agree.
* **`AdminConsoleProofs`** - `IInv` is `BackendInv` and `PageInv`. In the backend an `is_admin`
  about to be written was granted when it was read, or is granted by the request (`Merits`),
  hence `AdminsAreMade`; and a request that runs alone finds the tables it began with at each
  statement (`Undisturbed`), hence `LoneRequests`. On the page, `PageOK` and `CallsOK`
  say that the profile of an administrator, and what a call carries, were granted. For a user
  who waits (`PatientInv`) a request that is no list is alone in flight and was made of the page
  as it is (`Sole`), hence `PageIsOfTheAccount`; the list asked for last is that of the tab
  (`Latest`), and so is the table when none is in flight (`Matches`), hence `TableIsRight`.
  The first attempt failed for a good reason: a user who logs out while the edit of his own
  account is in flight, and is then patient, finds that answer applied after all. So `waits`,
  the history of patience, begins at a login on a page that is nobody's.

Only model-checked: all liveness (`EveryRequestEnds`, `ShutdownEnds`, `EveryTapAnswered`,
`EveryActionEnds`, `LoadingEnds`), which needs ENABLED. The three violations are
counterexamples of small instances. `RoundTrip` is about the codec around DES, which
`TripleDes` takes for an ideal cipher.

## 7. Not modelled, and why

* GET handlers of lab2 other than lists that hold a lock, and those of lab3 that nothing
  here calls: they change nothing.
* The keys, and what they refer to, that the body of a card may bring in turn (lab3).
* `updateTerminal` of lab2, the update of terminals and the keys of lab3: no column the
  models keep, or nothing they keep refers to them. The serial number of a lab3 terminal is
  its identity here.
* Balances are integers; lab2 stores REAL. Rounding is not modelled.
* In `PinTerminal` the wrong PINs are one value, and the empty one another; `PinEntry` has
  them digit by digit.
* Migrations: the initial state is the seeded database. (lab2's migration file has no
  `-- +goose Up` line before its first statement; whether goose accepts it is not
  a question of this model.)
* HTTP itself, JSON, bcrypt, JWT signatures, DES: a request arrives decoded, a password
  matches itself, a token cannot be forged, a block is opened by its key.
* The keys `nfc-mfsector1` tries and the file it passes bytes in; the `nfc-mfclassic` path of
  the station, an external program with the same outcome; `topUpCard` of `api_client.dart`,
  which nobody calls; what other clients of the backend do meanwhile (that is `transport`).
* Configuration, routing tables, container files: read for which handler checks what, and
  otherwise without state.
* The vendored code. Nearly all C and C++ in the tree (some 211,000 lines) is mbedtls and
  spdlog, third-party libraries of which the program calls two ciphers, a generator and a
  logger, and the generated runners of Flutter. They are not the program's own logic and are
  modelled from how it uses them. Its own native code is `native-lib.cpp` and
  `nfc-mfsector1.c`, and the logic of the rest is Go, Java, Dart and JavaScript; so the
  models stand for a very small share of the C in the tree.
