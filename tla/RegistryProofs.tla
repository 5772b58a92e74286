--------------------------- MODULE RegistryProofs ---------------------------
(***************************************************************************)
(* Proofs about Registry, for any accounts, requests and workers: nobody   *)
(* becomes an administrator but by an administrator or the seed, a card's  *)
(* user and key exist, and a dead account's tokens never serve another.    *)
(***************************************************************************)
EXTENDS Registry, TLAPS

-----------------------------------------------------------------------------
\* The inductive invariant

TablesTyped ==
    /\ nextUser \in 1 .. MaxUser + 1 /\ IsTable(users, 1 .. nextUser - 1, UserRows)
    /\ nextKey \in 1 .. MaxKey + 1 /\ IsTable(keys, 1 .. nextKey - 1, Values)
    /\ IsTable(cards, Numbers, CardRows)
    /\ tokens \subseteq Claims /\ granted \subseteq UserIds

\* No token names an id that has not been given yet, and the built-in administrator
\* is user 1.
TokensAreOfGivenIds == 1 < nextUser /\ 1 \in granted /\ \A c \in tokens : c.id < nextUser

TablesInv == TablesTyped /\ AdminsWereGranted /\ OwnersExist /\ TokensAreOfGivenIds

\* The requests a handler's statement is part of.
Serves(label) ==
    IF label \in {"readHash", "readFlag"} THEN {"updateUser"}
    ELSE IF label = "readCard" THEN {"updateCard"}
    ELSE IF label = "findOwner" THEN {"createCard", "updateCard"}
    ELSE IF label = "checkCard" THEN {"deleteCard"} ELSE {label}

\* What a worker's next statement relies on: its request, the right to make it, and
\* that an is_admin it is about to write is an administrator's doing.
Ready(w) ==
    /\ pc[w] # "idle" =>
         req[w] \in Requests /\ (req[w].op # "login" => cal[w] \in Claims)
    /\ pc[w] \notin {"idle", "reading"} => req[w].op \in Serves(pc[w])
    /\ pc[w] = "createUser" => cal[w].adm
    /\ pc[w] \in {"readHash", "readFlag", "updateUser"} /\ loc[w].adm =>
         req[w].id \in granted \/ (cal[w].adm /\ req[w].adm = TRUE)

WorkersInv ==
    /\ pc \in [Workers -> PCs]
    /\ cal \in [Workers -> Claims \cup {None}]
    /\ req \in [Workers -> Requests \cup {None}]
    /\ loc \in [Workers -> Locals]
    /\ \A w \in Workers : Ready(w)

IInv == TablesInv /\ server \in {"up", "draining", "down"} /\ WorkersInv

LEMMA IInvIsTyped == IInv => TypeOK
BY DEF IInv, TablesInv, TablesTyped, WorkersInv, TypeOK

-----------------------------------------------------------------------------
\* Requests and tables

LEMMA Shapes ==
    ASSUME NEW r \in Requests
    PROVE  /\ r.op = "login" => r.login \in Logins /\ r.pass \in Passwords
           /\ r.op = "createUser" =>
                r.login \in Logins /\ r.pass \in Passwords /\ r.adm \in BOOLEAN
           /\ r.op = "updateUser" =>
                /\ r.id \in UserIds /\ r.login \in Logins /\ r.pass \in Passwords
                /\ r.adm \in BOOLEAN \cup {Unset}
           /\ r.op = "deleteUser" => r.id \in UserIds
           /\ r.op = "createKey" => r.val \in Values
           /\ r.op = "updateKey" => r.key \in KeyIds /\ r.val \in Values
           /\ r.op = "deleteKey" => r.key \in KeyIds
           /\ r.op \in {"createCard", "updateCard"} =>
                r.card \in Numbers /\ r.key \in KeyIds /\ r.own \in UserIds \cup {Unset}
           /\ r.op = "deleteCard" => r.card \in Numbers
           /\ r.op \in {"login", "createUser", "updateUser", "deleteUser", "createKey",
                        "updateKey", "deleteKey", "createCard", "updateCard", "deleteCard"}
BY RegistryRequestsAssumption DEF AllRequests

LEMMA WithoutTable ==
    ASSUME NEW f, NEW Ids, NEW Rows, IsTable(f, Ids, Rows), NEW id
    PROVE  /\ IsTable(Without(f, id), Ids, Rows)
           /\ DOMAIN Without(f, id) = DOMAIN f \ {id}
           /\ \A i \in DOMAIN f \ {id} : Without(f, id)[i] = f[i]
BY DEF IsTable, Without

-----------------------------------------------------------------------------
\* How workers move

\* A worker that ends takes no invariant with it, as rights are never taken back.
LEMMA EndsKeeps ==
    ASSUME WorkersInv, NEW w \in Workers, Ends(w), granted \subseteq granted'
    PROVE  WorkersInv'
<1>1. NoLocals \in Locals
  BY MarkersAssumption DEF NoLocals, Locals
<1>2. /\ pc' = [pc EXCEPT ![w] = "idle"] /\ cal' = [cal EXCEPT ![w] = None]
      /\ req' = [req EXCEPT ![w] = None] /\ loc' = [loc EXCEPT ![w] = NoLocals]
  BY DEF Ends, Goto
<1>3. /\ pc' \in [Workers -> PCs] /\ cal' \in [Workers -> Claims \cup {None}]
      /\ req' \in [Workers -> Requests \cup {None}] /\ loc' \in [Workers -> Locals]
  BY <1>1, <1>2 DEF WorkersInv, PCs
<1>4. ASSUME NEW v \in Workers PROVE Ready(v)'
  BY <1>2, <1>4 DEF WorkersInv, Ready
<1> QED
  BY <1>3, <1>4 DEF WorkersInv

\* One that goes on is ready for its next statement.
LEMMA GoesOnKeeps ==
    ASSUME IInv, NEW w \in Workers, NEW label \in PCs, NEW locals \in Locals,
           GoesOn(w, label, locals), Ready(w)'
    PROVE  IInv'
<1>1. /\ pc' = [pc EXCEPT ![w] = label] /\ loc' = [loc EXCEPT ![w] = locals]
      /\ UNCHANGED <<tables, tokens, server, cal, req, granted>>
  BY DEF GoesOn, Goto
<1>2. ASSUME NEW v \in Workers PROVE Ready(v)'
  <2>1. CASE v = w
    BY <2>1
  <2>2. CASE v # w
    BY <1>1, <2>2 DEF IInv, WorkersInv, Ready
  <2> QED
    BY <2>1, <2>2
<1>3. WorkersInv'
  BY <1>1, <1>2 DEF IInv, WorkersInv
<1>4. TablesInv'
  BY <1>1 DEF IInv, TablesInv, TablesTyped, AdminsWereGranted, OwnersExist,
              TokensAreOfGivenIds, tables
<1> QED
  BY <1>1, <1>3, <1>4 DEF IInv

LEMMA RefusesKeeps ==
    ASSUME IInv, NEW w \in Workers, Refuses(w)
    PROVE  IInv'
<1>1. Ends(w) /\ UNCHANGED <<tables, tokens, granted>>
  BY DEF Refuses
<1>2. WorkersInv'
  BY <1>1, EndsKeeps DEF IInv
<1>3. TablesInv' /\ UNCHANGED server
  BY <1>1 DEF IInv, TablesInv, TablesTyped, AdminsWereGranted, OwnersExist,
              TokensAreOfGivenIds, tables, Ends
<1> QED
  BY <1>2, <1>3 DEF IInv

\* What is left to show of a statement that has changed the tables.
LEMMA EffectKeeps ==
    ASSUME IInv, NEW w \in Workers, Ends(w), granted \subseteq granted', TablesInv'
    PROVE  IInv'
BY EndsKeeps DEF IInv, Ends

-----------------------------------------------------------------------------
\* The handlers of users

LEMMA LoginKeeps ==
    ASSUME IInv, NEW w \in Workers, Login(w)
    PROVE  IInv'
<1>1. Ends(w) /\ UNCHANGED <<tables, granted>>
  BY DEF Login
<1>2. \A c \in tokens' \ tokens : c = [id |-> 1, adm |-> TRUE]
         \/ \E i \in DOMAIN users : c = [id |-> i, adm |-> users[i].adm]
  BY DEF Login, Named
<1>3. \A i \in DOMAIN users : i \in 1 .. nextUser - 1 /\ users[i].adm \in BOOLEAN
  BY DEF IInv, TablesInv, TablesTyped, IsTable, UserRows
<1>4. 1 .. nextUser - 1 \subseteq UserIds /\ 1 \in UserIds
  BY RegistryBoundsAssumption DEF IInv, TablesInv, TablesTyped, UserIds
<1>5. ASSUME NEW c \in tokens' \ tokens
      PROVE  c \in Claims /\ c.id < nextUser /\ (c.adm => c.id \in granted)
  <2>1. CASE c = [id |-> 1, adm |-> TRUE]
    BY <1>4, <2>1 DEF IInv, TablesInv, TokensAreOfGivenIds, Claims
  <2>2. ASSUME NEW i \in DOMAIN users, c = [id |-> i, adm |-> users[i].adm]
        PROVE  c \in Claims /\ c.id < nextUser /\ (c.adm => c.id \in granted)
    <3>1. i \in UserIds /\ i < nextUser /\ users[i].adm \in BOOLEAN
      BY <1>3, <1>4 DEF IInv, TablesInv, TablesTyped
    <3>2. users[i].adm => i \in granted
      BY DEF IInv, TablesInv, AdminsWereGranted
    <3> QED
      BY <2>2, <3>1, <3>2 DEF Claims
  <2> QED
    BY <1>2, <2>1, <2>2
<1>6. TablesInv'
  BY <1>1, <1>5 DEF IInv, TablesInv, TablesTyped, AdminsWereGranted, OwnersExist,
                    TokensAreOfGivenIds, tables
<1> QED
  BY <1>1, <1>6, EffectKeeps

\* Accounts that are added, or changed, by whoever may.
LEMMA UsersKeep ==
    ASSUME TablesInv, nextUser' \in nextUser .. MaxUser + 1,
           IsTable(users', 1 .. nextUser' - 1, UserRows), DOMAIN users \subseteq DOMAIN users',
           \A i \in DOMAIN users' : users'[i].adm => i \in granted',
           granted \subseteq granted', granted' \subseteq UserIds,
           UNCHANGED <<keys, nextKey, cards, tokens>>
    PROVE  TablesInv'
<1>1. nextUser \in 1 .. MaxUser + 1 /\ \A c \in tokens : c.id \in Int
  BY DEF TablesInv, TablesTyped, Claims, UserIds
<1>2. TokensAreOfGivenIds'
  BY <1>1, RegistryBoundsAssumption DEF TablesInv, TokensAreOfGivenIds
<1>3. AdminsWereGranted' /\ OwnersExist'
  BY DEF TablesInv, AdminsWereGranted, OwnersExist
<1>4. TablesTyped'
  BY <1>1, RegistryBoundsAssumption DEF TablesInv, TablesTyped
<1> QED
  BY <1>2, <1>3, <1>4 DEF TablesInv

LEMMA CreateUserKeeps ==
    ASSUME IInv, NEW w \in Workers, CreateUser(w), ~Refuses(w)
    PROVE  IInv'
<1> DEFINE r == req[w]
           row == [login |-> r.login, pass |-> r.pass, adm |-> r.adm]
<1>1. /\ Ends(w) /\ nextUser <= MaxUser /\ pc[w] = "createUser"
      /\ users' = Put(users, nextUser, row) /\ nextUser' = nextUser + 1
      /\ granted' = granted \cup (IF cal[w].adm /\ r.adm THEN {nextUser} ELSE {})
      /\ UNCHANGED <<keys, nextKey, cards, tokens>>
  BY DEF CreateUser, Executes, At
<1>2. r \in Requests /\ r.op = "createUser" /\ cal[w].adm
  BY <1>1 DEF IInv, WorkersInv, Ready, Serves
<1>3. row \in UserRows
  BY <1>2, Shapes DEF UserRows
<1>4. nextUser \in UserIds /\ nextUser' \in 1 .. MaxUser + 1
      /\ 1 .. nextUser - 1 \subseteq 1 .. nextUser' - 1 /\ nextUser \in 1 .. nextUser' - 1
  BY <1>1, RegistryBoundsAssumption DEF IInv, TablesInv, TablesTyped, UserIds
<1> DEFINE old == 1 .. nextUser - 1
           new == 1 .. nextUser' - 1
<1> HIDE DEF row, old, new
<1>5. /\ IsTable(users', 1 .. nextUser' - 1, UserRows)
      /\ DOMAIN users' = DOMAIN users \cup {nextUser} /\ users'[nextUser] = row
      /\ \A i \in DOMAIN users \ {nextUser} : users'[i] = users[i]
  <2>1. IsTable(users, old, UserRows) /\ old \subseteq new /\ nextUser \in new
    BY <1>4 DEF IInv, TablesInv, TablesTyped, old, new
  <2>2. /\ IsTable(users', new, UserRows)
        /\ DOMAIN users' = DOMAIN users \cup {nextUser} /\ users'[nextUser] = row
        /\ \A i \in DOMAIN users \ {nextUser} : users'[i] = users[i]
    BY <1>1, <1>3, <2>1 DEF IsTable, Put
  <2> QED
    BY <2>2 DEF new
<1>6. row.adm = r.adm
  BY DEF row
<1>7. \A i \in DOMAIN users' : users'[i].adm => i \in granted'
  BY <1>1, <1>2, <1>5, <1>6 DEF IInv, TablesInv, AdminsWereGranted
<1>8. granted \subseteq granted' /\ granted' \subseteq UserIds
  BY <1>1, <1>4 DEF IInv, TablesInv, TablesTyped
<1>9. nextUser' \in nextUser .. MaxUser + 1
  BY <1>1, <1>4 DEF UserIds
<1>10. TablesInv'
  BY <1>1, <1>5, <1>7, <1>8, <1>9, UsersKeep DEF IInv
<1> QED
  BY <1>1, <1>8, <1>10, EffectKeeps

LEMMA UpdateUserKeeps ==
    ASSUME IInv, NEW w \in Workers, UpdateUser(w), ~Refuses(w)
    PROVE  IInv'
<1> DEFINE r == req[w]
           row == [login |-> r.login, pass |-> loc[w].pass, adm |-> loc[w].adm]
<1>1. /\ Ends(w) /\ pc[w] = "updateUser"
      /\ users' = IF r.id \in DOMAIN users THEN Put(users, r.id, row) ELSE users
      /\ granted' = granted \cup (IF cal[w].adm /\ r.adm = TRUE THEN {r.id} ELSE {})
      /\ UNCHANGED <<nextUser, keys, nextKey, cards, tokens>>
  BY DEF UpdateUser, Executes, At
<1>2. r \in Requests /\ r.op = "updateUser" /\ loc[w] \in Locals
      /\ (loc[w].adm => r.id \in granted \/ (cal[w].adm /\ r.adm = TRUE))
  BY <1>1 DEF IInv, WorkersInv, Ready, Serves
<1>3. r.login \in Logins /\ r.id \in UserIds
  BY <1>2, Shapes
<1>4. row \in UserRows
  BY <1>2, <1>3 DEF UserRows, Locals
<1>5. row.adm => r.id \in granted'
  BY <1>1, <1>2
<1> HIDE DEF row, r
<1>6. IsTable(users, 1 .. nextUser - 1, UserRows)
  BY DEF IInv, TablesInv, TablesTyped
<1>7. IsTable(users', 1 .. nextUser - 1, UserRows) /\ DOMAIN users' = DOMAIN users
      /\ \A i \in DOMAIN users : users'[i] = IF i = r.id THEN row ELSE users[i]
  BY <1>1, <1>4, <1>6 DEF IsTable, Put
<1>8. \A i \in DOMAIN users' : users'[i].adm => i \in granted'
  BY <1>1, <1>5, <1>7 DEF IInv, TablesInv, AdminsWereGranted
<1>9. granted \subseteq granted' /\ granted' \subseteq UserIds
  BY <1>1, <1>3 DEF IInv, TablesInv, TablesTyped
<1>10. nextUser' \in nextUser .. MaxUser + 1
  BY <1>1 DEF IInv, TablesInv, TablesTyped
<1>11. TablesInv'
  BY <1>1, <1>7, <1>8, <1>9, <1>10, UsersKeep DEF IInv
<1> QED
  BY <1>1, <1>9, <1>11, EffectKeeps

LEMMA DeleteUserKeeps ==
    ASSUME IInv, NEW w \in Workers, DeleteUser(w), ~Refuses(w)
    PROVE  IInv'
<1>1. /\ Ends(w) /\ \A n \in DOMAIN cards : cards[n].own # req[w].id
      /\ users' = Without(users, req[w].id)
      /\ UNCHANGED <<nextUser, keys, nextKey, cards, granted, tokens>>
  BY DEF DeleteUser, Executes
<1>2. IsTable(users', 1 .. nextUser - 1, UserRows) /\ DOMAIN users' = DOMAIN users \ {req[w].id}
      /\ \A i \in DOMAIN users' : users'[i] = users[i]
  BY <1>1, WithoutTable DEF IInv, TablesInv, TablesTyped
<1>3. TablesInv'
  BY <1>1, <1>2 DEF IInv, TablesInv, TablesTyped, AdminsWereGranted, OwnersExist,
                    TokensAreOfGivenIds
<1> QED
  BY <1>1, <1>3, EffectKeeps

-----------------------------------------------------------------------------
\* The handlers of keys and cards

LEMMA KeysKeep ==
    ASSUME IInv, NEW w \in Workers, CreateKey(w) \/ UpdateKey(w) \/ DeleteKey(w), ~Refuses(w)
    PROVE  IInv'
<1>1. Ends(w) /\ UNCHANGED <<users, nextUser, cards, granted, tokens>>
  BY DEF CreateKey, UpdateKey, DeleteKey, Executes
<1>2. IsTable(keys, 1 .. nextKey - 1, Values) /\ nextKey \in 1 .. MaxKey + 1
  BY DEF IInv, TablesInv, TablesTyped
<1>3. CASE CreateKey(w)
  <2>1. /\ nextKey <= MaxKey /\ keys' = Put(keys, nextKey, req[w].val) /\ nextKey' = nextKey + 1
        /\ pc[w] = "createKey"
    BY <1>3 DEF CreateKey, Executes, At
  <2>2. req[w].val \in Values
    BY <2>1, Shapes DEF IInv, WorkersInv, Ready, Serves
  <2>3. nextKey' \in 1 .. MaxKey + 1 /\ nextKey \in 1 .. nextKey' - 1
        /\ 1 .. nextKey - 1 \subseteq 1 .. nextKey' - 1
    BY <1>2, <2>1, RegistryBoundsAssumption
  <2>4. IsTable(keys', 1 .. nextKey' - 1, Values) /\ DOMAIN keys \subseteq DOMAIN keys'
    BY <1>2, <2>1, <2>2, <2>3 DEF IsTable, Put
  <2>5. TablesInv'
    BY <1>1, <2>3, <2>4 DEF IInv, TablesInv, TablesTyped, AdminsWereGranted, OwnersExist,
                            TokensAreOfGivenIds
  <2> QED
    BY <1>1, <2>5, EffectKeeps
<1>4. CASE UpdateKey(w)
  <2>1. /\ keys' = IF req[w].key \in DOMAIN keys THEN Put(keys, req[w].key, req[w].val) ELSE keys
        /\ nextKey' = nextKey /\ pc[w] = "updateKey"
    BY <1>4 DEF UpdateKey, Executes, At
  <2>2. req[w].val \in Values
    BY <2>1, Shapes DEF IInv, WorkersInv, Ready, Serves
  <2>3. IsTable(keys', 1 .. nextKey - 1, Values) /\ DOMAIN keys' = DOMAIN keys
    BY <1>2, <2>1, <2>2 DEF IsTable, Put
  <2>4. TablesInv'
    BY <1>1, <2>1, <2>3 DEF IInv, TablesInv, TablesTyped, AdminsWereGranted, OwnersExist,
                            TokensAreOfGivenIds
  <2> QED
    BY <1>1, <2>4, EffectKeeps
<1>5. CASE DeleteKey(w)
  <2>1. /\ \A n \in DOMAIN cards : cards[n].key # req[w].key
        /\ keys' = Without(keys, req[w].key) /\ nextKey' = nextKey
    BY <1>5 DEF DeleteKey, Executes
  <2>2. IsTable(keys', 1 .. nextKey - 1, Values) /\ DOMAIN keys' = DOMAIN keys \ {req[w].key}
    BY <1>2, <2>1, WithoutTable
  <2>3. TablesInv'
    BY <1>1, <2>1, <2>2 DEF IInv, TablesInv, TablesTyped, AdminsWereGranted, OwnersExist,
                            TokensAreOfGivenIds
  <2> QED
    BY <1>1, <2>3, EffectKeeps
<1> QED
  BY <1>3, <1>4, <1>5

\* What becomes of the cards, whatever happens to one of them.
LEMMA CardsKeep ==
    ASSUME TablesInv, IsTable(cards', Numbers, CardRows), OwnersExist',
           UNCHANGED <<users, nextUser, keys, nextKey, granted, tokens>>
    PROVE  TablesInv'
BY DEF TablesInv, TablesTyped, AdminsWereGranted, TokensAreOfGivenIds

LEMMA WriteCardKeeps ==
    ASSUME IInv, NEW w \in Workers, WriteCard(w), ~Refuses(w)
    PROVE  IInv'
<1> DEFINE r == req[w]
           row == [own |-> loc[w].own, key |-> r.key]
           writes == pc[w] = "createCard" \/ r.card \in DOMAIN cards
<1>1. /\ Ends(w) /\ pc[w] \in {"createCard", "updateCard"}
      /\ writes => CardKeysExist(row)
      /\ cards' = IF writes THEN Put(cards, r.card, row) ELSE cards
      /\ UNCHANGED <<users, nextUser, keys, nextKey, granted, tokens>>
  BY DEF WriteCard, Executes, At, IInv
<1>2. r.card \in Numbers
  BY <1>1, Shapes DEF IInv, WorkersInv, Ready, Serves
<1>3. DOMAIN users \subseteq UserIds /\ DOMAIN keys \subseteq KeyIds
      /\ IsTable(cards, Numbers, CardRows) /\ OwnersExist
  BY RegistryBoundsAssumption DEF IInv, TablesInv, TablesTyped, IsTable, UserIds, KeyIds
<1>4. writes => row \in CardRows /\ row.own \in DOMAIN users /\ row.key \in DOMAIN keys
  BY <1>1, <1>3 DEF CardKeysExist, CardRows
<1> HIDE DEF row, writes
<1>5. IsTable(cards', Numbers, CardRows)
  BY <1>1, <1>2, <1>3, <1>4 DEF IsTable, Put
<1>6. OwnersExist'
  BY <1>1, <1>3, <1>4 DEF OwnersExist, Put
<1>7. TablesInv'
  BY <1>1, <1>5, <1>6, CardsKeep DEF IInv
<1> QED
  BY <1>1, <1>7, EffectKeeps

LEMMA DeleteCardKeeps ==
    ASSUME IInv, NEW w \in Workers, DeleteCard(w), ~Refuses(w)
    PROVE  IInv'
<1>1. Ends(w) /\ cards' = Without(cards, req[w].card)
      /\ UNCHANGED <<users, nextUser, keys, nextKey, granted, tokens>>
  BY DEF DeleteCard, Executes
<1>2. IsTable(cards, Numbers, CardRows) /\ OwnersExist
  BY DEF IInv, TablesInv, TablesTyped
<1>3. IsTable(cards', Numbers, CardRows) /\ OwnersExist'
  BY <1>1, <1>2 DEF IsTable, Without, OwnersExist
<1>4. TablesInv'
  BY <1>1, <1>3, CardsKeep DEF IInv
<1> QED
  BY <1>1, <1>4, EffectKeeps

-----------------------------------------------------------------------------
\* Statements that only read

LEMMA AcceptKeeps ==
    ASSUME IInv, NEW w \in Workers, NEW r \in Requests, NEW c \in tokens \cup {None},
           Accept(w, c, r)
    PROVE  IInv'
<1>1. /\ pc' = [pc EXCEPT ![w] = "reading"] /\ cal' = [cal EXCEPT ![w] = c]
      /\ req' = [req EXCEPT ![w] = r] /\ UNCHANGED <<tables, tokens, server, loc, granted>>
      /\ (IF r.op = "login" THEN c = None ELSE c \in tokens)
  BY DEF Accept, Goto
<1>2. tokens \subseteq Claims
  BY DEF IInv, TablesInv, TablesTyped
<1>3. ASSUME NEW v \in Workers PROVE Ready(v)'
  BY <1>1, <1>2 DEF IInv, WorkersInv, Ready
<1>4. WorkersInv'
  BY <1>1, <1>2, <1>3 DEF IInv, WorkersInv, PCs
<1>5. TablesInv'
  BY <1>1 DEF IInv, TablesInv, TablesTyped, AdminsWereGranted, OwnersExist,
              TokensAreOfGivenIds, tables
<1> QED
  BY <1>1, <1>4, <1>5 DEF IInv

LEMMA ReadRequestKeeps ==
    ASSUME IInv, NEW w \in Workers, ReadRequest(w), ~Refuses(w)
    PROVE  IInv'
<1> DEFINE r == req[w]
           c == cal[w]
           label == FirstStatement(c, r)
           locals == FirstLocals(c, r)
<1>1. GoesOn(w, label, locals) /\ ~Forbidden(c, r) /\ pc[w] = "reading"
  BY DEF ReadRequest, At
<1>2. r \in Requests /\ (r.op # "login" => c \in Claims)
  BY <1>1 DEF IInv, WorkersInv, Ready
<1>3. label \in PCs \ {"idle", "reading"} /\ r.op \in Serves(label)
  BY <1>2, Shapes DEF FirstStatement, PCs, Serves
<1>4. locals \in Locals
  <2>1. NoLocals \in Locals
    BY MarkersAssumption DEF NoLocals, Locals
  <2>2. CASE r.op = "updateUser"
    <3>1. locals = [pass |-> r.pass, adm |-> SetsFlag(c, r) /\ r.adm, own |-> Unset]
      BY <2>2 DEF FirstLocals
    <3>2. r.pass \in Passwords /\ (SetsFlag(c, r) /\ r.adm) \in BOOLEAN
      BY <1>2, <2>2, Shapes
    <3> QED
      BY <3>1, <3>2 DEF Locals
  <2>3. CASE r.op = "createCard"
    <3>1. c.id \in UserIds /\ r.own \in UserIds \cup {Unset}
      BY <1>2, <2>3, Shapes DEF Claims
    <3> QED
      BY <2>1, <2>3, <3>1 DEF FirstLocals, NoLocals, Locals
  <2> QED
    BY <2>1, <2>2, <2>3 DEF FirstLocals
<1>5. label = "createUser" => c.adm
  BY <1>1, <1>3 DEF Forbidden, AdminOnly, Serves
<1>6. label \in {"readHash", "readFlag", "updateUser"} /\ locals.adm =>
         c.adm /\ r.adm = TRUE
  <2>1. SUFFICES ASSUME r.op = "updateUser", locals.adm PROVE c.adm /\ r.adm = TRUE
    BY <1>3 DEF Serves
  <2>2. SetsFlag(c, r) /\ r.adm
    BY <2>1 DEF FirstLocals
  <2>3. r.adm \in BOOLEAN /\ c.adm
    BY <1>2, <2>1, <2>2, Shapes DEF SetsFlag
  <2> QED
    BY <2>2, <2>3
<1> HIDE DEF label, locals
<1>7. pc'[w] = label /\ loc'[w] = locals /\ UNCHANGED <<cal, req, granted>>
  BY <1>1 DEF GoesOn, Goto, IInv, WorkersInv
<1>8. Ready(w)'
  BY <1>2, <1>3, <1>5, <1>6, <1>7 DEF Ready
<1> QED
  BY <1>1, <1>3, <1>4, <1>8, GoesOnKeeps

LEMMA ReadsKeep ==
    ASSUME IInv, NEW w \in Workers,
           ReadHash(w) \/ ReadFlag(w) \/ ReadCard(w) \/ FindOwner(w) \/ CheckCard(w),
           ~Refuses(w)
    PROVE  IInv'
<1> DEFINE r == req[w]
           c == cal[w]
<1>1. r \in Requests /\ r.op \in Serves(pc[w]) /\ (r.op # "login" => c \in Claims)
      /\ loc[w] \in Locals
  BY DEF IInv, WorkersInv, Ready, ReadHash, ReadFlag, ReadCard, FindOwner, CheckCard, At
<1>2. \A label, locals : GoesOn(w, label, locals) =>
         pc'[w] = label /\ loc'[w] = locals /\ UNCHANGED <<cal, req, granted>>
  BY DEF GoesOn, Goto, IInv, WorkersInv
<1>3. CASE ReadHash(w)
  <2> DEFINE label == IF SetsFlag(c, r) THEN "updateUser" ELSE "readFlag"
             locals == [loc[w] EXCEPT !.pass = users[r.id].pass]
  <2>1. GoesOn(w, label, locals) /\ r.id \in DOMAIN users /\ pc[w] = "readHash"
    BY <1>3 DEF ReadHash, At
  <2>2. r.op = "updateUser" /\ (loc[w].adm => r.id \in granted \/ (c.adm /\ r.adm = TRUE))
    BY <1>1, <2>1 DEF Serves, IInv, WorkersInv, Ready
  <2>3. users[r.id] \in UserRows
    BY <2>1 DEF IInv, TablesInv, TablesTyped, IsTable
  <2>4. locals \in Locals /\ locals.adm = loc[w].adm
    BY <1>1, <2>3 DEF Locals, UserRows
  <2>5. label \in {"updateUser", "readFlag"} /\ label \in PCs
    BY DEF PCs
  <2> HIDE DEF label, locals
  <2>6. Ready(w)'
    BY <1>1, <1>2, <2>1, <2>2, <2>4, <2>5 DEF Ready, Serves
  <2> QED
    BY <2>1, <2>4, <2>5, <2>6, GoesOnKeeps
<1>4. CASE ReadFlag(w)
  <2> DEFINE locals == [loc[w] EXCEPT !.adm = users[r.id].adm]
  <2>1. GoesOn(w, "updateUser", locals) /\ r.id \in DOMAIN users /\ pc[w] = "readFlag"
    BY <1>4 DEF ReadFlag, At
  <2>2. r.op = "updateUser"
    BY <1>1, <2>1 DEF Serves
  <2>3. users[r.id] \in UserRows /\ (users[r.id].adm => r.id \in granted)
    BY <2>1 DEF IInv, TablesInv, TablesTyped, IsTable, AdminsWereGranted
  <2>4. locals \in Locals /\ (locals.adm => r.id \in granted)
    BY <1>1, <2>3 DEF Locals, UserRows
  <2> HIDE DEF locals
  <2>5. Ready(w)'
    BY <1>1, <1>2, <2>1, <2>2, <2>4 DEF Ready, Serves
  <2>6. "updateUser" \in PCs
    BY DEF PCs
  <2> QED
    BY <2>1, <2>4, <2>5, <2>6, GoesOnKeeps
<1>5. CASE ReadCard(w)
  <2> DEFINE own == IF c.adm /\ r.own # Unset THEN r.own ELSE cards[r.card].own
             locals == [loc[w] EXCEPT !.own = own]
  <2>1. GoesOn(w, "findOwner", locals) /\ r.card \in DOMAIN cards /\ pc[w] = "readCard"
    BY <1>5 DEF ReadCard, At
  <2>2. r.op = "updateCard" /\ r.own \in UserIds \cup {Unset}
    BY <1>1, <2>1, Shapes DEF Serves
  <2>3. cards[r.card] \in CardRows
    BY <2>1 DEF IInv, TablesInv, TablesTyped, IsTable
  <2>4. locals \in Locals
    BY <1>1, <2>2, <2>3 DEF Locals, CardRows
  <2> HIDE DEF locals
  <2>5. Ready(w)'
    BY <1>1, <1>2, <2>1, <2>2 DEF Ready, Serves
  <2>6. "findOwner" \in PCs
    BY DEF PCs
  <2> QED
    BY <2>1, <2>4, <2>5, <2>6, GoesOnKeeps
<1>6. CASE FindOwner(w)
  <2>1. GoesOn(w, r.op, loc[w]) /\ pc[w] = "findOwner"
    BY <1>6 DEF FindOwner, At
  <2>2. r.op \in {"createCard", "updateCard"} /\ r.op \in PCs
    BY <1>1, <2>1 DEF Serves, PCs
  <2>3. Ready(w)'
    BY <1>1, <1>2, <2>1, <2>2 DEF Ready, Serves
  <2> QED
    BY <1>1, <2>1, <2>2, <2>3, GoesOnKeeps
<1>7. CASE CheckCard(w)
  <2>1. GoesOn(w, "deleteCard", loc[w]) /\ pc[w] = "checkCard"
    BY <1>7 DEF CheckCard, At
  <2>2. r.op = "deleteCard" /\ "deleteCard" \in PCs
    BY <1>1, <2>1 DEF Serves, PCs
  <2>3. Ready(w)'
    BY <1>1, <1>2, <2>1, <2>2 DEF Ready, Serves
  <2> QED
    BY <1>1, <2>1, <2>2, <2>3, GoesOnKeeps
<1> QED
  BY <1>3, <1>4, <1>5, <1>6, <1>7

-----------------------------------------------------------------------------
\* The process

LEMMA DiesKeeps ==
    ASSUME IInv, Dies
    PROVE  IInv'
<1>1. NoLocals \in Locals
  BY MarkersAssumption DEF NoLocals, Locals
<1>2. WorkersInv'
  BY <1>1 DEF Dies, WorkersInv, Ready, PCs
<1>3. TablesInv' /\ server' = "down"
  BY DEF IInv, Dies, TablesInv, TablesTyped, AdminsWereGranted, OwnersExist,
         TokensAreOfGivenIds, tables
<1> QED
  BY <1>2, <1>3 DEF IInv

LEMMA DefaultAdminIsRow == DefaultAdmin \in UserRows /\ DefaultAdmin.adm
BY AdminAssumption DEF DefaultAdmin, UserRows

LEMMA StartKeeps ==
    ASSUME IInv, Start
    PROVE  IInv'
<1>1. /\ DefaultId <= MaxUser /\ users' = Put(users, DefaultId, DefaultAdmin)
      /\ nextUser' = IF DefaultId = nextUser THEN nextUser + 1 ELSE nextUser
      /\ granted' = granted \cup {DefaultId} /\ server' = "up"
      /\ UNCHANGED <<keys, nextKey, cards, tokens, workers>>
  BY DEF Start
<1>2. DefaultId = nextUser \/ DefaultId \in DOMAIN users
  BY DEF DefaultId, Named
<1> HIDE DEF DefaultId
<1>3. nextUser \in 1 .. MaxUser + 1 /\ IsTable(users, 1 .. nextUser - 1, UserRows)
      /\ DOMAIN users \subseteq 1 .. nextUser - 1
  BY DEF IInv, TablesInv, TablesTyped, IsTable
<1>4. /\ DefaultId \in UserIds /\ nextUser' \in nextUser .. MaxUser + 1
      /\ DefaultId \in 1 .. nextUser' - 1 /\ 1 .. nextUser - 1 \subseteq 1 .. nextUser' - 1
  BY <1>1, <1>2, <1>3, RegistryBoundsAssumption DEF UserIds
<1>5. /\ IsTable(users', 1 .. nextUser' - 1, UserRows)
      /\ DOMAIN users' = DOMAIN users \cup {DefaultId}
      /\ \A i \in DOMAIN users \ {DefaultId} : users'[i] = users[i]
  BY <1>1, <1>3, <1>4, DefaultAdminIsRow DEF IsTable, Put
<1>6. \A i \in DOMAIN users' : users'[i].adm => i \in granted'
  BY <1>1, <1>5 DEF IInv, TablesInv, AdminsWereGranted
<1>7. granted \subseteq granted' /\ granted' \subseteq UserIds
  BY <1>1, <1>4 DEF IInv, TablesInv, TablesTyped
<1>8. TablesInv'
  BY <1>1, <1>4, <1>5, <1>6, <1>7, UsersKeep DEF IInv
<1>9. WorkersInv'
  <2>1. UNCHANGED <<pc, cal, req, loc>>
    BY <1>1 DEF workers
  <2> QED
    BY <2>1, <1>7 DEF IInv, WorkersInv, Ready
<1> QED
  BY <1>1, <1>8, <1>9 DEF IInv

-----------------------------------------------------------------------------
\* The invariant holds

LEMMA InitIInv == Init => IInv
<1> SUFFICES ASSUME Init PROVE IInv
  OBVIOUS
<1>1. NoLocals \in Locals
  BY MarkersAssumption DEF NoLocals, Locals
<1>2. WorkersInv
  BY <1>1 DEF Init, WorkersInv, Ready, PCs
<1>3. /\ DOMAIN users = {1} /\ users[1] = DefaultAdmin /\ IsTable(users, 1 .. 1, UserRows)
      /\ DOMAIN keys = {} /\ IsTable(keys, {}, Values)
      /\ DOMAIN cards = {} /\ IsTable(cards, Numbers, CardRows)
  BY DefaultAdminIsRow DEF Init, IsTable, Put
<1>4. TablesInv
  BY <1>3, RegistryBoundsAssumption DEF Init, TablesInv, TablesTyped, AdminsWereGranted,
     OwnersExist, TokensAreOfGivenIds, UserIds
<1> QED
  BY <1>2, <1>4 DEF IInv, Init

LEMMA StepIInv == IInv /\ [Next]_vars => IInv'
<1> SUFFICES ASSUME IInv, [Next]_vars PROVE IInv'
  OBVIOUS
<1>1. ASSUME NEW w \in Workers, Refuses(w) PROVE IInv'
  BY <1>1, RefusesKeeps
<1>2. ASSUME NEW w \in Workers, Statement(w) PROVE IInv'
  <2>1. CASE Refuses(w)
    BY <2>1, <1>1
  <2>2. CASE ~Refuses(w)
    BY <1>2, <2>2, LoginKeeps, CreateUserKeeps, UpdateUserKeeps, DeleteUserKeeps, KeysKeep,
       WriteCardKeeps, DeleteCardKeeps, ReadsKeep DEF Statement, StatementFails
  <2> QED
    BY <2>1, <2>2
<1>3. ASSUME NEW w \in Workers, ReadRequest(w) PROVE IInv'
  BY <1>1, <1>3, ReadRequestKeeps
<1>4. ASSUME NEW w \in Workers, NEW r \in Requests, NEW c \in tokens \cup {None},
             Accept(w, c, r)
      PROVE  IInv'
  BY <1>4, AcceptKeeps
<1>5. CASE Expire
  BY <1>5 DEF Expire, IInv, TablesInv, TablesTyped, AdminsWereGranted, OwnersExist,
     TokensAreOfGivenIds, WorkersInv, Ready, tables, workers
<1>6. CASE Terminate
  BY <1>6 DEF Terminate, IInv, TablesInv, TablesTyped, AdminsWereGranted, OwnersExist,
     TokensAreOfGivenIds, WorkersInv, Ready, tables, workers
<1>7. CASE Drained \/ ShutdownDeadline \/ Kill
  BY <1>7, DiesKeeps DEF Drained, ShutdownDeadline, Kill
<1>8. CASE Start
  BY <1>8, StartKeeps
<1>9. CASE UNCHANGED vars
  BY <1>9 DEF IInv, TablesInv, TablesTyped, AdminsWereGranted, OwnersExist,
     TokensAreOfGivenIds, WorkersInv, Ready, tables, workers, vars
<1> QED
  BY <1>2, <1>3, <1>4, <1>5, <1>6, <1>7, <1>8, <1>9 DEF Next, StartFails

LEMMA Invariance == Spec => []IInv
BY InitIInv, StepIInv, PTL DEF Spec

\* Every row, token, request and local keeps its type.
THEOREM TypeCorrect == Spec => []TypeOK
BY Invariance, IInvIsTyped, PTL

\* Nobody is an administrator, in the table or by a token, whom no administrator and
\* no seed made one: for any number of edits that read and write in any order.
THEOREM AdminsAreMade == Spec => []AdminsWereGranted
<1>1. IInv => AdminsWereGranted
  BY DEF IInv, TablesInv
<1> QED
  BY <1>1, Invariance, PTL

\* The user and the key of every card exist, whoever is deleted meanwhile.
THEOREM ReferencesHold == Spec => []OwnersExist
<1>1. IInv => OwnersExist
  BY DEF IInv, TablesInv
<1> QED
  BY <1>1, Invariance, PTL

-----------------------------------------------------------------------------
\* A step gives a row only to an id that no token has.
NoResurrection == \A c \in tokens : c.id \notin DOMAIN users => c.id \notin DOMAIN users'

LEMMA StepNoResurrection == IInv /\ [Next]_vars => NoResurrection
<1> SUFFICES ASSUME IInv, [Next]_vars PROVE NoResurrection
  OBVIOUS
<1>1. \A c \in tokens : c.id < nextUser /\ c.id \in Int
  BY DEF IInv, TablesInv, TablesTyped, TokensAreOfGivenIds, Claims, UserIds
<1>2. \A i \in DOMAIN users' : i \in DOMAIN users \/ i = nextUser
  <2>1. ASSUME NEW w \in Workers, Statement(w)
        PROVE  \A i \in DOMAIN users' : i \in DOMAIN users \/ i = nextUser
    BY <2>1 DEF Statement, Login, CreateUser, ReadHash, ReadFlag, UpdateUser, DeleteUser,
       CreateKey, UpdateKey, DeleteKey, ReadCard, FindOwner, WriteCard, CheckCard, DeleteCard,
       StatementFails, Executes, Refuses, GoesOn, tables, Put, Without
  <2>2. CASE Start
    BY <2>2 DEF Start, DefaultId, Named, Put
  <2>3. CASE UNCHANGED users
    BY <2>3
  <2>4. ASSUME NEW w \in Workers, ReadRequest(w) \/ \E r \in Requests, c \in tokens \cup {None} :
                                                    Accept(w, c, r)
        PROVE  UNCHANGED users
    BY <2>4 DEF ReadRequest, Accept, Refuses, GoesOn, tables
  <2>5. CASE Expire \/ Terminate \/ Drained \/ ShutdownDeadline \/ Kill \/ StartFails
    BY <2>3, <2>5 DEF Expire, Terminate, Drained, ShutdownDeadline, Kill, StartFails, Dies,
       tables, vars
  <2>6. CASE UNCHANGED vars
    BY <2>3, <2>6 DEF vars, tables
  <2> QED
    BY <2>1, <2>2, <2>3, <2>4, <2>5, <2>6 DEF Next
<1>3. nextUser \in Int
  BY DEF IInv, TablesInv, TablesTyped
<1> QED
  BY <1>1, <1>2, <1>3 DEF NoResurrection

\* Tokens of an account that has gone never become those of another.
THEOREM DeadStayDead == Spec => DeadTokensStayDead
<1>1. IInv /\ [Next]_vars => [NoResurrection]_vars
  BY StepNoResurrection
<1> QED
  BY <1>1, Invariance, PTL DEF Spec, DeadTokensStayDead, NoResurrection
=============================================================================
