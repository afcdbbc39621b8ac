------------------------------ MODULE ViewProofs ------------------------------
(***************************************************************************)
(* The sample chain as a provider and as a ledger: what its accounts under *)
(* aliases are at their addresses, and what each method makes of them.     *)
(***************************************************************************)
EXTENDS Web3Proofs

-----------------------------------------------------------------------------
(* Accounts at an address.                                                 *)

\* On a chain that requests built, a lookup finds one account or none.
LEMMA OneAccount ==
    ASSUME NEW ch, Sane(ch), NEW a, Exist(ch, a)
    PROVE  \E acc \in Account : AccountsAt(ch, a) = {acc} /\ acc.address = a
<1>1. ch.users \in [User -> Account] /\ ch.contracts \in Seq(Account)
  BY DEF Sane, ChainOk
<1>2. CASE ContractsAt(ch, a) # {}
  <2>1. PICK n \in DOMAIN ch.contracts : ch.contracts[n].address = a
    BY <1>2 DEF ContractsAt
  <2>2. ContractsAt(ch, a) = {n}
    BY <2>1 DEF ContractsAt, Sane
  <2>3. UsersAt(ch, a) = {}
    BY <2>1 DEF UsersAt, Sane, UserAddresses
  <2>4. AccountsAt(ch, a) = {ch.contracts[n]}
    BY <2>2, <2>3 DEF AccountsAt
  <2> QED
    BY <1>1, <2>1, <2>4
<1>3. CASE ContractsAt(ch, a) = {}
  <2>1. PICK u \in User : ch.users[u].address = a
    BY <1>3 DEF Exist, AccountsAt, UsersAt
  <2>2. UsersAt(ch, a) = {u}
    BY <2>1, BlockchainAssumption DEF UsersAt, Sane
  <2>3. AccountsAt(ch, a) = {ch.users[u]}
    BY <1>3, <2>2 DEF AccountsAt
  <2> QED
    BY <1>1, <2>1, <2>3
<1> QED
  BY <1>2, <1>3

\* An account as module Provider has it.
Shown(acc) ==
    [exist |-> TRUE, nonce |-> acc.nonce, balance |-> acc.balance,
     code |-> acc.code, storage |-> acc.storage]

\* Fields of such a record replaced.
LEMMA ShownFields ==
    ASSUME NEW acc, NEW after
    PROVE  /\ \A balance, nonce :
                after = [Shown(acc) EXCEPT !.balance = balance, !.nonce = nonce]
                => after = [exist |-> TRUE, nonce |-> nonce,
                            balance |-> balance, code |-> acc.code,
                            storage |-> acc.storage]
           /\ \A storage :
                after = [Shown(acc) EXCEPT !.storage = storage]
                => after = [exist |-> TRUE, nonce |-> acc.nonce,
                            balance |-> acc.balance, code |-> acc.code,
                            storage |-> storage]
BY DEF Shown

\* A view is a function of addresses.
LEMMA ViewFunction ==
    ASSUME NEW ch, NEW f, f = [a \in Address |-> View(ch)[a]]
    PROVE  View(ch) = f
BY DEF View

\* What the view shows where there is one account.
LEMMA ViewOfOne ==
    ASSUME NEW ch, NEW a \in Address, NEW acc, AccountsAt(ch, a) = {acc}
    PROVE  Exist(ch, a) /\ View(ch)[a] = Shown(acc)
<1>1. (CHOOSE x \in AccountsAt(ch, a) : TRUE) = acc
  OBVIOUS
<1> QED
  BY <1>1 DEF Exist, View, Shown

\* What it shows where there is none.
LEMMA ViewOfNone ==
    ASSUME NEW ch, NEW a \in Address, ~Exist(ch, a)
    PROVE  View(ch)[a] = P!NoAccount
BY DEF View

\* The view depends on nothing but the accounts at each address.
LEMMA SameView ==
    ASSUME NEW c1, NEW c2, NEW a \in Address,
           AccountsAt(c1, a) = AccountsAt(c2, a)
    PROVE  View(c1)[a] = View(c2)[a]
BY DEF View, Exist

\* Chains with the same users and contracts have the same view.
LEMMA SameAccounts ==
    ASSUME NEW c1, NEW c2, c1.users = c2.users, c1.contracts = c2.contracts
    PROVE  \A a : AccountsAt(c1, a) = AccountsAt(c2, a)
BY DEF AccountsAt, ContractsAt, UsersAt

\* Values stored in an account.
Stored(acc, writes) ==
    [acc EXCEPT !.storage = [k \in Key |-> Overwritten(@[k], writes[k])]]

\* store changes the accounts at its address, and no other.
LEMMA StoreAccounts ==
    ASSUME NEW ch, Sane(ch), NEW a, NEW writes \in Writes
    PROVE  LET after == Store(ch, a, writes)
           IN  /\ \A b : b # a => AccountsAt(after, b) = AccountsAt(ch, b)
               /\ AccountsAt(after, a) =
                    {Stored(acc, writes) : acc \in AccountsAt(ch, a)}
<1> DEFINE after == Store(ch, a, writes)
<1>1. after = [ch EXCEPT
        !.contracts = [n \in DOMAIN @ |->
            IF @[n].address = a THEN Stored(@[n], writes) ELSE @[n]],
        !.users = [u \in User |->
            IF @[u].address = a THEN Stored(@[u], writes) ELSE @[u]]]
  BY DEF Store, Change, Stored
<1>2. /\ after.users = [u \in User |->
           IF ch.users[u].address = a THEN Stored(ch.users[u], writes)
                                      ELSE ch.users[u]]
      /\ after.contracts = [n \in DOMAIN ch.contracts |->
           IF ch.contracts[n].address = a THEN Stored(ch.contracts[n], writes)
                                          ELSE ch.contracts[n]]
  BY <1>1 DEF Sane, ChainOk
<1>3. ch.users \in [User -> Account] /\ ch.contracts \in Seq(Account)
  BY DEF Sane, ChainOk
<1>4. \A acc \in Account : Stored(acc, writes).address = acc.address
  BY DEF Account, Stored
<1> HIDE DEF after
<1>5. \A n \in DOMAIN ch.contracts : ch.contracts[n] \in Account
  BY <1>3
<1>6. \A b : /\ ContractsAt(after, b) = ContractsAt(ch, b)
             /\ UsersAt(after, b) = UsersAt(ch, b)
  <2>1. /\ DOMAIN after.contracts = DOMAIN ch.contracts
        /\ \A n \in DOMAIN ch.contracts :
             after.contracts[n].address = ch.contracts[n].address
    BY <1>2, <1>4, <1>5
  <2>2. \A u \in User : after.users[u].address = ch.users[u].address
    BY <1>2, <1>3, <1>4
  <2> QED
    BY <2>1, <2>2 DEF ContractsAt, UsersAt
<1>7. ASSUME NEW b, b # a
      PROVE  AccountsAt(after, b) = AccountsAt(ch, b)
  <2>1. \A n \in ContractsAt(ch, b) : after.contracts[n] = ch.contracts[n]
    BY <1>2, <1>7 DEF ContractsAt
  <2>2. \A u \in UsersAt(ch, b) : after.users[u] = ch.users[u]
    BY <1>2, <1>7 DEF UsersAt
  <2> QED
    BY <1>6, <2>1, <2>2 DEF AccountsAt
<1>8. AccountsAt(after, a) = {Stored(acc, writes) : acc \in AccountsAt(ch, a)}
  <2>1. \A n \in ContractsAt(ch, a) :
          after.contracts[n] = Stored(ch.contracts[n], writes)
    BY <1>2 DEF ContractsAt
  <2>2. \A u \in UsersAt(ch, a) : after.users[u] = Stored(ch.users[u], writes)
    BY <1>2 DEF UsersAt
  <2> QED
    BY <1>6, <2>1, <2>2 DEF AccountsAt
<1> QED
  BY <1>7, <1>8 DEF after

\* Balance and nonce written to an account.
Updated(acc, balance, nonce) ==
    [acc EXCEPT !.balance = balance, !.nonce = nonce]

\* update_account changes the accounts at its address, and no other.
LEMMA UpdateAccounts ==
    ASSUME NEW ch, Sane(ch), NEW a, NEW balance, NEW nonce
    PROVE  LET after == UpdateAccount(ch, a, balance, nonce)
           IN  /\ \A b : b # a => AccountsAt(after, b) = AccountsAt(ch, b)
               /\ AccountsAt(after, a) =
                    {Updated(acc, balance, nonce) : acc \in AccountsAt(ch, a)}
<1> DEFINE after == UpdateAccount(ch, a, balance, nonce)
           updated(acc) == Updated(acc, balance, nonce)
<1>1. after = [ch EXCEPT
        !.contracts = [n \in DOMAIN @ |->
            IF @[n].address = a THEN updated(@[n]) ELSE @[n]],
        !.users = [u \in User |->
            IF @[u].address = a THEN updated(@[u]) ELSE @[u]]]
  BY DEF UpdateAccount, Change, Updated
<1>2. /\ after.users = [u \in User |->
           IF ch.users[u].address = a THEN updated(ch.users[u])
                                      ELSE ch.users[u]]
      /\ after.contracts = [n \in DOMAIN ch.contracts |->
           IF ch.contracts[n].address = a THEN updated(ch.contracts[n])
                                          ELSE ch.contracts[n]]
  BY <1>1 DEF Sane, ChainOk
<1>3. ch.users \in [User -> Account] /\ ch.contracts \in Seq(Account)
  BY DEF Sane, ChainOk
<1>4. \A acc \in Account : updated(acc).address = acc.address
  BY DEF Account, Updated
<1> HIDE DEF after, updated
<1>5. \A n \in DOMAIN ch.contracts : ch.contracts[n] \in Account
  BY <1>3
<1>6. \A b : /\ ContractsAt(after, b) = ContractsAt(ch, b)
             /\ UsersAt(after, b) = UsersAt(ch, b)
  <2>1. /\ DOMAIN after.contracts = DOMAIN ch.contracts
        /\ \A n \in DOMAIN ch.contracts :
             after.contracts[n].address = ch.contracts[n].address
    BY <1>2, <1>4, <1>5
  <2>2. \A u \in User : after.users[u].address = ch.users[u].address
    BY <1>2, <1>3, <1>4
  <2> QED
    BY <2>1, <2>2 DEF ContractsAt, UsersAt
<1>7. ASSUME NEW b, b # a
      PROVE  AccountsAt(after, b) = AccountsAt(ch, b)
  <2>1. \A n \in ContractsAt(ch, b) : after.contracts[n] = ch.contracts[n]
    BY <1>2, <1>7 DEF ContractsAt
  <2>2. \A u \in UsersAt(ch, b) : after.users[u] = ch.users[u]
    BY <1>2, <1>7 DEF UsersAt
  <2> QED
    BY <1>6, <2>1, <2>2 DEF AccountsAt
<1>8. AccountsAt(after, a) = {updated(acc) : acc \in AccountsAt(ch, a)}
  <2>1. \A n \in ContractsAt(ch, a) :
          after.contracts[n] = updated(ch.contracts[n])
    BY <1>2 DEF ContractsAt
  <2>2. \A u \in UsersAt(ch, a) : after.users[u] = updated(ch.users[u])
    BY <1>2 DEF UsersAt
  <2> QED
    BY <1>6, <2>1, <2>2 DEF AccountsAt
<1> QED
  BY <1>7, <1>8 DEF after, updated

\* create_contract adds an account, and changes none.
LEMMA CreateAccounts ==
    ASSUME NEW ch, Sane(ch), NEW a, NEW code
    PROVE  LET after == CreateContract(ch, a, code)
           IN  /\ \A b : b # a => AccountsAt(after, b) = AccountsAt(ch, b)
               /\ AccountsAt(after, a) =
                    AccountsAt(ch, a) \cup {NewAccount(a, 0, 0, code)}
<1> DEFINE after == CreateContract(ch, a, code)
           new   == NewAccount(a, 0, 0, code)
<1>1. after.users = ch.users /\ after.contracts = Append(ch.contracts, new)
  BY DEF CreateContract, Sane, ChainOk
<1>2. ch.contracts \in Seq(Account)
  BY DEF Sane, ChainOk
<1>3. new.address = a
  BY DEF NewAccount
<1> HIDE DEF after, new
<1>4. PICK l \in Nat : DOMAIN ch.contracts = 1 .. l /\ Len(ch.contracts) = l
  BY <1>2
<1>5. /\ DOMAIN after.contracts = 1 .. l + 1
      /\ \A n \in 1 .. l : after.contracts[n] = ch.contracts[n]
      /\ after.contracts[l + 1] = new
  BY <1>1, <1>2, <1>4
<1>6. /\ after.users = ch.users
      /\ \A b : UsersAt(after, b) = UsersAt(ch, b)
  BY <1>1 DEF UsersAt
<1>7. ASSUME NEW b, b # a
      PROVE  AccountsAt(after, b) = AccountsAt(ch, b)
  <2>1. ContractsAt(after, b) = ContractsAt(ch, b)
    <3>1. \A n : n \in 1 .. l + 1 <=> n \in 1 .. l \/ n = l + 1
      OBVIOUS
    <3> QED
      BY <1>3, <1>4, <1>5, <1>7, <3>1 DEF ContractsAt
  <2>2. \A n \in ContractsAt(ch, b) : after.contracts[n] = ch.contracts[n]
    BY <1>4, <1>5 DEF ContractsAt
  <2> QED
    BY <1>6, <2>1, <2>2 DEF AccountsAt
<1>8. AccountsAt(after, a) = AccountsAt(ch, a) \cup {new}
  <2>1. ContractsAt(after, a) = ContractsAt(ch, a) \cup {l + 1}
    <3>1. \A n : n \in 1 .. l + 1 <=> n \in 1 .. l \/ n = l + 1
      OBVIOUS
    <3> QED
      BY <1>3, <1>4, <1>5, <3>1 DEF ContractsAt
  <2>2. \A n \in ContractsAt(ch, a) : after.contracts[n] = ch.contracts[n]
    BY <1>4, <1>5 DEF ContractsAt
  <2> QED
    BY <1>5, <1>6, <2>1, <2>2 DEF AccountsAt
<1> QED
  BY <1>7, <1>8 DEF after, new

-----------------------------------------------------------------------------
(* The chain as a provider.                                                *)

\* A view that differs from another at one address.
LEMMA ViewAfter ==
    ASSUME NEW ch, NEW after, NEW a \in Address, NEW shown,
           View(after)[a] = shown,
           \A b : b # a => AccountsAt(after, b) = AccountsAt(ch, b)
    PROVE  View(after) = [View(ch) EXCEPT ![a] = shown]
<1>1. \A b \in Address : b # a => View(after)[b] = View(ch)[b]
  BY SameView
<1>2. /\ View(after) = [b \in Address |-> View(after)[b]]
      /\ View(ch) = [b \in Address |-> View(ch)[b]]
  BY ViewFunction
<1> QED
  BY <1>1, <1>2

\* Balance and nonce, as the provider has them after update_account.
LEMMA UpdateView ==
    ASSUME NEW ch, Sane(ch), NEW a \in Address, Exist(ch, a),
           NEW balance, NEW nonce
    PROVE  View(UpdateAccount(ch, a, balance, nonce)) =
             [View(ch) EXCEPT ![a].balance = balance, ![a].nonce = nonce]
<1> DEFINE after == UpdateAccount(ch, a, balance, nonce)
<1>1. PICK acc \in Account : AccountsAt(ch, a) = {acc}
  BY OneAccount
<1>2. /\ \A b : b # a => AccountsAt(after, b) = AccountsAt(ch, b)
      /\ AccountsAt(after, a) = {Updated(acc, balance, nonce)}
  BY <1>1, UpdateAccounts
<1> HIDE DEF after
<1>3. View(after)[a] = Shown(Updated(acc, balance, nonce))
  BY <1>2, ViewOfOne
<1>4. View(ch)[a] = Shown(acc)
  BY <1>1, ViewOfOne
<1>5. Shown(Updated(acc, balance, nonce))
        = [Shown(acc) EXCEPT !.balance = balance, !.nonce = nonce]
  <2>1. Shown(Updated(acc, balance, nonce)) =
          [exist |-> TRUE, nonce |-> nonce, balance |-> balance,
           code |-> acc.code, storage |-> acc.storage]
    BY <1>1 DEF Shown, Updated, Account
  <2>2. [Shown(acc) EXCEPT !.balance = balance, !.nonce = nonce] =
          [exist |-> TRUE, nonce |-> nonce, balance |-> balance,
           code |-> acc.code, storage |-> acc.storage]
    BY ShownFields
  <2> QED
    BY <2>1, <2>2
<1>6. View(after) =
        [View(ch) EXCEPT ![a] = [Shown(acc) EXCEPT !.balance = balance,
                                                   !.nonce = nonce]]
  BY <1>2, <1>3, <1>5, ViewAfter
<1>7. View(ch) = [b \in Address |-> View(ch)[b]]
  BY ViewFunction
<1> QED
  BY <1>4, <1>6, <1>7 DEF after

\* Storage, as the provider has it after store.
LEMMA StoreView ==
    ASSUME NEW ch, Sane(ch), NEW a \in Address, Exist(ch, a),
           NEW writes \in Writes
    PROVE  View(Store(ch, a, writes)) =
             [View(ch) EXCEPT ![a].storage =
                [k \in Key |-> Overwritten(View(ch)[a].storage[k], writes[k])]]
<1> DEFINE after == Store(ch, a, writes)
<1>1. PICK acc \in Account : AccountsAt(ch, a) = {acc}
  BY OneAccount
<1>2. /\ \A b : b # a => AccountsAt(after, b) = AccountsAt(ch, b)
      /\ AccountsAt(after, a) = {Stored(acc, writes)}
  BY <1>1, StoreAccounts
<1> HIDE DEF after
<1>3. View(after)[a] = Shown(Stored(acc, writes))
  BY <1>2, ViewOfOne
<1>4. View(ch)[a] = Shown(acc)
  BY <1>1, ViewOfOne
<1> DEFINE storage == [k \in Key |-> Overwritten(acc.storage[k], writes[k])]
<1>5. Shown(Stored(acc, writes)) = [Shown(acc) EXCEPT !.storage = storage]
  <2>1. Shown(Stored(acc, writes)) =
          [exist |-> TRUE, nonce |-> acc.nonce, balance |-> acc.balance,
           code |-> acc.code, storage |-> storage]
    BY <1>1 DEF Shown, Stored, Account
  <2>2. [Shown(acc) EXCEPT !.storage = storage] =
          [exist |-> TRUE, nonce |-> acc.nonce, balance |-> acc.balance,
           code |-> acc.code, storage |-> storage]
    BY ShownFields
  <2> QED
    BY <2>1, <2>2
<1>6. storage =
        [k \in Key |-> Overwritten(View(ch)[a].storage[k], writes[k])]
  BY <1>4 DEF Shown
<1> HIDE DEF storage
<1>7. View(after) =
        [View(ch) EXCEPT ![a] = [Shown(acc) EXCEPT !.storage = storage]]
  <2>1. View(after)[a] = [Shown(acc) EXCEPT !.storage = storage]
    BY <1>3, <1>5
  <2> QED
    BY <1>2, <2>1, ViewAfter
<1>8. View(ch) = [b \in Address |-> View(ch)[b]]
  BY ViewFunction
<1>9. View(after) = [View(ch) EXCEPT ![a].storage = storage]
  BY <1>4, <1>7, <1>8
<1> QED
  BY <1>6, <1>9 DEF after

\* A contract, as the provider has it after create_contract.
LEMMA CreateView ==
    ASSUME NEW ch, Sane(ch), NEW a \in Address, ~Exist(ch, a), NEW code
    PROVE  /\ View(CreateContract(ch, a, code)) =
                [View(ch) EXCEPT ![a] = P!NewAccount(0, 0, code)]
           /\ Exist(CreateContract(ch, a, code), a)
<1> DEFINE after == CreateContract(ch, a, code)
<1>1. /\ \A b : b # a => AccountsAt(after, b) = AccountsAt(ch, b)
      /\ AccountsAt(after, a) = {NewAccount(a, 0, 0, code)}
  BY CreateAccounts DEF Exist
<1> HIDE DEF after
<1>2. Exist(after, a) /\ View(after)[a] = Shown(NewAccount(a, 0, 0, code))
  BY <1>1, ViewOfOne
<1>3. Shown(NewAccount(a, 0, 0, code)) = P!NewAccount(0, 0, code)
  BY DEF Shown, NewAccount, P!NewAccount, P!NoStorage
<1>4. View(after) = [View(ch) EXCEPT ![a] = P!NewAccount(0, 0, code)]
  BY <1>1, <1>2, <1>3, ViewAfter
<1> QED
  BY <1>2, <1>4 DEF after

\* One value stored: what a provider has after set_storage.
LEMMA SetStorageView ==
    ASSUME NEW ch, Sane(ch), NEW a \in Address, Exist(ch, a),
           NEW k \in Key, NEW v \in Value
    PROVE  View(SetStorage(ch, a, k, v)) =
             [View(ch) EXCEPT ![a].storage[k] = v]
<1> DEFINE write == [j \in Key |-> IF j = k THEN v ELSE Absent]
<1>1. write \in Writes /\ v # Absent
  BY BlockchainAssumption DEF Writes
<1>2. PICK acc \in Account : AccountsAt(ch, a) = {acc}
  BY OneAccount
<1>3. View(ch)[a].storage \in [Key -> Value \cup {Absent}]
  <2>1. View(ch)[a] = Shown(acc) /\ acc \in Account
    BY <1>2, ViewOfOne
  <2> QED
    BY <2>1 DEF Shown, Account
<1>4. [j \in Key |-> Overwritten(View(ch)[a].storage[j], write[j])]
        = [View(ch)[a].storage EXCEPT ![k] = v]
  BY <1>1, <1>3 DEF Overwritten
<1>5. View(SetStorage(ch, a, k, v)) = [View(ch) EXCEPT ![a].storage =
        [j \in Key |-> Overwritten(View(ch)[a].storage[j], write[j])]]
  BY <1>1, StoreView DEF SetStorage
<1> QED
  BY <1>4, <1>5

\* A provider in the same process has one reply.
LEMMA LocalReply ==
    ASSUME NEW before, NEW after
    PROVE  P!Reply(before, after) = {[ok |-> TRUE, prov |-> after]}
BY DEF P!Reply

\* Lookups by address find what the view shows, or nothing where it shows none.
LEMMA LookupsView ==
    ASSUME NEW ch, Sane(ch), NEW a \in Address
    PROVE  /\ View(ch)[a].exist = Exist(ch, a)
           /\ Details(ch, a) = IF P!AccountOk(View(ch), a)
                               THEN {[balance |-> View(ch)[a].balance,
                                      nonce   |-> View(ch)[a].nonce,
                                      code    |-> View(ch)[a].code]}
                               ELSE {}
           /\ \A k \in Key :
                StorageAt(ch, a, k) = IF P!StorageOk(View(ch), a, k)
                                      THEN {View(ch)[a].storage[k]} ELSE {}
<1>1. CASE Exist(ch, a)
  <2>1. PICK acc : AccountsAt(ch, a) = {acc}
    BY <1>1, OneAccount
  <2>2. PICK shown : shown = Shown(acc) /\ shown = View(ch)[a]
    BY <2>1, ViewOfOne
  <2>3. /\ shown.exist = TRUE /\ shown.balance = acc.balance
        /\ shown.nonce = acc.nonce /\ shown.code = acc.code
        /\ shown.storage = acc.storage
    BY <2>2 DEF Shown
  <2>4. Details(ch, a) =
          {[balance |-> acc.balance, nonce |-> acc.nonce, code |-> acc.code]}
    BY <2>1 DEF Details
  <2>5. \A k \in Key : StorageAt(ch, a, k) = {acc.storage[k]} \ {Absent}
    BY <2>1 DEF StorageAt
  <2>6. View(ch)[a].exist = Exist(ch, a)
    BY <1>1, <2>2, <2>3 DEF Exist
  <2>7. P!AccountOk(View(ch), a)
    BY <2>2, <2>3 DEF P!AccountOk
  <2>8. Details(ch, a) = IF P!AccountOk(View(ch), a)
                         THEN {[balance |-> View(ch)[a].balance,
                                nonce   |-> View(ch)[a].nonce,
                                code    |-> View(ch)[a].code]}
                         ELSE {}
    BY <2>2, <2>3, <2>4, <2>7
  <2>9. ASSUME NEW k \in Key
        PROVE  StorageAt(ch, a, k) = IF P!StorageOk(View(ch), a, k)
                                     THEN {View(ch)[a].storage[k]} ELSE {}
    <3>1. P!StorageOk(View(ch), a, k) <=> acc.storage[k] # Absent
      BY <2>2, <2>3 DEF P!StorageOk
    <3>2. View(ch)[a].storage[k] = acc.storage[k]
      BY <2>2, <2>3
    <3>3. StorageAt(ch, a, k) = {acc.storage[k]} \ {Absent}
      BY <2>5
    <3> QED
      BY <3>1, <3>2, <3>3
  <2> QED
    BY <2>6, <2>8, <2>9
<1>2. CASE ~Exist(ch, a)
  <2>1. View(ch)[a] = P!NoAccount
    BY <1>2, ViewOfNone
  <2>2. P!NoAccount.exist = FALSE
    BY DEF P!NoAccount, P!NewAccount
  <2>3. Details(ch, a) = {} /\ \A k : StorageAt(ch, a, k) = {}
    BY <1>2 DEF Exist, Details, StorageAt
  <2> QED
    BY <1>2, <2>1, <2>2, <2>3 DEF P!AccountOk, P!StorageOk, Exist
<1> QED
  BY <1>1, <1>2

\* On every chain that requests can build, whatever they deployed and called, the
\* sample chain's lookups and its create_contract, update_account and set_storage do
\* what module Provider says: what is proved of execute holds on this chain.
THEOREM ChainIsProvider == Spec => []ImplementsProvider
<1>1. Inv => ImplementsProvider
  <2> SUFFICES ASSUME Sane(chain), NEW a \in Address
      PROVE
        /\ P!Exist(View(chain), a) = {Exist(chain, a)}
        /\ Details(chain, a) = IF P!AccountOk(View(chain), a)
                               THEN {[balance |-> View(chain)[a].balance,
                                      nonce   |-> View(chain)[a].nonce,
                                      code    |-> View(chain)[a].code]}
                               ELSE {}
        /\ \A k \in Key :
             StorageAt(chain, a, k) = IF P!StorageOk(View(chain), a, k)
                                      THEN {View(chain)[a].storage[k]} ELSE {}
        /\ \A code \in Bytes :
             ~Exist(chain, a) =>
               [ok |-> TRUE, prov |-> View(CreateContract(chain, a, code))]
                 \in P!CreateContract(View(chain), a, code)
        /\ Exist(chain, a) =>
             /\ [ok |-> TRUE, prov |-> View(UpdateAccount(chain, a, 2, 3))]
                   \in P!UpdateAccount(View(chain), a, 2, 3)
             /\ \A k \in Key, v \in Value :
                  [ok |-> TRUE, prov |-> View(SetStorage(chain, a, k, v))]
                    \in P!WriteStorage(View(chain), a, k, v)
    BY DEF Inv, ImplementsProvider
  <2>1. P!Exist(View(chain), a) = {Exist(chain, a)}
    <3>1. View(chain)[a].exist = Exist(chain, a)
      BY LookupsView
    <3> QED
      BY <3>1 DEF P!Exist
  <2>2. ASSUME NEW code \in Bytes, ~Exist(chain, a)
        PROVE  [ok |-> TRUE, prov |-> View(CreateContract(chain, a, code))]
                 \in P!CreateContract(View(chain), a, code)
    BY <2>2, CreateView DEF P!CreateContract, P!Reply
  <2>3. ASSUME Exist(chain, a)
        PROVE  [ok |-> TRUE, prov |-> View(UpdateAccount(chain, a, 2, 3))]
                 \in P!UpdateAccount(View(chain), a, 2, 3)
    BY <2>3, UpdateView, LocalReply DEF P!UpdateAccount
  <2>4. ASSUME Exist(chain, a), NEW k \in Key, NEW v \in Value
        PROVE  [ok |-> TRUE, prov |-> View(SetStorage(chain, a, k, v))]
                 \in P!WriteStorage(View(chain), a, k, v)
    BY <2>4, SetStorageView, LocalReply DEF P!WriteStorage
  <2> QED
    BY <2>1, <2>2, <2>3, <2>4, LookupsView
<1> QED
  BY SpecInv, <1>1, PTL

-----------------------------------------------------------------------------
(* The chain as a ledger.                                                  *)

\* What a ledger records of an account.
Entry(acc) ==
    [exist |-> acc.exist, code |-> acc.code, storage |-> acc.storage]

LEMMA EntryStorage ==
    ASSUME NEW entry, NEW after, NEW code, NEW former, NEW storage,
           entry = [exist |-> TRUE, code |-> code, storage |-> former],
           after = [entry EXCEPT !.storage = storage]
    PROVE  after = [exist |-> TRUE, code |-> code, storage |-> storage]
OBVIOUS

LEMMA LedgeredAt ==
    ASSUME NEW ch
    PROVE  /\ Ledgered(ch) = [a \in Address |-> Ledgered(ch)[a]]
           /\ \A a \in Address : Ledgered(ch)[a] = Entry(View(ch)[a])
BY DEF Ledgered, Entry

\* Blocks, records and nonces are nothing to a ledger.
LEMMA SameLedger ==
    ASSUME NEW c1, Sane(c1), NEW c2, Sane(c2), c1.contracts = c2.contracts,
           \A u \in User : /\ c2.users[u].code = c1.users[u].code
                           /\ c2.users[u].storage = c1.users[u].storage
    PROVE  Ledgered(c2) = Ledgered(c1)
<1>1. \A a : /\ ContractsAt(c2, a) = ContractsAt(c1, a)
             /\ UsersAt(c2, a) = UsersAt(c1, a)
  BY DEF ContractsAt, UsersAt, Sane
<1>2. ASSUME NEW a \in Address
      PROVE  Ledgered(c2)[a] = Ledgered(c1)[a]
  <2>1. CASE Exist(c1, a)
    <3>1. PICK acc1 : AccountsAt(c1, a) = {acc1}
      BY <2>1, OneAccount
    <3>2. Exist(c2, a)
      BY <1>1, <2>1 DEF Exist, AccountsAt
    <3>3. PICK acc2 : AccountsAt(c2, a) = {acc2}
      BY <3>2, OneAccount
    <3>4. acc2.code = acc1.code /\ acc2.storage = acc1.storage
      <4>1. CASE \E n : n \in ContractsAt(c1, a)
        BY <1>1, <3>1, <3>3, <4>1 DEF AccountsAt
      <4>2. CASE \E u : u \in UsersAt(c1, a)
        <5>1. PICK u \in User : u \in UsersAt(c1, a) /\ u \in UsersAt(c2, a)
          BY <1>1, <4>2 DEF UsersAt
        <5>2. acc1 = c1.users[u] /\ acc2 = c2.users[u]
          BY <3>1, <3>3, <5>1 DEF AccountsAt
        <5> QED
          BY <5>2
      <4> QED
        BY <2>1, <4>1, <4>2 DEF Exist, AccountsAt
    <3>5. View(c1)[a] = Shown(acc1) /\ View(c2)[a] = Shown(acc2)
      BY <3>1, <3>3, ViewOfOne
    <3>6. Entry(View(c1)[a]) = Entry(View(c2)[a])
      BY <3>4, <3>5 DEF Entry, Shown
    <3> QED
      BY <3>6, LedgeredAt
  <2>2. CASE ~Exist(c1, a)
    <3>1. ~Exist(c2, a)
      BY <1>1, <2>2 DEF Exist, AccountsAt
    <3>2. View(c1)[a] = View(c2)[a]
      BY <2>2, <3>1, ViewOfNone
    <3> QED
      BY <3>2, LedgeredAt
  <2> QED
    BY <2>1, <2>2
<1> QED
  BY <1>2, LedgeredAt

\* What a transaction may do to the ledger.
Updates(before, after, a, writes) ==
    /\ before[a].exist
    /\ after = [before EXCEPT ![a].storage = L!Overwrite(@, writes)]

Creates(before, after, a, code, writes) ==
    /\ ~before[a].exist
    /\ code # Empty
    /\ after = [before EXCEPT ![a] =
                  [exist |-> TRUE, code |-> code,
                   storage |-> L!Overwrite(L!NoStorage, writes)]]

Transacts(before, after) ==
    \/ after = before
    \/ \E a \in Address, writes \in Writes :
          \/ Updates(before, after, a, writes)
          \/ \E code \in Bytes : Creates(before, after, a, code, writes)

\* Values stored at an address are an update of its contract.
LEMMA StoreUpdates ==
    ASSUME NEW ch, Sane(ch), NEW a \in Address, Exist(ch, a),
           NEW writes \in Writes
    PROVE  Updates(Ledgered(ch), Ledgered(Store(ch, a, writes)), a, writes)
<1> DEFINE after == Store(ch, a, writes)
           storage == [k \in Key |->
                          Overwritten(View(ch)[a].storage[k], writes[k])]
<1>1. View(after) = [View(ch) EXCEPT ![a].storage = storage]
  BY StoreView
<1>2. storage = L!Overwrite(View(ch)[a].storage, writes)
  BY DEF Overwritten, L!Overwrite
<1>3. PICK acc : View(ch)[a] = Shown(acc)
  <2>1. PICK acc : AccountsAt(ch, a) = {acc}
    BY OneAccount
  <2> QED
    BY <2>1, ViewOfOne
<1> HIDE DEF after, storage
<1>4. View(ch) = [b \in Address |-> View(ch)[b]]
  BY ViewFunction
<1>5. \A b \in Address : b # a => View(after)[b] = View(ch)[b]
  BY <1>1, <1>4
<1>6. View(after)[a] = [Shown(acc) EXCEPT !.storage = storage]
  BY <1>1, <1>3, <1>4
<1>7. Entry(View(after)[a]) =
        [exist |-> TRUE, code |-> acc.code, storage |-> storage]
  <2>1. View(after)[a] =
          [exist |-> TRUE, nonce |-> acc.nonce, balance |-> acc.balance,
           code |-> acc.code, storage |-> storage]
    BY <1>6, ShownFields
  <2> QED
    BY <2>1 DEF Entry
<1>8. Entry(View(ch)[a]) =
        [exist |-> TRUE, code |-> acc.code, storage |-> View(ch)[a].storage]
  BY <1>3 DEF Entry, Shown
<1> DEFINE before == Ledgered(ch)
           later  == Ledgered(after)
<1>9. /\ before = [b \in Address |-> before[b]]
      /\ later = [b \in Address |-> later[b]]
      /\ \A b \in Address : b # a => later[b] = before[b]
      /\ before[a] =
           [exist |-> TRUE, code |-> acc.code, storage |-> View(ch)[a].storage]
      /\ later[a] =
           [exist |-> TRUE, code |-> acc.code, storage |-> storage]
  BY <1>5, <1>7, <1>8, LedgeredAt
<1> HIDE DEF before, later
<1>10. later[a] = [before[a] EXCEPT !.storage =
                     L!Overwrite(before[a].storage, writes)]
  <2>1. PICK entry : entry = before[a]
    OBVIOUS
  <2>2. PICK new : new = [entry EXCEPT !.storage = storage]
    OBVIOUS
  <2>3. new = [exist |-> TRUE, code |-> acc.code, storage |-> storage]
    <3>1. entry = [exist |-> TRUE, code |-> acc.code,
                   storage |-> View(ch)[a].storage]
      BY <1>9, <2>1
    <3> QED
      BY <2>2, <3>1, EntryStorage
  <2>4. L!Overwrite(before[a].storage, writes) = storage
    BY <1>2, <1>9
  <2>5. [before[a] EXCEPT !.storage = L!Overwrite(before[a].storage, writes)]
          = new
    BY <2>1, <2>2, <2>4
  <2> QED
    BY <1>9, <2>3, <2>5
<1>11. later = [before EXCEPT ![a].storage = L!Overwrite(@, writes)]
  BY <1>9, <1>10
<1>12. before[a].exist
  BY <1>9
<1> QED
  BY <1>11, <1>12 DEF Updates, before, later, after

\* A contract created and stored in is one creation.
LEMMA CreateCreates ==
    ASSUME NEW ch, Sane(ch), NEW a \in Address \ UserAddresses, ~Exist(ch, a),
           NEW code \in Bytes \ {Empty}, NEW writes \in Writes
    PROVE  Creates(Ledgered(ch),
                   Ledgered(Store(CreateContract(ch, a, code), a, writes)),
                   a, code, writes)
<1> DEFINE created == CreateContract(ch, a, code)
           after   == Store(created, a, writes)
           entry   == [exist |-> TRUE, code |-> code, storage |-> L!NoStorage]
<1>1. /\ Sane(created) /\ Exist(created, a)
      /\ View(created) = [View(ch) EXCEPT ![a] = P!NewAccount(0, 0, code)]
  BY CreateGrows, CreateView DEF Grown
<1> HIDE DEF created
<1>2. View(ch) = [b \in Address |-> View(ch)[b]]
  BY ViewFunction
<1>3. /\ View(created)[a] = P!NewAccount(0, 0, code)
      /\ \A b \in Address : b # a => View(created)[b] = View(ch)[b]
  BY <1>1, <1>2
<1>4. Entry(View(created)[a]) = entry
  BY <1>3 DEF Entry, P!NewAccount, P!NoStorage, L!NoStorage
<1>5. Entry(View(ch)[a]).exist = FALSE
  BY ViewOfNone DEF Entry, P!NoAccount, P!NewAccount
<1> DEFINE before == Ledgered(ch)
           between == Ledgered(created)
           later == Ledgered(after)
<1>6. Updates(between, later, a, writes)
  BY <1>1, StoreUpdates
<1>7. /\ before = [b \in Address |-> before[b]]
      /\ between = [b \in Address |-> between[b]]
      /\ \A b \in Address : b # a => between[b] = before[b]
      /\ between[a] = entry
      /\ before[a].exist = FALSE
  BY <1>3, <1>4, <1>5, LedgeredAt
<1> DEFINE storage == L!Overwrite(L!NoStorage, writes)
<1>8. later = [between EXCEPT ![a].storage = storage]
  <2>1. later = [between EXCEPT ![a].storage = L!Overwrite(@, writes)]
    BY <1>6 DEF Updates
  <2>2. between[a].storage = L!NoStorage
    BY <1>7
  <2> HIDE DEF later, between, before, entry
  <2> QED
    BY <2>1, <2>2
<1> HIDE DEF storage, later, between, before, entry
<1>9. later = [before EXCEPT ![a] =
                 [exist |-> TRUE, code |-> code, storage |-> storage]]
  <2>1. PICK new : new = [entry EXCEPT !.storage = storage]
    OBVIOUS
  <2>2. new = [exist |-> TRUE, code |-> code, storage |-> storage]
    BY <2>1, EntryStorage DEF entry
  <2>3. later = [between EXCEPT ![a] = new]
    BY <1>7, <1>8, <2>1
  <2>4. later = [before EXCEPT ![a] = new]
    BY <1>7, <2>3
  <2> QED
    BY <2>2, <2>4
<1> QED
  BY <1>7, <1>9 DEF Creates, before, later, after, created, storage

\* What a deployment does to the ledger.
LEMMA DeployedTransacts ==
    ASSUME NEW ch, Sane(ch), NEW a \in Address \ UserAddresses,
           NEW run \in Deployed(ch, a)
    PROVE  Transacts(Ledgered(ch), Ledgered(run.chain))
<1>1. CASE run = [data |-> Empty, chain |-> ch]
  BY <1>1 DEF Transacts
<1>2. CASE \E data \in Bytes \ {Empty}, writes \in Writes :
             \E c \in UpdateState(ch, a, data, writes) :
                run = [data |-> data, chain |-> c]
  <2>1. PICK data \in Bytes \ {Empty}, writes \in Writes :
               \E c \in UpdateState(ch, a, data, writes) :
                  run = [data |-> data, chain |-> c]
    BY <1>2
  <2>2. PICK c \in UpdateState(ch, a, data, writes) :
               run = [data |-> data, chain |-> c]
    BY <2>1
  <2>3. CASE Exist(ch, a)
    <3>1. PICK account \in AccountsAt(ch, a) :
            c = Store(UpdateAccount(ch, a, account.nonce, account.balance),
                      a, writes)
      BY <2>2, <2>3 DEF UpdateState
    <3>2. c = Store(ch, a, writes)
      BY <3>1, RedeployIsNothing
    <3>3. Updates(Ledgered(ch), Ledgered(c), a, writes)
      BY <2>3, <3>2, StoreUpdates
    <3> QED
      BY <2>2, <3>3 DEF Transacts
  <2>4. CASE ~Exist(ch, a)
    <3>1. c = Store(CreateContract(ch, a, data), a, writes)
      BY <2>2, <2>4 DEF UpdateState
    <3>2. Creates(Ledgered(ch), Ledgered(c), a, data, writes)
      BY <2>4, <3>1, CreateCreates
    <3> QED
      BY <2>2, <3>2 DEF Transacts
  <2> QED
    BY <2>3, <2>4
<1> QED
  BY <1>1, <1>2 DEF Deployed

\* What a call does to the ledger.
LEMMA CalledTransacts ==
    ASSUME NEW ch, Sane(ch), NEW a \in Address, Exist(ch, a),
           NEW run \in Called(ch, a)
    PROVE  Transacts(Ledgered(ch), Ledgered(run.chain))
<1>1. CASE run = [data |-> Empty, chain |-> ch]
  BY <1>1 DEF Transacts
<1>2. CASE \E data \in Bytes \ {Empty}, writes \in Writes :
             run = [data |-> data, chain |-> Store(ch, a, writes)]
  BY <1>2, StoreUpdates DEF Transacts
<1> QED
  BY <1>1, <1>2 DEF Called

\* A nonce counted is nothing to the ledger.
LEMMA CountLedger ==
    ASSUME NEW ch, Sane(ch)
    PROVE  Ledgered(IncNonce(ch, Naga)) = Ledgered(ch)
<1> DEFINE after == IncNonce(ch, Naga)
<1>1. Sane(after) /\ after.contracts = ch.contracts
  BY CountParts
<1>2. after.users = [ch.users EXCEPT ![Naga].nonce = @ + 1]
  BY DEF IncNonce, Sane, ChainOk
<1>3. ch.users \in [User -> Account]
  BY DEF Sane, ChainOk
<1>4. \A u \in User : /\ after.users[u].code = ch.users[u].code
                      /\ after.users[u].storage = ch.users[u].storage
  BY <1>2, <1>3 DEF Account
<1> HIDE DEF after
<1>5. Ledgered(after) = Ledgered(ch)
  BY <1>1, <1>4, SameLedger
<1> QED
  BY <1>5 DEF after

\* A transaction that succeeds, blocks and record included.
LEMMA SendTransacts ==
    ASSUME Inv, NEW tx \in Deployments, SendTransaction(tx)
    PROVE  Transacts(Ledgered(chain), Ledgered(chain'))
<1> DEFINE a == ContractAddress(tx)
           opened == Commit(chain)
<1>1. a \in Address \ UserAddresses
  BY ContractAddresses
<1>2. PICK run \in Deployed(opened, a) :
        chain' = Commit(IncNonce(AddTransaction(run.chain, tx,
                    [data |-> run.data, contract |-> a]), Naga))
  BY DEF SendTransaction
<1> DEFINE result == [data |-> run.data, contract |-> a]
           done == AddTransaction(run.chain, tx, result)
           counted == IncNonce(done, Naga)
<1>3. Sane(opened) /\ Ledgered(opened) = Ledgered(chain)
  <2>1. /\ Sane(opened) /\ opened.users = chain.users
        /\ opened.contracts = chain.contracts
    BY CommitParts DEF Inv
  <2> HIDE DEF opened
  <2> QED
    BY <2>1, SameLedger DEF Inv
<1>4. Sane(run.chain) /\ Transacts(Ledgered(opened), Ledgered(run.chain))
  <2> HIDE DEF opened, a
  <2> QED
    BY <1>1, <1>3, DeployedGrows, DeployedTransacts DEF Grown
<1>5. Sane(done) /\ Ledgered(done) = Ledgered(run.chain)
  <2>1. /\ Sane(done)
        /\ done.users = run.chain.users
        /\ done.contracts = run.chain.contracts
        /\ done.blocks = run.chain.blocks
        /\ Recorded(done) = Recorded(run.chain) \cup {tx}
        /\ done.transactions[tx] = [tx |-> tx, result |-> result]
        /\ \A h \in Recorded(run.chain) \ {tx} :
             done.transactions[h] = run.chain.transactions[h]
    BY <1>4, RecordParts
  <2> HIDE DEF done
  <2> QED
    BY <1>4, <2>1, SameLedger
<1> HIDE DEF done
<1>6. Sane(counted) /\ Ledgered(counted) = Ledgered(done)
  BY <1>5, CountParts, CountLedger
<1> HIDE DEF counted
<1>7. Ledgered(chain') = Ledgered(counted)
  <2>1. /\ Sane(chain') /\ chain'.users = counted.users
        /\ chain'.contracts = counted.contracts
    BY <1>2, <1>6, CommitParts DEF done, counted
  <2> QED
    BY <1>6, <2>1, SameLedger
<1> QED
  BY <1>3, <1>4, <1>5, <1>6, <1>7

\* Whatever a request does, it does to the contracts at their addresses what a
\* transaction of Ledger may do: accounts under aliases that are looked up by a
\* scan, an overlay stored call by call, and the blocks, records and nonces kept
\* beside them do not show.
THEOREM RequestsTransact == Spec => RequestsAreTransactions
<1> DEFINE Step == Transacts(Ledgered(chain), Ledgered(chain'))
<1>1. Inv /\ [Next]_vars => Step
  <2> SUFFICES ASSUME Inv, [Next]_vars PROVE Step
    OBVIOUS
  <2>1. ASSUME UNCHANGED chain PROVE Step
    BY <2>1 DEF Transacts
  <2>2. CASE SendFailing
    <3>1. /\ Sane(chain') /\ chain'.users = chain.users
          /\ chain'.contracts = chain.contracts
      BY <2>2, CommitParts DEF SendFailing, Inv
    <3>2. Ledgered(chain') = Ledgered(chain)
      BY <3>1, SameLedger DEF Inv
    <3> QED
      BY <3>2 DEF Transacts
  <2>3. ASSUME NEW tx \in Deployments, SendTransaction(tx) PROVE Step
    BY <2>3, SendTransacts
  <2>4. ASSUME NEW a \in Address, Call(a) PROVE Step
    BY <2>4, CalledTransacts DEF Call, Inv, Exist
  <2>5. CASE \/ GasPrice \/ SendIncomplete \/ ReceiptUnknown \/ CodeAtUnknown
             \/ CallFailing \/ RequestLockedOut \/ UNCHANGED vars
             \/ \E hash \in Transaction : TransactionReceipt(hash)
             \/ \E a \in Address : CodeAt(a)
    <3>1. UNCHANGED chain
      BY <2>5 DEF GasPrice, SendIncomplete, ReceiptUnknown, CodeAtUnknown,
                  CallFailing, RequestLockedOut, TransactionReceipt, CodeAt,
                  vars
    <3> QED
      BY <2>1, <3>1
  <2> QED
    BY <2>2, <2>3, <2>4, <2>5 DEF Next
<1>2. Step => \/ UNCHANGED Ledgered(chain)
              \/ \E a \in Address, writes \in Writes :
                    \/ L!Update(a, writes)
                    \/ \E code \in Bytes : L!Create(a, code, writes)
  BY DEF Transacts, Updates, Creates, L!Update, L!Create
<1> QED
  BY SpecInv, <1>1, <1>2, PTL DEF Spec, RequestsAreTransactions
=============================================================================
