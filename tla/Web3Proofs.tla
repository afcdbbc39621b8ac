------------------------------ MODULE Web3Proofs ------------------------------
(***************************************************************************)
(* Theorems about Web3, for any users, codes and number of requests.       *)
(***************************************************************************)
EXTENDS Web3, FiniteSetTheorems, TLAPS

-----------------------------------------------------------------------------
(* Chains.                                                                 *)

\* A sample blockchain: its parts have their types, and there is a first block.
ChainOk(ch) ==
    /\ ch = [blocks |-> ch.blocks, users |-> ch.users,
             contracts |-> ch.contracts, transactions |-> ch.transactions]
    /\ ch.blocks \in Seq(Block) /\ ch.blocks # <<>>
    /\ ch.users \in [User -> Account]
    /\ ch.contracts \in Seq(Account)

\* A new account, of a user or of a contract, is an account.
LEMMA NewAccountType ==
    ASSUME NEW a \in Address, NEW balance \in Nat, NEW nonce \in Nat,
           NEW code \in Bytes
    PROVE  NewAccount(a, balance, nonce, code) \in Account
BY DEF NewAccount, Account

\* Storing keeps an account but for its storage.
LEMMA StoreType ==
    ASSUME NEW account \in Account, NEW writes \in Writes
    PROVE  [account EXCEPT !.storage =
                [k \in Key |-> Overwritten(@[k], writes[k])]] \in Account
BY DEF Account, Writes, Overwritten

\* An account that has changed in nothing but its storage.
Kept(before, after) ==
    /\ after.address = before.address /\ after.code = before.code
    /\ after.nonce = before.nonce /\ after.balance = before.balance

\* A change keeps the chain's shape, when it makes accounts of accounts.
LEMMA StoreParts ==
    ASSUME NEW ch, ChainOk(ch), NEW a, NEW writes \in Writes
    PROVE  LET after == Store(ch, a, writes)
           IN  /\ ChainOk(after)
               /\ after.blocks = ch.blocks
               /\ after.transactions = ch.transactions
               /\ DOMAIN after.contracts = DOMAIN ch.contracts
               /\ \A u \in User : Kept(ch.users[u], after.users[u])
               /\ \A n \in DOMAIN ch.contracts :
                    Kept(ch.contracts[n], after.contracts[n])
<1> DEFINE after == Store(ch, a, writes)
           stored(account) == [account EXCEPT !.storage =
                [k \in Key |-> Overwritten(@[k], writes[k])]]
<1>1. after = [ch EXCEPT
        !.contracts = [n \in DOMAIN @ |->
            IF @[n].address = a THEN stored(@[n]) ELSE @[n]],
        !.users = [u \in User |->
            IF @[u].address = a THEN stored(@[u]) ELSE @[u]]]
  BY DEF Store, Change
<1>2. /\ after.blocks = ch.blocks
      /\ after.transactions = ch.transactions
      /\ after.users = [u \in User |->
           IF ch.users[u].address = a THEN stored(ch.users[u]) ELSE ch.users[u]]
      /\ after.contracts = [n \in DOMAIN ch.contracts |->
           IF ch.contracts[n].address = a THEN stored(ch.contracts[n])
                                          ELSE ch.contracts[n]]
      /\ after = [blocks |-> after.blocks, users |-> after.users,
                  contracts |-> after.contracts,
                  transactions |-> after.transactions]
  BY <1>1 DEF ChainOk
<1>3. \A account \in Account :
        stored(account) \in Account /\ Kept(account, stored(account))
  BY StoreType DEF Account, Kept
<1>4. \A account : Kept(account, account)
  BY DEF Kept
<1>5. ch.users \in [User -> Account] /\ ch.contracts \in Seq(Account)
  BY DEF ChainOk
<1> HIDE DEF after, stored
<1>6. after.users \in [User -> Account]
  BY <1>2, <1>3, <1>5
<1>7. /\ after.contracts \in Seq(Account)
      /\ DOMAIN after.contracts = DOMAIN ch.contracts
  <2>1. PICK n \in Nat : DOMAIN ch.contracts = 1 .. n
    BY <1>5
  <2>2. after.contracts \in [1 .. n -> Account]
    BY <1>2, <1>3, <1>5, <2>1
  <2> QED
    BY <2>1, <2>2
<1>8. \A u \in User : Kept(ch.users[u], after.users[u])
  <2> TAKE u \in User
  <2>1. ch.users[u] \in Account
    BY <1>5
  <2>2. after.users[u] = stored(ch.users[u]) \/ after.users[u] = ch.users[u]
    BY <1>2
  <2> QED
    BY <1>3, <1>4, <2>1, <2>2
<1>9. \A n \in DOMAIN ch.contracts : Kept(ch.contracts[n], after.contracts[n])
  <2> TAKE n \in DOMAIN ch.contracts
  <2>1. ch.contracts[n] \in Account
    BY <1>5
  <2>2. \/ after.contracts[n] = stored(ch.contracts[n])
        \/ after.contracts[n] = ch.contracts[n]
    BY <1>2
  <2> QED
    BY <1>3, <1>4, <2>1, <2>2
<1>10. ChainOk(after)
  BY <1>2, <1>6, <1>7 DEF ChainOk
<1>11. /\ ChainOk(after)
       /\ after.blocks = ch.blocks
       /\ after.transactions = ch.transactions
       /\ DOMAIN after.contracts = DOMAIN ch.contracts
       /\ \A u \in User : Kept(ch.users[u], after.users[u])
       /\ \A n \in DOMAIN ch.contracts :
            Kept(ch.contracts[n], after.contracts[n])
  BY <1>2, <1>7, <1>8, <1>9, <1>10
<1> QED
  BY <1>11 DEF after

-----------------------------------------------------------------------------
(* Accounts.                                                               *)

UserAddresses == {UserAddress[u] : u \in User}

\* A chain that requests have built: users are where they were, and contracts,
\* each at an address of its own, have code and neither nonce nor balance.
Sane(ch) ==
    /\ ChainOk(ch)
    /\ \A u \in User : ch.users[u].address = UserAddress[u]
    /\ \A n \in DOMAIN ch.contracts :
         LET contract == ch.contracts[n]
         IN  /\ contract.address \notin UserAddresses
             /\ contract.code # Empty
             /\ contract.nonce = 0 /\ contract.balance = 0
    /\ \A m, n \in DOMAIN ch.contracts :
         ch.contracts[m].address = ch.contracts[n].address => m = n

\* What an execution may make of a chain: it adds contracts and stores values.
Grown(ch, after) ==
    /\ Sane(after)
    /\ after.blocks = ch.blocks
    /\ after.transactions = ch.transactions
    /\ \A u \in User : Kept(ch.users[u], after.users[u])
    /\ DOMAIN ch.contracts \subseteq DOMAIN after.contracts
    /\ \A n \in DOMAIN ch.contracts : Kept(ch.contracts[n], after.contracts[n])

LEMMA KeptReflexive == \A account : Kept(account, account)
BY DEF Kept

LEMMA GrownReflexive == \A ch : Sane(ch) => Grown(ch, ch)
BY KeptReflexive DEF Grown

\* Growing twice is growing.
LEMMA GrownTransitive ==
    ASSUME NEW c1, NEW c2, NEW c3, Grown(c1, c2), Grown(c2, c3)
    PROVE  Grown(c1, c3)
BY DEF Grown, Kept

\* Storing values grows a chain.
LEMMA StoreGrows ==
    ASSUME NEW ch, Sane(ch), NEW a, NEW writes \in Writes
    PROVE  Grown(ch, Store(ch, a, writes))
<1> DEFINE after == Store(ch, a, writes)
<1>1. /\ ChainOk(after)
      /\ after.blocks = ch.blocks
      /\ after.transactions = ch.transactions
      /\ DOMAIN after.contracts = DOMAIN ch.contracts
      /\ \A u \in User : Kept(ch.users[u], after.users[u])
      /\ \A n \in DOMAIN ch.contracts :
           Kept(ch.contracts[n], after.contracts[n])
  BY StoreParts DEF Sane
<1> HIDE DEF after
<1>2. Sane(after)
  BY <1>1 DEF Sane, Kept
<1>3. Grown(ch, after)
  BY <1>1, <1>2 DEF Grown
<1> QED
  BY <1>3 DEF after

\* A contract created where there is no account grows a chain.
LEMMA CreateGrows ==
    ASSUME NEW ch, Sane(ch), NEW a \in Address \ UserAddresses, ~Exist(ch, a),
           NEW code \in Bytes \ {Empty}
    PROVE  /\ Grown(ch, CreateContract(ch, a, code))
           /\ ContractsAt(CreateContract(ch, a, code), a) # {}
<1> DEFINE after == CreateContract(ch, a, code)
           new   == NewAccount(a, 0, 0, code)
<1>1. new \in Account
  BY NewAccountType
<1>2. /\ new.address = a /\ new.code = code /\ new.nonce = 0 /\ new.balance = 0
  BY DEF NewAccount
<1>3. /\ after.blocks = ch.blocks
      /\ after.transactions = ch.transactions
      /\ after.users = ch.users
      /\ after.contracts = Append(ch.contracts, new)
      /\ after = [blocks |-> after.blocks, users |-> after.users,
                  contracts |-> after.contracts,
                  transactions |-> after.transactions]
  <2>1. ch = [blocks |-> ch.blocks, users |-> ch.users,
              contracts |-> ch.contracts, transactions |-> ch.transactions]
    BY DEF Sane, ChainOk
  <2>2. after = [ch EXCEPT !.contracts = Append(ch.contracts, new)]
    BY DEF CreateContract
  <2> HIDE DEF after, new
  <2> QED
    BY <2>1, <2>2
<1>4. ch.contracts \in Seq(Account)
  BY DEF Sane, ChainOk
<1>5. \A n \in DOMAIN ch.contracts : ch.contracts[n].address # a
  BY DEF Exist, AccountsAt, ContractsAt
<1> HIDE DEF after, new
<1>6. PICK l \in Nat : DOMAIN ch.contracts = 1 .. l /\ Len(ch.contracts) = l
  BY <1>4
<1>7. /\ after.contracts \in Seq(Account)
      /\ DOMAIN after.contracts = 1 .. l + 1
      /\ \A n \in 1 .. l : after.contracts[n] = ch.contracts[n]
      /\ after.contracts[l + 1] = new
  BY <1>1, <1>3, <1>4, <1>6
<1>8. ChainOk(after)
  BY <1>3, <1>7 DEF Sane, ChainOk
<1>9. \A n \in DOMAIN after.contracts : n \in DOMAIN ch.contracts \/ n = l + 1
  BY <1>6, <1>7
<1>10. Sane(after)
  <2>1. \A n \in DOMAIN ch.contracts : after.contracts[n] = ch.contracts[n]
    BY <1>6, <1>7
  <2>2. /\ after.contracts[l + 1] = new
        /\ a \notin UserAddresses /\ code # Empty
    BY <1>7
  <2> QED
    BY <1>2, <1>3, <1>5, <1>8, <1>9, <2>1, <2>2 DEF Sane
<1>11. Grown(ch, after)
  BY <1>3, <1>6, <1>7, <1>10, KeptReflexive DEF Grown
<1>12. ContractsAt(after, a) # {}
  BY <1>2, <1>6, <1>7 DEF ContractsAt
<1> QED
  BY <1>11, <1>12 DEF after

\* Deploying again writes nonce and balance of a contract in each other's place,
\* and so nothing: both are zero.
LEMMA RedeployIsNothing ==
    ASSUME NEW ch, Sane(ch), NEW a \in Address \ UserAddresses,
           NEW found \in AccountsAt(ch, a)
    PROVE  /\ UpdateAccount(ch, a, found.nonce, found.balance) = ch
           /\ ContractsAt(ch, a) # {}
<1>1. \A u \in User : ch.users[u].address # a
  BY DEF Sane, UserAddresses
<1>2. PICK n \in ContractsAt(ch, a) : found = ch.contracts[n]
  BY <1>1 DEF AccountsAt, UsersAt
<1>3. found.nonce = 0 /\ found.balance = 0
  BY <1>2 DEF ContractsAt, Sane
<1> DEFINE updated(acc) == [acc EXCEPT !.balance = found.nonce,
                                       !.nonce = found.balance]
<1>4. ch.contracts \in Seq(Account) /\ ch.users \in [User -> Account]
  BY DEF Sane, ChainOk
<1>5. \A m \in DOMAIN ch.contracts : updated(ch.contracts[m]) = ch.contracts[m]
  <2> SUFFICES ASSUME NEW m \in DOMAIN ch.contracts
               PROVE  updated(ch.contracts[m]) = ch.contracts[m]
    OBVIOUS
  <2>1. ch.contracts[m] \in Account
    BY <1>4
  <2>2. ch.contracts[m].nonce = 0 /\ ch.contracts[m].balance = 0
    BY DEF Sane
  <2> QED
    BY <1>3, <2>1, <2>2 DEF Account
<1>6. UpdateAccount(ch, a, found.nonce, found.balance) =
        [ch EXCEPT
            !.contracts = [m \in DOMAIN @ |->
                IF @[m].address = a THEN updated(@[m]) ELSE @[m]],
            !.users = [u \in User |->
                IF @[u].address = a THEN updated(@[u]) ELSE @[u]]]
  BY DEF UpdateAccount, Change
<1>7. [m \in DOMAIN ch.contracts |->
          IF ch.contracts[m].address = a THEN updated(ch.contracts[m])
                                         ELSE ch.contracts[m]] = ch.contracts
  <2> HIDE DEF updated
  <2>1. PICK l \in Nat : ch.contracts \in [1 .. l -> Account]
    BY <1>4
  <2> QED
    BY <1>5, <2>1
<1>8. [u \in User |-> IF ch.users[u].address = a THEN updated(ch.users[u])
                                                 ELSE ch.users[u]] = ch.users
  BY <1>1, <1>4
<1> HIDE DEF updated
<1>9. UpdateAccount(ch, a, found.nonce, found.balance) = ch
  BY <1>6, <1>7, <1>8 DEF Sane, ChainOk
<1> QED
  BY <1>2, <1>9

\* What a deployment may make of a chain.
LEMMA DeployedGrows ==
    ASSUME NEW ch, Sane(ch), NEW a \in Address \ UserAddresses,
           NEW run \in Deployed(ch, a)
    PROVE  /\ Grown(ch, run.chain)
           /\ run.data \in Bytes
           /\ run.data # Empty => ContractsAt(run.chain, a) # {}
<1>1. CASE run = [data |-> Empty, chain |-> ch]
  BY <1>1, GrownReflexive, BlockchainAssumption
<1>2. CASE \E data \in Bytes \ {Empty}, writes \in Writes :
             \E c \in UpdateState(ch, a, data, writes) :
                run = [data |-> data, chain |-> c]
  <2>1. PICK data \in Bytes \ {Empty}, writes \in Writes :
               \E c \in UpdateState(ch, a, data, writes) :
                  run = [data |-> data, chain |-> c]
    BY <1>2
  <2>2. PICK c \in UpdateState(ch, a, data, writes) :
               run = [data |-> data, chain |-> c]
    BY <2>1
  <2>3. CASE Exist(ch, a)
    <3>1. PICK account \in AccountsAt(ch, a) :
            c = Store(UpdateAccount(ch, a, account.nonce, account.balance),
                      a, writes)
      BY <2>2, <2>3 DEF UpdateState
    <3>2. c = Store(ch, a, writes) /\ ContractsAt(ch, a) # {}
      BY <3>1, RedeployIsNothing
    <3>3. Grown(ch, c)
      BY <3>2, StoreGrows
    <3>4. ContractsAt(c, a) # {}
      BY <3>2, <3>3 DEF Grown, Kept, ContractsAt
    <3> QED
      BY <2>2, <3>3, <3>4
  <2>4. CASE ~Exist(ch, a)
    <3> DEFINE created == CreateContract(ch, a, data)
    <3>1. c = Store(created, a, writes)
      BY <2>2, <2>4 DEF UpdateState
    <3>2. Grown(ch, created) /\ ContractsAt(created, a) # {}
      BY <2>4, CreateGrows
    <3> HIDE DEF created
    <3>3. Grown(created, c)
      BY <3>1, <3>2, StoreGrows DEF Grown
    <3>4. Grown(ch, c)
      BY <3>2, <3>3, GrownTransitive
    <3>5. ContractsAt(c, a) # {}
      BY <3>2, <3>3 DEF Grown, Kept, ContractsAt
    <3> QED
      BY <2>2, <3>4, <3>5
  <2> QED
    BY <2>3, <2>4
<1> QED
  BY <1>1, <1>2 DEF Deployed

\* What a call may make of a chain.
LEMMA CalledGrows ==
    ASSUME NEW ch, Sane(ch), NEW a, NEW run \in Called(ch, a)
    PROVE  Grown(ch, run.chain)
BY GrownReflexive, StoreGrows DEF Called

\* The codes of the contracts at an address.
Codes(ch, a) == {ch.contracts[n].code : n \in ContractsAt(ch, a)}

\* They are those of the contracts alone.
LEMMA SameCodes ==
    ASSUME NEW c1, NEW c2, c1.contracts = c2.contracts
    PROVE  \A a : Codes(c1, a) = Codes(c2, a)
BY DEF Codes, ContractsAt

\* Storing values changes no code.
LEMMA StoreCodes ==
    ASSUME NEW ch, Sane(ch), NEW a, NEW writes \in Writes
    PROVE  \A b : Codes(Store(ch, a, writes), b) = Codes(ch, b)
<1>1. PICK after : after = Store(ch, a, writes)
  OBVIOUS
<1>2. /\ DOMAIN after.contracts = DOMAIN ch.contracts
      /\ \A n \in DOMAIN ch.contracts :
           Kept(ch.contracts[n], after.contracts[n])
  BY <1>1, StoreParts DEF Sane
<1>3. \A b : Codes(after, b) = Codes(ch, b)
  BY <1>2 DEF Codes, ContractsAt, Kept
<1> QED
  BY <1>1, <1>3

\* A new contract adds its code at its address.
LEMMA CreateCodes ==
    ASSUME NEW ch, Sane(ch), NEW a, NEW code
    PROVE  \A b : Codes(CreateContract(ch, a, code), b) =
                    Codes(ch, b) \cup IF b = a THEN {code} ELSE {}
<1> DEFINE new == NewAccount(a, 0, 0, code)
<1>1. PICK after : after = CreateContract(ch, a, code)
  OBVIOUS
<1>2. after.contracts = Append(ch.contracts, new)
  BY <1>1 DEF CreateContract, Sane, ChainOk
<1>3. new.address = a /\ new.code = code
  BY DEF NewAccount
<1> HIDE DEF new
<1>4. ch.contracts \in Seq(Account)
  BY DEF Sane, ChainOk
<1>5. PICK l \in Nat : DOMAIN ch.contracts = 1 .. l /\ Len(ch.contracts) = l
  BY <1>4
<1>6. /\ DOMAIN after.contracts = 1 .. l + 1
      /\ \A n \in 1 .. l : after.contracts[n] = ch.contracts[n]
      /\ after.contracts[l + 1] = new
  BY <1>2, <1>4, <1>5
<1>7. ASSUME NEW b
      PROVE  Codes(after, b) = Codes(ch, b) \cup IF b = a THEN {code} ELSE {}
  <2>1. ContractsAt(after, b) =
          ContractsAt(ch, b) \cup IF b = a THEN {l + 1} ELSE {}
    BY <1>3, <1>5, <1>6 DEF ContractsAt
  <2>2. \A n \in ContractsAt(ch, b) :
          after.contracts[n].code = ch.contracts[n].code
    BY <1>5, <1>6 DEF ContractsAt
  <2> QED
    BY <1>3, <1>6, <2>1, <2>2 DEF Codes
<1> QED
  BY <1>1, <1>7

\* A deployment with a result gives its address a code if it had none, and changes
\* no other; one without a result changes none at all.
LEMMA DeployedCodes ==
    ASSUME NEW ch, Sane(ch), NEW a \in Address \ UserAddresses,
           NEW run \in Deployed(ch, a)
    PROVE  \A b : Codes(run.chain, b) =
                    IF b = a /\ run.data # Empty /\ Codes(ch, a) = {}
                    THEN {run.data} ELSE Codes(ch, b)
<1>1. CASE run = [data |-> Empty, chain |-> ch]
  BY <1>1
<1>2. ASSUME NEW data \in Bytes \ {Empty}, NEW writes \in Writes,
             NEW c \in UpdateState(ch, a, data, writes),
             run = [data |-> data, chain |-> c]
      PROVE  \A b : Codes(run.chain, b) =
                      IF b = a /\ run.data # Empty /\ Codes(ch, a) = {}
                      THEN {run.data} ELSE Codes(ch, b)
  <2>1. run.chain = c /\ run.data = data /\ data # Empty
    BY <1>2
  <2>2. CASE Exist(ch, a)
    <3>1. PICK account \in AccountsAt(ch, a) :
            c = Store(UpdateAccount(ch, a, account.nonce, account.balance),
                      a, writes)
      BY <1>2, <2>2 DEF UpdateState
    <3>2. c = Store(ch, a, writes) /\ ContractsAt(ch, a) # {}
      BY <3>1, RedeployIsNothing
    <3>3. \A b : Codes(c, b) = Codes(ch, b)
      BY <3>2, StoreCodes
    <3>4. Codes(ch, a) # {}
      BY <3>2 DEF Codes
    <3> QED
      BY <2>1, <3>3, <3>4
  <2>3. CASE ~Exist(ch, a)
    <3>1. PICK created : created = CreateContract(ch, a, data)
      OBVIOUS
    <3>2. c = Store(created, a, writes)
      BY <1>2, <2>3, <3>1 DEF UpdateState
    <3>3. Sane(created)
      BY <2>3, <3>1, CreateGrows DEF Grown
    <3>4. \A b : Codes(c, b) = Codes(created, b)
      BY <3>2, <3>3, StoreCodes
    <3>5. \A b : Codes(created, b) =
                   Codes(ch, b) \cup IF b = a THEN {data} ELSE {}
      BY <3>1, CreateCodes
    <3>6. Codes(ch, a) = {}
      BY <2>3 DEF Exist, AccountsAt, Codes
    <3>7. \A b : Codes(c, b) = IF b = a THEN {data} ELSE Codes(ch, b)
      BY <3>4, <3>5, <3>6
    <3> QED
      BY <2>1, <3>6, <3>7
  <2> QED
    BY <2>2, <2>3
<1> QED
  BY <1>1, <1>2 DEF Deployed

\* A call changes no code.
LEMMA CalledCodes ==
    ASSUME NEW ch, Sane(ch), NEW a, NEW run \in Called(ch, a)
    PROVE  \A b : Codes(run.chain, b) = Codes(ch, b)
BY StoreCodes DEF Called

-----------------------------------------------------------------------------
(* Blocks and transactions.                                                *)

\* A chain has a length, which is positive.
LEMMA SaneLength ==
    ASSUME NEW ch, Sane(ch)
    PROVE  Len(ch.blocks) \in Nat /\ Len(ch.blocks) > 0
BY DEF Sane, ChainOk

\* Committing adds a block and touches nothing else.
LEMMA CommitParts ==
    ASSUME NEW ch, Sane(ch)
    PROVE  LET after == Commit(ch)
           IN  /\ Sane(after)
               /\ after.users = ch.users
               /\ after.contracts = ch.contracts
               /\ after.transactions = ch.transactions
               /\ Len(after.blocks) = Len(ch.blocks) + 1
               /\ Latest(after).num \in Nat
<1> DEFINE block == [num |-> Len(ch.blocks), prev |-> Hash(Latest(ch))]
           after == Commit(ch)
<1>1. ch.blocks \in Seq(Block) /\ ch.blocks # <<>> /\ Len(ch.blocks) \in Nat
  BY DEF Sane, ChainOk
<1>2. Latest(ch) \in Block
  BY <1>1 DEF Latest
<1>3. block \in Block
  <2>1. Latest(ch).num \in Nat
    BY <1>2 DEF Block
  <2>2. Hash(Latest(ch)) \in Seq(Nat)
    BY <2>1 DEF Hash
  <2> QED
    BY <1>1, <2>2 DEF Block
<1>4. /\ after.users = ch.users
      /\ after.contracts = ch.contracts
      /\ after.transactions = ch.transactions
      /\ after.blocks = Append(ch.blocks, block)
      /\ after = [blocks |-> after.blocks, users |-> after.users,
                  contracts |-> after.contracts,
                  transactions |-> after.transactions]
  <2>1. ch = [blocks |-> ch.blocks, users |-> ch.users,
              contracts |-> ch.contracts, transactions |-> ch.transactions]
    BY DEF Sane, ChainOk
  <2>2. after = [ch EXCEPT !.blocks = Append(ch.blocks, block)]
    BY DEF Commit
  <2> HIDE DEF after, block
  <2> QED
    BY <2>1, <2>2
<1> HIDE DEF after, block
<1>5. /\ after.blocks \in Seq(Block) /\ after.blocks # <<>>
      /\ Len(after.blocks) = Len(ch.blocks) + 1
      /\ after.blocks[Len(after.blocks)] = block
  BY <1>1, <1>3, <1>4
<1>6. Latest(after).num \in Nat
  BY <1>3, <1>5 DEF Latest, Block
<1>7. ChainOk(after)
  BY <1>4, <1>5 DEF Sane, ChainOk
<1>8. Sane(after)
  BY <1>4, <1>7 DEF Sane
<1> QED
  BY <1>4, <1>5, <1>6, <1>8 DEF after

\* Recording a transaction touches nothing but its record.
LEMMA RecordParts ==
    ASSUME NEW ch, Sane(ch), NEW tx, NEW result
    PROVE  LET after == AddTransaction(ch, tx, result)
           IN  /\ Sane(after)
               /\ after.users = ch.users
               /\ after.contracts = ch.contracts
               /\ after.blocks = ch.blocks
               /\ Recorded(after) = Recorded(ch) \cup {tx}
               /\ after.transactions[tx] = [tx |-> tx, result |-> result]
               /\ \A h \in Recorded(ch) \ {tx} :
                    after.transactions[h] = ch.transactions[h]
<1> DEFINE after == AddTransaction(ch, tx, result)
           records == [h \in Recorded(ch) \cup {tx} |->
                          IF h = tx THEN [tx |-> tx, result |-> result]
                                    ELSE ch.transactions[h]]
<1>1. /\ after.users = ch.users
      /\ after.contracts = ch.contracts
      /\ after.blocks = ch.blocks
      /\ after.transactions = records
      /\ after = [blocks |-> after.blocks, users |-> after.users,
                  contracts |-> after.contracts,
                  transactions |-> after.transactions]
  <2>1. ch = [blocks |-> ch.blocks, users |-> ch.users,
              contracts |-> ch.contracts, transactions |-> ch.transactions]
    BY DEF Sane, ChainOk
  <2>2. after = [ch EXCEPT !.transactions = records]
    BY DEF AddTransaction, TransactionHash, Recorded
  <2> HIDE DEF after, records
  <2> QED
    BY <2>1, <2>2
<1> HIDE DEF after
<1>2. ChainOk(after)
  BY <1>1 DEF Sane, ChainOk
<1>3. Sane(after)
  BY <1>1, <1>2 DEF Sane
<1>4. /\ Recorded(after) = Recorded(ch) \cup {tx}
      /\ after.transactions[tx] = [tx |-> tx, result |-> result]
      /\ \A h \in Recorded(ch) \ {tx} :
           after.transactions[h] = ch.transactions[h]
  BY <1>1 DEF Recorded
<1> QED
  BY <1>1, <1>3, <1>4 DEF after

\* Counting a nonce touches nothing else.
LEMMA CountParts ==
    ASSUME NEW ch, Sane(ch)
    PROVE  LET after == IncNonce(ch, Naga)
           IN  /\ Sane(after)
               /\ after.blocks = ch.blocks
               /\ after.contracts = ch.contracts
               /\ after.transactions = ch.transactions
               /\ ch.users[Naga].nonce \in Nat
               /\ after.users[Naga].nonce = ch.users[Naga].nonce + 1
<1> DEFINE after == IncNonce(ch, Naga)
           counted == [ch.users[Naga] EXCEPT !.nonce = @ + 1]
<1>1. ch.users \in [User -> Account] /\ Naga \in User
  BY Web3Assumption DEF Sane, ChainOk
<1>2. /\ counted \in Account
      /\ counted.nonce = ch.users[Naga].nonce + 1
      /\ counted.address = ch.users[Naga].address
      /\ ch.users[Naga].nonce \in Nat
  BY <1>1 DEF Account
<1>3. /\ after.blocks = ch.blocks
      /\ after.contracts = ch.contracts
      /\ after.transactions = ch.transactions
      /\ after.users = [ch.users EXCEPT ![Naga] = counted]
      /\ after = [blocks |-> after.blocks, users |-> after.users,
                  contracts |-> after.contracts,
                  transactions |-> after.transactions]
  <2>1. ch = [blocks |-> ch.blocks, users |-> ch.users,
              contracts |-> ch.contracts, transactions |-> ch.transactions]
    BY DEF Sane, ChainOk
  <2>2. after = [ch EXCEPT !.users = [ch.users EXCEPT ![Naga] = counted]]
    BY DEF IncNonce
  <2> HIDE DEF after, counted
  <2> QED
    BY <2>1, <2>2
<1> HIDE DEF after, counted
<1>4. ChainOk(after)
  BY <1>1, <1>2, <1>3 DEF Sane, ChainOk
<1>5. \A u \in User : after.users[u].address = ch.users[u].address
  BY <1>1, <1>2, <1>3
<1>6. Sane(after)
  BY <1>3, <1>4, <1>5 DEF Sane
<1> QED
  BY <1>1, <1>2, <1>3, <1>6 DEF after

-----------------------------------------------------------------------------
(* The invariant.                                                          *)

\* A record is of a deployment, names its contract, and when the deployment had
\* a result, the contract is on the chain.
RecordInv(h) ==
    LET record == chain.transactions[h]
    IN  /\ h \in Deployments
        /\ record \in Record
        /\ record.tx = h
        /\ record.result.contract = ContractAddress(h)
        /\ record.result.data # Empty =>
             ContractsAt(chain, ContractAddress(h)) # {}

\* The contract at an address has the first result a deployment there had, if any.
FirstInv ==
    /\ first \in [Address -> Bytes]
    /\ \A a \in Address \ UserAddresses :
         Codes(chain, a) = IF first[a] = Empty THEN {} ELSE {first[a]}

AnswerOk ==
    \/ response \in {NoResponse, Ok, Panic, LockedOut}
    \/ response \in [status : {"receipt"}, hash : Transaction, from : Address,
                     contract : Address, block_number : Nat]

Inv ==
    /\ Sane(chain)
    /\ \A h \in Recorded(chain) : RecordInv(h)
    /\ FirstInv
    /\ lock \in {"free", "poisoned"}
    /\ AnswerOk
    /\ DOMAIN mined = Recorded(chain)
    /\ \A h \in DOMAIN mined : mined[h] \in Nat
    /\ BlocksMatchNonce

\* What every step leaves of the accounts.
StepKeeps ==
    /\ DOMAIN chain.contracts \subseteq DOMAIN chain'.contracts
    /\ \A n \in DOMAIN chain.contracts :
         Kept(chain.contracts[n], chain'.contracts[n])

\* The contracts of deployments are addresses and no user's.
LEMMA ContractAddresses ==
    ASSUME NEW tx \in Deployments
    PROVE  tx \in Transaction /\ ContractAddress(tx) \in Address \ UserAddresses
BY Web3Assumption DEF Deployments, ContractAddress, UserAddresses

\* Contracts that are kept stay where they are.
LEMMA KeptContracts ==
    ASSUME NEW before, NEW after, NEW a,
           DOMAIN before.contracts \subseteq DOMAIN after.contracts,
           \A n \in DOMAIN before.contracts :
              Kept(before.contracts[n], after.contracts[n]),
           ContractsAt(before, a) # {}
    PROVE  ContractsAt(after, a) # {}
BY DEF ContractsAt, Kept

\* The first chain has its users and nothing else.
LEMMA InitInv == Init => Inv
<1> SUFFICES ASSUME Init PROVE Inv
  OBVIOUS
<1>1. /\ chain.blocks = <<[num |-> 0, prev |-> NoHash]>>
      /\ chain.users = [u \in User |-> NewAccount(UserAddress[u], 1, 0, Empty)]
      /\ chain.contracts = <<>> /\ chain.transactions = <<>>
      /\ chain = [blocks |-> chain.blocks, users |-> chain.users,
                  contracts |-> chain.contracts,
                  transactions |-> chain.transactions]
  BY DEF Init, NewChain
<1>2. \A u \in User : UserAddress[u] \in Address /\ Empty \in Bytes
  BY BlockchainAssumption
<1>3. \A u \in User : /\ chain.users[u] \in Account
                      /\ chain.users[u].address = UserAddress[u]
                      /\ chain.users[u].nonce = 0
  <2> TAKE u \in User
  <2>1. chain.users[u] = NewAccount(UserAddress[u], 1, 0, Empty)
    BY <1>1
  <2>2. NewAccount(UserAddress[u], 1, 0, Empty) \in Account
    BY <1>2, NewAccountType
  <2> QED
    BY <2>1, <2>2 DEF NewAccount
<1>4. chain.users \in [User -> Account]
  BY <1>1, <1>3
<1>5. /\ chain.blocks \in Seq(Block)
      /\ Len(chain.blocks) = 1 /\ chain.blocks # <<>>
  BY <1>1 DEF Block, NoHash
<1>6. chain.contracts \in Seq(Account) /\ DOMAIN chain.contracts = {}
  BY <1>1
<1>7. Sane(chain)
  BY <1>1, <1>3, <1>4, <1>5, <1>6 DEF Sane, ChainOk
<1>8. Recorded(chain) = {} /\ DOMAIN mined = {}
  BY <1>1 DEF Recorded, Init
<1>9. BlocksMatchNonce
  BY <1>3, <1>5, Web3Assumption DEF BlocksMatchNonce
<1>10. FirstInv
  <2>1. \A a : Codes(chain, a) = {}
    BY <1>6 DEF Codes, ContractsAt
  <2> QED
    BY <2>1, BlockchainAssumption DEF Init, FirstInv
<1> QED
  BY <1>7, <1>8, <1>9, <1>10 DEF Inv, Init, AnswerOk

\* A request that leaves the chain alone.
LEMMA SameChain ==
    ASSUME Inv, UNCHANGED <<chain, mined, first>>, AnswerOk',
           lock' = lock \/ lock' = "poisoned"
    PROVE  Inv' /\ StepKeeps
<1>1. Sane(chain)' /\ Recorded(chain)' = Recorded(chain)
  BY DEF Inv
<1>2. (\A h \in Recorded(chain) : RecordInv(h))'
  BY DEF Inv, RecordInv
<1>3. BlocksMatchNonce'
  BY DEF Inv, BlocksMatchNonce
<1>4. StepKeeps
  BY KeptReflexive DEF StepKeeps
<1>5. FirstInv'
  BY SameCodes DEF Inv, FirstInv
<1> QED
  BY <1>1, <1>2, <1>3, <1>4, <1>5 DEF Inv

\* A block committed for a transaction that fails poisons the mutex.
LEMMA FailingInv ==
    ASSUME Inv, SendFailing
    PROVE  Inv' /\ StepKeeps
<1>1. /\ Sane(chain')
      /\ chain'.users = chain.users
      /\ chain'.contracts = chain.contracts
      /\ chain'.transactions = chain.transactions
      /\ Len(chain'.blocks) = Len(chain.blocks) + 1
  BY CommitParts DEF Inv, SendFailing
<1>2. /\ lock = "free" /\ lock' = "poisoned" /\ response' = Panic
      /\ UNCHANGED <<mined, first>>
  BY DEF SendFailing, Locked, Poison
<1>3. Recorded(chain') = Recorded(chain)
  BY <1>1 DEF Recorded
<1>4. \A h \in Recorded(chain') : RecordInv(h)'
  BY <1>1, <1>3 DEF Inv, RecordInv, ContractsAt
<1>5. Len(chain.blocks) \in Nat /\ chain.users[Naga].nonce \in Nat
  BY SaneLength, CountParts DEF Inv
<1>6. Len(chain.blocks) - 1 - 2 * chain.users[Naga].nonce = 0
  BY <1>2 DEF Inv, BlocksMatchNonce
<1>7. BlocksMatchNonce'
  BY <1>1, <1>2, <1>5, <1>6 DEF BlocksMatchNonce
<1>8. StepKeeps
  BY <1>1, <1>3, KeptReflexive DEF StepKeeps
<1>9. FirstInv'
  BY <1>1, <1>2, SameCodes DEF Inv, FirstInv
<1> QED
  BY <1>1, <1>2, <1>3, <1>4, <1>7, <1>8, <1>9 DEF Inv, AnswerOk

\* A call grows the chain.
LEMMA CallInv ==
    ASSUME Inv, NEW a \in Address, Call(a)
    PROVE  Inv' /\ StepKeeps
<1>1. Grown(chain, chain')
  BY CalledGrows DEF Call, Inv
<1>2. UNCHANGED <<lock, mined, first>> /\ response' = Ok
  BY DEF Call
<1>3. Recorded(chain') = Recorded(chain)
  BY <1>1 DEF Grown, Recorded
<1>4. \A h \in Recorded(chain') : RecordInv(h)'
  <2> TAKE h \in Recorded(chain')
  <2>1. chain'.transactions[h] = chain.transactions[h]
    BY <1>1 DEF Grown
  <2>2. /\ h \in Deployments
        /\ ContractsAt(chain, ContractAddress(h)) # {}
             => ContractsAt(chain', ContractAddress(h)) # {}
    BY <1>1, <1>3, KeptContracts DEF Grown, Inv, RecordInv
  <2> QED
    BY <1>3, <2>1, <2>2 DEF Inv, RecordInv
<1>5. BlocksMatchNonce'
  BY <1>1, <1>2, Web3Assumption DEF Inv, BlocksMatchNonce, Grown, Kept
<1>6. StepKeeps
  BY <1>1 DEF StepKeeps, Grown
<1>7. FirstInv'
  <2>1. PICK run \in Called(chain, a) : chain' = run.chain
    BY DEF Call
  <2>2. \A b : Codes(chain', b) = Codes(chain, b)
    BY <2>1, CalledCodes DEF Inv
  <2> QED
    BY <1>2, <2>2 DEF Inv, FirstInv
<1> QED
  BY <1>1, <1>2, <1>3, <1>4, <1>5, <1>6, <1>7 DEF Inv, AnswerOk, Grown

\* A transaction that succeeds commits twice and is counted once.
LEMMA SendInv ==
    ASSUME Inv, NEW tx \in Deployments, SendTransaction(tx)
    PROVE  Inv' /\ StepKeeps
<1> DEFINE a == ContractAddress(tx)
<1>1. tx \in Transaction /\ a \in Address \ UserAddresses
  BY ContractAddresses
<1>2. PICK run \in Deployed(Commit(chain), a) :
        /\ chain' = Commit(IncNonce(AddTransaction(run.chain, tx,
                        [data |-> run.data, contract |-> a]), Naga))
        /\ mined' = [h \in DOMAIN mined \cup {tx} |->
                        IF h = tx THEN Latest(chain').num ELSE mined[h]]
        /\ first' = [first EXCEPT ![a] = IF @ = Empty THEN run.data ELSE @]
  BY DEF SendTransaction, TransactionHash
<1>3. lock = "free" /\ lock' = "free" /\ response' = Ok
  BY DEF SendTransaction, Locked
<1> DEFINE result == [data |-> run.data, contract |-> a]
           opened == Commit(chain)
           done   == AddTransaction(run.chain, tx, result)
           counted == IncNonce(done, Naga)
<1>4. /\ Sane(opened)
      /\ opened.users = chain.users
      /\ opened.contracts = chain.contracts
      /\ opened.transactions = chain.transactions
      /\ Len(opened.blocks) = Len(chain.blocks) + 1
  BY CommitParts DEF Inv
<1>5. /\ Grown(opened, run.chain)
      /\ run.data \in Bytes
      /\ run.data # Empty => ContractsAt(run.chain, a) # {}
  BY <1>1, <1>2, <1>4, DeployedGrows
<1>6. /\ Sane(done)
      /\ done.users = run.chain.users
      /\ done.contracts = run.chain.contracts
      /\ done.blocks = run.chain.blocks
      /\ Recorded(done) = Recorded(run.chain) \cup {tx}
      /\ done.transactions[tx] = [tx |-> tx, result |-> result]
      /\ \A h \in Recorded(run.chain) \ {tx} :
           done.transactions[h] = run.chain.transactions[h]
  BY <1>5, RecordParts DEF Grown
<1>7. /\ Sane(counted)
      /\ counted.blocks = done.blocks
      /\ counted.contracts = done.contracts
      /\ counted.transactions = done.transactions
      /\ done.users[Naga].nonce \in Nat
      /\ counted.users[Naga].nonce = done.users[Naga].nonce + 1
  BY <1>6, CountParts
<1>8. /\ Sane(chain')
      /\ chain'.users = counted.users
      /\ chain'.contracts = counted.contracts
      /\ chain'.transactions = counted.transactions
      /\ Len(chain'.blocks) = Len(counted.blocks) + 1
      /\ Latest(chain').num \in Nat
  BY <1>2, <1>7, CommitParts
<1>9. ContractAddress(tx) = a
  OBVIOUS
<1> HIDE DEF opened, done, counted, a
<1>10. /\ run.chain.transactions = chain.transactions
       /\ run.chain.blocks = opened.blocks
       /\ run.chain.users[Naga].nonce = chain.users[Naga].nonce
  BY <1>4, <1>5, Web3Assumption DEF Grown, Kept
<1>11. /\ Recorded(chain') = Recorded(chain) \cup {tx}
       /\ chain'.transactions[tx] = [tx |-> tx, result |-> result]
       /\ \A h \in Recorded(chain) \ {tx} :
            chain'.transactions[h] = chain.transactions[h]
  BY <1>6, <1>7, <1>8, <1>10 DEF Recorded
<1>12. /\ DOMAIN chain.contracts \subseteq DOMAIN chain'.contracts
       /\ \A n \in DOMAIN chain.contracts :
            Kept(chain.contracts[n], chain'.contracts[n])
  BY <1>4, <1>5, <1>6, <1>7, <1>8 DEF Grown
<1>13. /\ Len(chain'.blocks) = Len(chain.blocks) + 2
       /\ chain'.users[Naga].nonce = chain.users[Naga].nonce + 1
       /\ Len(chain.blocks) \in Nat
       /\ chain.users[Naga].nonce \in Nat
  BY <1>4, <1>6, <1>7, <1>8, <1>10, SaneLength DEF Inv
<1>14. BlocksMatchNonce'
  <2>1. Len(chain.blocks) - 1 - 2 * chain.users[Naga].nonce = 0
    BY <1>3 DEF Inv, BlocksMatchNonce
  <2>2. \A l, n \in Nat : l - 1 - 2 * n = 0 => (l + 2) - 1 - 2 * (n + 1) = 0
    OBVIOUS
  <2>3. Len(chain'.blocks) - 1 - 2 * chain'.users[Naga].nonce = 0
    BY <1>13, <2>1, <2>2
  <2> QED
    BY <2>3 DEF BlocksMatchNonce
<1>15. \A h \in Recorded(chain') : RecordInv(h)'
  <2> TAKE h \in Recorded(chain')
  <2>1. CASE h = tx
    <3>1. result \in [data : Bytes, contract : Address]
      BY <1>1, <1>5
    <3>2. chain'.transactions[tx] \in Record
      BY <1>1, <1>11, <3>1 DEF Record
    <3>3. run.data # Empty => ContractsAt(chain', a) # {}
      BY <1>5, <1>6, <1>7, <1>8 DEF ContractsAt
    <3> QED
      BY <1>9, <1>11, <2>1, <3>2, <3>3 DEF RecordInv
  <2>2. CASE h # tx
    <3>1. /\ h \in Recorded(chain) /\ RecordInv(h)
          /\ chain'.transactions[h] = chain.transactions[h]
      BY <1>11, <2>2 DEF Inv
    <3>2. ContractsAt(chain, ContractAddress(h)) # {}
            => ContractsAt(chain', ContractAddress(h)) # {}
      BY <1>12, KeptContracts
    <3> QED
      BY <3>1, <3>2 DEF RecordInv
  <2> QED
    BY <2>1, <2>2
<1>16. /\ DOMAIN mined' = Recorded(chain')
       /\ \A h \in DOMAIN mined' : mined'[h] \in Nat
  BY <1>2, <1>8, <1>11 DEF Inv
<1>17. StepKeeps
  BY <1>12 DEF StepKeeps
<1>18. FirstInv'
  <2>1. \A b : Codes(chain', b) = Codes(run.chain, b)
    BY <1>6, <1>7, <1>8, SameCodes
  <2>2. \A b : Codes(opened, b) = Codes(chain, b)
    BY <1>4, SameCodes
  <2>3. \A b : Codes(run.chain, b) =
                 IF b = a /\ run.data # Empty /\ Codes(opened, a) = {}
                 THEN {run.data} ELSE Codes(opened, b)
    BY <1>1, <1>2, <1>4, DeployedCodes DEF opened
  <2>4. /\ first' \in [Address -> Bytes]
        /\ \A b \in Address : first'[b] = IF b = a /\ first[b] = Empty
                                          THEN run.data ELSE first[b]
    BY <1>1, <1>2, <1>5 DEF Inv, FirstInv
  <2>5. ASSUME NEW b \in Address \ UserAddresses
        PROVE  Codes(chain', b) = IF first'[b] = Empty THEN {} ELSE {first'[b]}
    <3>1. Codes(chain, b) = IF first[b] = Empty THEN {} ELSE {first[b]}
      BY DEF Inv, FirstInv
    <3>2. Codes(chain', b) = IF b = a /\ run.data # Empty /\ Codes(chain, b) = {}
                             THEN {run.data} ELSE Codes(chain, b)
      BY <2>1, <2>2, <2>3
    <3> QED
      BY <2>4, <3>1, <3>2
  <2> QED
    BY <2>4, <2>5 DEF FirstInv
<1> QED
  BY <1>3, <1>8, <1>14, <1>15, <1>16, <1>17, <1>18 DEF Inv, AnswerOk

\* Every request keeps the invariant and the accounts.
LEMMA StepInv == Inv /\ [Next]_vars => Inv' /\ (StepKeeps \/ UNCHANGED vars)
<1> SUFFICES ASSUME Inv, [Next]_vars PROVE Inv' /\ (StepKeeps \/ UNCHANGED vars)
  OBVIOUS
<1>1. CASE GasPrice
  <2>1. AnswerOk'
    BY <1>1 DEF GasPrice, AnswerOk
  <2> QED
    BY <1>1, <2>1, SameChain DEF GasPrice
<1>2. CASE SendIncomplete \/ ReceiptUnknown \/ CodeAtUnknown \/ CallFailing
  <2>1. /\ UNCHANGED <<chain, mined, first>>
        /\ lock' = "poisoned" /\ response' = Panic
    BY <1>2 DEF SendIncomplete, ReceiptUnknown, CodeAtUnknown, CallFailing,
                Poison
  <2>2. AnswerOk'
    BY <2>1 DEF AnswerOk
  <2> QED
    BY <2>1, <2>2, SameChain
<1>3. CASE SendFailing
  BY <1>3, FailingInv
<1>4. ASSUME NEW tx \in Deployments, SendTransaction(tx)
      PROVE  Inv' /\ StepKeeps
  BY <1>4, SendInv
<1>5. ASSUME NEW hash \in Transaction, TransactionReceipt(hash)
      PROVE  Inv' /\ StepKeeps
  <2>1. UNCHANGED <<chain, lock, mined, first>> /\ hash \in Recorded(chain)
    BY <1>5 DEF TransactionReceipt
  <2>2. chain.transactions[hash] \in Record
    BY <2>1 DEF Inv, RecordInv
  <2>3. Latest(chain).num \in Nat
    <3>1. chain.blocks \in Seq(Block) /\ chain.blocks # <<>>
      BY DEF Inv, Sane, ChainOk
    <3>2. Latest(chain) \in Block
      BY <3>1 DEF Latest
    <3> QED
      BY <3>2 DEF Block
  <2>4. /\ chain.transactions[hash].tx.sender \in Address
        /\ chain.transactions[hash].result.contract \in Address
    BY <2>2 DEF Record, Transaction
  <2>5. response' \in [status : {"receipt"}, hash : Transaction, from : Address,
                       contract : Address, block_number : Nat]
    BY <1>5, <2>3, <2>4 DEF TransactionReceipt
  <2>6. AnswerOk'
    BY <2>5 DEF AnswerOk
  <2> QED
    BY <2>1, <2>6, SameChain
<1>6. ASSUME NEW a \in Address, CodeAt(a)
      PROVE  Inv' /\ StepKeeps
  <2>1. UNCHANGED <<chain, lock, mined, first>> /\ response' = Ok
    BY <1>6 DEF CodeAt
  <2>2. AnswerOk'
    BY <2>1 DEF AnswerOk
  <2> QED
    BY <2>1, <2>2, SameChain
<1>7. ASSUME NEW a \in Address, Call(a)
      PROVE  Inv' /\ StepKeeps
  BY <1>7, CallInv
<1>8. CASE RequestLockedOut
  <2>1. UNCHANGED <<chain, lock, mined, first>> /\ response' = LockedOut
    BY <1>8 DEF RequestLockedOut
  <2>2. AnswerOk'
    BY <2>1 DEF AnswerOk
  <2> QED
    BY <2>1, <2>2, SameChain
<1>9. CASE UNCHANGED vars
  <2>1. AnswerOk' /\ UNCHANGED <<chain, lock, mined, first>>
    BY <1>9 DEF vars, Inv, AnswerOk
  <2> QED
    BY <2>1, SameChain
<1> QED
  BY <1>1, <1>2, <1>3, <1>4, <1>5, <1>6, <1>7, <1>8, <1>9 DEF Next

\* The invariant holds on every chain that requests build.
LEMMA SpecInv == Spec => []Inv
<1>1. Inv /\ [Next]_vars => Inv'
  BY StepInv
<1> QED
  BY InitInv, <1>1, PTL DEF Spec

-----------------------------------------------------------------------------
(* Theorems.                                                               *)

\* However requests follow one another, the chain, the mutex, the answers and
\* the records have their types.
THEOREM Web3TypeCorrect == Spec => []TypeOK
<1>1. Inv => TypeOK
  <2> SUFFICES ASSUME Inv PROVE TypeOK
    OBVIOUS
  <2>1. /\ Recorded(chain) \subseteq Transaction
        /\ \A h \in Recorded(chain) : chain.transactions[h] \in Record
    BY ContractAddresses DEF Inv, RecordInv
  <2> QED
    BY <2>1 DEF Inv, FirstInv, Sane, ChainOk, AnswerOk, TypeOK
<1> QED
  BY SpecInv, <1>1, PTL

\* update_state asks `exist` before create_contract: no deployment, first or
\* repeated, puts two accounts at one address.
THEOREM AccountsAreDistinct == Spec => []OneAccountPerAddress
<1>1. Inv => OneAccountPerAddress
  <2> SUFFICES ASSUME Inv, NEW a \in Address
               PROVE  Cardinality(ContractsAt(chain, a))
                        + Cardinality(UsersAt(chain, a)) <= 1
    BY DEF OneAccountPerAddress
  <2> DEFINE contracts == ContractsAt(chain, a)
             users     == UsersAt(chain, a)
  <2>1. \A m, n \in contracts : m = n
    BY DEF Inv, Sane, ContractsAt
  <2>2. \A u, v \in users : u = v
    BY BlockchainAssumption DEF Inv, Sane, UsersAt
  <2>3. contracts = {} \/ users = {}
    BY DEF Inv, Sane, ContractsAt, UsersAt, UserAddresses
  <2>4. contracts = {} \/ \E n : contracts = {n}
    <3> HIDE DEF contracts
    <3> QED
      BY <2>1
  <2>5. users = {} \/ \E u : users = {u}
    <3> HIDE DEF users
    <3> QED
      BY <2>2
  <2> HIDE DEF contracts, users
  <2>6. \/ Cardinality(contracts) = 0 \/ Cardinality(contracts) = 1
    BY <2>4, FS_EmptySet, FS_Singleton
  <2>7. \/ Cardinality(users) = 0 \/ Cardinality(users) = 1
    BY <2>5, FS_EmptySet, FS_Singleton
  <2>8. Cardinality(contracts) = 0 \/ Cardinality(users) = 0
    BY <2>3, FS_EmptySet
  <2>9. Cardinality(contracts) + Cardinality(users) <= 1
    BY <2>6, <2>7, <2>8
  <2> QED
    BY <2>9 DEF contracts, users
<1> QED
  BY SpecInv, <1>1, PTL

\* Whatever follows, and whichever record is replaced: the contract of a recorded
\* transaction is on the chain if a deployment of it ever had a result, and not
\* otherwise, with the first of these for its code.
THEOREM RecordedContractsStay == Spec => []RecordedContractsExist
<1>1. Inv => RecordedContractsExist
  <2> SUFFICES ASSUME Inv, NEW h \in Recorded(chain),
                      NEW result, result = chain.transactions[h].result,
                      NEW c, c = result.contract
               PROVE  /\ result.data # Empty => Exist(chain, c)
                      /\ Exist(chain, c) <=> first[c] # Empty
                      /\ \A account \in AccountsAt(chain, c) :
                           account.code = first[c]
    BY DEF RecordedContractsExist
  <2>1. RecordInv(h)
    BY DEF Inv
  <2>2. c = ContractAddress(h) /\ c \in Address \ UserAddresses
    BY <2>1, ContractAddresses DEF RecordInv
  <2>3. UsersAt(chain, c) = {}
    BY <2>2 DEF Inv, Sane, UsersAt, UserAddresses
  <2>4. AccountsAt(chain, c) = {chain.contracts[n] : n \in ContractsAt(chain, c)}
    BY <2>3 DEF AccountsAt
  <2>5. Codes(chain, c) = IF first[c] = Empty THEN {} ELSE {first[c]}
    BY <2>2 DEF Inv, FirstInv
  <2>6. Exist(chain, c) <=> ContractsAt(chain, c) # {}
    BY <2>4 DEF Exist
  <2>7. ContractsAt(chain, c) # {} <=> Codes(chain, c) # {}
    BY DEF Codes
  <2>8. \A account \in AccountsAt(chain, c) : account.code \in Codes(chain, c)
    BY <2>4 DEF Codes
  <2> QED
    BY <2>1, <2>2, <2>5, <2>6, <2>7, <2>8 DEF RecordInv
<1> QED
  BY SpecInv, <1>1, PTL

\* Two blocks for every transaction counted, and one over only behind a panic.
THEOREM BlocksAreCounted == Spec => []BlocksMatchNonce
<1>1. Inv => BlocksMatchNonce
  BY DEF Inv
<1> QED
  BY SpecInv, <1>1, PTL

\* Deploying a code again leaves the account as it was, but for its storage.
THEOREM RedeploymentIsSafe == Spec => RedeployKeepsAccounts
<1>1. Inv /\ [Next]_vars =>
        [\A n \in DOMAIN chain.contracts :
           [chain'.contracts[n] EXCEPT !.storage = chain.contracts[n].storage]
             = chain.contracts[n]]_vars
  <2> SUFFICES ASSUME Inv, Inv', StepKeeps, NEW n \in DOMAIN chain.contracts
               PROVE  [chain'.contracts[n] EXCEPT
                          !.storage = chain.contracts[n].storage]
                        = chain.contracts[n]
    BY StepInv
  <2>1. /\ chain.contracts[n] \in Account
        /\ chain'.contracts[n] \in Account
    BY DEF Inv, Sane, ChainOk, StepKeeps
  <2>2. Kept(chain.contracts[n], chain'.contracts[n])
    BY DEF StepKeeps
  <2> QED
    BY <2>1, <2>2 DEF Account, Kept
<1> QED
  BY SpecInv, <1>1, PTL DEF Spec, RedeployKeepsAccounts
=============================================================================
