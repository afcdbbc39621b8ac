-------------------------------- MODULE State --------------------------------
(***************************************************************************)
(* durian's write-back overlay (state.rs): the accounts an execution has   *)
(* looked at, with the storage slots it has read ("clean") or written      *)
(* ("dirty").  Each method of `State` is an operator on an overlay `accts`  *)
(* and the provider `prov` behind it; a method that asks the provider      *)
(* yields the set of its possible results.                                 *)
(***************************************************************************)
EXTENDS Provider

Status == {"none", "clean", "dirty"}

Slot == [val : Value, status : Status]

NoSlot == [val |-> Zero, status |-> "none"]

\* An entry of State.accounts; status "none" is the absence of an entry.
AccountInfo == [status  : Status,
                nonce   : Nat,
                balance : Nat,
                code    : Bytes,
                storage : [Key -> Slot]]

Overlay == [Address -> AccountInfo]

\* AccountInfo::new, as inserted by fetch_account with its flag down.
NewInfo(nonce, balance, code) ==
    [status |-> "clean", nonce |-> nonce, balance |-> balance,
     code |-> code, storage |-> [k \in Key |-> NoSlot]]

NotCached == [NewInfo(0, 0, Empty) EXCEPT !.status = "none"]

\* State::new
NewState == [a \in Address |-> NotCached]

Cached(accts) == {a \in Address : accts[a].status # "none"}

-----------------------------------------------------------------------------
\* fetch_account hands the provider's balance and nonce to AccountInfo::new in
\* each other's place; an account it cannot get becomes nonce 0, balance 1.
FetchedInfo(prov, a) ==
    (IF AccountOk(prov, a)
        THEN {NewInfo(prov[a].balance, prov[a].nonce, prov[a].code)} ELSE {})
    \cup (IF AccountErr(prov, a) THEN {NewInfo(0, 1, Empty)} ELSE {})

FetchAccount(prov, accts, a) ==
    IF a \in Cached(accts)
    THEN {accts}
    ELSE {[accts EXCEPT ![a] = info] : info \in FetchedInfo(prov, a)}

\* Mutant: a key the provider has no entry for is cached all the same.
FetchedSlot_Missing(prov, a, k) ==
    {[val |-> prov[a].storage[k], status |-> "clean"]}

\* A slot the provider cannot give stays out of the overlay.
FetchedSlot(prov, a, k) ==
    (IF StorageOk(prov, a, k)
        THEN {[val |-> prov[a].storage[k], status |-> "clean"]} ELSE {})
    \cup (IF StorageErr(prov, a, k) THEN {NoSlot} ELSE {})

\* Mutant: the provider is asked again about a slot already in the overlay.
FetchSlot_Again(prov, accts, a, k) ==
    {[accts EXCEPT ![a].storage[k] = slot] : slot \in FetchedSlot(prov, a, k)}

FetchSlot(prov, accts, a, k) ==
    IF accts[a].storage[k].status # "none"
    THEN {accts}
    ELSE {[accts EXCEPT ![a].storage[k] = slot] :
             slot \in FetchedSlot(prov, a, k)}

FetchStorage(prov, accts, a, k) ==
    UNION {FetchSlot(prov, fetched, a, k) :
              fetched \in FetchAccount(prov, accts, a)}

\* storage_at answers the slot of the overlay it leaves behind, zero without one.
SlotValue(accts, a, k) ==
    IF accts[a].storage[k].status = "none" THEN Zero
                                           ELSE accts[a].storage[k].val

\* Mutant: the slot written is not marked dirty.
SetStorage_Clean(accts, a, k, v) ==
    [accts EXCEPT ![a].storage[k] = [val |-> v, status |-> "clean"]]

\* set_storage; its callers have fetched the account.
SetStorage(accts, a, k, v) ==
    [accts EXCEPT ![a].storage[k] = [val |-> v, status |-> "dirty"]]

\* Mutant: the account is not marked dirty.
InitCode_Clean(prov, accts, a, code) ==
    {[fetched EXCEPT ![a].code = code] :
        fetched \in FetchAccount(prov, accts, a)}

\* init_code
InitCode(prov, accts, a, code) ==
    {[fetched EXCEPT ![a].code = code, ![a].status = "dirty"] :
        fetched \in FetchAccount(prov, accts, a)}

-----------------------------------------------------------------------------
(* update_state writes the overlay back account by account.                *)

\* Mutant: a slot cleared to zero counts as nothing to write.
DirtySlots_NonZero(accts, a) ==
    {k \in Key : /\ accts[a].storage[k].status = "dirty"
                 /\ accts[a].storage[k].val # Zero}

DirtySlots(accts, a) == {k \in Key : accts[a].storage[k].status = "dirty"}

\* Mutant: the account's flag is not looked at.
WriteAccount_Always(prov, accts, a) ==
    UNION {IF found
           THEN UpdateAccount(prov, a, accts[a].balance, accts[a].nonce)
           ELSE CreateContract(prov, a, accts[a].code) :
              found \in Exist(prov, a)}

\* What becomes of an account's own record before its slots are written.
WriteAccount(prov, accts, a) ==
    IF accts[a].status # "dirty"
    THEN {[ok |-> TRUE, prov |-> prov]}
    ELSE UNION {IF found
                THEN UpdateAccount(prov, a, accts[a].balance, accts[a].nonce)
                ELSE CreateContract(prov, a, accts[a].code) :
                   found \in Exist(prov, a)}

WriteSlot(prov, accts, a, k) ==
    WriteStorage(prov, a, k, accts[a].storage[k].val)
=============================================================================
