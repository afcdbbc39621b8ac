------------------------------ MODULE Provider ------------------------------
(***************************************************************************)
(* The blockchain behind the Provider trait, as durian sees it: a function *)
(* from addresses to accounts and, for every method of the trait that the  *)
(* virtual machine uses, the answers it may get.                           *)
(*                                                                         *)
(* Two providers exist.  The sample Blockchain runs in the same process,   *)
(* under the exclusive borrow that `execute` holds, and answers every call *)
(* (Remote = FALSE).  ProviderAdaptor forwards each call over RPC to such a *)
(* blockchain (Remote = TRUE): any call may fail, and a failed write may   *)
(* have been carried out before its reply was lost.                        *)
(***************************************************************************)
EXTENDS Naturals

CONSTANTS
    Address,    \* 20-byte addresses
    Key,        \* storage keys
    Value,      \* storage values
    Zero,       \* H256::zero()
    Absent,     \* no entry under a key of a storage map
    Bytes,      \* byte strings: contract codes and results
    Empty,      \* the empty byte string
    Remote      \* TRUE: the provider is reached over RPC

ASSUME ProviderAssumption ==
    /\ Zero \in Value
    /\ Absent \notin Value
    /\ Empty \in Bytes
    /\ Remote \in BOOLEAN

Account == [exist   : BOOLEAN,
            nonce   : Nat,
            balance : Nat,
            code    : Bytes,
            storage : [Key -> Value \cup {Absent}]]

Chain == [Address -> Account]

NoStorage == [k \in Key |-> Absent]

\* Account::new of the sample chain: an account with nothing stored yet.
NewAccount(balance, nonce, code) ==
    [exist |-> TRUE, nonce |-> nonce, balance |-> balance, code |-> code,
     storage |-> NoStorage]

NoAccount == [NewAccount(0, 0, Empty) EXCEPT !.exist = FALSE]

-----------------------------------------------------------------------------
(* Queries: what they may answer.                                          *)

\* `exist` has no error to report: an RPC failure is answered FALSE.
Exist(prov, a) == {prov[a].exist} \cup (IF Remote THEN {FALSE} ELSE {})

\* `account` may answer Ok, or Err.
AccountOk(prov, a)  == prov[a].exist
AccountErr(prov, a) == Remote \/ ~prov[a].exist

\* `storage_at` may answer Ok, or Err: a key never written is an error.
StorageOk(prov, a, k)  == prov[a].exist /\ prov[a].storage[k] # Absent
StorageErr(prov, a, k) == Remote \/ ~StorageOk(prov, a, k)

-----------------------------------------------------------------------------
(* Updates: the set of [ok, prov] pairs of a reply and the chain after it. *)

Reply(before, after) ==
    {[ok |-> TRUE, prov |-> after]}
    \cup (IF Remote THEN {[ok |-> FALSE, prov |-> before],
                          [ok |-> FALSE, prov |-> after]}
                    ELSE {})

\* A second account is inserted even if the address has one already; a lookup
\* then finds either of the two, and the model fixes here which one it is.
CreateContract(prov, a, code) ==
    LET created == [prov EXCEPT ![a] = NewAccount(0, 0, code)]
    IN  Reply(prov, created)
        \cup (IF prov[a].exist THEN Reply(prov, prov) ELSE {})

UpdateAccount(prov, a, balance, nonce) ==
    Reply(prov, [prov EXCEPT ![a].balance = balance, ![a].nonce = nonce])

WriteStorage(prov, a, k, v) ==
    Reply(prov, [prov EXCEPT ![a].storage[k] = v])
=============================================================================
