------------------------------ MODULE Accounts ------------------------------
(* The world state of state/world_state.py as a value: a function from the   *)
(* addresses that have an account to the accounts, and the operations of     *)
(* class WorldState as operators from one world to the next.                 *)
(*                                                                           *)
(* modify_account deep-copies, so an operation never changes an account      *)
(* object somebody else holds: accounts are values here, and WorldObjects,   *)
(* which has the objects, is shown to implement them.                        *)
(*                                                                           *)
(* Addresses. The code hashes (a public key, or a sender and a nonce) with   *)
(* keccak256 and keeps 20 bytes; the model keeps what is hashed. An address  *)
(* is <<k>> for a key k and <<s, n>> for the n-th creation of s, so distinct *)
(* inputs have distinct addresses (collision resistance is assumed).         *)
EXTENDS Integers

CONSTANTS
    Keys,     \* the private keys that may sign
    Codes,    \* runtime bytecodes that can be deployed
    NoCode,   \* b"", the code of an account that is no contract
    Slots,    \* storage slot numbers
    Words     \* the values a slot can hold

ASSUME CodesAssumption == NoCode \notin Codes

KeyAddress(k) == <<k>>

Eoas == {KeyAddress(k) : k \in Keys}

compute_contract_address(sender, nonce) == <<sender, nonce>>

-----------------------------------------------------------------------------
(* A storage is a dict: only the slots that were ever set are keys.          *)
Storage == UNION {[D -> Words] : D \in SUBSET Slots}

EmptyStorage == [k \in {} |-> 0]

Store(storage, k, v) ==
    [s \in DOMAIN storage \cup {k} |-> IF s = k THEN v ELSE storage[s]]

(* dict.update: the keys of new win. *)
Overlay(new, old) ==
    [s \in DOMAIN new \cup DOMAIN old |->
        IF s \in DOMAIN new THEN new[s] ELSE old[s]]

Account == [nonce : Nat, balance : Nat, code : Codes \cup {NoCode}, storage : Storage]

EMPTY_ACCOUNT ==
    [nonce |-> 0, balance |-> 0, code |-> NoCode, storage |-> EmptyStorage]

IsWorld(w) == w \in [DOMAIN w -> Account]

EmptyWorld == [a \in {} |-> EMPTY_ACCOUNT]

-----------------------------------------------------------------------------
get_account(w, a) == IF a \in DOMAIN w THEN w[a] ELSE EMPTY_ACCOUNT

set_account(w, a, account) ==
    [x \in DOMAIN w \cup {a} |-> IF x = a THEN account ELSE w[x]]

add_balance(w, a, amount) ==
    set_account(w, a, [get_account(w, a) EXCEPT !.balance = @ + amount])

(* Mutant: the test left out. *)
can_always_deduct(w, a, amount) == TRUE

(* The test of deduct_balance, which raises ValueError when it is false. *)
can_deduct(w, a, amount) == get_account(w, a).balance >= amount

deduct_balance(w, a, amount) ==
    set_account(w, a, [get_account(w, a) EXCEPT !.balance = @ - amount])

increment_nonce(w, a) ==
    set_account(w, a, [get_account(w, a) EXCEPT !.nonce = @ + 1])

transfer(w, sender, recipient, amount) ==
    IF amount = 0
    THEN w
    ELSE add_balance(deduct_balance(w, sender, amount), recipient, amount)

set_code(w, a, code) ==
    set_account(w, a, [get_account(w, a) EXCEPT !.code = code])

(* set_storage for every item of a dict, the loop the EVM's callers run. *)
set_storage_items(w, a, items) ==
    IF DOMAIN items = {}
    THEN w
    ELSE set_account(w, a, [get_account(w, a) EXCEPT !.storage = Overlay(items, @)])

-----------------------------------------------------------------------------
(* What every reachable world has in common, for the invariants.             *)

(* An address no contract creation has reached yet: n is still ahead of the  *)
(* creator's nonce, and neither code, nonce nor storage is there (a balance  *)
(* may be: anyone can send to an address before it is created).              *)
AheadOfNonce(w, a) ==
    /\ a \notin Eoas
    /\ a[2] \in Nat
    /\ a[2] >= get_account(w, a[1]).nonce

Pristine(account) ==
    account.code = NoCode /\ account.nonce = 0 /\ account.storage = EmptyStorage

CreationsAhead(w) == \A a \in DOMAIN w : AheadOfNonce(w, a) => Pristine(w[a])

EoasPlain(w) ==
    \A e \in Eoas : /\ get_account(w, e).code = NoCode
                    /\ get_account(w, e).storage = EmptyStorage
=============================================================================
