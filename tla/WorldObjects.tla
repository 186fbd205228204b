----------------------------- MODULE WorldObjects -----------------------------
(* Class WorldState of state/world_state.py with the objects it is made of:  *)
(* dicts from addresses to accounts, account objects, and a storage dict     *)
(* object in each, all of them mutable. get_account hands out the object     *)
(* itself, or the one EMPTY_ACCOUNT that stands for every missing account;   *)
(* modify_account changes a deep copy and puts it in the place of the old;   *)
(* snapshot copies everything; revert installs the snapshot it is given.     *)
(*                                                                           *)
(* The caller has one snapshot at a time. A snapshot that was reverted to is *)
(* the world itself, so what the caller has is from then on a second name of *)
(* the world's dict, until the caller lets it go.                            *)
(*                                                                           *)
(* After a step every object is named after the first place it is found in,  *)
(* and those found nowhere are gone: heaps that differ in names only are one *)
(* state.                                                                    *)
EXTENDS FiniteSetsExt

CONSTANTS Keys, Codes, NoCode, Slots, Words    \* as in Accounts

CONSTANTS
    Addresses, Amounts, MaxBalance, MaxNonce,    \* bounds, as in Worlds
    MaxEdits                                     \* bound: changes in a behaviour

ASSUME ObjectsAssumption == IsFiniteSet(Addresses) /\ Amounts \subseteq Nat

A == INSTANCE Accounts

VARIABLES
    heap,        \* tables: dicts from addresses to the names of accounts,
                 \* accounts: objects, with the names of their storage dicts,
                 \* dicts: storage dicts
    saved,       \* <<>>, or <<the name of the snapshot the caller has>>, which
                 \* is the world's own name once it was reverted to
    held,        \* <<>>, or <<the name of the account object the caller has>>
    edits        \* how many changes were made, for the bound

vars == <<heap, saved, held, edits>>

Sentinel == 0     \* EMPTY_ACCOUNT, and the dict in it

Current == 0      \* self._accounts

With(f, x, value) == [y \in DOMAIN f \cup {x} |-> IF y = x THEN value ELSE f[y]]

(* The places an account can be found in: EMPTY_ACCOUNT, at an address in    *)
(* the world or the snapshot, and in the caller's hand.                      *)
Width == Cardinality(Addresses)

Position == CHOOSE f \in [Addresses -> 1..Width] : IsInjective(f)

PlacesIn(table, i) == {Position[a] : a \in {b \in DOMAIN table : table[b] = i}}

Places(h, cur, sv, hd, i) ==
    {p \in {Sentinel} : p = i}
        \cup PlacesIn(h.tables[cur], i)
        \cup {Width + p : p \in UNION {PlacesIn(h.tables[t], i) : t \in Range(sv)}}
        \cup {2 * Width + k : k \in {j \in DOMAIN hd : hd[j] = i}}

Found(h, cur, sv, hd) ==
    {Sentinel} \cup Range(hd) \cup UNION {Range(h.tables[t]) : t \in {cur} \cup Range(sv)}

Names(h, cur, sv, hd) ==
    [i \in Found(h, cur, sv, hd) |-> Min(Places(h, cur, sv, hd, i))]

(* A storage dict is named after the first account it is in.                 *)
DictNames(h, name) ==
    [d \in {h.accounts[i].storage : i \in DOMAIN name} |->
        Min({name[i] : i \in {j \in DOMAIN name : h.accounts[j].storage = d}})]

TableName(t, cur) == IF t = cur THEN Current ELSE 1

(* The heap under new names, without what has none.                          *)
Renamed(h, cur, sv, name, dict) ==
    LET object == AntiFunction(name)
        storage == AntiFunction(dict)
        tableOf(u) == IF u = Current THEN cur ELSE sv[1]
    IN  [tables |-> [u \in {TableName(t, cur) : t \in {cur} \cup Range(sv)} |->
                        [a \in DOMAIN h.tables[tableOf(u)] |-> name[h.tables[tableOf(u)][a]]]],
         accounts |-> [n \in Range(name) |-> [h.accounts[object[n]] EXCEPT !.storage = dict[@]]],
         dicts |-> [n \in Range(dict) |-> h.dicts[storage[n]]]]

(* What becomes of the heap h after a step, with cur the world and sv and hd *)
(* what the caller has.                                                      *)
Settle(h, cur, sv, hd) ==
    LET name == Names(h, cur, sv, hd)
    IN  /\ heap' = Renamed(h, cur, sv, name, DictNames(h, name))
        /\ saved' = [k \in DOMAIN sv |-> TableName(sv[k], cur)]
        /\ held' = [k \in DOMAIN hd |-> name[hd[k]]]

(* Names for new objects: the next one, and one for each of the old.         *)
Fresh(used) == Max(used) + 1

Renaming(old, used) == [i \in old |-> Fresh(used) + i]

-----------------------------------------------------------------------------
(* create_genesis_state: a new Account for every entry.                      *)
Genesis(alloc) ==
    LET names == [a \in DOMAIN alloc |-> Position[a]]
        owner == AntiFunction(names)
        ids == {Sentinel} \cup Range(names)
        balance(i) == IF i = Sentinel THEN 0 ELSE alloc[owner[i]]
    IN  [tables |-> [t \in {Current} |-> names],
         accounts |-> [i \in ids |-> [A!EMPTY_ACCOUNT EXCEPT !.balance = balance(i), !.storage = i]],
         dicts |-> [d \in ids |-> A!EmptyStorage]]

Init ==
    /\ \E D \in SUBSET Addresses : \E alloc \in [D -> Amounts] : heap = Genesis(alloc)
    /\ saved = <<>> /\ held = <<>> /\ edits = 0

get_account(h, a) ==
    IF a \in DOMAIN h.tables[Current] THEN h.tables[Current][a] ELSE Sentinel

(* Mutant: copy.copy, which shares the storage dict.                         *)
shallowcopy(h, i) == [account |-> Fresh(DOMAIN h.accounts), storage |-> h.accounts[i].storage]

(* What copy.deepcopy makes of an account object: two new ones.              *)
deepcopy(h, i) == [account |-> Fresh(DOMAIN h.accounts), storage |-> Fresh(DOMAIN h.dicts)]

account_at(h, a) == h.accounts[get_account(h, a)]

storage_at(h, a) == h.dicts[account_at(h, a).storage]

(* The modifier leaves these fields in the copy, and this in its dict.       *)
modify_account(h, a, account, storage) ==
    LET copy == deepcopy(h, get_account(h, a))
    IN  [tables |-> [h.tables EXCEPT ![Current] = With(@, a, copy.account)],
         accounts |-> With(h.accounts, copy.account, [account EXCEPT !.storage = copy.storage]),
         dicts |-> With(h.dicts, copy.storage, storage)]

(* The call of an operation: afterwards the heap is this one.                *)
Becomes(h) ==
    /\ edits < MaxEdits /\ edits' = edits + 1
    /\ Settle(h, Current, saved, held)

balance_of(a) == account_at(heap, a).balance

add_balance(h, a, n) ==
    modify_account(h, a, [account_at(h, a) EXCEPT !.balance = @ + n], storage_at(h, a))

AddBalance(a, n) ==
    /\ balance_of(a) + n <= MaxBalance
    /\ Becomes(add_balance(heap, a, n))

(* deduct_balance, then add_balance, which looks up the recipient again.     *)
Transfer(a, b, n) ==
    /\ n > 0 /\ balance_of(a) >= n
    /\ balance_of(b) + n <= MaxBalance
    /\ Becomes(add_balance(add_balance(heap, a, -n), b, n))

IncrementNonce(a) ==
    /\ account_at(heap, a).nonce < MaxNonce
    /\ Becomes(modify_account(heap, a, [account_at(heap, a) EXCEPT !.nonce = @ + 1],
                              storage_at(heap, a)))

SetCode(a, code) ==
    Becomes(modify_account(heap, a, [account_at(heap, a) EXCEPT !.code = code],
                           storage_at(heap, a)))

SetStorage(a, k, v) ==
    Becomes(modify_account(heap, a, account_at(heap, a), A!Store(storage_at(heap, a), k, v)))

(* Mutant: the dict is copied, the accounts in it are not.                   *)
dict_copy(h, t) ==
    [h EXCEPT !.tables = With(h.tables, Fresh(DOMAIN h.tables), h.tables[t])]

(* copy.deepcopy of a table: a new dict, new accounts and new storage dicts. *)
deepcopy_table(h, t) ==
    LET ids == Range(h.tables[t])
        account == Renaming(ids, DOMAIN h.accounts)
        shared == {h.accounts[i].storage : i \in ids}
        dict == Renaming(shared, DOMAIN h.dicts)
        copies == {account[i] : i \in ids}
        original(j) == CHOOSE i \in ids : account[i] = j
        source(e) == CHOOSE d \in shared : dict[d] = e
    IN  [tables |-> With(h.tables, Fresh(DOMAIN h.tables),
                         [a \in DOMAIN h.tables[t] |-> account[h.tables[t][a]]]),
         accounts |-> [j \in DOMAIN h.accounts \cup copies |->
                         IF j \in copies
                         THEN [h.accounts[original(j)] EXCEPT !.storage = dict[@]]
                         ELSE h.accounts[j]],
         dicts |-> [e \in DOMAIN h.dicts \cup Range(dict) |->
                      IF e \in Range(dict) THEN h.dicts[source(e)] ELSE h.dicts[e]]]

Snapshot ==
    /\ saved = <<>>
    /\ Settle(deepcopy_table(heap, Current), Current, <<Fresh(DOMAIN heap.tables)>>, held)
    /\ UNCHANGED edits

(* self._accounts = snapshot, with no copy: the caller's snapshot is now the *)
(* world.                                                                    *)
Revert ==
    /\ saved # <<>>
    /\ Settle(heap, saved[1], saved, held)
    /\ UNCHANGED edits

(* The transaction is over: the snapshot, used or not, is let go.            *)
Forget ==
    /\ saved # <<>>
    /\ Settle(heap, Current, <<>>, held)
    /\ UNCHANGED edits

Look(a) ==
    /\ Settle(heap, Current, saved, <<get_account(heap, a)>>)
    /\ UNCHANGED edits

Next ==
    \/ \E a \in Addresses :
          \/ \E n \in Amounts : AddBalance(a, n)
          \/ \E b \in Addresses, n \in Amounts : Transfer(a, b, n)
          \/ IncrementNonce(a)
          \/ \E code \in Codes : SetCode(a, code)
          \/ \E k \in Slots, v \in Words : SetStorage(a, k, v)
          \/ Look(a)
    \/ Snapshot \/ Revert \/ Forget

Spec == Init /\ [][Next]_vars

-----------------------------------------------------------------------------
(* Properties *)

(* The world, the snapshot and a looked-up account as values.                *)
Value(h, i) == [h.accounts[i] EXCEPT !.storage = h.dicts[@]]

WorldIn(h, t) == [a \in DOMAIN h.tables[t] |-> Value(h, h.tables[t][a])]

(* The snapshots that are values of their own: not one that is the world.    *)
Unspent == IF saved = <<Current>> THEN <<>> ELSE saved

Values == INSTANCE Worlds WITH
    world <- WorldIn(heap, Current),
    saved <- [i \in DOMAIN Unspent |-> WorldIn(heap, Unspent[i])],
    held <- [i \in DOMAIN held |-> Value(heap, held[i])]

(* No sharing shows: an operation changes what it is meant to change of the  *)
(* one world, and never a snapshot that is still to be reverted to, an       *)
(* account somebody looked up earlier or EMPTY_ACCOUNT, in any order of      *)
(* operations, snapshots and reverts, also while the caller still has the    *)
(* dict that became the world                                                *)
(* (modify_account, snapshot and revert of state/world_state.py).            *)
ValueSemantics == Values!Spec

(* The reason why, and what keeps an operation that edits in place harmless: *)
(* no account object is in two tables or at two addresses, none shares its   *)
(* storage dict, and EMPTY_ACCOUNT is never in a table                       *)
(* (modify_account and snapshot of state/world_state.py).                    *)
NothingShared ==
    /\ \A t, u \in DOMAIN heap.tables :
          \A a \in DOMAIN heap.tables[t], b \in DOMAIN heap.tables[u] :
              heap.tables[t][a] = heap.tables[u][b] => t = u /\ a = b
    /\ \A i, j \in DOMAIN heap.accounts :
          heap.accounts[i].storage = heap.accounts[j].storage => i = j
    /\ \A t \in DOMAIN heap.tables : Sentinel \notin Range(heap.tables[t])
=============================================================================
