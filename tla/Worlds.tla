-------------------------------- MODULE Worlds --------------------------------
(* What class WorldState of state/world_state.py promises to its callers:    *)
(* worlds, snapshots and accounts looked up behave as values. Whoever holds  *)
(* one sees it as it was, whatever the others do. A snapshot is good for one *)
(* revert, which uses it up. StateTransition, Node and Ledger are written    *)
(* over such worlds.                                                         *)
EXTENDS Accounts

CONSTANTS
    Addresses,   \* bound: the addresses in use
    Amounts,     \* bound: amounts of money
    MaxBalance,  \* bound
    MaxNonce     \* bound

VARIABLES
    world,       \* self._accounts
    saved,       \* <<>>, or <<the snapshot that can be reverted to>>
    held         \* <<>>, or <<what get_account returned to the caller>>

Allocations == UNION {[D -> Amounts] : D \in SUBSET Addresses}

GenesisAccount(amount) == [EMPTY_ACCOUNT EXCEPT !.balance = amount]

Init ==
    /\ \E alloc \in Allocations : world = [a \in DOMAIN alloc |-> GenesisAccount(alloc[a])]
    /\ saved = <<>> /\ held = <<>>

Becomes(w) == world' = w /\ UNCHANGED <<saved, held>>

AddBalance(a, n) ==
    /\ get_account(world, a).balance + n <= MaxBalance
    /\ Becomes(add_balance(world, a, n))

Transfer(a, b, n) ==
    /\ n > 0 /\ can_deduct(world, a, n)
    /\ get_account(world, b).balance + n <= MaxBalance
    /\ Becomes(transfer(world, a, b, n))

IncrementNonce(a) ==
    /\ get_account(world, a).nonce < MaxNonce
    /\ Becomes(increment_nonce(world, a))

SetCode(a, code) == Becomes(set_code(world, a, code))

SetStorage(a, k, v) ==
    Becomes(set_account(world, a, [get_account(world, a) EXCEPT !.storage = Store(@, k, v)]))

Snapshot ==
    /\ saved = <<>>
    /\ saved' = <<world>>
    /\ UNCHANGED <<world, held>>

Revert ==
    /\ saved # <<>>
    /\ world' = saved[1] /\ saved' = <<>>
    /\ UNCHANGED held

Forget ==
    /\ saved # <<>>
    /\ saved' = <<>>
    /\ UNCHANGED <<world, held>>

Look(a) ==
    /\ held' = <<get_account(world, a)>>
    /\ UNCHANGED <<world, saved>>

Next ==
    \/ \E a \in Addresses :
          \/ \E n \in Amounts : AddBalance(a, n)
          \/ \E b \in Addresses, n \in Amounts : Transfer(a, b, n)
          \/ IncrementNonce(a)
          \/ \E code \in Codes : SetCode(a, code)
          \/ \E k \in Slots, v \in Words : SetStorage(a, k, v)
          \/ Look(a)
    \/ Snapshot \/ Revert \/ Forget

Spec == Init /\ [][Next]_<<world, saved, held>>
=============================================================================
