-------------------------- MODULE MCStateTransition --------------------------
(* Small instances of StateTransition for TLC.                               *)
EXTENDS StateTransition, TLC

CONSTANTS alice, bob, code1

MCKeys == {alice, bob}
MCCodes == {code1}
MCSlots == {1}
MCWords == {0, 1}

Alice == KeyAddress(alice)
Bob == KeyAddress(bob)

(* The first contract Alice deploys.                                         *)
Contract == compute_contract_address(Alice, 0)

Tx(sender, nonce, to, value, gas, gas_price, nonzero_bytes) ==
    [sender |-> sender, nonce |-> nonce, to |-> to, value |-> value, gas |-> gas,
     gas_price |-> gas_price, zero_bytes |-> 0, nonzero_bytes |-> nonzero_bytes]

(* create_genesis_state: balances, nothing else.                             *)
FreshGenesis ==
    Alice :> [EMPTY_ACCOUNT EXCEPT !.balance = 20] @@ Bob :> [EMPTY_ACCOUNT EXCEPT !.balance = 1]

(* The same after Alice has deployed a contract that holds a balance.        *)
DeployedGenesis ==
    Alice :> [EMPTY_ACCOUNT EXCEPT !.balance = 20, !.nonce = 1]
    @@ Contract :> [EMPTY_ACCOUNT EXCEPT !.balance = 1, !.code = code1]

(* A paid call with a value, and one whose sender has no wei and offers none *)
(* for gas.                                                                  *)
CallTxs == {Tx(Alice, 1, Contract, 1, 6, 1, 0), Tx(Bob, 0, Contract, 0, 3, 0, 0)}

(* A deployment, a call of what it deployed, and a payment that may come to  *)
(* that address first.                                                       *)
Deployment == {Tx(Alice, 0, NoTo, 1, 5, 1, 0), Tx(Alice, 1, Contract, 0, 4, 1, 0),
               Tx(Bob, 0, Contract, 1, 1, 0, 0)}

(* Payments, among them to oneself, to nobody, of nothing, of everything;    *)
(* and some that compete for a nonce.                                        *)
Payments ==
    {Tx(Alice, 0, Bob, 2, 1, 1, 0), Tx(Alice, 0, Alice, 5, 3, 2, 1),
     Tx(Alice, 0, Bob, 2, 2, 2, 0), Tx(Alice, 1, Contract, 3, 4, 1, 1),
     Tx(Alice, 1, Bob, 0, 2, 0, 0), Tx(Alice, 2, Bob, 10, 2, 5, 0),
     Tx(Bob, 0, Alice, 1, 1, 0, 0), Tx(Bob, 1, Contract, 2, 1, 1, 0)}

(* One transaction for each reason to be refused.                            *)
Refusals ==
    {Tx(NoSender, 0, Bob, 0, 1, 0, 0), Tx(Alice, 7, Bob, 0, 2, 0, 0),
     Tx(Bob, 0, Alice, 9, 1, 0, 0), Tx(Alice, 0, Bob, 1, 9, 1, 0),
     Tx(Bob, 0, Alice, 0, 2, 0, 1)}

DeployTxs == Deployment \cup Payments \cup Refusals

MCCallTargets == {Alice, Bob, compute_contract_address(Contract, 0)}
MCValues == {0, 1}
=============================================================================
