------------------------------- MODULE Ledger -------------------------------
(* What apply_transaction promises to whoever holds the world state: a       *)
(* transaction happens at once or not at all, and the outcome it reports says *)
(* which. There are no frames, no gas counter, no snapshot and no            *)
(* intermediate world here.                                                  *)
EXTENDS Accounts

CONSTANTS Txs, Genesis, NoTo, Refusals, IntrinsicGas(_)

VARIABLES
    ledger,
    outcome     \* what is reported of the last transaction

Init == ledger = Genesis /\ outcome = "none"

(* Whatever is refused, and whatever has only begun, changes nothing.        *)
Refuse == outcome' \in Refusals /\ ledger' = ledger

Begin == outcome' = "none" /\ ledger' = ledger

MaxFee(t) == t.gas * t.gas_price

Valid(t) == /\ t.sender \in Eoas
            /\ get_account(ledger, t.sender).nonce = t.nonce
            /\ can_deduct(ledger, t.sender, t.value + MaxFee(t))

(* A failed transaction leaves no trace but its nonce and the whole fee.     *)
Fail(t) ==
    /\ Valid(t)
    /\ outcome' = "failure"
    /\ ledger' = increment_nonce(deduct_balance(ledger, t.sender, MaxFee(t)), t.sender)

(* A payment to an address without code costs the intrinsic gas and moves    *)
(* the value.                                                                *)
Pay(t) ==
    LET fee == IntrinsicGas(t) * t.gas_price IN
    /\ Valid(t)
    /\ outcome' = "success"
    /\ t.to # NoTo
    /\ get_account(ledger, t.to).code = NoCode
    /\ ledger' = increment_nonce(
                    deduct_balance(transfer(ledger, t.sender, t.to, t.value), t.sender, fee),
                    t.sender)

(* What a program may do to a ledger on behalf of t, whatever the program.   *)

(* Its sender pays at most the value and the fee, and uses one nonce.        *)
SenderPays(t, old, new) ==
    /\ get_account(new, t.sender).nonce = get_account(old, t.sender).nonce + 1
    /\ get_account(new, t.sender).balance
         >= get_account(old, t.sender).balance - t.value - MaxFee(t)

(* Nobody else who holds a key pays anything or loses a nonce.               *)
OthersKeep(t, old, new) ==
    \A e \in Eoas \ {t.sender} :
        /\ get_account(new, e).nonce = get_account(old, e).nonce
        /\ get_account(new, e).balance >= get_account(old, e).balance

(* Accounts stay, nonces never go back, deployed code never changes.         *)
AccountsGrow(old, new) ==
    \A a \in DOMAIN old :
        /\ a \in DOMAIN new
        /\ new[a].nonce >= old[a].nonce
        /\ old[a].code # NoCode => new[a].code = old[a].code

(* Code appears only at an address its creator's nonce has just gone past.   *)
CodeByCreation(old, new) ==
    \A a \in DOMAIN new :
        (new[a].code # NoCode /\ get_account(old, a).code = NoCode)
            => AheadOfNonce(old, a) /\ ~AheadOfNonce(new, a)

Executed(t, old, new) ==
    /\ SenderPays(t, old, new)
    /\ OthersKeep(t, old, new)
    /\ AccountsGrow(old, new)
    /\ CodeByCreation(old, new)

Run(t) ==
    /\ Valid(t)
    /\ outcome' = "success"
    /\ t.to = NoTo \/ get_account(ledger, t.to).code # NoCode
    /\ EoasPlain(ledger') /\ CreationsAhead(ledger')
    /\ Executed(t, ledger, ledger')

Next == Refuse \/ Begin \/ \E t \in Txs : Fail(t) \/ Pay(t) \/ Run(t)

Spec == Init /\ [][Next]_<<ledger, outcome>>
=============================================================================
