-------------------------------- MODULE Token --------------------------------
(* What the contracts of contracts/token.py and contracts/counter.py promise *)
(* to who calls them: one call at a time, each answered once, all of its     *)
(* effect or none of it, and no refusal without a reason.                    *)
EXTENDS Integers

CONSTANTS
    Keys,        \* the storage keys that matter: addresses, and slot 0
    Requests,    \* records: op, caller, gas, and the arguments of op
    Fares,       \* the gas that is enough for each op
    Supply,      \* INITIAL_SUPPLY
    Modulus      \* of a word

VARIABLES slots, request, answer

NoRequest == [op |-> "none"]

Init ==
    /\ slots = [k \in Keys |-> 0]
    /\ request = NoRequest
    /\ answer = [success |-> FALSE, value |-> 0]

Idle == request = NoRequest

(* The supply is entered by hand, once.                                      *)
SetSupply ==
    /\ Idle /\ \A k \in Keys : slots[k] = 0
    /\ \E k \in Keys : slots' = [slots EXCEPT ![k] = Supply]
    /\ UNCHANGED <<request, answer>>

Ask ==
    /\ Idle
    /\ request' \in Requests
    /\ UNCHANGED <<slots, answer>>

Reply(success, value) ==
    /\ answer' = [success |-> success, value |-> value]
    /\ request' = NoRequest

Funded == request.amount <= slots[request.caller]

Transfer ==
    /\ request.op = "transfer" /\ Funded
    /\ LET paid == [slots EXCEPT ![request.caller] = @ - request.amount]
       IN  slots' = [paid EXCEPT ![request.to] = @ + request.amount]
    /\ Reply(TRUE, 0)

BalanceOf ==
    /\ request.op = "balanceOf"
    /\ Reply(TRUE, slots[request.of])
    /\ UNCHANGED slots

Increment ==
    /\ request.op = "increment"
    /\ slots' = [slots EXCEPT ![0] = (@ + 1) % Modulus]
    /\ Reply(TRUE, 0)

GetCount ==
    /\ request.op = "getCount"
    /\ Reply(TRUE, slots[0])
    /\ UNCHANGED slots

Refuse ==
    /\ \/ request.op = "unknown"
       \/ request.op # "none" /\ request.gas < Fares[request.op]
       \/ request.op = "transfer" /\ ~Funded
    /\ Reply(FALSE, 0)
    /\ UNCHANGED slots

Next == SetSupply \/ Ask \/ Transfer \/ BalanceOf \/ Increment \/ GetCount \/ Refuse

Spec == Init /\ [][Next]_<<slots, request, answer>>
=============================================================================
