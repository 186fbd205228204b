--------------------------- MODULE StateTransition ---------------------------
(* apply_transaction (core/state_transition.py) with the validation before   *)
(* it (core/tx_validator.py) and the EVM's call frames below it (evm/vm.py). *)
(*                                                                           *)
(* The program is sequential: one transaction at a time, and inside it a     *)
(* stack of EVM.execute() activations, of which the top one runs. A step of  *)
(* the model is one validation, one opcode of the running frame, or the end  *)
(* of a frame together with everything its caller does on the answer.        *)
(*                                                                           *)
(* Bytecode is any program: a frame may take any opcode its gas pays for.    *)
(* What does not reach the world state (stack, memory, arithmetic, jumps) is *)
(* one action, Compute, that only costs gas.                                 *)
EXTENDS Accounts, Sequences, FiniteSets, Functions

CONSTANTS
    Txs,              \* the transactions that may be submitted
    NoTx,             \* no transaction is being applied
    Genesis,          \* the world state the run starts from
    block_gas_limit,
    TxGas, ZeroByteGas, NonZeroByteGas,     \* intrinsic gas: 21000, 4, 16
    ComputeCosts,     \* the costs of the opcodes that leave the world alone
    SstoreGas, CreateGas, CallGas,          \* 5000, 32000, 100
    GasRequests,      \* the gas operand a CALL may have on the stack
    Values,           \* the value operand of CALL and CREATE
    CallTargets,      \* addresses CALL may name besides existing accounts
    MaxDepth          \* nested frames the Python interpreter's stack allows

NoSender == <<>>   \* recover_sender raised
NoTo == <<>>       \* to == b"": contract creation

(* A signed transaction, with the signature replaced by whom it recovers to  *)
(* and the data by the number of its zero and non-zero bytes.                *)
ASSUME TxsAssumption ==
    /\ NoTx \notin Txs
    /\ \A t \in Txs :
           /\ t.sender \in Eoas \cup {NoSender}
           /\ t.nonce \in Nat /\ t.value \in Nat
           /\ t.gas \in Nat /\ t.gas_price \in Nat
           /\ t.zero_bytes \in Nat /\ t.nonzero_bytes \in Nat

ASSUME GasAssumption ==
    /\ block_gas_limit \in Nat
    /\ TxGas \in Nat /\ ZeroByteGas \in Nat /\ NonZeroByteGas \in Nat
    /\ ComputeCosts \subseteq Nat \ {0}
    /\ SstoreGas \in Nat \ {0} /\ CreateGas \in Nat \ {0} /\ CallGas \in Nat \ {0}
    /\ GasRequests \subseteq Nat /\ Values \subseteq Nat
    /\ MaxDepth \in Nat \ {0}

ASSUME GenesisAssumption ==
    /\ IsWorld(Genesis) /\ CreationsAhead(Genesis) /\ EoasPlain(Genesis)
    /\ IsFiniteSet(DOMAIN Genesis)

VARIABLES
    accounts,   \* world_state._accounts
    tx,         \* the transaction apply_transaction is executing, or NoTx
    snapshot,   \* its state_snapshot
    frames,     \* the EVM activations, outermost first
    result,     \* what the last apply_transaction returned or raised
    applied,    \* history: the transactions applied so far
    burned      \* history: the wei paid for gas so far (nobody receives it)

vars == <<accounts, tx, snapshot, frames, result, applied, burned>>

(* EVM and its ExecutionContext, as far as the world state depends on them:  *)
(* storage is the frame's own dict, gas is gas_remaining, limit is           *)
(* context.gas.                                                              *)
Frame(kind, address, storage, gas) ==
    [kind |-> kind, address |-> address, storage |-> storage, gas |-> gas, limit |-> gas]

FrameAt(w) == [kind : {"call", "create"}, address : DOMAIN w, storage : Storage,
               gas : Nat, limit : Nat]

NoAddress == <<>>

Outcome(outcome, gas_used, gas_remaining, contract_address) ==
    [outcome |-> outcome, gas_used |-> gas_used, gas_remaining |-> gas_remaining,
     contract_address |-> contract_address]

NoResult == Outcome("none", 0, 0, NoAddress)

Rejections == {"InvalidSignature", "InvalidNonce", "InsufficientBalance",
               "ExceedsBlockGasLimit", "IntrinsicGasTooLow"}

Init == /\ accounts = Genesis
        /\ tx = NoTx
        /\ snapshot = EmptyWorld
        /\ frames = <<>>
        /\ result = NoResult
        /\ applied = {}
        /\ burned = 0

-----------------------------------------------------------------------------
(* Validation *)
calculate_intrinsic_gas(t) ==
    TxGas + ZeroByteGas * t.zero_bytes + NonZeroByteGas * t.nonzero_bytes

upfront_gas_cost(t) == t.gas * t.gas_price

(* The first check that fails, in the order of validate_transaction, is the  *)
(* exception it raises.                                                      *)
validate_transaction(w, t) ==
    IF t.sender = NoSender THEN "InvalidSignature"
    ELSE IF get_account(w, t.sender).nonce # t.nonce THEN "InvalidNonce"
    ELSE IF ~can_deduct(w, t.sender, t.value + upfront_gas_cost(t)) THEN "InsufficientBalance"
    ELSE IF t.gas > block_gas_limit THEN "ExceedsBlockGasLimit"
    ELSE IF t.gas < calculate_intrinsic_gas(t) THEN "IntrinsicGasTooLow"
    ELSE "valid"

Reject(t) ==
    /\ tx = NoTx
    /\ validate_transaction(accounts, t) # "valid"
    /\ result' = Outcome(validate_transaction(accounts, t), 0, 0, NoAddress)
    /\ UNCHANGED <<accounts, tx, snapshot, frames, applied, burned>>

-----------------------------------------------------------------------------
(* The end of a transaction *)

(* Mutant: the nonce is not used up. *)
ChargeGasOnly(w, t) == deduct_balance(w, t.sender, upfront_gas_cost(t))

(* Steps 3 and 4: all the gas is paid up front, the nonce is used up.        *)
Charge(w, t) == increment_nonce(deduct_balance(w, t.sender, upfront_gas_cost(t)), t.sender)

(* apply_transaction returns: its locals are gone.                           *)
Finish(t, fee) ==
    /\ tx' = NoTx
    /\ snapshot' = EmptyWorld
    /\ frames' = <<>>
    /\ applied' = applied \cup {t}
    /\ burned' = burned + fee

(* Steps 6 and 7 of a successful execution that left world w.                *)
Succeed(t, w, gas_remaining, contract_address) ==
    LET gas_refund == gas_remaining * t.gas_price
        gas_used   == t.gas - gas_remaining
    IN  /\ accounts' = IF gas_refund > 0 THEN add_balance(w, t.sender, gas_refund) ELSE w
        /\ result' = Outcome("success", gas_used, gas_remaining, contract_address)
        /\ Finish(t, gas_used * t.gas_price)

(* Mutants: one of the three statements of the failure path left out. *)
Failed(w) == /\ accounts' = w
             /\ result' = Outcome("failure", tx.gas, 0, NoAddress)
             /\ Finish(tx, upfront_gas_cost(tx))
FailWithoutRevert == Failed(accounts)
FailWithoutGas    == Failed(increment_nonce(snapshot, tx.sender))
FailWithoutNonce  == Failed(deduct_balance(snapshot, tx.sender, upfront_gas_cost(tx)))

(* Step 6 of a failed one, and both except clauses: back to the snapshot,    *)
(* then charge again.                                                        *)
FailTransaction ==
    /\ accounts' = Charge(snapshot, tx)
    /\ result' = Outcome("failure", tx.gas, 0, NoAddress)
    /\ Finish(tx, upfront_gas_cost(tx))

-----------------------------------------------------------------------------
(* The start of a transaction *)
Begin(t, w, f) ==
    /\ tx' = t
    /\ snapshot' = accounts
    /\ accounts' = w
    /\ frames' = <<f>>
    /\ result' = NoResult
    /\ UNCHANGED <<applied, burned>>

Accepted(t) == tx = NoTx /\ validate_transaction(accounts, t) = "valid"

gas_for_execution(t) == t.gas - calculate_intrinsic_gas(t)

(* The recipient has no code: nothing runs, the transaction is over at once. *)
ExecuteValueTransfer(t) ==
    /\ Accepted(t)
    /\ t.to # NoTo
    /\ get_account(accounts, t.to).code = NoCode
    /\ Succeed(t, transfer(Charge(accounts, t), t.sender, t.to, t.value),
               gas_for_execution(t), NoAddress)

ExecuteContractCall(t) ==
    /\ Accepted(t)
    /\ t.to # NoTo
    /\ get_account(accounts, t.to).code # NoCode
    /\ Begin(t, transfer(Charge(accounts, t), t.sender, t.to, t.value),
             Frame("call", t.to, get_account(accounts, t.to).storage, gas_for_execution(t)))

(* Mutants: the address is taken from the nonce after its increment; an      *)
(* account that is already there is replaced.                                *)
CreateAtNextNonce(t) ==
    /\ Accepted(t)
    /\ t.to = NoTo
    /\ LET contract_address == compute_contract_address(t.sender, t.nonce + 1)
           w == add_balance(Charge(accounts, t), contract_address, 0)
       IN  Begin(t, transfer(w, t.sender, contract_address, t.value),
                 Frame("create", contract_address, EmptyStorage, gas_for_execution(t)))
CreateOverAccount(t) ==
    /\ Accepted(t)
    /\ t.to = NoTo
    /\ LET contract_address == compute_contract_address(t.sender, t.nonce)
           w == set_account(Charge(accounts, t), contract_address, EMPTY_ACCOUNT)
       IN  Begin(t, transfer(w, t.sender, contract_address, t.value),
                 Frame("create", contract_address, EmptyStorage, gas_for_execution(t)))

ExecuteCreate(t) ==
    /\ Accepted(t)
    /\ t.to = NoTo
    /\ LET contract_address == compute_contract_address(t.sender, t.nonce)
           w == add_balance(Charge(accounts, t), contract_address, 0)
       IN  Begin(t, transfer(w, t.sender, contract_address, t.value),
                 Frame("create", contract_address, EmptyStorage, gas_for_execution(t)))

-----------------------------------------------------------------------------
(* The running frame *)
Depth == Len(frames)

Top == frames[Depth]

Running == frames # <<>>

(* self.gas_remaining -= cost, self.storage[k] = v in the topmost frame.     *)
consume_gas(stack, cost) == [stack EXCEPT ![Len(stack)].gas = @ - cost]

store_slot(stack, k, v) == [stack EXCEPT ![Len(stack)].storage = Store(@, k, v)]

(* The running frame pays for an opcode and goes on.                         *)
Spend(cost) == consume_gas(frames, cost)

CanPay(cost) == Running /\ Top.gas >= cost

StayInTransaction == UNCHANGED <<tx, snapshot, result, applied, burned>>

Compute ==
    \E cost \in ComputeCosts :
        /\ CanPay(cost)
        /\ frames' = Spend(cost)
        /\ UNCHANGED accounts
        /\ StayInTransaction

(* Mutant: the opcode is free. *)
SstoreUnpaid ==
    \E k \in Slots, v \in Words :
        /\ CanPay(SstoreGas)
        /\ frames' = store_slot(frames, k, v)
        /\ UNCHANGED accounts
        /\ StayInTransaction

(* SSTORE writes the frame's dict; the world sees it when the frame ends.    *)
Sstore ==
    \E k \in Slots, v \in Words :
        /\ CanPay(SstoreGas)
        /\ frames' = store_slot(Spend(SstoreGas), k, v)
        /\ UNCHANGED accounts
        /\ StayInTransaction

(* A new activation gets gas; its caller keeps the amount until it answers.  *)
Enter(f, cost) ==
    /\ Depth < MaxDepth
    /\ frames' = Append(Spend(cost), f)
    /\ StayInTransaction

Self == Top.address

(* Mutant: the request is not capped. *)
Uncapped(a, b) == a

Lesser(a, b) == IF a <= b THEN a ELSE b

(* CALL with a value its contract does not have: 0 is pushed.                *)
CallUnfunded ==
    \E value \in Values :
        /\ CanPay(CallGas)
        /\ value > 0 /\ ~can_deduct(accounts, Self, value)
        /\ frames' = Spend(CallGas)
        /\ UNCHANGED accounts
        /\ StayInTransaction

(* CALL to an address without code: a transfer, and the gas comes back.      *)
CallWithoutCode ==
    \E target \in DOMAIN accounts \cup CallTargets, value \in Values :
        /\ CanPay(CallGas)
        /\ can_deduct(accounts, Self, value)
        /\ get_account(accounts, target).code = NoCode
        /\ accounts' = transfer(accounts, Self, target, value)
        /\ frames' = Spend(CallGas)
        /\ StayInTransaction

(* CALL to a contract: the value moves first, then the callee runs on a copy *)
(* of its account's storage.                                                 *)
CallContract ==
    \E target \in DOMAIN accounts, value \in Values, gas \in GasRequests :
        LET forwarded_gas == Lesser(gas, Top.gas - CallGas) IN
        /\ CanPay(CallGas)
        /\ can_deduct(accounts, Self, value)
        /\ accounts[target].code # NoCode
        /\ accounts' = transfer(accounts, Self, target, value)
        /\ Enter(Frame("call", target, accounts[target].storage, forwarded_gas), CallGas)

(* CREATE numbers the new contract with the creator's nonce and uses it up;  *)
(* the account exists from here on, whatever happens next.                   *)
NewContract == compute_contract_address(Self, get_account(accounts, Self).nonce)

(* Mutant: the creator's nonce is not used up. *)
WithoutNewNonce == add_balance(accounts, NewContract, 0)

WithNewContract == add_balance(increment_nonce(accounts, Self), NewContract, 0)

CreateUnfunded ==
    \E value \in Values :
        /\ CanPay(CreateGas)
        /\ value > 0 /\ ~can_deduct(WithNewContract, Self, value)
        /\ accounts' = WithNewContract
        /\ frames' = Spend(CreateGas)
        /\ StayInTransaction

(* The init code gets all the gas that is left.                              *)
CreateContract ==
    \E value \in Values :
        /\ CanPay(CreateGas)
        /\ can_deduct(WithNewContract, Self, value)
        /\ accounts' = transfer(WithNewContract, Self, NewContract, value)
        /\ Enter(Frame("create", NewContract, EmptyStorage, Top.gas - CreateGas), CreateGas)

-----------------------------------------------------------------------------
(* The end of a frame, and what its caller does with the answer              *)
Caller == frames[Depth - 1]

(* The frame is gone and its caller goes on, gas_used poorer.                *)
Resume(gas_used) ==
    /\ frames' = consume_gas(SubSeq(frames, 1, Depth - 1), gas_used)
    /\ StayInTransaction

(* Mutant: what any frame returns becomes code, a called contract's too. *)
CommittedAlways(code) ==
    set_storage_items(set_code(accounts, Self, code), Self, Top.storage)

(* What the caller of a successful frame writes: the runtime code of a new   *)
(* contract, and every item of the frame's storage dict.                     *)
Committed(code) ==
    set_storage_items(
        IF Top.kind = "create" THEN set_code(accounts, Self, code) ELSE accounts,
        Self, Top.storage)

(* STOP, RETURN, or the end of the code.                                     *)
Return ==
    \E code \in Codes \cup {NoCode} :
        /\ Running
        /\ Top.kind = "call" => code = NoCode
        /\ IF Depth = 1
           THEN Succeed(tx, Committed(code), Top.gas,
                        IF Top.kind = "create" THEN Self ELSE NoAddress)
           ELSE accounts' = Committed(code) /\ Resume(Top.limit - Top.gas)

(* A frame that fails takes the transaction with it only if it is the        *)
(* outermost; otherwise the world stays as the frame left it.                *)
FailFrame(gas_used) ==
    IF Depth = 1 THEN FailTransaction ELSE UNCHANGED accounts /\ Resume(gas_used)

(* REVERT: the gas left goes back to a CREATE but not to a CALL.             *)
Revert ==
    /\ Running
    /\ FailFrame(IF Top.kind = "create" THEN Top.limit - Top.gas ELSE Top.limit)

(* INVALID: gas_remaining = 0, then as REVERT.                               *)
Invalid == Running /\ FailFrame(Top.limit)

(* An opcode costs more than the frame has. CALL subtracts the gas it        *)
(* forwarded, CREATE subtracts nothing.                                      *)
OutOfGas ==
    /\ Running
    /\ \E cost \in ComputeCosts \cup {SstoreGas, CallGas, CreateGas} : cost > Top.gas
    /\ FailFrame(IF Top.kind = "create" THEN 0 ELSE Top.limit)

(* Any other exception (a bad jump, opcode or stack, the interpreter's own   *)
(* recursion or memory limit) passes every caller up to apply_transaction.   *)
Abort == Running /\ FailTransaction

-----------------------------------------------------------------------------
Submit == \E t \in Txs : \/ Reject(t)
                         \/ ExecuteValueTransfer(t)
                         \/ ExecuteContractCall(t)
                         \/ ExecuteCreate(t)

Step == \/ Compute
        \/ Sstore
        \/ CallUnfunded
        \/ CallWithoutCode
        \/ CallContract
        \/ CreateUnfunded
        \/ CreateContract
        \/ Return
        \/ Revert
        \/ Invalid
        \/ OutOfGas
        \/ Abort

Next == Submit \/ Step

(* The call of apply_transaction is synchronous: once begun it is run, opcode *)
(* by opcode, until it returns. Nobody has to submit the next transaction.   *)
Fairness == WF_vars(Step)

Spec == Init /\ [][Next]_vars /\ Fairness

-----------------------------------------------------------------------------
(* Properties *)

(* Every variable holds a value of its kind; between transactions nothing of *)
(* the last one is left but its result.                                      *)
TypeOK ==
    /\ IsWorld(accounts) /\ IsWorld(snapshot)
    /\ tx \in Txs \cup {NoTx}
    /\ frames \in Seq(FrameAt(accounts))
    /\ tx = NoTx <=> frames = <<>>
    /\ result \in [outcome : Rejections \cup {"none", "success", "failure"},
                   gas_used : Nat, gas_remaining : Nat,
                   contract_address : DOMAIN accounts \cup {NoAddress}]
    /\ applied \subseteq Txs
    /\ burned \in Nat

(* A transaction is applied at most once: whatever happened to it, failure   *)
(* and rollback included, its nonce is behind the sender's ever after, so    *)
(* submitting it again is refused (apply_transaction steps 4 and 6).         *)
NoReplay ==
    LET committed == IF tx = NoTx THEN accounts ELSE snapshot IN
    \A t \in applied : get_account(committed, t.sender).nonce > t.nonce

(* The gas a callee may burn is always covered by its caller's own, and the  *)
(* outermost frame's by what the sender paid up front: no answer, subtracted *)
(* from the caller's gas, makes it negative, and no refund exceeds the fee.  *)
StackCovered(stack) ==
    /\ \A i \in 1..Len(stack) : stack[i].gas <= stack[i].limit
    /\ \A i \in 1..(Len(stack) - 1) : stack[i + 1].limit <= stack[i].gas

GasCovered ==
    /\ StackCovered(frames)
    /\ frames # <<>> => frames[1].limit = gas_for_execution(tx)

(* The transaction being applied was valid when it began.                    *)
BegunValid == tx # NoTx => validate_transaction(snapshot, tx) = "valid"

(* No wei is made or lost: what the accounts hold, what was burned for the   *)
(* gas of finished transactions, and what the current one has paid up front  *)
(* add up to the genesis allocation. Transfers, failed creations, rollbacks  *)
(* and refunds all move wei between these.                                   *)
Total(w) == SumFunction([a \in DOMAIN w |-> w[a].balance])

Supply == Total(Genesis)

PaidUpFront == IF tx = NoTx THEN 0 ELSE upfront_gas_cost(tx)

WeiConserved == Total(accounts) + burned + PaidUpFront = Supply

(* CREATE and creation transactions never land on an account that was used   *)
(* before: every address ahead of its creator's nonce is without code, nonce *)
(* and storage, also in the world a failed transaction goes back to.         *)
CreationsPristine == CreationsAhead(accounts) /\ CreationsAhead(snapshot)

(* No frame ever runs at the address of a key, so a key's account is only    *)
(* ever debited by its own transactions; and no two frames construct the     *)
(* same contract, nor does anybody call a contract still under construction. *)
FramesAtContracts ==
    \A i \in 1..Len(frames) :
        /\ frames[i].address \notin Eoas
        /\ \A j \in 1..Len(frames) :
               (i # j /\ frames[j].kind = "create") => frames[i].address # frames[j].address

(* apply_transaction always returns: gas bounds every program.               *)
TransactionTerminates == (tx # NoTx) ~> (tx = NoTx)

(* Seen from outside, a transaction is atomic: until it returns the ledger   *)
(* is the snapshot, then it is the result of one step of Ledger; and a       *)
(* transaction that reports a failure has left no trace but nonce and fee.   *)
TheLedger == INSTANCE Ledger WITH
    ledger <- IF tx = NoTx THEN accounts ELSE snapshot,
    outcome <- result.outcome,
    Refusals <- Rejections,
    IntrinsicGas <- calculate_intrinsic_gas

LedgerSpec == TheLedger!Spec
=============================================================================
