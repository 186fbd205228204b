------------------------------ MODULE Contracts ------------------------------
(* The hand-written bytecode of contracts/token.py and contracts/counter.py, *)
(* deployed and called as scenarios/02_counter.py and scenarios/03_token.py  *)
(* do, on the EVM of Interpreter. A transaction is one frame here: neither   *)
(* contract calls another. Words have WordBytes bytes, selectors have        *)
(* SelectorBytes (32 and 4 in the code), and jump destinations follow.       *)
EXTENDS Interpreter, Functions

CONSTANTS
    SelectorBytes,
    Selector,          \* compute_selector: a function from names to bytes
    Clients,           \* addresses that send transactions, one the deployer's
    Deployer,
    ContractAddress,
    Recipients,        \* bound: what transfer and balanceOf are asked about
    Amounts,           \* bound
    GasLimits,         \* bound: the gas a transaction leaves for its frame
    MaxCount,          \* bound: the counter is not called beyond
    Fares,             \* what is claimed to be enough
    INITIAL_SUPPLY

ASSUME SelectorAssumption ==
    /\ SelectorBytes \in 1..WordBytes
    /\ {"transfer", "balanceOf", "increment", "getCount", "unknown"} \subseteq DOMAIN Selector
    /\ \A name \in DOMAIN Selector :
          Selector[name] \in Seq(Byte) /\ Len(Selector[name]) = SelectorBytes

(* Addresses, amounts, gas and the supply are words.                         *)
ASSUME ClientAssumption ==
    /\ Clients \subseteq Word /\ Deployer \in Clients /\ ContractAddress \in Word
    /\ Recipients \subseteq Word /\ Amounts \subseteq Word /\ GasLimits \subseteq Word
    /\ INITIAL_SUPPLY \in Word

(* A selector tells the functions apart; the stack has room for the seven    *)
(* words and the memory for the one word that the contracts need, and the    *)
(* fares are what the instructions of each call add up to.                   *)
ASSUME PromiseAssumption ==
    /\ \A name1, name2 \in DOMAIN Selector : Selector[name1] = Selector[name2] => name1 = name2
    /\ MAX_STACK_DEPTH >= 7 /\ WordBytes <= MaxMemory
    /\ \A name \in {"transfer", "balanceOf", "increment", "getCount"} : Fares[name] \in Nat
    /\ Fares.transfer >= 10301 /\ Fares.balanceOf >= 179
    /\ Fares.increment >= 5151 /\ Fares.getCount >= 176

-----------------------------------------------------------------------------
(* Bytecode *)
PUSH1(byte) == <<OP.PUSH1, byte>>

PUSHn(bytes) == <<OP.PUSH1 + Len(bytes) - 1>> \o bytes

DUPn(n) == OP.DUP1 + n - 1

REVERT0 == PUSH1(0) \o PUSH1(0) \o <<OP.REVERT>>

RETURN1 == PUSH1(0) \o <<OP.MSTORE>> \o PUSH1(WordBytes) \o PUSH1(0) \o <<OP.RETURN>>

Divisor == [i \in 1..WordBytes |-> IF i = SelectorBytes THEN 1 ELSE 0]

Compare(name, destination) ==
    <<DUPn(1)>> \o PUSHn(Selector[name]) \o <<OP.EQ>> \o PUSH1(destination) \o <<OP.JUMPI>>

Dispatcher(name1, destination1, name2, destination2) ==
    PUSHn(Divisor) \o PUSH1(0) \o <<OP.CALLDATALOAD, OP.DIV>>
        \o Compare(name1, destination1) \o Compare(name2, destination2)
        \o <<OP.POP>> \o REVERT0

Handlers == WordBytes + 2 * SelectorBytes + 23     \* 63: where the first one begins

(* Mutant: the recipient is credited before the sender's balance is written. *)
TransferCreditsFirst ==
    <<OP.JUMPDEST, OP.POP>> \o PUSH1(SelectorBytes) \o <<OP.CALLDATALOAD>>
        \o PUSH1(SelectorBytes + WordBytes) \o <<OP.CALLDATALOAD>>
        \o <<OP.CALLER, DUPn(1), OP.SLOAD, DUPn(3), DUPn(2), OP.LT>>
        \o PUSH1(Handlers + 29) \o <<OP.JUMPI>>
        \o <<DUPn(4), OP.SLOAD, DUPn(4), OP.ADD, DUPn(5), OP.SSTORE>>
        \o <<DUPn(3), OP.SWAP1, OP.SUB, OP.SWAP1, OP.SSTORE, OP.STOP>>

TransferHandler ==
    <<OP.JUMPDEST, OP.POP>> \o PUSH1(SelectorBytes) \o <<OP.CALLDATALOAD>>
        \o PUSH1(SelectorBytes + WordBytes) \o <<OP.CALLDATALOAD>>
        \o <<OP.CALLER, DUPn(1), OP.SLOAD, DUPn(3), DUPn(2), OP.LT>>
        \o PUSH1(Handlers + 29) \o <<OP.JUMPI>>
        \o <<DUPn(3), OP.SWAP1, OP.SUB, OP.SWAP1, OP.SSTORE>>
        \o <<DUPn(2), OP.SLOAD, OP.ADD, DUPn(2), OP.SSTORE, OP.POP, OP.STOP>>

TOKEN_RUNTIME_BYTECODE ==
    Dispatcher("transfer", Handlers, "balanceOf", Handlers + 35)
        \o TransferHandler
        \o <<OP.JUMPDEST>> \o REVERT0
        \o <<OP.JUMPDEST, OP.POP>> \o PUSH1(SelectorBytes) \o <<OP.CALLDATALOAD, OP.SLOAD>>
        \o RETURN1

COUNTER_RUNTIME_BYTECODE ==
    Dispatcher("increment", Handlers, "getCount", Handlers + 12)
        \o <<OP.JUMPDEST, OP.POP>> \o PUSH1(0) \o <<OP.SLOAD>> \o PUSH1(1) \o <<OP.ADD>>
        \o PUSH1(0) \o <<OP.SSTORE, OP.STOP>>
        \o <<OP.JUMPDEST, OP.POP>> \o PUSH1(0) \o <<OP.SLOAD>> \o RETURN1

(* Mutant: the header is taken for one byte shorter than it is.              *)
InitCodeOffByOne(runtime) ==
    PUSH1(Len(runtime)) \o PUSH1(11) \o PUSH1(0) \o <<OP.CODECOPY>>
        \o PUSH1(Len(runtime)) \o PUSH1(0) \o <<OP.RETURN>> \o runtime

build_init_code(runtime) ==
    PUSH1(Len(runtime)) \o PUSH1(12) \o PUSH1(0) \o <<OP.CODECOPY>>
        \o PUSH1(Len(runtime)) \o PUSH1(0) \o <<OP.RETURN>> \o runtime

encode_uint256(value) == to_bytes(value, WordBytes)

(* encode_transfer, encode_balance_of, encode_increment, encode_get_count    *)
encode(r) ==
    CASE r.op = "transfer" -> Selector.transfer \o encode_uint256(r.to) \o encode_uint256(r.amount)
      [] r.op = "balanceOf" -> Selector.balanceOf \o encode_uint256(r.of)
      [] OTHER -> Selector[r.op]

decode_uint256(data) == from_bytes(SubSeq(data, 1, Least(WordBytes, Len(data))))

Asked(op) == [op : {op}, caller : Clients, gas : GasLimits]

TokenRequests ==
    [op : {"transfer"}, caller : Clients, gas : GasLimits, to : Recipients, amount : Amounts]
        \cup [op : {"balanceOf"}, caller : Clients, gas : GasLimits, of : Recipients]
        \cup Asked("unknown")

CounterRequests == Asked("increment") \cup Asked("getCount") \cup Asked("unknown")

-----------------------------------------------------------------------------
VARIABLES
    contract,    \* the contract's account: its code and its storage
    kind,        \* which of the two contracts this is
    phase,       \* "idle", "deploying" or "calling"
    request,     \* the client's call, or NoRequest
    answer       \* what the last call came back with

runtime == IF kind = "token" THEN TOKEN_RUNTIME_BYTECODE ELSE COUNTER_RUNTIME_BYTECODE

client == <<contract, kind, phase, request, answer>>

NoRequest == [op |-> "none"]

InitContracts ==
    /\ contract = [code |-> <<>>, storage |-> EmptyDict]
    /\ kind \in {"token", "counter"}
    /\ phase = "idle" /\ request = NoRequest
    /\ answer = [success |-> FALSE, value |-> 0]
    /\ Make(<<>>, [caller |-> Deployer, address |-> ContractAddress, value |-> 0,
                   data |-> <<>>, gas |-> 0], EmptyDict, TRUE)

(* A new EVM for a transaction without value.                                *)
Frame(c, caller, data, gas, s) ==
    /\ code' = c /\ storage' = s /\ world' = TRUE
    /\ context' = [caller |-> caller, address |-> ContractAddress, value |-> 0,
                   data |-> data, gas |-> gas]
    /\ valid_jumpdests' = find_jumpdests(c)
    /\ program_counter' = 0
    /\ execution_stack' = <<>> /\ memory' = <<>>
    /\ gas_remaining' = gas
    /\ stopped' = FALSE /\ reverted' = FALSE /\ return_data' = <<>>
    /\ raised' = NoException
    /\ touched' = 0

Deploy(gas) ==
    /\ phase = "idle" /\ contract.code = <<>>
    /\ phase' = "deploying"
    /\ UNCHANGED <<contract, kind, request, answer>>
    /\ Frame(build_init_code(runtime), Deployer, <<>>, gas, EmptyDict)

Succeeded == ~reverted /\ raised = NoException

(* _execute_create: the answer of the init code is the contract's code.      *)
Deployed ==
    /\ phase = "deploying" /\ Halted
    /\ contract' = IF Succeeded THEN [code |-> return_data, storage |-> storage] ELSE contract
    /\ phase' = "idle"
    /\ UNCHANGED <<evm, kind, request, answer>>

(* scenarios/03_token.py gives the deployer the supply by set_storage.       *)
SetSupply ==
    /\ phase = "idle" /\ contract.code # <<>> /\ contract.storage = EmptyDict
    /\ kind = "token"
    /\ contract' = [contract EXCEPT !.storage = [k \in {Deployer} |-> INITIAL_SUPPLY]]
    /\ UNCHANGED <<evm, kind, phase, request, answer>>

Minted == kind = "token" => contract.storage # EmptyDict

Bounded ==
    kind = "counter" => \A k \in DOMAIN contract.storage : contract.storage[k] < MaxCount

Call(r) ==
    /\ phase = "idle" /\ contract.code # <<>> /\ Minted
    /\ r.op = "increment" => Bounded
    /\ phase' = "calling" /\ request' = r
    /\ UNCHANGED <<contract, kind, answer>>
    /\ Frame(contract.code, r.caller, encode(r), r.gas, contract.storage)

(* Mutant: what a failed frame has stored is kept.                           *)
KeepAlways(s) == s

(* dict(contract.storage) went in; set_storage is called on a success only.  *)
Persisted(s) == IF Succeeded THEN s ELSE contract.storage

Returned ==
    /\ phase = "calling" /\ Halted
    /\ contract' = [contract EXCEPT !.storage = Persisted(storage)]
    /\ answer' = [success |-> Succeeded, value |-> IF Succeeded THEN decode_uint256(return_data) ELSE 0]
    /\ phase' = "idle" /\ request' = NoRequest
    /\ UNCHANGED <<evm, kind>>

Executing == phase # "idle" /\ Step /\ UNCHANGED client

NextContracts ==
    \/ \E gas \in GasLimits : Deploy(gas)
    \/ Deployed
    \/ SetSupply
    \/ \E r \in IF kind = "token" THEN TokenRequests ELSE CounterRequests : Call(r)
    \/ Returned
    \/ Executing

SpecContracts == InitContracts /\ [][NextContracts]_<<evm, client>>

-----------------------------------------------------------------------------
(* Properties *)

(* Tokens are neither made nor lost, wherever a transfer stops: the transfer *)
(* handler writes the sender's balance before the recipient's, and both or   *)
(* neither must reach the account (contracts/token.py,                       *)
(* _execute_call of core/state_transition.py).                               *)
TokensConserved ==
    kind = "token" /\ contract.storage # EmptyDict =>
        SumFunction(contract.storage) = INITIAL_SUPPLY

(* The account holds the runtime code byte for byte, whatever gas the        *)
(* deployment was given, or no code (build_init_code of                      *)
(* scenarios/03_token.py, _execute_create of core/state_transition.py).      *)
DeployedVerbatim == contract.code \in {<<>>, runtime}

(* Every call is answered as the specification of the contracts says: a      *)
(* transfer moves the amount if the caller has it, also to itself; a query   *)
(* gives the slot; and a call with enough gas is refused for no other reason *)
(* than these (contracts/token.py, contracts/counter.py).                    *)
Promise == INSTANCE Token WITH
    Keys <- Clients \cup Recipients \cup {0},
    Requests <- TokenRequests \cup CounterRequests,
    Supply <- INITIAL_SUPPLY,
    Modulus <- MOD_VALUE,
    slots <- [k \in Clients \cup Recipients \cup {0} |->
                IF k \in DOMAIN contract.storage THEN contract.storage[k] ELSE 0]

PromiseKept == Promise!Spec
=============================================================================
