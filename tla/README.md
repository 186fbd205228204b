# Verification of the educational Ethereum implementation

TLA+ models of the Python package `src/src/ethereum`, model-checked with TLC, with theorems
proved by TLAPS. Paths below are relative to the repository (`src/ethereum/...` is written
without its prefix when the file is clear).

The program is a library: a world state of accounts, a transaction validator, the state
transition function `apply_transaction`, an EVM whose `CALL` and `CREATE` run nested EVMs on the
same world state, and a chain of blocks. It is sequential and keeps everything in memory. What
makes it hard is not concurrency of threads but *re-entrancy*: a stack of activations shares one
world state, each with a private copy of a storage and a private gas counter, and each may fail
in several ways that undo different amounts of work.

## 1. Inventory

| Component | State | Operations | Hard behaviour | What makes it correct |
|---|---|---|---|---|
| World state (`state/world_state.py`, `state/account.py`) | dict address → account; one shared `EMPTY_ACCOUNT` | get, set, modify (on a deep copy), add, deduct, transfer, increment nonce, set code and storage, snapshot, revert, state root | object sharing; a missing account reads as an empty one | wei conserved; a revert restores exactly the snapshot |
| Transaction validator (`core/tx_validator.py`) | none | five checks in a fixed order, each with its exception | one fault hides another; validity depends on earlier transactions | refusal touches nothing; a replay is refused |
| State transition (`core/state_transition.py`) | locals of one call: snapshot, costs | charge, transfer, run a frame, commit or revert, refund | effects of a failure are undone but for nonce and fee; three places do so | a transaction is atomic, is applied at most once, pays at most what it offered |
| EVM frames (`evm/vm.py`) | per activation: gas, storage copy, stack, memory, pc | one handler per opcode; CALL and CREATE run another activation | re-entrancy; failures of a callee; gas handed down and back; address numbering of CREATE | gas never negative; execution ends; a creation lands on an unused address |
| EVM data (`evm/memory.py`, stack, jumps) | stack, memory, valid jump destinations | arithmetic, copies, jumps | word width, push data, cut-off code | stack bound, no jump into data |
| Blocks and chain (`chain/`) | list of blocks, list of their hashes | create, append, look up, validate | blocks are mutable and shared; hashes are cached | links, numbers and caches agree; tampering is noticed |
| Programs (`scenarios/`) | a world state, a chain | apply, write storage by hand, make a block | block and state are kept together by hand | the head commits to the state; transactions are in order and not repeated |
| RLP (`encoding/rlp.py`) | none | encode, decode | length classes, accepted non-canonical input, lengths that reach beyond a list | decode inverts encode; no encoding begins another |
| Token, counter (`contracts/`) | slots of their storage | transfer, balanceOf; increment, getCount | two writes per transfer, gas that runs out between them, code deployed by a hand-written header | tokens conserved; all or nothing of a call; the runtime code is deployed byte for byte |
| Keys, hashing, signing (`crypto/`, `transactions/`) | none | wrappers of `eth_keys`, `eth_hash` | none of its own | taken as ideal |

How they interact: a program signs a transaction and calls `apply_transaction(tx, world_state,
limit)`. That validates it, takes a snapshot, charges the sender and either moves wei or runs an
`EVM` on the world state; the EVM's CALL and CREATE write accounts and run further `EVM`s
synchronously. Storage is written to the frame's own dict and copied to the world by whoever
started the frame, when it succeeds. The program then puts transactions and state root into a
block and appends it to a `Blockchain`.

## 2. Modules

| Module | Models | Notes |
|---|---|---|
| `Accounts` | world state as a value, contract addresses | operators from one world to the next; extended by all that need a ledger |
| `StateTransition` | validator, `apply_transaction`, EVM frames | one action per executor, per world-touching opcode outcome and per way a frame ends |
| `Ledger` | (abstract) what `apply_transaction` promises | one atomic step per transaction; no frames, gas counters or snapshots |
| `Documented` | docstrings of the EVM as action properties | adds a history variable to `StateTransition` |
| `Interpreter` | `EVM.execute()` for one frame, `evm/opcodes.py`, `evm/gas.py`, `evm/memory.py` | one action per group of handlers and per exception; the real opcodes and costs; a nested frame answers at once |
| `Contracts` | `contracts/token.py`, `contracts/counter.py`, `contracts/abi.py`, and how the scenarios deploy and call them | the bytecode runs on `Interpreter` |
| `Token` | (abstract) what the two contracts promise | one step per call |
| `WorldObjects` | class `WorldState` with its dicts, account objects and storage dicts | names objects, so that sharing can be seen |
| `Worlds` | (abstract) worlds, snapshots and looked-up accounts as values | the justification of `Accounts` |
| `Rlp` | `encoding/rlp.py` | the layout's boundaries are constants |
| `Blockchain` | `chain/block.py`, `chain/blockchain.py` | with and without blocks that change after they were appended |
| `Node` | a program as the scenarios write it | composes `StateTransition` and an instance of `Blockchain` |
| `InductionTheorems`, `StateTransitionProofs`, `WorldObjectsProofs`, `RlpProofs`, `BlockchainProofs`, `InterpreterProofs`, `ContractsProofs`, `PromiseProofs` | lemmas and theorems | section 5 |
| `MCStateTransition`, `MCDocumented`, `MCInterpreter`, `MCContracts`, `MCWorldObjects`, `MCRlp`, `MCBlockchain`, `MCNode` | small instances | section 3 |

Three abstractions are shown to be right rather than assumed: that worlds are values
(`WorldObjects` implements `Worlds`), that a frame is a sequence of steps that cost gas
(`Interpreter`, property `Metered`), and that a transaction is one step (`StateTransition`
implements `Ledger`). The token's and the counter's bytecode implement `Token`
in the same way. Each of the three refinements is checked on an instance and proved for all (section 5).

### How state and actions correspond to the code

*Addresses and hashes.* The code hashes and cuts to 20 bytes; the model keeps what is hashed: `<<k>>`
is the address of key `k`, `<<s, n>>` the `n`-th contract of `s`, `<<header>>` the hash of a block, and
a function from addresses to nonce, balance and code the state root. Distinct inputs have distinct
hashes; that is assumed. That RLP, which comes before the hash, is injective is checked in `Rlp` and proved in `RlpProofs`.
A signature is whom it recovers to (`NoSender` when recovery fails).

*Worlds.* `accounts` is `world_state._accounts`, a function whose domain are the addresses that have an
account. `set_storage_items` is the loop over `set_storage` that every caller runs. Accounts are
values because `modify_account` never changes an account object in place, which is what
`WorldObjects` is about.

*Transactions.* `tx`, `snapshot` and the rest are the locals of the `apply_transaction` that is running;
between transactions they have their initial values. `Reject` is an exception of
`validate_transaction`. `ExecuteValueTransfer` is a whole `apply_transaction`, for no frame runs in
it. `ExecuteContractCall` and `ExecuteCreate` go as far as `evm.execute()`; `Succeed` and
`FailTransaction` are what happens after it, the two `except` clauses included (they do what the
failure branch does).

*Frames.* `frames` is the Python stack of `EVM.execute()` activations. A step is one opcode of the top
one, or the end of the top one with everything its caller does on the answer (writing code and
storage, subtracting gas, pushing 0 or 1). Which opcode comes next is any the gas pays for: the
model covers every program, and so covers all the results a real stack, memory and code could lead
to. Opcodes that leave the world alone are `Compute`. `OutOfGas` needs an opcode that costs more
than is left. `Abort` is every other exception: nobody below `apply_transaction` catches it, so the
whole transaction fails. `MaxDepth` stands for the interpreter's recursion limit: at that depth a
CALL or CREATE that would run another frame ends in `Abort` (the code has no depth check of its own).

*What an answer costs.* Gas handed to a callee is not taken from the caller's counter at once; the
amount used is subtracted when it answers, in five different ways (success, REVERT or INVALID of a
CALL, of a CREATE, out of gas of a CALL, of a CREATE). These are the arguments of `Resume`.

*One frame.* `Interpreter` has the attributes of an `EVM`: code, context, program counter, stack, memory,
storage, gas, flags, return data. `Executes(ops)` is the head of the loop (fetch, price, gas, operands,
room on the stack), each action below it is a handler; an exception is a step that sets `raised`. The order of tests
in the code decides which exception a step may raise, so the guards of these steps exclude one another
(except `MemoryError` of a CALL, whose result may have no bytes to write). `touched` is history.
`Contracts` starts frames for deployments and calls and keeps what they leave, as `_execute_create`
and `_execute_call` do.

*Objects.* `heap` has dicts of addresses, account objects and storage dicts, each under a name; an operation
makes new objects, under the next number, where the code does. `Settle` gives every object that is still reachable a name
that depends on where it is found first only, so that heaps that differ in names are one state: garbage collection and
`id()` are not observable. `Revert` installs the caller's dict itself, and the caller keeps it: `saved` then names the world (`saved = <<Current>>`),
and what is done to the world is done to the caller's snapshot, until `Forget` lets it go. In `Worlds` a snapshot is
used up by a revert; the mapping counts as a snapshot what is not the world (`Unspent`), so a second revert and the `Forget` after one are
stutters there. `apply_transaction` reverts once and never looks at its snapshot again, which is what makes values enough for it. `Node.SetSupply` and `Contracts.SetSupply` are the write of the initial supply by hand.

*Chain.* `blocks` and `hashes` are the two lists of `Blockchain`; `append_block` compares the parent
hash with the cached one and the number with the head's header as it is. `recorded` and `faults` are
history. `Corrupt` sets a field of an appended header as `tests/test_blockchain.py:178` does, `Amend`
changes the transaction list that `create_block` shares with its caller.

## 3. What the runs check

| Run | Instance | Properties and what they mean |
|---|---|---|
| `calls` | 2 keys, a deployed contract with a balance, two transactions (one with price 0), slot 1, words 0 and 1 | `TypeOK`; `GasCovered`: at each depth the gas a callee may burn is covered by its caller; `FramesAtContracts`: no frame at a key's address, no two activations construct one contract; `WeiConserved`; `LedgerSpec`: refinement of `Ledger`; `TransactionTerminates`: under fairness, `apply_transaction` returns |
| `deploy` | a creation transaction, a payment to the address it will get, a call of what it deployed; eight payments that compete for nonces; a transaction for each reason to be refused | `NoReplay`: an applied transaction's nonce is behind its sender's for ever, failures and rollbacks included; `CreationsPristine`: an address ahead of its creator's nonce has no code, nonce or storage; `WeiConserved`; `LedgerSpec` |
| `interpreter` | every opcode with operands of every interesting size; every sequence of up to five bytes out of pushes, jumps and jump destinations; CALL and CREATE with each answer; loops; a full stack | `TypeOK` (with the stack limit and gas never overdrawn); `OnInstructions`: no jump into push data, and every true JUMPDEST can be reached; `WordsInRange`: no operation leaves the width of a word, given that the value sent is one; `MemoryFits`; `Metered`: a step that does not end the frame costs gas, and storage changes one slot at a time for the price of SSTORE |
| `contracts` | token and counter, two clients, an argument that is nobody's address, four amounts, five gas limits | `TokensConserved`; `DeployedVerbatim`: the account has the runtime code or none; `PromiseKept`: refinement of `Token` |
| `objects` | two addresses, one slot, one snapshot that may be reverted to any number of times, one looked-up account | `ValueSemantics`: refinement of `Worlds`, in which a snapshot keeps its value until it is reverted to; `NothingShared`: no account object or storage dict is in two places, EMPTY_ACCOUNT in none |
| `rlp` | every item with an encoding of up to 13 bytes, every string of up to 5 bytes out of 10 | `RoundTrip`; `Shortest`: what the decoder accepts beyond the encoder's output is longer; `Separable`: no encoding begins another, integers have one form |
| `chain` | chains of up to 4 blocks, offered from any parent or put together by hand, two in-place changes at any time | `ChainIntact`: until the first of them links, cached hashes and numbers agree; `HeadVouches`: a chain that validates and whose head has its cached hash has every header unchanged (headers only: of transactions no hash can say anything, see `block_hash_identifies`) |
| `node` | six transactions, two of which compete with others for their nonces, chains of 3 blocks, storage written by hand, blocks that leave transactions out | `HeadCommits`: with nothing waiting, the head's root is the state's; `NoncesIncrease`: over all blocks a sender's nonces increase strictly. Both hold of blocks that leave transactions out as well; `GapsAreLeftOut` speaks of these: a used nonce is missing exactly if a transaction with it was applied and left out |

Four more runs show disagreements between docstrings and code, section 6.

*The refinement of `Ledger`.* It maps the ledger to `accounts` between transactions and to `snapshot` during
one, so the abstract ledger moves in the single step in which `apply_transaction` returns; `outcome` is what
it reported, so a reported failure must be a `Fail`. `Ledger!Fail`
is exact (nonce and whole fee, nothing else), `Ledger!Pay` is exact, and `Ledger!Run` says what any
program whatever may do: the sender pays at most value and fee and uses one nonce, no other key pays
or loses a nonce, no account disappears, nonces never go back, deployed code never changes, and
code appears only at an address that its creator's nonce has just gone past.

*What `objects` shows of the code.* The deep copy in `modify_account` is what keeps worlds apart. Given it, the deep
copy of `snapshot` is a second line of defence: with a shallow one `ValueSemantics` still holds and
only `NothingShared` is violated.

### Bounds, and why they are enough

* `calls`, `deploy`: the gas schedule is scaled (CALL 1, SSTORE 2, CREATE 2, other opcodes 1), so that 2 to 5 units
  after the intrinsic gas give every order of calls and creations four frames deep. The
  relations between the costs that matter, that each is positive and which are larger than what is left, all occur.
  `GasRequests = {2, 8}`: a request below and one above what is left, so both sides of `min` are taken.
  `MaxDepth = 4`: outermost, callee, re-entry, and one more; it is reached. One slot and two words tell a stale,
  a fresh and an unset storage apart; two keys give a sender and
  a bystander who is also a second sender; values 0 and 1 against a balance of 1 make a transfer
  possible once and then fail.
* `interpreter`: words of two bytes (`WordBytes`), so that there are pushes of one byte and of a word, a byte
  that is not a word, and wrap-around; which digest some bytes have is left open, among `Digests`; a stack of 7, which a CALL needs in full and DUP overflows; `MaxMemory` 12,
  six words, above which Python's allocation is taken to fail. Opcodes and gas costs are the real ones. Programs are
  short because each opcode's effect depends on the state before it alone; `Jumping` has every layout of five bytes,
  which includes a push cut off by the end, a JUMPDEST inside push data, and jumps to both.
* `contracts`: words have two bytes and selectors one; the jump destinations of the bytecode are written in terms of these and are
  the real ones for 32 and 4. The amounts 0, 1, the supply and the largest word meet every side of the comparison and the
  wrap; the gas limits are too little for the dispatcher, exactly enough for a query, too little for the second SSTORE,
  one short of a whole transfer, and exactly a whole transfer. `MaxCount` 3 bounds the counter.
* `objects`: `MaxEdits` 3 changes with a snapshot, a revert and a look-up at any point. `MaxBalance`, `MaxNonce` bound the values.
* `rlp`: `STRING0` 2, `SHORT` 1 and `LENGTHS` 2 make a byte have ten values and a payload of two bytes long, with
  lengths of one and two bytes: each of the ten prefixes belongs to one of the five classes of the real table and each
  boundary between them is met. `MaxData` 5 lets a list hold an item that claims to reach beyond it. `MaxDepth` 5 stands for
  Python's recursion limit; no string of five bytes is nested more deeply. `MaxEncoding` 13 bounds what is put together.
* `chain`, `node`: `MaxHeight` 2 or 3, `MaxFaults` 2: a change and the repair of the link above it fit; the theorems are for
  any number.

### Fairness

`WF_vars(Step)`: `apply_transaction` is a synchronous call in one thread, and the interpreter loop
(`vm.py:199`) goes on with the next opcode until the frame ends. Nothing is assumed of `Submit`:
nobody has to send transactions. The other modules state no liveness: a frame of `Interpreter` ends because `Metered`
bounds the number of its steps by its gas, and the operations of the others return at once.

## 4. Hazards

`PROJECT.json` lists what in this code a test would hardly reach, each at its line, with the
properties that cover it. Two have none. The state root leaves storage out (`world_state.py:225`): the model's
root does so too, and `HeadCommits` says what the code's root can say. The block gas limit is
compared with one transaction at a time (`tx_validator.py:104`): no code keeps the sum, so there
is nothing that could hold.

## 5. What is proved

All theorems hold for every value of the constants that satisfies the assumptions
`CodesAssumption`, `TxsAssumption`, `GasAssumption`, `GenesisAssumption` (`StateTransition`),
`BlockchainAssumption` (`Blockchain`), `ObjectsAssumption` (`WorldObjects`), `LayoutAssumption` (`Rlp`), `WidthAssumption`, `ValuesAssumption`, `ScopeAssumption` (`Interpreter`) and
`SelectorAssumption`, `ClientAssumption`, `PromiseAssumption` (`Contracts`), which TLC evaluates on every instance. They ask no more than
the code's own types: amounts are natural numbers, every opcode but those that end a frame costs gas,
the genesis is one `create_genesis_state` can make (or one reached from it) and has finitely many accounts, bytes are bytes, addresses
and digests are words of at most 32 bytes, the length of an encoding fits in the bytes its prefix leaves for it (eight) and
nothing received is nested more deeply than Python recurses, no code, data, memory or gas limit is so large that its size is no word, and selectors are all of one length, at most a word's, and differ for
different functions. `PromiseAssumption` adds what the contracts need of their machine: room for seven words on the stack and one in memory, and
fares that are at least what the instructions of a call add up to (10301 for a transfer, 179 for balanceOf, 5151 for increment, 176 for getCount). `ScopeAssumption` is one of scope: a frame
whose value is no word has no NOT in its code, since NOT would leave a negative number, and what Python does with one as an offset is not
modelled.

* `TypeCorrect` (`Spec => []TypeOK`) and `GasIsCovered` (`Spec => []GasCovered`). Neither is inductive:
  that `gas_remaining` stays a natural number needs that a callee's limit is within its caller's gas
  (the EVM subtracts without a test), and that balances do after a rollback needs that the
  transaction was valid in its snapshot (`deduct_balance` is called again there). The inductive
  invariant is `TypeInv == TypeOK /\ GasCovered /\ BegunValid`. `StateTransitionProofs` first has the lemmas on
  worlds (each operation gives a world, grows its domain, changes one account) and on
  stacks of frames, then one lemma for each way to begin, stay in or end a
  transaction, and `StepType` with one case per action.
* `AppliedOnce` (`Spec => []NoReplay`). `NoReplay` speaks of the world that stays, which is the snapshot
  while a transaction runs, so it needs to know what running does to nonces: `NonceInv` adds that the
  running transaction's nonce is used up in `accounts` and that no sender's nonce is behind its value in
  the snapshot. A success commits `accounts`, a failure charges the snapshot, of which the
  transaction was valid (`BegunValid`): both leave its nonce behind. In between every operation on the
  world keeps all nonces, but for CREATE, which raises one.
* `CreatedOnce` (`Spec => []CreationsPristine`) and `FramesStayApart` (`Spec => []FramesAtContracts`), from
  one invariant, `CreationInv`. An address that is ahead of its creator's nonce is pristine in the world and in the
  snapshot, and keys have neither code nor storage (`Sound`); nonces have not gone back since the snapshot; and each
  frame is at an address that is no key's and already behind its creator's nonce, a constructing frame at one
  without code that was ahead in the snapshot and where no other frame is (`StackPlaced`). CREATE and a creation transaction
  move the creator's nonce past the number they use, so the new frame is at an address no other is at, and
  `Return` writes code and storage only behind the nonces.
* `Atomic` (`Spec => LedgerSpec`): `StateTransition` implements `Ledger`. From the first step of a transaction to
  its last the ledger stutters at the snapshot; the invariant `Carried` relates the world so far to the
  snapshot: the sender has used one nonce and is at most value and whole fee poorer, no other key is
  poorer or has used a nonce, code stays, and new code is at addresses created since. Every opcode keeps it
  (`CarriedOn`) and the refund does (`CarriedRefund`), which makes `Succeed` a `Run`; `FailTransaction` is a
  `Fail` because charging the snapshot again is what `Fail` says. A
  payment is exact (`PaymentExact`): charging the whole fee and refunding what intrinsic gas leaves is
  charging the difference (`FeeIsDifference`). That no key is debited by a program needs
  `CreationInv`: a CALL debits its frame's own address, and that is no key's.
* `GapsTell` (`NodeSpec => []GapsAreLeftOut`), about `Node`. The invariant `UsedOnce` says that no two applied transactions have sender and nonce in common,
  and that every nonce used since the genesis is that of an applied one; between transactions it speaks of the world, during one of the snapshot. A transaction that ends uses
  exactly one nonce of the keys', its sender's next (`OneNonce`): for a program that succeeds this is part of `Carried`, so `LedgerInv` and
  `CreationInv` are carried along.
* `HeadIsState` (`NodeSpec => []HeadCommits`) and `ListedInOrder` (`NodeSpec => []NoncesIncrease`), about `Node` (in `StateTransitionProofs`), for
  any number of blocks. Every step of `StateTransition` keeps `TypeInv` and `NonceInv` by the lemmas above, and a program's own write to
  storage does so too, since neither speaks of storage beyond its type. Added are: the head's hash is cached, so that a block
  made on the head is never refused (`ChainShape`), and everything listed in a block or waiting for one was
  applied (`ListedApplied`). A transaction that returns was valid in the settled world, so its nonce is its sender's
  there, and `NoReplay` says that all nonces of that sender listed before are smaller. Mining keeps the order because what goes into
  a block keeps its place, and what is left out is gone.
* `OneHashVouches` (`FaultySpec => []HeadVouches`), for chains of any length and any number of
  in-place changes. The inductive invariant `Record` says that the cached hashes are those of the
  blocks as recorded and that the recorded blocks are linked. From it `RecordVouches` argues down the
  chain from the head: if block *i* has the header it was recorded with, its link is the recorded
  hash of block *i-1*, and `validate_chain` says block *i-1* hashes to it. The induction over the
  height is an argument by a least counterexample (`LeastNumber`, from the well-foundedness of the
  order on the natural numbers).
* `ChainStaysIntact` (`FaultySpec => []ChainIntact`): from `Record` and that without in-place changes
  `blocks = recorded` (`UntilFault`).
* `WeiIsConserved` (`Spec => []WeiConserved`), for any finite genesis. The sum over the accounts is a fold;
  `InductionTheorems` shows that it is the sum (`SumIsSum`: the value at the whole domain of any function that adds one element after the
  other) and that changing one element changes it by the difference (`SumElement`). The invariant is `SupplyInv`: the snapshot
  holds the whole supply less the fees paid so far, and the world that much less what the sender has paid in advance
  (`PaidUpFront`), with finitely many accounts in both. A transfer moves (`TwoMoreConserve`), also
  from an account to itself and to one that does not exist yet; `Return` and `FailFrame` move nothing; the refund of a success and the
  second charge of a failure leave both the same fee.
* `ObjectsAreValues` (`Spec => ValueSemantics`) and `ObjectsStayApart` (`Spec => []NothingShared`), about `WorldObjects`, for any finite set of addresses
  and any number of changes. The invariant `ObjectsInv` says that every name in the heap is the name of something, that EMPTY_ACCOUNT
  has the value it was made with, that the objects are apart (`NothingShared`), and that what the caller has is in the heap. A step
  is argued in two halves. `ModifyHeap` and `SnapshotHeap` say what an operation leaves before anything is renamed: every old object has its old value,
  the copies share nothing with them, and the world's value has changed as `Accounts` says. `SettledHeap` says that renaming changes
  no value: different objects get different names because no two are found in the same place (`PlacesApart`, `RenamedHeap`).
  A first `Revert` maps to that of `Worlds`; once the caller's snapshot is the world (`saved = <<Current>>`), it is no value of its own, and another `Revert` or a `Forget` is a stutter.
* `RoundTripHolds` (`Spec => []RoundTrip`), `ShortestHolds` (`Spec => []Shortest`) and `SeparableHolds` (`Spec => []Separable`), about
  `Rlp`, for every layout of prefixes. The invariant `RlpInv` only says that the item can be encoded and that the data is a short string of bytes; the weight
  is in four theorems about all items and all strings of any length, which the module proves of the code's operators.
  `EncodedIsRead`: wherever an item's encoding stands in a string, reading there gives the item and its end, by induction on the item's depth;
  `DecodeInvertsEncode` and `EncodeIsInjective` follow. `SameAhead`, behind `DecodeIsPrefixFree`: where reading a string succeeds, reading a longer one that it
  begins gives the same, by strong induction on the bytes that are left. `ReadIsEncoded`, behind `EncodeIsShortest`: what is read somewhere has an encoding
  no longer than the bytes it was read from, and equal to them if as long (`Fits`), by the same induction; a prefix adds as little as
  any other for the same payload (`HeaderFits`), because `Digits` are the fewest digits of a number (`FewestDigits`). The loop of
  `_decode_list` is followed by the sequence of what it has after each round (`Trace`). It may go round as often as there are bytes, since each round reads one
  at least (`ReadsAhead`), and so the model's bound on it is none.
* About one frame of the EVM, for every program, every width of words up to 32 bytes and every answer of nested frames (`InterpreterProofs`):
  `TypeCorrect` (`TypeOK`), `JumpsAreChecked` (`OnInstructions`), `WordsStayWords` (`WordsInRange`), `MemoryIsTight` (`MemoryFits`) and
  `EveryStepIsMetered` (`Metered`). None is inductive alone: gas falls only if operands are natural numbers, for `Forwarded` is one of them,
  and those come out of memory and storage. The invariant `IInv` has one part for each piece of the frame; `Cell` is what the frame computes with, words or, if
  the value sent is none, natural numbers. Below it are lemmas on the model's recursive functions: `BytesMakeWord` (bytes read as a number),
  `ToBytes`, `PowerWord`, `BitAndBound`, `BitOrWord`, `Rounded` (whole words), and `JumpdestsReached`: the scan of `_find_jumpdests` finds exactly the JUMPDESTs
  among the positions that execution from 0 can reach, which are those where an instruction begins (`InstructionReached`). That these functions
  satisfy their own equations is a theorem of its own in each case, from `NatRecursion` or `StrongRecursion`.
* About the two contracts' bytecode (`ContractsProofs`), for every width of words up to 32 bytes, any clients, recipients, amounts,
  supply and gas limits: `CodeIsVerbatim` (`SpecContracts => []DeployedVerbatim`) and `TokensAreConserved`
  (`SpecContracts => []TokensConserved`). The invariant `ContractInv` contains `IInv` of the frame that runs, since an instruction does
  what its handler does only to a frame of words, and says where the frame can be. For the init code, `Header` has what
  each of its seven instructions finds on the stack; after CODECOPY memory begins with the runtime code, and RETURN answers just that.
  For the token, `TransferStack` has the same for the transfer handler, and `Balanced` that the slots and what is `Pending` between
  the two writes add up to the supply. The code is followed as `Interpreter` decodes it: `DispatcherPath` and `HandlerPath` say which
  positions a step can go to, and `TokenInstruction` that the only SSTOREs are the handler's two and that no jump or
  fall-through enters the handler but at its JUMPDEST. The debit does not go below zero, because the comparison before
  it read the slot that it writes; the credit does not wrap, because no slot exceeds the sum (`SlotWithinSum`), and reads its slot after the debit is
  written, so that a transfer to oneself counts once. A frame that stops is not between the writes, and one that runs out of gas there is
  thrown away (`Persisted`).
* `PromiseIsKept` (`SpecContracts => PromiseKept`, in `PromiseProofs`): the bytecode implements `Token`, for every choice of selectors, addresses,
  amounts, supply and gas limits. A call of the token or the counter runs many instructions; the abstract step is the one
  in which it returns. `Token` says exactly what that step does: who asked for what is answered with what, the slots change only by a
  transfer that is covered or by an increment, and a call that offers at least its fare is never refused for lack of gas. `ContractInv` does not say that, for it follows
  where the tokens are and not how far the gas goes. The invariant `PromiseInv` adds `ServingInv`: the frame that runs serves the
  request over the storage as it was at the call, and at each instruction the whole stack, the gas spent and the storage are known.
  There is one predicate per segment of the code (`Dispatching`, `Fetching`, `Paying`, `Counting`, `Querying`, `Recalling`, `Answering`, `Reverting`), and `Broke` for a frame that ran
  out, which can only be one that was given less than the segment costs. The proof has one lemma per opcode on what the handler leaves (`PushAt`, `SloadAt`,
  `JumpiAt` and so on), one per segment that follows it instruction by instruction (`DispatchingStep`, `TransferringStep`, ...), and
  `ServedStep` that puts them together. The dispatcher divides the first word of the call data by a power of 256, and the quotient is the
  selector (`QuotientIs`); different selectors stay different as numbers (`SelectorsApart`), and each branch ends on a JUMPDEST that
  the scan accepts (`TokenTargets`, `CounterTargets`). `CallSettles` says how a halted call can have ended, `NoWrap` that a transfer's credit
  stays within a word because the tokens are conserved, and `SettledAnswers` that what is handed back is one step of `Token`. Every other
  step is a request, the write of the supply by hand, or leaves `Token`'s variables alone (`PromiseStep`).

Induction is over sets, not over operators: `InductionTheorems` derives it from the well-foundedness of the order
on the natural numbers, for a set of numbers (`Induction`, `StrongInduction`) or of subsets (`SubsetInduction`), and
recursion for step functions that are data (`NatRecursion`, `StrongRecursion`).

Only model-checked:

* `TransactionTerminates`: liveness under fairness is beyond the prover.

## 6. Disagreements between documentation and code

Each is a run in which TLC finds a behaviour of the code that the quoted sentence excludes.

| Run | Sentence | What the code does |
|---|---|---|
| `revert_undoes_frame` | `evm/vm.py:785` "State changes from this execution context are reverted." | a nested frame's effects on the world stay: value received, nonces, creations, calls it made (`vm.py:976`) |
| `out_of_gas_consumes` | `vm.py:225` "all gas consumed" | init code that runs out of gas costs its creator nothing (`vm.py:861`) |
| `sload_reads_persistent` | `vm.py:691` "Reads from persistent storage." | reads the copy made when the frame began; a re-entrant call's writes are not seen and are overwritten (`vm.py:943`, `962`) |
| `block_hash_identifies` | `chain/block.py:81` "The block hash uniquely identifies a block" | the hash leaves out the transactions (`block.py:95`) |

Seen while reading, without a run, because one look at the two places settles them:
`vm.py:886` says CALL pushes 0 on failure, but an exception of the callee other than OutOfGas takes every caller
with it (`vm.py:954`, `Abort` and `CalleeRaises` in the models);
`vm.py:786` says gas that remains after REVERT is refunded, `state_transition.py:110` sets it to 0;
`world_state.py:209` says different states have different roots, but storage is not hashed;
`state_transition.py:66` calls the limit that of the block, but it is compared with one transaction;
`chain/block.py:7` calls blocks a journal of all transitions, but `scenarios/03_token.py:338` leaves
out the transactions applied at lines 290 and 318 (`MineSome` in `Node`; what is left of the sentence is `GapsAreLeftOut`);
`world_state.py:112` says that revert restores a snapshot, but a snapshot that was reverted to once has become the world and restores nothing
a second time (`Revert` in `WorldObjects`); `vm.py:160` calls what is pushed a uint256, but CALLVALUE pushes the transaction's value, which
nothing bounds, and writing that to memory raises `OverflowError` (`memory.py:80`; `interpreter` has such a program, and `WordsInRange` excludes it by its premise).

## 7. Not modelled, and why

* Keys, hashing, signing: wrappers of `eth_keys` and `eth_hash` without state. An address or a hash is what goes into it, a
  signature whom it recovers to; a model of the wrappers would restate that assumption.
* Printing, formatting and the assertions of the scenarios; their order of calls is in `Node` and `Contracts`.
* The message texts and attributes of exceptions; which exception is raised, and who catches it, is modelled.
* Nested frames inside `Interpreter`, and a real stack and memory inside `StateTransition`: each module has the half the
  other leaves out, and `Metered` is what the second takes from the first. Their product is out of TLC's reach.

## 8. Plan

Done: all modules of section 2, the refinements `LedgerSpec`, `ValueSemantics` and `PromiseKept`, and the theorems of section 5.
What remains worth doing:

1. A contract that calls back, as bytecode on two activations of `Interpreter`, to join it with `StateTransition` for one re-entrant program.
