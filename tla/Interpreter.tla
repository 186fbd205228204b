----------------------------- MODULE Interpreter -----------------------------
(* EVM.execute() of evm/vm.py for one frame: program counter, stack, memory, *)
(* the frame's own storage and gas, with the tables of evm/opcodes.py and    *)
(* evm/gas.py and the memory of evm/memory.py.                               *)
(*                                                                           *)
(* Words have WordBytes bytes, 32 in the code; opcodes and gas costs are the *)
(* real ones. Nested frames are StateTransition's business: here a CALL or   *)
(* CREATE is answered at once with what such a frame may answer.             *)
EXTENDS Integers, Sequences

CONSTANTS
    WordBytes,
    MAX_STACK_DEPTH,     \* 1024
    MaxMemory,           \* bound: more bytes than the machine has
    Starts,              \* bound: what EVM(...) is made of
    GasUsed,             \* bound: what a nested frame may have used
    ReturnData,          \* bound: what it may return
    Created,             \* bound: the addresses CREATE may push
    Digests              \* bound: what a hash may be

Byte == 0..255

(* 256 to the n.                                                             *)
BytePower[n \in Nat] == IF n = 0 THEN 1 ELSE 256 * BytePower[n - 1]

MOD_VALUE == BytePower[WordBytes]

Word == 0..(MOD_VALUE - 1)

ASSUME WidthAssumption ==
    /\ WordBytes \in 1..32
    /\ MAX_STACK_DEPTH \in Nat /\ MaxMemory \in Nat
    /\ GasUsed \subseteq Nat

(* The values of a frame; and no code, data, memory or gas is so large that  *)
(* its size is no word.                                                      *)
ASSUME ValuesAssumption ==
    /\ \A s \in Starts : /\ s.code \in Seq(Byte) /\ s.context.data \in Seq(Byte)
                         /\ s.context.caller \in Word /\ s.context.address \in Word
                         /\ s.context.value \in Nat /\ s.context.gas \in Word
                         /\ s.world \in BOOLEAN
                         /\ Len(s.code) \in Word /\ Len(s.context.data) \in Word
    /\ \A data \in ReturnData : data \in Seq(Byte)
    /\ Created \subseteq Word /\ Digests \subseteq Word
    /\ MaxMemory + WordBytes <= MOD_VALUE

-----------------------------------------------------------------------------
(* evm/opcodes.py and the table of evm/gas.py *)
OP == [STOP |-> 0, ADD |-> 1, MUL |-> 2, SUB |-> 3, DIV |-> 4, MOD |-> 6, EXP |-> 10,
       LT |-> 16, GT |-> 17, EQ |-> 20, ISZERO |-> 21, AND |-> 22, OR |-> 23, NOT |-> 25,
       SHA3 |-> 32, ADDRESS |-> 48, CALLER |-> 51, CALLVALUE |-> 52, CALLDATALOAD |-> 53,
       CALLDATASIZE |-> 54, CALLDATACOPY |-> 55, CODESIZE |-> 56, CODECOPY |-> 57,
       POP |-> 80, MLOAD |-> 81, MSTORE |-> 82, MSTORE8 |-> 83, SLOAD |-> 84, SSTORE |-> 85,
       JUMP |-> 86, JUMPI |-> 87, MSIZE |-> 89, GAS |-> 90, JUMPDEST |-> 91,
       PUSH1 |-> 96, DUP1 |-> 128, SWAP1 |-> 144,
       CREATE |-> 240, CALL |-> 241, RETURN |-> 243, REVERT |-> 253, INVALID |-> 254]

PUSH == OP.PUSH1..(OP.PUSH1 + WordBytes - 1)    \* PUSH32 fills a word

DUP == OP.DUP1..(OP.DUP1 + 15)

SWAP == OP.SWAP1..(OP.SWAP1 + 15)

push_size(op) == IF op \in PUSH THEN op - OP.PUSH1 + 1 ELSE 0

GAS_SSTORE == 5000

GAS_CREATE == 32000

CostOf(op) ==
    CASE op \in {OP.STOP, OP.RETURN, OP.REVERT, OP.INVALID} -> 0
      [] op = OP.JUMPDEST -> 1
      [] op \in {OP.ADDRESS, OP.CALLER, OP.CALLVALUE, OP.CALLDATASIZE, OP.CODESIZE,
                 OP.POP, OP.MSIZE, OP.GAS} -> 2
      [] op \in {OP.MUL, OP.DIV, OP.MOD} -> 5
      [] op = OP.JUMP -> 8
      [] op \in {OP.EXP, OP.JUMPI} -> 10
      [] op = OP.SHA3 -> 30
      [] op \in {OP.SLOAD, OP.CALL} -> 100
      [] op = OP.SSTORE -> GAS_SSTORE
      [] op = OP.CREATE -> GAS_CREATE
      [] OTHER -> 3

(* Mutant: JUMPDEST is free. *)
CostWithoutJumpdest(op) == IF op = OP.JUMPDEST THEN 0 ELSE CostOf(op)

Priced == {OP[name] : name \in DOMAIN OP} \cup PUSH \cup DUP \cup SWAP

(* Defined for the opcodes in Priced.                                        *)
GAS_COSTS(op) == CostOf(op)

(* Scope: NOT of a value that is no word leaves a negative number, and what  *)
(* Python does with one as an offset is not modelled; so a frame with such a *)
(* value has no NOT.                                                         *)
ASSUME ScopeAssumption ==
    \A s \in Starts :
        s.context.value \in Word \/ \A i \in 1..Len(s.code) : s.code[i] # OP.NOT

-----------------------------------------------------------------------------
(* Bytes, words and arithmetic *)
ByteAt(s, i) == IF i < Len(s) THEN s[i + 1] ELSE 0     \* zero-padded

Slice(s, offset, size) == [i \in 1..size |-> ByteAt(s, offset + i - 1)]

to_bytes(value, size) == [i \in 1..size |-> (value \div BytePower[size - i]) % 256]

from_bytes(s) ==
    LET upto[n \in Nat] == IF n = 0 THEN 0 ELSE upto[n - 1] * 256 + ByteAt(s, n - 1)
    IN  upto[Len(s)]

Power(base, exponent) ==
    LET p[n \in Nat] == IF n = 0 THEN 1 % MOD_VALUE ELSE (p[n - 1] * base) % MOD_VALUE
    IN  p[exponent]

BitAnd(a, b) ==
    LET and[x \in Nat] == [y \in Nat |->
            IF x = 0 \/ y = 0 THEN 0
            ELSE (x % 2) * (y % 2) + 2 * and[x \div 2][y \div 2]]
    IN  and[a][b]

BitOr(a, b) == a + b - BitAnd(a, b)

Flag(condition) == IF condition THEN 1 ELSE 0

Binary == {OP.ADD, OP.MUL, OP.SUB, OP.DIV, OP.MOD, OP.EXP, OP.LT, OP.GT, OP.EQ, OP.AND, OP.OR}

(* a is the top of the stack.                                                *)
ResultOf(op, a, b) ==
    CASE op = OP.ADD -> (a + b) % MOD_VALUE
      [] op = OP.MUL -> (a * b) % MOD_VALUE
      [] op = OP.SUB -> (a - b) % MOD_VALUE
      [] op = OP.DIV -> IF b # 0 THEN a \div b ELSE 0
      [] op = OP.MOD -> IF b # 0 THEN a % b ELSE 0
      [] op = OP.EXP -> Power(a, b)
      [] op = OP.LT -> Flag(a < b)
      [] op = OP.GT -> Flag(a > b)
      [] op = OP.EQ -> Flag(a = b)
      [] op = OP.AND -> BitAnd(a, b)
      [] op = OP.OR -> BitOr(a, b)

(* Mutant: subtraction does not wrap. *)
UnwrappedResult(op, a, b) == IF op = OP.SUB THEN a - b ELSE ResultOf(op, a, b)

Result(op, a, b) == ResultOf(op, a, b)

-----------------------------------------------------------------------------
(* evm/memory.py *)

(* Mutant: one word too many at a boundary. *)
RoundedPast(needed) == (needed \div WordBytes + 1) * WordBytes

WordBoundary(needed) == ((needed + WordBytes - 1) \div WordBytes) * WordBytes

expand_to(m, offset, size) ==
    IF size = 0 \/ offset + size <= Len(m)
    THEN m
    ELSE m \o [i \in 1..(WordBoundary(offset + size) - Len(m)) |-> 0]

write_range(m, offset, data) ==
    LET grown == expand_to(m, offset, Len(data)) IN
    [i \in 1..Len(grown) |->
        IF i - offset \in 1..Len(data) THEN data[i - offset] ELSE grown[i]]

-----------------------------------------------------------------------------
VARIABLES
    code, context, world, valid_jumpdests,    \* set when the EVM is made
    program_counter, execution_stack, memory, storage, gas_remaining,
    stopped, reverted, return_data,
    raised,     \* the exception execute() ended with, or NoException
    touched     \* history: where the highest access to memory ended

made == <<code, context, world, valid_jumpdests>>

ended == <<stopped, reverted, return_data, raised>>

evm == <<made, program_counter, execution_stack, memory, storage, gas_remaining, ended, touched>>

(* Mutant: the scan takes push data for code. *)
ScanEverything(c) == {pc \in 0..(Len(c) - 1) : c[pc + 1] = OP.JUMPDEST}

(* The while loop, from each position it may be at.                          *)
find_jumpdests(c) ==
    LET from[pc \in Nat] ==
            IF pc >= Len(c) THEN {}
            ELSE from[pc + push_size(c[pc + 1]) + 1]
                    \cup (IF c[pc + 1] = OP.JUMPDEST THEN {pc} ELSE {})
    IN  from[0]

NoException == "none"

(* EVM(code, context, storage, world_state) *)
Make(c, x, s, w) ==
    /\ code = c /\ context = x /\ storage = s /\ world = w
    /\ valid_jumpdests = find_jumpdests(c)
    /\ program_counter = 0
    /\ execution_stack = <<>> /\ memory = <<>>
    /\ gas_remaining = x.gas
    /\ stopped = FALSE /\ reverted = FALSE /\ return_data = <<>>
    /\ raised = NoException
    /\ touched = 0

EmptyDict == [k \in {} |-> 0]

Init == \E s \in Starts : Make(s.code, s.context, EmptyDict, s.world)

-----------------------------------------------------------------------------
(* The loop of execute() *)
Running ==
    /\ ~stopped /\ raised = NoException
    /\ program_counter < Len(code)

opcode == code[program_counter + 1]

cost == GAS_COSTS(opcode)

Affordable == opcode \in Priced /\ cost <= gas_remaining

Pushes0 == {OP.ADDRESS, OP.CALLER, OP.CALLVALUE, OP.CALLDATASIZE, OP.CODESIZE, OP.MSIZE, OP.GAS}

(* How many words an opcode takes from the stack, or looks at.               *)
Needs(op) ==
    CASE op \in Binary \cup {OP.SHA3, OP.MSTORE, OP.MSTORE8, OP.SSTORE, OP.JUMPI,
                             OP.RETURN, OP.REVERT} -> 2
      [] op \in {OP.ISZERO, OP.NOT, OP.CALLDATALOAD, OP.POP, OP.MLOAD, OP.SLOAD, OP.JUMP} -> 1
      [] op \in {OP.CALLDATACOPY, OP.CODECOPY, OP.CREATE} -> 3
      [] op = OP.CALL -> 7
      [] op \in DUP -> op - OP.DUP1 + 1
      [] op \in SWAP -> op - OP.SWAP1 + 2
      [] OTHER -> 0

Depth == Len(execution_stack)

Operand(i) == execution_stack[Depth - i + 1]     \* the i-th from the top

(* Mutant: the limit is noticed one word too late. *)
RoomAtLimit == opcode \in Pushes0 \cup PUSH \cup DUP => Depth <= MAX_STACK_DEPTH

HasRoom == opcode \in Pushes0 \cup PUSH \cup DUP => Depth < MAX_STACK_DEPTH

(* One of these opcodes is paid for and finds its operands.                  *)
Executes(ops) ==
    /\ Running /\ opcode \in ops /\ Affordable
    /\ Depth >= Needs(opcode) /\ HasRoom
    /\ UNCHANGED made

Replace(n, values) ==
    execution_stack' = SubSeq(execution_stack, 1, Depth - n) \o values

Goto(pc) == program_counter' = pc

Next1 == Goto(program_counter + 1)

Spend(amount) == gas_remaining' = gas_remaining - amount

Data == <<memory, storage, touched>>

(* The memory an access needs, and what it does to the memory.               *)
Reach(offset, size) == IF size = 0 THEN 0 ELSE offset + size

Fits(offset, size) == Reach(offset, size) <= MaxMemory

Touch(reach) == touched' = IF reach > touched THEN reach ELSE touched

Read(offset, size) ==
    /\ Fits(offset, size)
    /\ memory' = expand_to(memory, offset, size)
    /\ Touch(Reach(offset, size))

Write(offset, data) ==
    /\ memory' = write_range(memory, offset, data)
    /\ Touch(Reach(offset, Len(data)))

-----------------------------------------------------------------------------
(* The handlers *)
Arithmetic ==
    /\ Executes(Binary)
    /\ Replace(2, <<Result(opcode, Operand(1), Operand(2))>>)
    /\ Next1 /\ Spend(cost) /\ UNCHANGED <<Data, ended>>

Unary ==
    /\ Executes({OP.ISZERO, OP.NOT})
    /\ Replace(1, <<IF opcode = OP.NOT THEN MOD_VALUE - 1 - Operand(1)
                    ELSE Flag(Operand(1) = 0)>>)
    /\ Next1 /\ Spend(cost) /\ UNCHANGED <<Data, ended>>

(* ADDRESS, CALLER and CALLVALUE *)
Environment ==
    /\ Executes(Pushes0)
    /\ \/ opcode = OP.ADDRESS /\ Replace(0, <<context.address>>)
       \/ opcode = OP.CALLER /\ Replace(0, <<context.caller>>)
       \/ opcode = OP.CALLVALUE /\ Replace(0, <<context.value>>)
    /\ Next1 /\ Spend(cost) /\ UNCHANGED <<Data, ended>>

(* CALLDATASIZE, CODESIZE and MSIZE *)
Sizes ==
    /\ Executes(Pushes0)
    /\ \/ opcode = OP.CALLDATASIZE /\ Replace(0, <<Len(context.data)>>)
       \/ opcode = OP.CODESIZE /\ Replace(0, <<Len(code)>>)
       \/ opcode = OP.MSIZE /\ Replace(0, <<Len(memory)>>)
    /\ Next1 /\ Spend(cost) /\ UNCHANGED <<Data, ended>>

(* What is left after this opcode is paid for.                               *)
op_gas ==
    /\ Executes({OP.GAS})
    /\ Replace(0, <<gas_remaining - cost>>)
    /\ Next1 /\ Spend(cost) /\ UNCHANGED <<Data, ended>>

op_calldataload ==
    /\ Executes({OP.CALLDATALOAD})
    /\ Replace(1, <<from_bytes(Slice(context.data, Operand(1), WordBytes))>>)
    /\ Next1 /\ Spend(cost) /\ UNCHANGED <<Data, ended>>

(* CALLDATACOPY and CODECOPY: destOffset, offset, size.                      *)
Copy ==
    /\ Executes({OP.CALLDATACOPY, OP.CODECOPY})
    /\ Fits(Operand(1), Operand(3))
    /\ Write(Operand(1),
             Slice(IF opcode = OP.CODECOPY THEN code ELSE context.data, Operand(2), Operand(3)))
    /\ Replace(3, <<>>)
    /\ Next1 /\ Spend(cost) /\ UNCHANGED <<storage, ended>>

op_pop ==
    /\ Executes({OP.POP})
    /\ Replace(1, <<>>)
    /\ Next1 /\ Spend(cost) /\ UNCHANGED <<Data, ended>>

op_push ==
    /\ Executes(PUSH)
    /\ Replace(0, <<from_bytes(Slice(code, program_counter + 1, push_size(opcode)))>>)
    /\ Goto(program_counter + 1 + push_size(opcode))
    /\ Spend(cost) /\ UNCHANGED <<Data, ended>>

op_dup ==
    /\ Executes(DUP)
    /\ Replace(0, <<Operand(Needs(opcode))>>)
    /\ Next1 /\ Spend(cost) /\ UNCHANGED <<Data, ended>>

op_swap ==
    /\ Executes(SWAP)
    /\ execution_stack' = [execution_stack EXCEPT ![Depth] = Operand(Needs(opcode)),
                                                  ![Depth - Needs(opcode) + 1] = Operand(1)]
    /\ Next1 /\ Spend(cost) /\ UNCHANGED <<Data, ended>>

op_mload ==
    /\ Executes({OP.MLOAD})
    /\ Read(Operand(1), WordBytes)
    /\ Replace(1, <<from_bytes(Slice(memory, Operand(1), WordBytes))>>)
    /\ Next1 /\ Spend(cost) /\ UNCHANGED <<storage, ended>>

(* offset, size; which digest the bytes have is left open.                   *)
op_sha3 ==
    /\ Executes({OP.SHA3})
    /\ Read(Operand(1), Operand(2))
    /\ \E digest \in Digests : Replace(2, <<digest>>)
    /\ Next1 /\ Spend(cost) /\ UNCHANGED <<storage, ended>>

(* to_bytes(32, "big") refuses a larger value.                               *)
MemoryWrite ==
    /\ Executes({OP.MSTORE, OP.MSTORE8})
    /\ \/ /\ opcode = OP.MSTORE /\ Operand(2) < MOD_VALUE
          /\ Fits(Operand(1), WordBytes)
          /\ Write(Operand(1), to_bytes(Operand(2), WordBytes))
       \/ /\ opcode = OP.MSTORE8
          /\ Fits(Operand(1), 1)
          /\ Write(Operand(1), <<Operand(2) % 256>>)
    /\ Replace(2, <<>>)
    /\ Next1 /\ Spend(cost) /\ UNCHANGED <<storage, ended>>

op_sload ==
    /\ Executes({OP.SLOAD})
    /\ Replace(1, <<IF Operand(1) \in DOMAIN storage THEN storage[Operand(1)] ELSE 0>>)
    /\ Next1 /\ Spend(cost) /\ UNCHANGED <<Data, ended>>

op_sstore ==
    /\ Executes({OP.SSTORE})
    /\ storage' = [k \in DOMAIN storage \cup {Operand(1)} |->
                     IF k = Operand(1) THEN Operand(2) ELSE storage[k]]
    /\ Replace(2, <<>>)
    /\ Next1 /\ Spend(cost) /\ UNCHANGED <<memory, touched, ended>>

Jumps == opcode = OP.JUMPI => Operand(2) # 0

op_jump ==
    /\ Executes({OP.JUMP, OP.JUMPI})
    /\ \/ Jumps /\ Operand(1) \in valid_jumpdests /\ Goto(Operand(1))
       \/ ~Jumps /\ Next1
    /\ Replace(Needs(opcode), <<>>)
    /\ Spend(cost) /\ UNCHANGED <<Data, ended>>

op_jumpdest ==
    /\ Executes({OP.JUMPDEST})
    /\ Next1 /\ Spend(cost) /\ UNCHANGED <<execution_stack, Data, ended>>

-----------------------------------------------------------------------------
(* Halting *)
op_stop ==
    /\ Executes({OP.STOP})
    /\ stopped' = TRUE
    /\ Next1 /\ Spend(cost)
    /\ UNCHANGED <<execution_stack, Data, reverted, return_data, raised>>

(* RETURN and REVERT *)
Answer ==
    /\ Executes({OP.RETURN, OP.REVERT})
    /\ Read(Operand(1), Operand(2))
    /\ return_data' = Slice(memory, Operand(1), Operand(2))
    /\ stopped' = TRUE /\ reverted' = (opcode = OP.REVERT)
    /\ Replace(2, <<>>)
    /\ Next1 /\ Spend(cost) /\ UNCHANGED <<storage, raised>>

Invalid ==
    /\ Executes({OP.INVALID})
    /\ gas_remaining' = 0
    /\ stopped' = TRUE /\ reverted' = TRUE
    /\ UNCHANGED <<program_counter, execution_stack, Data, return_data, raised>>

-----------------------------------------------------------------------------
(* CREATE and CALL, for what this frame sees of them *)

(* Without a world state nothing is created or called.                       *)
Unanswered ==
    /\ Executes({OP.CREATE, OP.CALL}) /\ ~world
    /\ Replace(Needs(opcode), <<0>>)
    /\ Next1 /\ Spend(cost) /\ UNCHANGED <<Data, ended>>

Left == gas_remaining - cost

Least(a, b) == IF a <= b THEN a ELSE b

Forwarded == Least(Operand(1), Left)

(* value, offset, size: the value cannot be paid or the init code runs out   *)
(* of gas, it fails, or there is a contract.                                 *)
op_create ==
    /\ Executes({OP.CREATE}) /\ world
    /\ Read(Operand(2), Operand(3))
    /\ \/ Replace(3, <<0>>) /\ Spend(cost)
       \/ \E used \in GasUsed, answer \in {0} \cup Created :
             /\ used <= Left
             /\ Replace(3, <<answer>>) /\ Spend(cost + used)
    /\ Next1 /\ UNCHANGED <<storage, ended>>

Args == Reach(Operand(4), Operand(5))

(* gas, addr, value, argsOffset, argsLength, retOffset, retLength            *)
Calls ==
    /\ Executes({OP.CALL}) /\ world
    /\ Operand(2) < MOD_VALUE      \* to_bytes refuses a larger address
    /\ Fits(Operand(4), Operand(5))

(* No code is run: the value cannot be paid, or the address has none.        *)
CallRunsNothing ==
    /\ Calls /\ Read(Operand(4), Operand(5))
    /\ \/ Operand(3) > 0 /\ Replace(7, <<0>>)
       \/ Replace(7, <<1>>)
    /\ Spend(cost)
    /\ Next1 /\ UNCHANGED <<storage, ended>>

(* The callee runs out of gas or fails: all that was forwarded is gone.      *)
CallFails ==
    /\ Calls /\ Read(Operand(4), Operand(5))
    /\ Replace(7, <<0>>)
    /\ Spend(cost + Forwarded)
    /\ Next1 /\ UNCHANGED <<storage, ended>>

(* What the callee returned is cut or padded to the length asked for, unless *)
(* there is nothing to write or nothing was asked.                           *)
CallSucceeds ==
    /\ Calls
    /\ \E used \in GasUsed, data \in ReturnData :
          LET size == IF data = <<>> THEN 0 ELSE Operand(7) IN
          /\ used <= Forwarded
          /\ Fits(Operand(6), size)
          /\ memory' = write_range(expand_to(memory, Operand(4), Operand(5)),
                                   Operand(6), Slice(data, 0, size))
          /\ Touch(IF Args > Reach(Operand(6), size) THEN Args ELSE Reach(Operand(6), size))
          /\ Spend(cost + used)
    /\ Replace(7, <<1>>)
    /\ Next1 /\ UNCHANGED <<storage, ended>>

-----------------------------------------------------------------------------
(* Exceptions. Only OutOfGas is caught and raised again, with the gas gone;  *)
(* what the others leave in the frame nobody reads.                          *)
Raise(exception) ==
    /\ Running
    /\ raised' = exception
    /\ UNCHANGED <<made, program_counter, execution_stack, Data, stopped, return_data>>

InvalidOpcode ==
    /\ Running /\ opcode \notin Priced
    /\ Raise("InvalidOpcode") /\ UNCHANGED <<gas_remaining, reverted>>

OutOfGas ==
    /\ Running /\ opcode \in Priced /\ ~Affordable
    /\ gas_remaining' = 0 /\ reverted' = TRUE
    /\ Raise("OutOfGas")

HandlerRaises(exception) ==
    /\ Raise(exception) /\ Affordable
    /\ Spend(cost) /\ UNCHANGED reverted

StackUnderflow == HandlerRaises("StackUnderflow") /\ Depth < Needs(opcode)

StackOverflow == HandlerRaises("StackOverflow") /\ Depth >= Needs(opcode) /\ ~HasRoom

Ready(ops) == Affordable /\ opcode \in ops /\ Depth >= Needs(opcode)

InvalidJumpDestination ==
    /\ Running /\ Ready({OP.JUMP, OP.JUMPI})
    /\ Jumps /\ Operand(1) \notin valid_jumpdests
    /\ HandlerRaises("InvalidJumpDestination")

(* The accesses of an opcode to memory, in their order: offset and size.     *)
Accesses ==
    CASE opcode = OP.MSTORE \/ opcode = OP.MLOAD -> {<<Operand(1), WordBytes>>}
      [] opcode = OP.MSTORE8 -> {<<Operand(1), 1>>}
      [] opcode \in {OP.SHA3, OP.RETURN, OP.REVERT} -> {<<Operand(1), Operand(2)>>}
      [] opcode \in {OP.CALLDATACOPY, OP.CODECOPY} -> {<<Operand(1), Operand(3)>>}
      [] opcode = OP.CREATE /\ world -> {<<Operand(2), Operand(3)>>}
      [] opcode = OP.CALL /\ world /\ Operand(2) < MOD_VALUE ->
            {<<Operand(4), Operand(5)>>, <<Operand(6), Operand(7)>>}
      [] OTHER -> {}

(* Python has no such bytearray. The result of a CALL is written only when   *)
(* there is one, so its place may also go untouched.                         *)
MemoryError ==
    /\ Running /\ Ready({opcode})
    /\ \E a \in Accesses : ~Fits(a[1], a[2])
    /\ HandlerRaises("MemoryError")

(* A word that to_bytes refuses.                                             *)
OverflowError ==
    /\ Running
    /\ \/ Ready({OP.MSTORE}) /\ Fits(Operand(1), WordBytes) /\ Operand(2) >= MOD_VALUE
       \/ Ready({OP.CALL}) /\ world /\ Operand(2) >= MOD_VALUE
    /\ HandlerRaises("OverflowError")

(* An exception of the callee other than OutOfGas is nobody's but the        *)
(* transaction's.                                                            *)
CalleeRaises ==
    /\ \/ Executes({OP.CREATE}) /\ world /\ Fits(Operand(2), Operand(3))
       \/ Calls
    /\ HandlerRaises("EVMError")

-----------------------------------------------------------------------------
Halted == ~Running

Finished == Halted /\ UNCHANGED evm

Step ==
    \/ Arithmetic \/ Unary \/ Environment \/ Sizes \/ op_gas \/ op_calldataload \/ Copy
    \/ op_pop \/ op_push \/ op_dup \/ op_swap
    \/ op_mload \/ op_sha3 \/ MemoryWrite \/ op_sload \/ op_sstore
    \/ op_jump \/ op_jumpdest
    \/ op_stop \/ Answer \/ Invalid
    \/ Unanswered \/ op_create \/ CallRunsNothing \/ CallFails \/ CallSucceeds
    \/ InvalidOpcode \/ OutOfGas \/ StackUnderflow \/ StackOverflow
    \/ InvalidJumpDestination \/ MemoryError \/ OverflowError \/ CalleeRaises

Next == Step \/ Finished

Spec == Init /\ [][Next]_evm

-----------------------------------------------------------------------------
(* Properties *)

(* The stack never outgrows its limit, gas is never overdrawn, storage is a  *)
(* dict of integers and an exception is one that execute() can raise.        *)
TypeOK ==
    /\ program_counter \in Nat
    /\ execution_stack \in Seq(Int) /\ Depth <= MAX_STACK_DEPTH
    /\ memory \in Seq(Byte)
    /\ \A k \in DOMAIN storage : k \in Int /\ storage[k] \in Int
    /\ gas_remaining \in 0..context.gas
    /\ stopped \in BOOLEAN /\ reverted \in BOOLEAN
    /\ return_data \in Seq(Byte)
    /\ raised \in {NoException, "InvalidOpcode", "OutOfGas", "StackUnderflow", "StackOverflow",
                   "InvalidJumpDestination", "MemoryError", "OverflowError", "EVMError"}
    /\ touched \in Nat

(* Where an instruction of c begins: at 0, and where the one before ends.    *)
IsInstruction(c, pc) ==
    LET starts[p \in Nat] ==
            p = 0 \/ \E q \in 0..(p - 1) : starts[q] /\ q + 1 + push_size(c[q + 1]) = p
    IN  starts[pc]

(* No jump leads into push data, whatever the bytes there, and every         *)
(* JUMPDEST outside push data can be jumped to (_find_jumpdests and op_jump  *)
(* of evm/vm.py).                                                            *)
OnInstructions ==
    /\ program_counter < Len(code) => IsInstruction(code, program_counter)
    /\ raised = "InvalidJumpDestination" =>
          ~(/\ Operand(1) \in 0..(Len(code) - 1)
            /\ code[Operand(1) + 1] = OP.JUMPDEST
            /\ IsInstruction(code, Operand(1)))

(* If the value of the transaction is a word, so is everything on the stack  *)
(* and in storage, and to_bytes(32) of evm/memory.py and evm/vm.py refuses   *)
(* nothing: each handler wraps its own result, and CALLVALUE relies on its   *)
(* caller.                                                                   *)
WordsInRange ==
    context.value < MOD_VALUE =>
        /\ \A i \in 1..Depth : execution_stack[i] \in Word
        /\ \A k \in DOMAIN storage : k \in Word /\ storage[k] \in Word
        /\ raised # "OverflowError"

(* Memory is as many whole words as the highest access asked for: no byte    *)
(* less, or a read would come out short, and no word more, since nothing     *)
(* but the offsets bounds it (_expand_to of evm/memory.py).                  *)
MemoryFits ==
    /\ Len(memory) % WordBytes = 0
    /\ touched <= Len(memory) /\ Len(memory) < touched + WordBytes
    /\ Len(memory) < MaxMemory + WordBytes

(* What StateTransition takes a frame to do: every step that does not end    *)
(* the frame costs gas, and storage changes one slot at a time, for the      *)
(* price of SSTORE (GAS_COSTS of evm/gas.py, the loop of evm/vm.py).         *)
Metered ==
    [][ /\ Halted' \/ gas_remaining' < gas_remaining
        /\ storage' # storage =>
              /\ gas_remaining' = gas_remaining - GAS_SSTORE
              /\ \E key \in DOMAIN storage' :
                    /\ DOMAIN storage' = DOMAIN storage \cup {key}
                    /\ \A k \in DOMAIN storage \ {key} : storage'[k] = storage[k] ]_evm
=============================================================================
