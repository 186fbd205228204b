---------------------------- MODULE PromiseProofs ----------------------------
(* The theorem that the bytecode of the two contracts keeps the promise of   *)
(* Token, for every selector, address, amount, gas and supply, and for words *)
(* of up to 32 bytes. It follows a call through the code: for every          *)
(* instruction that the call can stand on, the stack, the gas spent and the  *)
(* storage are known, so that a frame runs out of gas only if it was given   *)
(* less than its fare, and ends with what was asked for.                     *)
EXTENDS ContractsProofs

-----------------------------------------------------------------------------
(* One instruction of a frame that nothing but too little gas can stop *)

(* The opcodes of the runtime code.                                          *)
Used == {OP.STOP, OP.ADD, OP.SUB, OP.DIV, OP.LT, OP.EQ, OP.CALLER, OP.CALLDATALOAD, OP.POP,
         OP.MSTORE, OP.SLOAD, OP.SSTORE, OP.JUMPI, OP.JUMPDEST, OP.SWAP1, OP.RETURN, OP.REVERT}
            \cup PUSH \cup {OP.DUP1, OP.DUP1 + 1, OP.DUP1 + 2}

(* Nothing but gas can be missing.                                           *)
Sound1 ==
    /\ opcode \in Used /\ Depth >= Needs(opcode) /\ Depth < MAX_STACK_DEPTH
    /\ opcode = OP.JUMPI => (Operand(2) # 0 => Operand(1) \in valid_jumpdests)
    /\ opcode = OP.MSTORE => Fits(Operand(1), WordBytes)
    /\ opcode \in {OP.RETURN, OP.REVERT} => Fits(Operand(1), Operand(2))

Acts ==
    /\ opcode = OP.STOP => op_stop
    /\ opcode \in {OP.ADD, OP.SUB, OP.DIV, OP.LT, OP.EQ} => Arithmetic
    /\ opcode = OP.CALLER => Environment
    /\ opcode = OP.CALLDATALOAD => op_calldataload
    /\ opcode = OP.POP => op_pop
    /\ opcode = OP.MSTORE => MemoryWrite
    /\ opcode = OP.SLOAD => op_sload
    /\ opcode = OP.SSTORE => op_sstore
    /\ opcode = OP.JUMPI => op_jump
    /\ opcode = OP.JUMPDEST => op_jumpdest
    /\ opcode = OP.SWAP1 => op_swap
    /\ opcode \in {OP.RETURN, OP.REVERT} => Answer
    /\ opcode \in PUSH => op_push
    /\ opcode \in {OP.DUP1, OP.DUP1 + 1, OP.DUP1 + 2} => op_dup

LEMMA UsedOpcodes ==
    /\ \A op \in Used : op \in {0, 1, 3, 4, 16, 20, 51, 53, 80, 82, 84, 85, 87, 91, 144, 243, 253}
                               \cup PUSH \cup {128, 129, 130}
    /\ Used \subseteq Priced
<1>1. \A op \in Used : op \in {0, 1, 3, 4, 16, 20, 51, 53, 80, 82, 84, 85, 87, 91, 144, 243, 253}
                              \cup PUSH \cup {128, 129, 130}
      BY Opcodes DEF Used
<1>2. {OP.STOP, OP.ADD, OP.SUB, OP.DIV, OP.LT, OP.EQ, OP.CALLER, OP.CALLDATALOAD, OP.POP,
       OP.MSTORE, OP.SLOAD, OP.SSTORE, OP.JUMPI, OP.JUMPDEST, OP.SWAP1, OP.RETURN, OP.REVERT}
         \subseteq {OP[name] : name \in DOMAIN OP}
      BY DEF OP
<1>3. {128, 129, 130} \subseteq DUP
      BY Opcodes DEF DUP
<1>4. OP.DUP1 = 128
      BY Opcodes
<1>5. PUSH \cup DUP \cup {OP[name] : name \in DOMAIN OP} \subseteq Priced
      BY DEF Priced
<1>. QED BY <1>1, <1>2, <1>3, <1>4, <1>5 DEF Used

LEMMA Stands ==
    ASSUME IInv, context.value = 0, Sound1, Step
    PROVE  \/ OutOfGas /\ UNCHANGED made /\ cost > gas_remaining
           \/ Acts /\ UNCHANGED made
<1>0. Running /\ opcode \in Priced /\ opcode \in Used
      BY StepRuns, UsedOpcodes DEF Sound1
<1>1. cost \in Nat /\ gas_remaining \in Nat /\ Depth \in Nat
      BY <1>0, AtWork
<1>2. ~InvalidOpcode
      BY <1>0 DEF InvalidOpcode
<1>3. ~StackUnderflow
      BY <1>0, Arity, <1>1 DEF StackUnderflow, Sound1
<1>4. ~StackOverflow
      BY <1>1 DEF StackOverflow, Sound1, HasRoom
<1>5. opcode \notin {OP.JUMP, OP.CALL, OP.CREATE, OP.MLOAD, OP.MSTORE8, OP.SHA3, OP.CALLDATACOPY,
                     OP.CODECOPY}
  <2>1. \A op \in PUSH : op \in 96..127
        BY Groups
  <2>. QED BY <1>0, <2>1, UsedOpcodes, Opcodes
<1>6. ~InvalidJumpDestination
  <2>1. InvalidJumpDestination => opcode = OP.JUMPI /\ Jumps /\ Operand(1) \notin valid_jumpdests
        BY <1>5 DEF InvalidJumpDestination, Ready
  <2>. QED BY <2>1 DEF Sound1, Jumps
<1>7. ~MemoryError
  <2>1. SUFFICES \A a \in Accesses : Fits(a[1], a[2])
        BY DEF MemoryError
  <2>2. OP.MSTORE # OP.RETURN /\ OP.MSTORE # OP.REVERT
        BY Opcodes
  <2>3. CASE opcode = OP.MSTORE
        BY <1>5, <2>2, <2>3 DEF Accesses, Sound1
  <2>4. CASE opcode \in {OP.RETURN, OP.REVERT}
    <3>1. Accesses = {<<Operand(1), Operand(2)>>}
          BY <1>5, <2>2, <2>4 DEF Accesses
    <3>2. Fits(Operand(1), Operand(2))
          BY <2>4 DEF Sound1
    <3>. QED BY <3>1, <3>2
  <2>5. CASE opcode # OP.MSTORE /\ opcode \notin {OP.RETURN, OP.REVERT}
    <3>1. Accesses = {}
          BY <1>5, <2>5 DEF Accesses
    <3>. QED BY <3>1
  <2>. QED BY <2>3, <2>4, <2>5
<1>8. ~OverflowError
  <2>1. OverflowError => opcode = OP.MSTORE /\ Operand(2) >= MOD_VALUE
        BY <1>5 DEF OverflowError, Ready
  <2>2. ASSUME opcode = OP.MSTORE
        PROVE  Operand(2) \in Word
    <3>1. Needs(opcode) = 2
          BY <2>2, Arity DEF Takes2
    <3>2. 2 \in 1..Depth
          BY <1>1, <3>1 DEF Sound1
    <3>. QED BY <3>2, StackWords DEF Depth
  <2>. QED BY <2>1, <2>2, WordValues DEF Word
<1>9. ~CalleeRaises
      BY <1>5 DEF CalleeRaises, Executes, Calls
<1>10. CASE OutOfGas
  <2>1. UNCHANGED made /\ ~Affordable
        BY <1>10 DEF OutOfGas, Raise
  <2>. QED BY <1>0, <1>1, <1>10, <2>1 DEF Affordable
<1>. DEFINE Rest ==
           Arithmetic \/ Unary \/ Environment \/ Sizes \/ op_gas \/ op_calldataload \/ Copy
           \/ op_pop \/ op_push \/ op_dup \/ op_swap
           \/ op_mload \/ op_sha3 \/ MemoryWrite \/ op_sload \/ op_sstore
           \/ op_jump \/ op_jumpdest
           \/ op_stop \/ Answer \/ Invalid
           \/ Unanswered \/ op_create \/ CallRunsNothing \/ CallFails \/ CallSucceeds
<1>11. OutOfGas \/ Rest
       BY <1>2, <1>3, <1>4, <1>6, <1>7, <1>8, <1>9 DEF Step
<1>12. CASE Rest
  <2>1. UNCHANGED made
        BY <1>12 DEF Executes, Calls, Arithmetic, Unary, Environment, Sizes, op_gas,
           op_calldataload, Copy, op_pop, op_push, op_dup, op_swap, op_mload, op_sha3,
           MemoryWrite, op_sload, op_sstore, op_jump, op_jumpdest, op_stop, Answer, Invalid,
           Unanswered, op_create, CallRunsNothing, CallFails, CallSucceeds
  <2>2. opcode \in {0, 1, 3, 4, 16, 20, 51, 53, 80, 82, 84, 85, 87, 91, 144, 243, 253} \cup PUSH
                      \cup {128, 129, 130}
        BY <1>0, UsedOpcodes
  <2>. DEFINE op == opcode
              Which ==
                 \/ Arithmetic /\ op \in Binary
                 \/ Environment /\ op \in {48, 51, 52}
                 \/ op_calldataload /\ op = 53
                 \/ op_pop /\ op = 80
                 \/ op_push /\ op \in PUSH
                 \/ op_dup /\ op \in DUP
                 \/ op_swap /\ op \in SWAP
                 \/ MemoryWrite /\ op \in {82, 83}
                 \/ op_sload /\ op = 84
                 \/ op_sstore /\ op = 85
                 \/ op_jump /\ op \in {86, 87}
                 \/ op_jumpdest /\ op = 91
                 \/ op_stop /\ op = 0
                 \/ Answer /\ op \in {243, 253}
                 \/ op \in {21, 25, 54, 55, 56, 57, 89, 90, 81, 32, 254, 240, 241}
  <2>3. Which
    <3>1. /\ Arithmetic => opcode \in Binary
          /\ op_push => opcode \in PUSH
          /\ op_dup => opcode \in DUP
          /\ op_swap => opcode \in SWAP
          BY DEF Arithmetic, op_push, op_dup, op_swap, Executes
    <3>2. Environment => opcode \in {48, 51, 52}
          BY Opcodes DEF Environment
    <3>3. /\ op_calldataload => opcode = 53
          /\ op_pop => opcode = 80
          /\ op_sload => opcode = 84
          /\ op_sstore => opcode = 85
          /\ op_jump => opcode \in {86, 87}
          /\ op_jumpdest => opcode = 91
          /\ op_stop => opcode = 0
          /\ Answer => opcode \in {243, 253}
          /\ MemoryWrite => opcode \in {82, 83}
          BY Opcodes DEF op_calldataload, op_pop, op_sload, op_sstore, op_jump, op_jumpdest,
                         op_stop, Answer, MemoryWrite, Executes
    <3>4. /\ Unary \/ Sizes \/ op_gas \/ op_mload \/ op_sha3 \/ Copy
               => opcode \in {21, 25, 54, 55, 56, 57, 89, 90, 81, 32}
          BY Opcodes DEF Unary, Sizes, op_gas, op_mload, op_sha3, Copy, Executes
    <3>5. /\ Invalid \/ Unanswered \/ op_create \/ CallRunsNothing \/ CallFails \/ CallSucceeds
               => opcode \in {254, 240, 241}
          BY Opcodes DEF Invalid, Unanswered, op_create, CallRunsNothing, CallFails,
                         CallSucceeds, Calls, Executes
    <3>. QED BY <1>12, <3>1, <3>2, <3>3, <3>4, <3>5
  <2>4. /\ op \in Binary => op \in 1..23 /\ op # 21
        /\ op \in PUSH => op \in 96..127
        /\ op \in DUP => op \in 128..143
        /\ op \in SWAP => op \in 144..159
        BY Groups
  <2>5. /\ OP.STOP = 0 /\ OP.ADD = 1 /\ OP.SUB = 3 /\ OP.DIV = 4 /\ OP.LT = 16 /\ OP.EQ = 20
        /\ OP.CALLER = 51 /\ OP.CALLDATALOAD = 53 /\ OP.POP = 80 /\ OP.MSTORE = 82
        /\ OP.SLOAD = 84 /\ OP.SSTORE = 85 /\ OP.JUMPI = 87 /\ OP.JUMPDEST = 91
        /\ OP.SWAP1 = 144 /\ OP.RETURN = 243 /\ OP.REVERT = 253 /\ OP.DUP1 = 128
        BY Opcodes
  <2>. HIDE DEF op
  <2>6. /\ op = 0 => op_stop
        /\ op \in {1, 3, 4, 16, 20} => Arithmetic
        /\ op = 51 => Environment
        /\ op = 53 => op_calldataload
        /\ op = 80 => op_pop
        /\ op = 82 => MemoryWrite
        /\ op = 84 => op_sload
        /\ op = 85 => op_sstore
        BY <2>3, <2>4
  <2>7. /\ op = 87 => op_jump
        /\ op = 91 => op_jumpdest
        /\ op = 144 => op_swap
        /\ op \in {243, 253} => Answer
        /\ op \in PUSH => op_push
        /\ op \in {128, 129, 130} => op_dup
        BY <2>3, <2>4
  <2>8. Acts
    <3>1. OP.DUP1 + 1 = 129 /\ OP.DUP1 + 2 = 130
          BY <2>5
    <3>. QED BY <2>5, <2>6, <2>7, <3>1 DEF Acts, op
  <2>. QED BY <2>1, <2>8
<1>. QED BY <1>10, <1>11, <1>12

(* A frame at position p with the stack t, which has spent so much gas and   *)
(* stored s.                                                                 *)
At(p, t, spent, s) ==
    /\ program_counter = p /\ execution_stack = t
    /\ gas_remaining = context.gas - spent /\ storage = s
    /\ stopped = FALSE /\ reverted = FALSE /\ return_data = <<>> /\ raised = NoException

(* A frame whose gas was less than so much.                                  *)
Broke(n) == raised = "OutOfGas" /\ context.gas < n

(* The stack t with values in place of n words.                              *)
Rewrite(t, n, values) ==
    [i \in 1..(Len(t) - n + Len(values)) |->
        IF i <= Len(t) - n THEN t[i] ELSE values[i - Len(t) + n]]

ValueIn(s, k) == IF k \in DOMAIN s THEN s[k] ELSE 0

LEMMA Prices ==
    /\ \A op \in PUSH \cup DUP \cup SWAP : CostOf(op) = 3
    /\ \A op \in {OP.ADD, OP.SUB, OP.LT, OP.EQ, OP.CALLDATALOAD, OP.MSTORE} : CostOf(op) = 3
    /\ CostOf(OP.DIV) = 5 /\ CostOf(OP.CALLER) = 2 /\ CostOf(OP.POP) = 2
    /\ CostOf(OP.SLOAD) = 100 /\ CostOf(OP.SSTORE) = 5000 /\ CostOf(OP.JUMPI) = 10
    /\ CostOf(OP.JUMPDEST) = 1 /\ CostOf(OP.STOP) = 0
    /\ CostOf(OP.RETURN) = 0 /\ CostOf(OP.REVERT) = 0
<1>1. \A op \in PUSH \cup DUP \cup SWAP : op \in 96..159
      BY Groups
<1>2. \A op \in 96..159 : CostOf(op) = 3
      BY Opcodes DEF CostOf
<1>3. \A op \in {OP.ADD, OP.SUB, OP.LT, OP.EQ, OP.CALLDATALOAD, OP.MSTORE} : CostOf(op) = 3
      BY Opcodes DEF CostOf
<1>4. /\ CostOf(OP.DIV) = 5 /\ CostOf(OP.CALLER) = 2 /\ CostOf(OP.POP) = 2
      /\ CostOf(OP.SLOAD) = 100 /\ CostOf(OP.SSTORE) = 5000 /\ CostOf(OP.JUMPI) = 10
      /\ CostOf(OP.JUMPDEST) = 1 /\ CostOf(OP.STOP) = 0
      /\ CostOf(OP.RETURN) = 0 /\ CostOf(OP.REVERT) = 0
      BY Opcodes DEF CostOf, GAS_SSTORE
<1>. QED BY <1>1, <1>2, <1>3, <1>4

(* What an instruction with the price g does, unless it cannot be paid.      *)
LEMMA Turns ==
    ASSUME IInv, context.value = 0, Step,
           NEW p \in Nat, NEW t, NEW u \in Nat, NEW s, At(p, t, u, s), Len(t) < MAX_STACK_DEPTH,
           NEW op \in Used, code[p + 1] = op, Needs(op) <= Len(t), NEW g \in Nat, CostOf(op) = g,
           op = OP.JUMPI => (t[Len(t) - 1] # 0 => t[Len(t)] \in valid_jumpdests),
           op = OP.MSTORE => Fits(t[Len(t)], WordBytes),
           op \in {OP.RETURN, OP.REVERT} => Fits(t[Len(t)], t[Len(t) - 1])
    PROVE  /\ opcode = op /\ Len(t) \in Nat /\ Depth = Len(t)
           /\ \A i \in 1..Len(t) : Operand(i) = t[Len(t) - i + 1] /\ t[i] \in Word
           /\ \/ Broke(u + g)'
              \/ /\ Acts /\ UNCHANGED made
                 /\ Spend(cost) => gas_remaining' = context'.gas - (u + g)
<1>1. opcode = op /\ cost = g
      BY DEF opcode, At, cost, GAS_COSTS
<1>2. Depth = Len(t) /\ \A i : Operand(i) = t[Len(t) - i + 1]
      BY DEF Depth, Operand, At
<1>3. t \in Seq(Word)
      BY WordValues DEF IInv, StackInv, Cell, At
<1>4. Len(t) \in Nat /\ \A i \in 1..Len(t) : t[i] \in Word
      BY <1>3, ElementOfSeq
<1>5. Operand(1) = t[Len(t)] /\ Operand(2) = t[Len(t) - 1]
  <2>1. Len(t) - 1 + 1 = Len(t) /\ Len(t) - 2 + 1 = Len(t) - 1
        BY <1>4
  <2>. QED BY <1>2, <2>1
<1>6. Sound1
      BY <1>1, <1>2, <1>5 DEF Sound1
<1>7. context.gas \in Nat
      BY WordValues DEF IInv, MadeInv
<1>8. CASE OutOfGas /\ UNCHANGED made /\ cost > gas_remaining
  <2>1. raised' = "OutOfGas" /\ context' = context
        BY <1>8 DEF OutOfGas, Raise, made
  <2>2. context.gas < u + g
        BY <1>1, <1>7, <1>8 DEF At
  <2>. QED BY <1>1, <1>2, <1>4, <2>1, <2>2 DEF Broke
<1>9. CASE Acts /\ UNCHANGED made
  <2>1. context' = context
        BY <1>9 DEF made
  <2>2. Spend(cost) => gas_remaining' = context.gas - (u + g)
        BY <1>1, <1>7 DEF At, Spend
  <2>. QED BY <1>1, <1>2, <1>4, <1>9, <2>1, <2>2
<1>. QED BY <1>6, <1>8, <1>9, Stands

(* A frame about to take a step.                                             *)
Turning(p, t, u, s) ==
    /\ IInv /\ context.value = 0 /\ Step /\ At(p, t, u, s)
    /\ p \in Nat /\ u \in Nat /\ Len(t) < MAX_STACK_DEPTH

LEMMA Arities ==
    /\ \A op \in {OP.ADD, OP.SUB, OP.DIV, OP.LT, OP.EQ, OP.MSTORE, OP.SSTORE, OP.JUMPI,
                 OP.RETURN, OP.REVERT} : Needs(op) = 2
    /\ \A op \in {OP.CALLDATALOAD, OP.POP, OP.SLOAD} : Needs(op) = 1
    /\ \A op \in {OP.STOP, OP.CALLER, OP.JUMPDEST} \cup PUSH : Needs(op) = 0
    /\ Needs(OP.SWAP1) = 2 /\ Needs(OP.DUP1) = 1 /\ Needs(OP.DUP1 + 1) = 2 /\ Needs(OP.DUP1 + 2) = 3
<1>1. \A op \in {OP.ADD, OP.SUB, OP.DIV, OP.LT, OP.EQ, OP.MSTORE, OP.SSTORE, OP.JUMPI,
                 OP.RETURN, OP.REVERT} : Needs(op) = 2
      BY Arity DEF Takes2, Binary
<1>2. \A op \in {OP.CALLDATALOAD, OP.POP, OP.SLOAD} : Needs(op) = 1
      BY Arity DEF Takes1
<1>3. \A op \in {0, 51, 91} \cup 96..127 : Needs(op) = 0
      BY Opcodes DEF Needs, Binary, DUP, SWAP
<1>4. \A op \in {OP.STOP, OP.CALLER, OP.JUMPDEST} \cup PUSH : op \in {0, 51, 91} \cup 96..127
      BY Opcodes, Groups
<1>5. OP.SWAP1 \in SWAP /\ {OP.DUP1, OP.DUP1 + 1, OP.DUP1 + 2} \subseteq DUP
      BY Opcodes DEF SWAP, DUP
<1>6. Needs(OP.SWAP1) = 2 /\ Needs(OP.DUP1) = 1 /\ Needs(OP.DUP1 + 1) = 2 /\ Needs(OP.DUP1 + 2) = 3
      BY <1>5, Arity, Opcodes
<1>. QED BY <1>1, <1>2, <1>3, <1>4, <1>6

LEMMA Rewritten ==
    ASSUME NEW C, NEW t \in Seq(C), NEW n \in Nat, n <= Len(t), NEW values \in Seq(C)
    PROVE  SubSeq(t, 1, Len(t) - n) \o values = Rewrite(t, n, values)
<1>. DEFINE m == Len(t) - n
            rest == SubSeq(t, 1, m)
<1>1. m \in Nat /\ m <= Len(t) /\ Len(values) \in Nat /\ Len(t) \in Nat
      BY LenProperties
<1>2. rest \in Seq(C) /\ Len(rest) = m /\ \A i \in 1..m : rest[i] = t[i]
      BY <1>1, SubSeqProperties
<1>. HIDE DEF rest
<1>3. /\ rest \o values \in Seq(C) /\ Len(rest \o values) = m + Len(values)
      /\ \A i \in 1..(m + Len(values)) :
            (rest \o values)[i] = IF i <= m THEN rest[i] ELSE values[i - m]
  <2>1. /\ rest \o values \in Seq(C) /\ Len(rest \o values) = Len(rest) + Len(values)
        /\ \A i \in 1..(Len(rest) + Len(values)) :
              (rest \o values)[i] = IF i <= Len(rest) THEN rest[i] ELSE values[i - Len(rest)]
        BY <1>2, ConcatProperties
  <2>. QED BY <1>2, <2>1
<1>4. rest \o values = [i \in 1..(m + Len(values)) |-> (rest \o values)[i]]
      BY <1>3, LenProperties
<1>. QED BY <1>1, <1>2, <1>3, <1>4 DEF Rewrite, rest

LEMMA Replaced ==
    ASSUME IInv, NEW t, execution_stack = t, NEW n \in Nat, n <= Len(t), NEW values,
           values = <<>> \/ (\E v : values = <<v>>) \/ (\E v, w : values = <<v, w>>),
           Replace(n, values)
    PROVE  execution_stack' = Rewrite(t, n, values)
<1>. DEFINE C == Cell \cup {values[i] : i \in 1..2}
<1>1. t \in Seq(Cell)
      BY DEF IInv, StackInv
<1>2. t \in Seq(C)
      BY <1>1
<1>3. values \in Seq(C)
  <2>1. CASE values = <<>>
        BY <2>1
  <2>2. ASSUME NEW v, values = <<v>>
        PROVE  values \in Seq(C)
    <3>1. v \in C
          BY <2>2
    <3>. QED BY <2>2, <3>1
  <2>3. ASSUME NEW v, NEW w, values = <<v, w>>
        PROVE  values \in Seq(C)
    <3>1. v \in C /\ w \in C
          BY <2>3
    <3>. QED BY <2>3, <3>1
  <2>. QED BY <2>1, <2>2, <2>3
<1>. HIDE DEF C
<1>. QED BY <1>2, <1>3, Rewritten DEF Replace, Depth

(* The stacks of the contracts, up to the six words that a transfer needs.   *)
LEMMA Pushing ==
    \A v : /\ Rewrite(<<>>, 0, <<v>>) = <<v>>
           /\ \A a : Rewrite(<<a>>, 0, <<v>>) = <<a, v>>
           /\ \A a, b : Rewrite(<<a, b>>, 0, <<v>>) = <<a, b, v>>
           /\ \A a, b, c : Rewrite(<<a, b, c>>, 0, <<v>>) = <<a, b, c, v>>
           /\ \A a, b, c, d : Rewrite(<<a, b, c, d>>, 0, <<v>>) = <<a, b, c, d, v>>
           /\ \A a, b, c, d, e : Rewrite(<<a, b, c, d, e>>, 0, <<v>>) = <<a, b, c, d, e, v>>
BY DEF Rewrite

LEMMA Replacing ==
    \A v : /\ \A a : Rewrite(<<a>>, 1, <<v>>) = <<v>>
           /\ \A a, b : Rewrite(<<a, b>>, 1, <<v>>) = <<a, v>>
           /\ \A a, b, c : Rewrite(<<a, b, c>>, 1, <<v>>) = <<a, b, v>>
           /\ \A a, b, c, d : Rewrite(<<a, b, c, d>>, 1, <<v>>) = <<a, b, c, v>>
           /\ \A a, b : Rewrite(<<a, b>>, 2, <<v>>) = <<v>>
           /\ \A a, b, c : Rewrite(<<a, b, c>>, 2, <<v>>) = <<a, v>>
           /\ \A a, b, c, d, e : Rewrite(<<a, b, c, d, e>>, 2, <<v>>) = <<a, b, c, v>>
           /\ \A a, b, c, d, e, f : Rewrite(<<a, b, c, d, e, f>>, 2, <<v>>) = <<a, b, c, d, v>>
BY DEF Rewrite

LEMMA Swapping ==
    \A v, w : /\ \A a, b, c, d : Rewrite(<<a, b, c, d>>, 2, <<v, w>>) = <<a, b, v, w>>
              /\ \A a, b, c, d, e : Rewrite(<<a, b, c, d, e>>, 2, <<v, w>>) = <<a, b, c, v, w>>
BY DEF Rewrite

LEMMA Popping ==
    /\ \A a : Rewrite(<<a>>, 1, <<>>) = <<>>
    /\ \A a, b : Rewrite(<<a, b>>, 2, <<>>) = <<>>
    /\ \A a, b, c : Rewrite(<<a, b, c>>, 2, <<>>) = <<a>>
    /\ \A a, b, c, d : Rewrite(<<a, b, c, d>>, 2, <<>>) = <<a, b>>
    /\ \A a, b, c, d, e, f : Rewrite(<<a, b, c, d, e, f>>, 2, <<>>) = <<a, b, c, d>>
BY DEF Rewrite

LEMMA Tops ==
    /\ \A a : FromTop(<<a>>, 1) = a
    /\ \A a, b : FromTop(<<a, b>>, 1) = b /\ FromTop(<<a, b>>, 2) = a
    /\ \A a, b, c : LET t == <<a, b, c>> IN
          FromTop(t, 1) = c /\ FromTop(t, 2) = b /\ FromTop(t, 3) = a
    /\ \A a, b, c, d : LET t == <<a, b, c, d>> IN
          FromTop(t, 1) = d /\ FromTop(t, 2) = c /\ FromTop(t, 3) = b
    /\ \A a, b, c, d, e : LET t == <<a, b, c, d, e>> IN
          FromTop(t, 1) = e /\ FromTop(t, 2) = d /\ FromTop(t, 3) = c
    /\ \A a, b, c, d, e, f : LET t == <<a, b, c, d, e, f>> IN
          FromTop(t, 1) = f /\ FromTop(t, 2) = e /\ FromTop(t, 3) = d
BY DEF FromTop

LEMMA Depths ==
    /\ Len(<<>>) = 0
    /\ \A a : Len(<<a>>) = 1
    /\ \A a, b : Len(<<a, b>>) = 2
    /\ \A a, b, c : Len(<<a, b, c>>) = 3
    /\ \A a, b, c, d : Len(<<a, b, c, d>>) = 4
    /\ \A a, b, c, d, e : Len(<<a, b, c, d, e>>) = 5
    /\ \A a, b, c, d, e, f : Len(<<a, b, c, d, e, f>>) = 6
OBVIOUS

-----------------------------------------------------------------------------
(* ... and where the frame is afterwards *)

(* An instruction goes on at q, with the stack t and with s stored.          *)
Does(q, t, s) ==
    /\ program_counter' = q /\ execution_stack' = t /\ storage' = s
    /\ Spend(cost) /\ UNCHANGED ended

LEMMA Turned ==
    ASSUME NEW p, NEW t, NEW u, NEW s, Turning(p, t, u, s),
           NEW op \in Used, code[p + 1] = op, Needs(op) <= Len(t),
           NEW g \in Nat, CostOf(op) = g,
           op = OP.JUMPI => (FromTop(t, 2) # 0 => FromTop(t, 1) \in valid_jumpdests),
           op = OP.MSTORE => Fits(FromTop(t, 1), WordBytes),
           op \in {OP.RETURN, OP.REVERT} => Fits(FromTop(t, 1), FromTop(t, 2)),
           NEW q, NEW v, NEW x, Acts /\ UNCHANGED made => Does(q, v, x)
    PROVE  Broke(u + g)' \/ (Acts /\ UNCHANGED made /\ At(q, v, u + g, x)')
<1>1. Len(t) \in Nat
  <2>1. execution_stack \in Seq(Cell)
        BY DEF Turning, IInv, StackInv
  <2>. QED BY <2>1 DEF Turning, At
<1>2. FromTop(t, 1) = t[Len(t)] /\ FromTop(t, 2) = t[Len(t) - 1]
  <2>1. Len(t) - 1 + 1 = Len(t) /\ Len(t) - 2 + 1 = Len(t) - 1
        BY <1>1
  <2>. QED BY <2>1 DEF FromTop
<1>3. \/ Broke(u + g)'
      \/ Acts /\ UNCHANGED made /\ (Spend(cost) => gas_remaining' = context'.gas - (u + g))
      BY <1>2, Turns DEF Turning
<1>4. CASE Acts /\ UNCHANGED made /\ (Spend(cost) => gas_remaining' = context'.gas - (u + g))
  <2>1. Does(q, v, x)
        BY <1>4
  <2>2. /\ program_counter' = q /\ execution_stack' = v /\ storage' = x
        /\ gas_remaining' = context'.gas - (u + g)
        BY <1>4, <2>1 DEF Does
  <2>3. /\ stopped' = FALSE /\ reverted' = FALSE /\ return_data' = <<>>
        /\ raised' = NoException
        BY <2>1 DEF Does, ended, Turning, At
  <2>. QED BY <1>4, <2>2, <2>3 DEF At
<1>. QED BY <1>3, <1>4

(* What the state is while a frame is at p.                                  *)
LEMMA Stood ==
    ASSUME NEW p, NEW t, NEW u, NEW s, Turning(p, t, u, s), NEW op, code[p + 1] = op
    PROVE  /\ opcode = op /\ program_counter = p /\ execution_stack = t /\ storage = s
           /\ Len(t) \in Nat /\ p \in Nat /\ u \in Nat
           /\ \A i : Operand(i) = FromTop(t, i)
           /\ \A i \in 1..Len(t) : FromTop(t, i) \in Word
           /\ \A k \in DOMAIN s : s[k] \in Word
<1>1. program_counter = p /\ execution_stack = t /\ storage = s /\ p \in Nat /\ u \in Nat
      BY DEF Turning, At
<1>2. IInv /\ context.value = 0
      BY DEF Turning
<1>3. Len(t) \in Nat /\ \A i \in 1..Len(t) : FromTop(t, i) \in Word
      BY <1>1, <1>2, StackWords
<1>4. \A k \in DOMAIN s : s[k] \in Word
      BY <1>1, <1>2, StackWords
<1>. QED BY <1>1, <1>3, <1>4 DEF opcode, Operand, Depth, FromTop

LEMMA PushAt ==
    ASSUME NEW p, NEW t, NEW u, NEW s, Turning(p, t, u, s),
           NEW n \in 1..WordBytes, code[p + 1] = 95 + n,
           NEW v, from_bytes(Slice(code, p + 1, n)) = v
    PROVE  Broke(u + 3)' \/ (At(p + 1 + n, Rewrite(t, 0, <<v>>), u + 3, s)' /\ UNCHANGED memory)
<1>. DEFINE op == 95 + n
<1>1. op \in PUSH /\ op \in Used
  <2>1. n \in Int /\ n >= 1 /\ n <= WordBytes /\ WordBytes \in Int /\ WordBytes <= 32
        BY WidthAssumption
  <2>. QED BY <2>1, Opcodes DEF PUSH, Used
<1>2. CostOf(op) = 3 /\ Needs(op) = 0 /\ push_size(op) = n
      BY <1>1, Prices, Arities, PushSize
<1>3. op \notin {OP.JUMPI, OP.MSTORE, OP.RETURN, OP.REVERT}
      BY <1>1, Groups, Opcodes
<1>. HIDE DEF op
<1>4. code[p + 1] = op
      BY DEF op
<1>5. /\ opcode = op /\ program_counter = p /\ execution_stack = t /\ storage = s
      /\ Len(t) \in Nat /\ 0 <= Len(t) /\ IInv
      BY <1>4, Stood DEF Turning
<1>. DEFINE x == Rewrite(t, 0, <<v>>)
            q == p + 1 + n
<1>6. Acts => Does(q, x, s) /\ UNCHANGED memory
  <2>1. SUFFICES ASSUME op_push
                 PROVE  Does(q, x, s) /\ UNCHANGED memory
        BY <1>1, <1>5 DEF Acts
  <2>2. Replace(0, <<v>>)
        BY <1>2, <1>5, <2>1 DEF op_push
  <2>3. execution_stack' = x
        BY <1>5, <2>2, Replaced
  <2>4. program_counter' = q
        BY <1>2, <1>5, <2>1 DEF op_push, Goto
  <2>. QED BY <1>5, <2>1, <2>3, <2>4 DEF op_push, Does, Data
<1>. HIDE DEF q, x
<1>7. Broke(u + 3)' \/ (Acts /\ At(q, x, u + 3, s)')
      BY <1>1, <1>2, <1>3, <1>4, <1>5, <1>6, Turned
<1>. QED BY <1>6, <1>7 DEF q, x

LEMMA BinaryAt ==
    ASSUME NEW p, NEW t, NEW u, NEW s, Turning(p, t, u, s),
           NEW op \in {OP.ADD, OP.SUB, OP.DIV, OP.LT, OP.EQ}, code[p + 1] = op, 2 <= Len(t),
           NEW g, CostOf(op) = g, NEW v, Result(op, FromTop(t, 1), FromTop(t, 2)) = v
    PROVE  Broke(u + g)' \/ At(p + 1, Rewrite(t, 2, <<v>>), u + g, s)'
<1>1. op \in Used /\ CostOf(op) = g /\ Needs(op) = 2
      BY Prices, Arities DEF Used
<1>2. op \notin {OP.JUMPI, OP.MSTORE, OP.RETURN, OP.REVERT}
  <2>1. op \in {1, 3, 4, 16, 20}
        BY Opcodes
  <2>2. op \in Int /\ op <= 20
        BY <2>1
  <2>3. OP.JUMPI = 87 /\ OP.MSTORE = 82 /\ OP.RETURN = 243 /\ OP.REVERT = 253
        BY Opcodes
  <2>. QED BY <2>2, <2>3
<1>3. /\ opcode = op /\ program_counter = p /\ execution_stack = t /\ storage = s
      /\ Len(t) \in Nat /\ IInv /\ \A i : Operand(i) = FromTop(t, i)
      BY Stood DEF Turning
<1>. DEFINE x == Rewrite(t, 2, <<v>>)
            y == s
<1>4. Acts => Does(p + 1, x, y)
  <2>1. SUFFICES ASSUME Arithmetic
                 PROVE  Does(p + 1, x, y)
        BY <1>1, <1>3 DEF Acts
  <2>2. Replace(2, <<v>>)
        BY <1>1, <1>3, <2>1 DEF Arithmetic
  <2>3. execution_stack' = x
        BY <1>3, <2>2, Replaced
  <2>. QED BY <1>3, <2>1, <2>3 DEF Arithmetic, Does, Data, Next1, Goto
<1>. HIDE DEF x, y
<1>5. Broke(u + g)' \/ At(p + 1, x, u + g, y)'
      BY <1>1, <1>2, <1>3, <1>4, Costs, Turned
<1>. QED BY <1>5 DEF x, y

LEMMA CallerAt ==
    ASSUME NEW p, NEW t, NEW u, NEW s, Turning(p, t, u, s),
           code[p + 1] = OP.CALLER, NEW c, context.caller = c
    PROVE  Broke(u + 2)' \/ At(p + 1, Rewrite(t, 0, <<c>>), u + 2, s)'
<1>1. OP.CALLER \in Used /\ CostOf(OP.CALLER) = 2 /\ Needs(OP.CALLER) = 0
      BY Prices, Arities DEF Used
<1>2. OP.CALLER \notin {OP.JUMPI, OP.MSTORE, OP.RETURN, OP.REVERT}
      BY Opcodes
<1>3. /\ opcode = OP.CALLER /\ program_counter = p /\ execution_stack = t /\ storage = s
      /\ Len(t) \in Nat /\ IInv /\ \A i : Operand(i) = FromTop(t, i)
      BY Stood DEF Turning
<1>. DEFINE x == Rewrite(t, 0, <<c>>)
            y == s
<1>4. Acts => Does(p + 1, x, y)
  <2>1. SUFFICES ASSUME Environment
                 PROVE  Does(p + 1, x, y)
        BY <1>1, <1>3 DEF Acts
  <2>2. Replace(0, <<c>>)
        BY <1>1, <1>3, <2>1, Opcodes DEF Environment
  <2>3. execution_stack' = x
        BY <1>3, <2>2, Replaced
  <2>. QED BY <1>3, <2>1, <2>3 DEF Environment, Does, Data, Next1, Goto
<1>. HIDE DEF x, y
<1>5. Broke(u + 2)' \/ At(p + 1, x, u + 2, y)'
      BY <1>1, <1>2, <1>3, <1>4, Turned
<1>. QED BY <1>5 DEF x, y

LEMMA CalldataloadAt ==
    ASSUME NEW p, NEW t, NEW u, NEW s, Turning(p, t, u, s),
           code[p + 1] = OP.CALLDATALOAD, 1 <= Len(t),
           NEW v, from_bytes(Slice(context.data, FromTop(t, 1), WordBytes)) = v
    PROVE  Broke(u + 3)' \/ At(p + 1, Rewrite(t, 1, <<v>>), u + 3, s)'
<1>1. OP.CALLDATALOAD \in Used /\ CostOf(OP.CALLDATALOAD) = 3 /\ Needs(OP.CALLDATALOAD) = 1
      BY Prices, Arities DEF Used
<1>2. OP.CALLDATALOAD \notin {OP.JUMPI, OP.MSTORE, OP.RETURN, OP.REVERT}
      BY Opcodes
<1>3. /\ opcode = OP.CALLDATALOAD /\ program_counter = p /\ execution_stack = t /\ storage = s
      /\ Len(t) \in Nat /\ IInv /\ \A i : Operand(i) = FromTop(t, i)
      BY Stood DEF Turning
<1>. DEFINE x == Rewrite(t, 1, <<v>>)
            y == s
<1>4. Acts => Does(p + 1, x, y)
  <2>1. SUFFICES ASSUME op_calldataload
                 PROVE  Does(p + 1, x, y)
        BY <1>1, <1>3 DEF Acts
  <2>2. Replace(1, <<v>>)
        BY <1>1, <1>3, <2>1 DEF op_calldataload
  <2>3. execution_stack' = x
        BY <1>3, <2>2, Replaced
  <2>. QED BY <1>3, <2>1, <2>3 DEF op_calldataload, Does, Data, Next1, Goto
<1>. HIDE DEF x, y
<1>5. Broke(u + 3)' \/ At(p + 1, x, u + 3, y)'
      BY <1>1, <1>2, <1>3, <1>4, Turned
<1>. QED BY <1>5 DEF x, y

LEMMA PopAt ==
    ASSUME NEW p, NEW t, NEW u, NEW s, Turning(p, t, u, s),
           code[p + 1] = OP.POP, 1 <= Len(t)
    PROVE  Broke(u + 2)' \/ At(p + 1, Rewrite(t, 1, <<>>), u + 2, s)'
<1>1. OP.POP \in Used /\ CostOf(OP.POP) = 2 /\ Needs(OP.POP) = 1
      BY Prices, Arities DEF Used
<1>2. OP.POP \notin {OP.JUMPI, OP.MSTORE, OP.RETURN, OP.REVERT}
      BY Opcodes
<1>3. /\ opcode = OP.POP /\ program_counter = p /\ execution_stack = t /\ storage = s
      /\ Len(t) \in Nat /\ IInv /\ \A i : Operand(i) = FromTop(t, i)
      BY Stood DEF Turning
<1>. DEFINE x == Rewrite(t, 1, <<>>)
            y == s
<1>4. Acts => Does(p + 1, x, y)
  <2>1. SUFFICES ASSUME op_pop
                 PROVE  Does(p + 1, x, y)
        BY <1>1, <1>3 DEF Acts
  <2>2. Replace(1, <<>>)
        BY <1>1, <1>3, <2>1 DEF op_pop
  <2>3. execution_stack' = x
        BY <1>3, <2>2, Replaced
  <2>. QED BY <1>3, <2>1, <2>3 DEF op_pop, Does, Data, Next1, Goto
<1>. HIDE DEF x, y
<1>5. Broke(u + 2)' \/ At(p + 1, x, u + 2, y)'
      BY <1>1, <1>2, <1>3, <1>4, Turned
<1>. QED BY <1>5 DEF x, y

LEMMA SloadAt ==
    ASSUME NEW p, NEW t, NEW u, NEW s, Turning(p, t, u, s),
           code[p + 1] = OP.SLOAD, 1 <= Len(t)
    PROVE  Broke(u + 100)' \/ At(p + 1, Rewrite(t, 1, <<ValueIn(s, FromTop(t, 1))>>), u + 100, s)'
<1>1. OP.SLOAD \in Used /\ CostOf(OP.SLOAD) = 100 /\ Needs(OP.SLOAD) = 1
      BY Prices, Arities DEF Used
<1>2. OP.SLOAD \notin {OP.JUMPI, OP.MSTORE, OP.RETURN, OP.REVERT}
      BY Opcodes
<1>3. /\ opcode = OP.SLOAD /\ program_counter = p /\ execution_stack = t /\ storage = s
      /\ Len(t) \in Nat /\ IInv /\ \A i : Operand(i) = FromTop(t, i)
      BY Stood DEF Turning
<1>. DEFINE x == Rewrite(t, 1, <<ValueIn(s, FromTop(t, 1))>>)
            y == s
<1>4. Acts => Does(p + 1, x, y)
  <2>1. SUFFICES ASSUME op_sload
                 PROVE  Does(p + 1, x, y)
        BY <1>1, <1>3 DEF Acts
  <2>2. Replace(1, <<ValueIn(s, FromTop(t, 1))>>)
        BY <1>1, <1>3, <2>1 DEF op_sload, ValueIn
  <2>3. execution_stack' = x
        BY <1>3, <2>2, Replaced
  <2>. QED BY <1>3, <2>1, <2>3 DEF op_sload, Does, Data, Next1, Goto
<1>. HIDE DEF x, y
<1>5. Broke(u + 100)' \/ At(p + 1, x, u + 100, y)'
      BY <1>1, <1>2, <1>3, <1>4, Turned
<1>. QED BY <1>5 DEF x, y

LEMMA SstoreAt ==
    ASSUME NEW p, NEW t, NEW u, NEW s, Turning(p, t, u, s),
           code[p + 1] = OP.SSTORE, 2 <= Len(t)
    PROVE  Broke(u + 5000)' \/ At(p + 1, Rewrite(t, 2, <<>>), u + 5000, Stored(s, FromTop(t, 1), FromTop(t, 2)))'
<1>1. OP.SSTORE \in Used /\ CostOf(OP.SSTORE) = 5000 /\ Needs(OP.SSTORE) = 2
      BY Prices, Arities DEF Used
<1>2. OP.SSTORE \notin {OP.JUMPI, OP.MSTORE, OP.RETURN, OP.REVERT}
      BY Opcodes
<1>3. /\ opcode = OP.SSTORE /\ program_counter = p /\ execution_stack = t /\ storage = s
      /\ Len(t) \in Nat /\ IInv /\ \A i : Operand(i) = FromTop(t, i)
      BY Stood DEF Turning
<1>. DEFINE x == Rewrite(t, 2, <<>>)
            y == Stored(s, FromTop(t, 1), FromTop(t, 2))
<1>4. Acts => Does(p + 1, x, y)
  <2>1. SUFFICES ASSUME op_sstore
                 PROVE  Does(p + 1, x, y)
        BY <1>1, <1>3 DEF Acts
  <2>2. Replace(2, <<>>)
        BY <1>1, <1>3, <2>1 DEF op_sstore
  <2>3. execution_stack' = x
        BY <1>3, <2>2, Replaced
  <2>. QED BY <1>3, <2>1, <2>3 DEF op_sstore, Stored, Does, Data, Next1, Goto
<1>. HIDE DEF x, y
<1>5. Broke(u + 5000)' \/ At(p + 1, x, u + 5000, y)'
      BY <1>1, <1>2, <1>3, <1>4, Turned
<1>. QED BY <1>5 DEF x, y

LEMMA DupAt ==
    ASSUME NEW p, NEW t, NEW u, NEW s, Turning(p, t, u, s),
           NEW n \in 1..3, code[p + 1] = DUPn(n), n <= Len(t)
    PROVE  Broke(u + 3)' \/ At(p + 1, Rewrite(t, 0, <<FromTop(t, n)>>), u + 3, s)'
<1>. DEFINE op == DUPn(n)
<1>1. n \in Int /\ 1 <= n /\ n <= 3 /\ op = 127 + n
  <2>1. n \in 1..16 /\ n \in Int /\ 1 <= n /\ n <= 3
        OBVIOUS
  <2>2. DUPn(n) = 127 + n
        BY <2>1, DupType
  <2>. QED BY <2>1, <2>2
<1>6. code[p + 1] = op
      OBVIOUS
<1>. HIDE DEF op
<1>2. op \in Used /\ op \in DUP
  <2>1. n = 1 \/ n = 2 \/ n = 3
        BY <1>1
  <2>2. op = OP.DUP1 \/ op = OP.DUP1 + 1 \/ op = OP.DUP1 + 2
        BY <1>1, <2>1, Opcodes
  <2>3. op \in Used
        BY <2>2 DEF Used
  <2>4. op \in 128..143 /\ OP.DUP1 = 128
        BY <1>1, Opcodes
  <2>. QED BY <2>3, <2>4 DEF DUP
<1>3. CostOf(op) = 3 /\ Needs(op) = n
  <2>1. OP.DUP1 = 128 /\ Needs(op) = op - OP.DUP1 + 1
        BY <1>2, Arity, Opcodes
  <2>. QED BY <1>1, <1>2, <2>1, Prices
<1>4. op \notin {OP.JUMPI, OP.MSTORE, OP.RETURN, OP.REVERT}
  <2>1. OP.JUMPI = 87 /\ OP.MSTORE = 82 /\ OP.RETURN = 243 /\ OP.REVERT = 253
        BY Opcodes
  <2>. QED BY <1>1, <2>1
<1>5. op = OP.DUP1 \/ op = OP.DUP1 + 1 \/ op = OP.DUP1 + 2
      BY <1>1, Opcodes
<1>7. /\ opcode = op /\ program_counter = p /\ execution_stack = t /\ storage = s
      /\ Len(t) \in Nat /\ IInv /\ \A i : Operand(i) = FromTop(t, i)
      BY <1>6, Stood DEF Turning
<1>. DEFINE x == Rewrite(t, 0, <<FromTop(t, n)>>)
<1>8. Acts => Does(p + 1, x, s)
  <2>1. SUFFICES ASSUME op_dup
                 PROVE  Does(p + 1, x, s)
        BY <1>5, <1>7 DEF Acts
  <2>2. Replace(0, <<FromTop(t, n)>>)
        BY <1>3, <1>7, <2>1 DEF op_dup
  <2>3. execution_stack' = x
        BY <1>7, <2>2, Replaced
  <2>. QED BY <1>7, <2>1, <2>3 DEF op_dup, Does, Data, Next1, Goto
<1>. HIDE DEF x
<1>9. Broke(u + 3)' \/ At(p + 1, x, u + 3, s)'
      BY <1>2, <1>3, <1>4, <1>6, <1>8, Turned
<1>. QED BY <1>9 DEF x

LEMMA JumpdestAt ==
    ASSUME NEW p, NEW t, NEW u, NEW s, Turning(p, t, u, s),
           code[p + 1] = OP.JUMPDEST
    PROVE  Broke(u + 1)' \/ At(p + 1, t, u + 1, s)'
<1>1. OP.JUMPDEST \in Used /\ CostOf(OP.JUMPDEST) = 1 /\ Needs(OP.JUMPDEST) = 0
      BY Prices, Arities DEF Used
<1>2. OP.JUMPDEST \notin {OP.JUMPI, OP.MSTORE, OP.RETURN, OP.REVERT}
      BY Opcodes
<1>3. /\ opcode = OP.JUMPDEST /\ program_counter = p /\ execution_stack = t /\ storage = s
      /\ Len(t) \in Nat /\ IInv /\ \A i : Operand(i) = FromTop(t, i)
      BY Stood DEF Turning
<1>. DEFINE x == t
            y == s
<1>4. Acts => Does(p + 1, x, y)
  <2>1. SUFFICES ASSUME op_jumpdest
                 PROVE  Does(p + 1, x, y)
        BY <1>1, <1>3 DEF Acts
  <2>. QED BY <1>3, <2>1 DEF op_jumpdest, Does, Data, Next1, Goto
<1>. HIDE DEF x, y
<1>5. Broke(u + 1)' \/ At(p + 1, x, u + 1, y)'
      BY <1>1, <1>2, <1>3, <1>4, Turned
<1>. QED BY <1>5 DEF x, y

LEMMA SwapAt ==
    ASSUME NEW p, NEW t, NEW u, NEW s, Turning(p, t, u, s), code[p + 1] = OP.SWAP1, 2 <= Len(t)
    PROVE  Broke(u + 3)'
           \/ At(p + 1, Rewrite(t, 2, <<FromTop(t, 1), FromTop(t, 2)>>), u + 3, s)'
<1>1. OP.SWAP1 \in Used /\ OP.SWAP1 \in SWAP /\ Needs(OP.SWAP1) = 2
  <2>1. OP.SWAP1 \in SWAP
        BY Opcodes DEF SWAP
  <2>. QED BY <2>1, Arities DEF Used
<1>2. CostOf(OP.SWAP1) = 3 /\ OP.SWAP1 \notin {OP.JUMPI, OP.MSTORE, OP.RETURN, OP.REVERT}
      BY <1>1, Prices, Opcodes
<1>3. /\ opcode = OP.SWAP1 /\ program_counter = p /\ execution_stack = t /\ storage = s
      /\ Len(t) \in Nat /\ IInv /\ \A i : Operand(i) = FromTop(t, i)
      BY Stood DEF Turning
<1>. DEFINE x == Rewrite(t, 2, <<FromTop(t, 1), FromTop(t, 2)>>)
<1>4. Acts => Does(p + 1, x, s)
  <2>1. SUFFICES ASSUME op_swap
                 PROVE  Does(p + 1, x, s)
        BY <1>3 DEF Acts
  <2>2. t \in Seq(Cell)
        BY <1>3 DEF IInv, StackInv
  <2>3. execution_stack' = [t EXCEPT ![Len(t)] = FromTop(t, 2), ![Len(t) - 1] = FromTop(t, 1)]
    <3>1. Len(t) - 2 + 1 = Len(t) - 1
          BY <1>3
    <3>. QED BY <1>1, <1>3, <2>1, <3>1 DEF op_swap, Depth
  <2>4. t = [i \in 1..Len(t) |-> t[i]]
        BY <2>2, LenProperties
  <2>5. [t EXCEPT ![Len(t)] = FromTop(t, 2), ![Len(t) - 1] = FromTop(t, 1)] = x
    <3>. DEFINE r == [t EXCEPT ![Len(t)] = t[Len(t) - 1], ![Len(t) - 1] = t[Len(t)]]
    <3>1. FromTop(t, 1) = t[Len(t)] /\ FromTop(t, 2) = t[Len(t) - 1]
      <4>1. Len(t) - 1 + 1 = Len(t) /\ Len(t) - 2 + 1 = Len(t) - 1
            BY <1>3
      <4>. QED BY <4>1 DEF FromTop
    <3>2. /\ r[Len(t)] = t[Len(t) - 1] /\ r[Len(t) - 1] = t[Len(t)]
          /\ \A i \in 1..(Len(t) - 2) : r[i] = t[i]
          BY <2>2, ExchangedTop
    <3>3. r = [i \in 1..Len(t) |-> r[i]]
          BY <2>4
    <3>. HIDE DEF r
    <3>. DEFINE m == Len(t)
                top == FromTop(t, 1)
                under == FromTop(t, 2)
    <3>4. x = [i \in 1..m |-> IF i <= m - 2 THEN t[i] ELSE <<top, under>>[i - m + 2]]
          BY <1>3 DEF Rewrite
    <3>5. ASSUME NEW i \in 1..m
          PROVE  r[i] = IF i <= m - 2 THEN t[i] ELSE <<top, under>>[i - m + 2]
      <4>. HIDE DEF m, top, under
      <4>1. CASE i <= m - 2
            BY <3>2, <4>1, <1>3 DEF m
      <4>2. CASE i = m - 1
            BY <3>1, <3>2, <4>2, <1>3 DEF m, top
      <4>3. CASE i = m
            BY <3>1, <3>2, <4>3, <1>3 DEF m, under
      <4>. QED BY <4>1, <4>2, <4>3, <1>3 DEF m
    <3>. HIDE DEF x
    <3>6. r = x
          BY <3>3, <3>4, <3>5
    <3>. HIDE DEF m, top, under
    <3>. QED BY <3>1, <3>6 DEF r
  <2>. QED BY <1>3, <2>1, <2>3, <2>5 DEF op_swap, Does, Data, Next1, Goto
<1>. HIDE DEF x
<1>5. Broke(u + 3)' \/ At(p + 1, x, u + 3, s)'
      BY <1>1, <1>2, <1>3, <1>4, Turned
<1>. QED BY <1>5 DEF x

LEMMA JumpiAt ==
    ASSUME NEW p, NEW t, NEW u, NEW s, Turning(p, t, u, s), code[p + 1] = OP.JUMPI, 2 <= Len(t),
           FromTop(t, 2) # 0 => FromTop(t, 1) \in valid_jumpdests
    PROVE  LET q == IF FromTop(t, 2) # 0 THEN FromTop(t, 1) ELSE p + 1 IN
           Broke(u + 10)' \/ At(q, Rewrite(t, 2, <<>>), u + 10, s)'
<1>1. OP.JUMPI \in Used /\ CostOf(OP.JUMPI) = 10 /\ Needs(OP.JUMPI) = 2
      BY Prices, Arities DEF Used
<1>2. OP.JUMPI \notin {OP.MSTORE, OP.RETURN, OP.REVERT}
      BY Opcodes
<1>3. /\ opcode = OP.JUMPI /\ program_counter = p /\ execution_stack = t /\ storage = s
      /\ Len(t) \in Nat /\ IInv /\ \A i : Operand(i) = FromTop(t, i)
      BY Stood DEF Turning
<1>. DEFINE x == Rewrite(t, 2, <<>>)
            q == IF FromTop(t, 2) # 0 THEN FromTop(t, 1) ELSE p + 1
<1>4. Acts => Does(q, x, s)
  <2>1. SUFFICES ASSUME op_jump
                 PROVE  Does(q, x, s)
        BY <1>3 DEF Acts
  <2>2. Replace(2, <<>>)
        BY <1>1, <1>3, <2>1 DEF op_jump
  <2>3. execution_stack' = x
        BY <1>3, <2>2, Replaced
  <2>4. program_counter' = q
        BY <1>3, <2>1 DEF op_jump, Jumps, Next1, Goto
  <2>. QED BY <1>3, <2>1, <2>3, <2>4 DEF op_jump, Does, Data
<1>. HIDE DEF x, q
<1>5. Broke(u + 10)' \/ At(q, x, u + 10, s)'
      BY <1>1, <1>2, <1>3, <1>4, Turned
<1>. QED BY <1>5 DEF x, q

(* The word is at the start of the memory afterwards.                        *)
LEMMA MstoreAt ==
    ASSUME NEW p, NEW t, NEW u, NEW s, Turning(p, t, u, s), code[p + 1] = OP.MSTORE, 2 <= Len(t),
           FromTop(t, 1) = 0, NEW v, FromTop(t, 2) = v, Fits(0, WordBytes)
    PROVE  \/ Broke(u + 3)'
           \/ /\ At(p + 1, Rewrite(t, 2, <<>>), u + 3, s)'
              /\ Within(memory, 0, to_bytes(v, WordBytes))'
<1>1. OP.MSTORE \in Used /\ CostOf(OP.MSTORE) = 3 /\ Needs(OP.MSTORE) = 2
      BY Prices, Arities DEF Used
<1>2. OP.MSTORE \notin {OP.JUMPI, OP.RETURN, OP.REVERT, OP.MSTORE8}
      BY Opcodes
<1>3. /\ opcode = OP.MSTORE /\ program_counter = p /\ execution_stack = t /\ storage = s
      /\ Len(t) \in Nat /\ IInv /\ \A i : Operand(i) = FromTop(t, i)
      BY Stood DEF Turning
<1>4. to_bytes(v, WordBytes) \in Seq(Byte)
  <2>1. 2 \in 1..Len(t)
        BY <1>3
  <2>2. v \in Word
        BY <2>1, Stood
  <2>. QED BY <2>2, WordValues, ToBytes
<1>5. memory \in Seq(Byte)
      BY <1>3 DEF IInv, MemoryInv, Holds
<1>. DEFINE x == Rewrite(t, 2, <<>>)
<1>6. Acts => Does(p + 1, x, s) /\ Within(memory, 0, to_bytes(v, WordBytes))'
  <2>1. SUFFICES ASSUME MemoryWrite
                 PROVE  Does(p + 1, x, s) /\ Within(memory, 0, to_bytes(v, WordBytes))'
        BY <1>3 DEF Acts
  <2>2. Replace(2, <<>>) /\ Write(0, to_bytes(v, WordBytes))
        BY <1>2, <1>3, <2>1 DEF MemoryWrite
  <2>3. execution_stack' = x
        BY <1>3, <2>2, Replaced
  <2>4. Within(memory', 0, to_bytes(v, WordBytes))
        BY <1>4, <1>5, <2>2, WrittenWithin DEF Write
  <2>. QED BY <1>3, <2>1, <2>3, <2>4 DEF MemoryWrite, Does, Next1, Goto
<1>. HIDE DEF x
<1>7. Broke(u + 3)' \/ (Acts /\ At(p + 1, x, u + 3, s)')
      BY <1>1, <1>2, <1>3, <1>6, Turned
<1>. QED BY <1>6, <1>7 DEF x

-----------------------------------------------------------------------------
(* How a frame ends *)

(* It has stored s and come back with data.                                  *)
Gave(data, s) ==
    /\ stopped = TRUE /\ reverted = FALSE /\ raised = NoException
    /\ return_data = data /\ storage = s

LEMMA StopAt ==
    ASSUME NEW p, NEW t, NEW u, NEW s, Turning(p, t, u, s), code[p + 1] = OP.STOP
    PROVE  Broke(u)' \/ Gave(<<>>, s)'
<1>1. OP.STOP \in Used /\ CostOf(OP.STOP) = 0 /\ Needs(OP.STOP) = 0
      BY Prices, Arities DEF Used
<1>2. OP.STOP \notin {OP.JUMPI, OP.MSTORE, OP.RETURN, OP.REVERT}
      BY Opcodes
<1>3. /\ opcode = OP.STOP /\ storage = s /\ Len(t) \in Nat /\ u \in Nat
      BY Stood
<1>4. Broke(u + 0)' \/ Acts
      BY <1>1, <1>2, <1>3, Turns DEF Turning
<1>5. CASE Acts
  <2>1. op_stop
        BY <1>3, <1>5 DEF Acts
  <2>. QED BY <1>3, <2>1 DEF op_stop, Data, Gave, Turning, At
<1>6. CASE Broke(u + 0)'
      BY <1>3, <1>6 DEF Broke
<1>. QED BY <1>4, <1>5, <1>6

(* What RETURN and REVERT leave: the slice from offset, of size.             *)
Ended(op, offset, size, s) ==
    /\ stopped' = TRUE /\ reverted' = (op = OP.REVERT) /\ raised' = NoException
    /\ return_data' = Slice(memory, offset, size)
    /\ storage' = s

LEMMA AnswerAt ==
    ASSUME NEW p, NEW t, NEW u, NEW s, Turning(p, t, u, s),
           NEW op \in {OP.RETURN, OP.REVERT}, code[p + 1] = op, 2 <= Len(t),
           Fits(FromTop(t, 1), FromTop(t, 2))
    PROVE  Broke(u)' \/ Ended(op, FromTop(t, 1), FromTop(t, 2), s)
<1>1. op \in Used /\ CostOf(op) = 0 /\ Needs(op) = 2
      BY Prices, Arities DEF Used
<1>2. op \notin {OP.JUMPI, OP.MSTORE}
  <2>1. /\ OP.JUMPI = 87 /\ OP.MSTORE = 82 /\ OP.RETURN = 243 /\ OP.REVERT = 253
        BY Opcodes
  <2>. QED BY <2>1
<1>3. /\ opcode = op /\ storage = s /\ Len(t) \in Nat /\ u \in Nat
      /\ \A i : Operand(i) = FromTop(t, i)
      BY Stood
<1>4. FromTop(t, 1) = t[Len(t)] /\ FromTop(t, 2) = t[Len(t) - 1]
  <2>1. Len(t) - 1 + 1 = Len(t) /\ Len(t) - 2 + 1 = Len(t) - 1
        BY <1>3
  <2>. QED BY <2>1 DEF FromTop
<1>5. Broke(u + 0)' \/ Acts
      BY <1>1, <1>2, <1>3, <1>4, Turns DEF Turning
<1>6. CASE Acts
  <2>1. Answer
        BY <1>3, <1>6 DEF Acts
  <2>. QED BY <1>3, <2>1 DEF Answer, Turning, At, Ended
<1>7. CASE Broke(u + 0)'
      BY <1>3, <1>7 DEF Broke
<1>. QED BY <1>5, <1>6, <1>7

GaveSlice(offset, size, s) ==
    /\ stopped' = TRUE /\ reverted' = FALSE /\ raised' = NoException
    /\ return_data' = Slice(memory, offset, size) /\ storage' = s

LEMMA ReturnAt ==
    ASSUME NEW p, NEW t, NEW u, NEW s, Turning(p, t, u, s), code[p + 1] = OP.RETURN, 2 <= Len(t),
           NEW x, NEW y, FromTop(t, 1) = x, FromTop(t, 2) = y, Fits(x, y)
    PROVE  Broke(u)' \/ GaveSlice(x, y, s)
<1>1. PICK op \in {OP.RETURN, OP.REVERT} : op = OP.RETURN
      OBVIOUS
<1>2. op # OP.REVERT
      BY <1>1, Opcodes
<1>3. Broke(u)' \/ Ended(op, FromTop(t, 1), FromTop(t, 2), s)
      BY <1>1, AnswerAt
<1>. QED BY <1>2, <1>3 DEF GaveSlice, Ended

(* It has been refused by the code.                                          *)
Reverted == stopped = TRUE /\ reverted = TRUE /\ raised = NoException

LEMMA RevertAt ==
    ASSUME NEW p, NEW t, NEW u, NEW s, Turning(p, t, u, s), code[p + 1] = OP.REVERT, 2 <= Len(t),
           FromTop(t, 1) = 0, FromTop(t, 2) = 0
    PROVE  Broke(u)' \/ Reverted'
<1>1. PICK op \in {OP.RETURN, OP.REVERT} : op = OP.REVERT
      OBVIOUS
<1>2. Fits(0, 0)
      BY WidthAssumption DEF Fits, Reach
<1>3. Broke(u)' \/ Ended(op, FromTop(t, 1), FromTop(t, 2), s)
      BY <1>1, <1>2, AnswerAt
<1>. QED BY <1>1, <1>3 DEF Reverted, Ended

-----------------------------------------------------------------------------
(* Bytes and the numbers they stand for *)

(* The values of the beginnings of s.                                        *)
Reads(s, f) ==
    /\ f[0] = 0 /\ from_bytes(s) = f[Len(s)]
    /\ \A i \in Nat : i < Len(s) => f[i + 1] = f[i] * 256 + s[i + 1]
    /\ \A i \in Nat : f[i] \in Nat /\ f[i] < BytePower[i]

LEMMA Readable ==
    ASSUME NEW s \in Seq(Byte)
    PROVE  \E f : Reads(s, f)
<1>. DEFINE digit == [n \in Nat |-> ByteAt(s, n)]
            upto == CHOOSE f : f = [n \in Nat |->
                                      IF n = 0 THEN 0 ELSE f[n - 1] * 256 + ByteAt(s, n - 1)]
<1>1. /\ Len(s) \in Nat
      /\ \A n \in Nat : ByteAt(s, n) \in Nat /\ ByteAt(s, n) <= 255
      /\ \A n \in Nat : n < Len(s) => ByteAt(s, n) = s[n + 1]
  <2>1. \A n \in Nat : n < Len(s) => s[n + 1] \in Byte /\ ByteAt(s, n) = s[n + 1]
        BY DEF ByteAt
  <2>2. \A n \in Nat : ~(n < Len(s)) => ByteAt(s, n) = 0
        BY DEF ByteAt
  <2>3. \A b \in Byte : b \in Nat /\ b <= 255
        BY DEF Byte
  <2>. QED BY <2>1, <2>2, <2>3
<1>2. digit \in [Nat -> Nat] /\ \A n \in Nat : digit[n] <= 255
      BY <1>1
<1>3. ASSUME NEW f
      PROVE  Numeral(digit, f)
               <=> f = [n \in Nat |-> IF n = 0 THEN 0 ELSE f[n - 1] * 256 + ByteAt(s, n - 1)]
  <2>1. \A n \in Nat : n # 0 => digit[n - 1] = ByteAt(s, n - 1)
        OBVIOUS
  <2>2. [n \in Nat |-> IF n = 0 THEN 0 ELSE f[n - 1] * 256 + digit[n - 1]]
          = [n \in Nat |-> IF n = 0 THEN 0 ELSE f[n - 1] * 256 + ByteAt(s, n - 1)]
    <3>. HIDE DEF digit
    <3>. QED BY <2>1
  <2>. HIDE DEF digit
  <2>. QED BY <2>2 DEF Numeral
<1>4. from_bytes(s) = upto[Len(s)]
      BY DEF from_bytes
<1>. HIDE DEF digit
<1>5. PICK f : Numeral(digit, f)
      BY <1>2, NumeralExists
<1>6. upto = [n \in Nat |-> IF n = 0 THEN 0 ELSE upto[n - 1] * 256 + ByteAt(s, n - 1)]
      BY <1>3, <1>5
<1>. HIDE DEF upto
<1>7. \A n \in Nat : upto[n] \in 0..(BytePower[n] - 1)
  <2>1. Numeral(digit, upto)
        BY <1>3, <1>6
  <2>. QED BY <1>2, <2>1, NumeralBound
<1>8. upto[0] = 0 /\ \A i \in Nat : upto[i + 1] = upto[i] * 256 + ByteAt(s, i)
  <2>1. \A n \in Nat : n + 1 \in Nat /\ n + 1 # 0 /\ (n + 1) - 1 = n
        OBVIOUS
  <2>. QED BY <1>6, <2>1
<1>9. \A n \in Nat : BytePower[n] \in Nat
      BY BytePowers
<1>10. \A n \in Nat : upto[n] \in Nat /\ upto[n] < BytePower[n]
       BY <1>7, <1>9
<1>11. \A i \in Nat : i < Len(s) => upto[i + 1] = upto[i] * 256 + s[i + 1]
       BY <1>1, <1>8, ZenonT(30)
<1>12. Reads(s, upto)
       BY <1>4, <1>8, <1>10, <1>11 DEF Reads
<1>. QED BY <1>12

(* Strings of one length stand for different numbers.                        *)
LEMMA ReadsApart ==
    ASSUME NEW s \in Seq(Byte), NEW t \in Seq(Byte), Len(s) = Len(t), from_bytes(s) = from_bytes(t)
    PROVE  s = t
<1>1. PICK f : Reads(s, f)
      BY Readable
<1>2. PICK g : Reads(t, g)
      BY Readable
<1>. DEFINE n == Len(s)
            P == {k \in Nat : k <= n /\ f[k] = g[k] => \A i \in 1..k : s[i] = t[i]}
<1>3. n \in Nat /\ \A i \in 1..n : s[i] \in 0..255 /\ t[i] \in 0..255
  <2>1. n \in Nat /\ \A i \in 1..n : s[i] \in Byte /\ t[i] \in Byte
        OBVIOUS
  <2>. QED BY <2>1 DEF Byte
<1>4. 0 \in P
      OBVIOUS
<1>5. ASSUME NEW k \in Nat, k \in P
      PROVE  k + 1 \in P
  <2>1. SUFFICES ASSUME k + 1 <= n, f[k + 1] = g[k + 1]
                 PROVE  \A i \in 1..(k + 1) : s[i] = t[i]
        OBVIOUS
  <2>2. /\ f[k + 1] = f[k] * 256 + s[k + 1] /\ g[k + 1] = g[k] * 256 + t[k + 1]
        /\ f[k] \in Nat /\ g[k] \in Nat
    <3>1. k < Len(s) /\ k < Len(t)
          BY <1>3, <2>1
    <3>. QED BY <1>1, <1>2, <3>1 DEF Reads
  <2>3. s[k + 1] \in 0..255 /\ t[k + 1] \in 0..255
        BY <1>3, <2>1
  <2>4. f[k] = g[k] /\ s[k + 1] = t[k + 1]
    <3>1. f[k] * 256 + s[k + 1] = g[k] * 256 + t[k + 1]
          BY <2>1, <2>2
    <3>2. f[k] \in Nat /\ g[k] \in Nat
          BY <2>2
    <3>. DEFINE x == f[k]
                y == g[k]
                a == s[k + 1]
                b == t[k + 1]
    <3>3. x \in Nat /\ y \in Nat /\ a \in 0..255 /\ b \in 0..255 /\ x * 256 + a = y * 256 + b
          BY <2>3, <3>1, <3>2
    <3>. HIDE DEF x, y, a, b
    <3>4. x = y /\ a = b
          BY <3>3
    <3>. QED BY <3>4 DEF x, y, a, b
  <2>5. \A i \in 1..k : s[i] = t[i]
        BY <1>3, <1>5, <2>1, <2>4
  <2>6. \A i \in 1..(k + 1) : i \in 1..k \/ i = k + 1
        OBVIOUS
  <2>. QED BY <2>4, <2>5, <2>6
<1>6. n \in P
  <2>. HIDE DEF P
  <2>. QED BY <1>3, <1>4, <1>5, Induction
<1>7. f[n] = g[n]
      BY <1>1, <1>2 DEF Reads
<1>8. \A i \in 1..n : s[i] = t[i]
      BY <1>3, <1>6, <1>7
<1>. QED BY <1>8

(* A quotient is what it is between.                                         *)
LEMMA QuotientIs ==
    ASSUME NEW x \in Nat, NEW b \in Nat, b >= 1, NEW q \in Nat, NEW r \in Nat, r < b, x = q * b + r
    PROVE  x \div b = q
OBVIOUS

(* A word that begins with head stands for head's number and a rest.         *)
LEMMA HeadOf ==
    ASSUME NEW s \in Seq(Byte), NEW head \in Seq(Byte), Len(head) <= Len(s),
           \A i \in 1..Len(head) : s[i] = head[i],
           NEW f, Reads(s, f)
    PROVE  /\ f[Len(head)] = from_bytes(head)
           /\ from_bytes(s) \div BytePower[Len(s) - Len(head)] = from_bytes(head)
<1>1. PICK g : Reads(head, g)
      BY Readable
<1>2. PICK m, n \in Nat : m = Len(head) /\ n = Len(s) - m
  <2>1. Len(s) \in Nat /\ Len(head) \in Nat
        OBVIOUS
  <2>. QED BY <2>1
<1>3. Len(s) = m + n /\ Len(head) = m
      BY <1>2
<1>4. \A i \in Nat : i < m => s[i + 1] = head[i + 1] /\ s[i + 1] \in 0..255
  <2>1. \A i \in 1..m : s[i] = head[i] /\ s[i] \in Byte
        BY <1>3
  <2>. QED BY <2>1 DEF Byte
<1>5. /\ f[0] = 0 /\ g[0] = 0 /\ from_bytes(s) = f[m + n] /\ from_bytes(head) = g[m]
      /\ \A i \in Nat : i < m + n => f[i + 1] = f[i] * 256 + s[i + 1]
      /\ \A i \in Nat : i < m => g[i + 1] = g[i] * 256 + head[i + 1]
      /\ \A i \in Nat : f[i] \in Nat
      BY <1>1, <1>3 DEF Reads
<1>. DEFINE P == {i \in Nat : i <= m => f[i] = g[i]}
<1>6. 0 \in P
      BY <1>5
<1>7. ASSUME NEW i \in Nat, i \in P
      PROVE  i + 1 \in P
  <2>1. SUFFICES ASSUME i + 1 <= m PROVE f[i + 1] = g[i + 1]
        OBVIOUS
  <2>2. i < m /\ i < m + n /\ i <= m
        BY <2>1
  <2>3. f[i] = g[i]
        BY <1>7, <2>2
  <2>. QED BY <1>4, <1>5, <2>2, <2>3
<1>8. f[m] = g[m]
  <2>. HIDE DEF P
  <2>1. m \in P
        BY <1>6, <1>7, Induction
  <2>. QED BY <2>1 DEF P
<1>. DEFINE Q == {j \in Nat : j <= n => \E r \in Nat : r < BytePower[j] /\ f[m + j] = f[m] * BytePower[j] + r}
<1>9. 0 \in Q
  <2>1. BytePower[0] = 1 /\ m + 0 = m
        BY BytePowers
  <2>2. PICK x \in Nat : x = f[m]
        BY <1>5
  <2>3. x = x * 1 + 0 /\ 0 < 1 /\ 0 \in Nat
        OBVIOUS
  <2>4. \E r \in Nat : r < BytePower[0] /\ f[m + 0] = f[m] * BytePower[0] + r
        BY <2>1, <2>2, <2>3
  <2>. QED BY <2>4
<1>10. ASSUME NEW j \in Nat, j \in Q
       PROVE  j + 1 \in Q
  <2>1. SUFFICES ASSUME j + 1 <= n
                 PROVE  \E r \in Nat : r < BytePower[j + 1] /\ f[m + (j + 1)] = f[m] * BytePower[j + 1] + r
        OBVIOUS
  <2>2. PICK r \in Nat : r < BytePower[j] /\ f[m + j] = f[m] * BytePower[j] + r
        BY <1>10, <2>1
  <2>3. PICK b \in 0..255 : b = s[m + j + 1]
    <3>1. m + j + 1 \in 1..Len(s)
          BY <1>3, <2>1
    <3>2. s[m + j + 1] \in Byte
          BY <3>1
    <3>. QED BY <3>2 DEF Byte
  <2>4. f[m + j + 1] = f[m + j] * 256 + b
    <3>1. m + j \in Nat /\ m + j < m + n
          BY <2>1
    <3>. QED BY <1>5, <2>3, <3>1
  <2>5. PICK x, y, p \in Nat : x = f[m] /\ p = BytePower[j] /\ y = x * p
    <3>1. f[m] \in Nat /\ BytePower[j] \in Nat
          BY <1>5, BytePowers
    <3>2. f[m] * BytePower[j] \in Nat
          BY <3>1
    <3>. QED BY <3>1, <3>2
  <2>6. BytePower[j + 1] = 256 * p
        BY <2>5, BytePowers
  <2>7. f[m + j + 1] = (y + r) * 256 + b
        BY <2>2, <2>4, <2>5
  <2>8. x * (256 * p) = 256 * y
        BY <2>5
  <2>9. (y + r) * 256 + b = 256 * y + (256 * r + b) /\ 256 * r + b < 256 * p /\ 256 * r + b \in Nat
    <3>1. r < p
          BY <2>2, <2>5
    <3>. QED BY <3>1
  <2>10. m + (j + 1) = m + j + 1
         OBVIOUS
  <2>. QED BY <2>5, <2>6, <2>7, <2>8, <2>9, <2>10, SMTT(30)
<1>11. n \in Q
  <2>. HIDE DEF Q
  <2>. QED BY <1>9, <1>10, Induction
<1>12. PICK r \in Nat : r < BytePower[n] /\ f[m + n] = f[m] * BytePower[n] + r
       BY <1>11
<1>13. from_bytes(s) \div BytePower[n] = f[m]
  <2>1. BytePower[n] \in Nat /\ BytePower[n] >= 1 /\ f[m] \in Nat
        BY <1>5, BytePowers
  <2>2. PICK b, q \in Nat : b = BytePower[n] /\ q = f[m]
        BY <2>1
  <2>3. from_bytes(s) = q * b + r /\ r < b /\ b >= 1
        BY <1>5, <1>12, <2>1, <2>2
  <2>4. from_bytes(s) \in Nat
        BY <2>3
  <2>5. from_bytes(s) \div b = q
        BY <2>3, <2>4, QuotientIs
  <2>. QED BY <2>2, <2>5
<1>. QED BY <1>2, <1>3, <1>5, <1>8, <1>13

(* What the dispatcher divides by.                                           *)
LEMMA DivisorIs == from_bytes(Divisor) = BytePower[WordBytes - SelectorBytes]
<1>1. /\ WordBytes \in Nat /\ SelectorBytes \in Nat /\ SelectorBytes >= 1
      /\ SelectorBytes <= WordBytes
      BY WidthAssumption, SelectorAssumption
<1>2. PICK w, k \in Nat : w = WordBytes /\ k = SelectorBytes /\ 1 <= k /\ k <= w
      BY <1>1
<1>3. Divisor = [i \in 1..w |-> IF i = k THEN 1 ELSE 0]
      BY <1>2 DEF Divisor
<1>4. Divisor \in Seq(Byte) /\ Len(Divisor) = w
  <2>1. \A i \in 1..w : Divisor[i] \in Byte
        BY <1>3 DEF Byte
  <2>. QED BY <1>3, <2>1
<1>5. PICK f : Reads(Divisor, f)
      BY <1>4, Readable
<1>6. /\ f[0] = 0 /\ from_bytes(Divisor) = f[w]
      /\ \A i \in Nat : i < w => f[i + 1] = f[i] * 256 + (IF i + 1 = k THEN 1 ELSE 0)
  <2>1. \A i \in Nat : i < w => Divisor[i + 1] = IF i + 1 = k THEN 1 ELSE 0
        BY <1>3
  <2>. QED BY <1>4, <1>5, <2>1 DEF Reads
<1>. DEFINE P == {i \in Nat : i < k => f[i] = 0}
            Q == {j \in Nat : k + j <= w => f[k + j] = BytePower[j]}
<1>7. k - 1 \in P
  <2>1. 0 \in P
        BY <1>6
  <2>2. ASSUME NEW i \in Nat, i \in P
        PROVE  i + 1 \in P
    <3>1. SUFFICES ASSUME i + 1 < k PROVE f[i + 1] = 0
          OBVIOUS
    <3>2. f[i] = 0 /\ i < w /\ i + 1 # k
          BY <1>2, <2>2, <3>1
    <3>. QED BY <1>6, <3>2
  <2>3. k - 1 \in Nat
        BY <1>2
  <2>. HIDE DEF P
  <2>. QED BY <2>1, <2>2, <2>3, Induction
<1>8. f[k] = 1
  <2>1. k - 1 \in Nat /\ k - 1 < k /\ k - 1 < w /\ k - 1 + 1 = k
        BY <1>2
  <2>2. f[k - 1] = 0
        BY <1>7, <2>1
  <2>. QED BY <1>6, <2>1, <2>2
<1>9. w - k \in Q
  <2>1. 0 \in Q
    <3>1. k + 0 = k /\ BytePower[0] = 1
          BY BytePowers
    <3>. QED BY <1>8, <3>1
  <2>2. ASSUME NEW j \in Nat, j \in Q
        PROVE  j + 1 \in Q
    <3>1. SUFFICES ASSUME k + (j + 1) <= w PROVE f[k + (j + 1)] = BytePower[j + 1]
          OBVIOUS
    <3>2. k + j \in Nat /\ k + j < w /\ k + j + 1 # k /\ k + (j + 1) = k + j + 1
          BY <3>1
    <3>3. f[k + j] = BytePower[j]
          BY <2>2, <3>2
    <3>4. f[k + j + 1] = f[k + j] * 256 + 0
          BY <1>6, <3>2
    <3>5. BytePower[j] \in Nat /\ BytePower[j + 1] = 256 * BytePower[j]
          BY BytePowers
    <3>. QED BY <3>2, <3>3, <3>4, <3>5
  <2>3. w - k \in Nat
        BY <1>2
  <2>. HIDE DEF Q
  <2>. QED BY <2>1, <2>2, <2>3, Induction
<1>10. f[w] = BytePower[w - k]
  <2>1. w - k \in Nat /\ k + (w - k) = w
        BY <1>2
  <2>. QED BY <1>9, <2>1
<1>. QED BY <1>2, <1>6, <1>10

LEMMA QuotientTwice ==
    ASSUME NEW v \in Nat, NEW b \in Nat, b >= 1
    PROVE  v \div (256 * b) = (v \div b) \div 256
<1>1. PICK q, r \in Nat : q = v \div b /\ v = q * b + r /\ r < b
  <2>1. v \div b \in Nat /\ v % b \in Nat /\ v = b * (v \div b) + (v % b) /\ v % b < b
        OBVIOUS
  <2>. QED BY <2>1
<1>2. PICK a \in Nat, d \in 0..255 : q = 256 * a + d
  <2>1. q \div 256 \in Nat /\ q % 256 \in 0..255 /\ q = 256 * (q \div 256) + (q % 256)
        OBVIOUS
  <2>. QED BY <2>1
<1>3. d * b \in Nat /\ d * b <= 255 * b
      OBVIOUS
<1>4. q * b = a * (256 * b) + d * b
      BY <1>2
<1>5. v = a * (256 * b) + (d * b + r) /\ d * b + r \in Nat /\ d * b + r < 256 * b
      BY <1>1, <1>3, <1>4
<1>6. v \div (256 * b) = a
  <2>1. PICK x, y \in Nat : x = 256 * b /\ y = d * b + r
        BY <1>5
  <2>2. x >= 1 /\ y < x /\ v = a * x + y
        BY <1>5, <2>1
  <2>3. v \div x = a
        BY <2>2, QuotientIs
  <2>. QED BY <2>1, <2>3
<1>7. q \div 256 = a
      BY <1>2
<1>. QED BY <1>1, <1>6, <1>7

(* What a word's bytes stand for is the word.                                *)
LEMMA WordBack ==
    ASSUME NEW v \in Word
    PROVE  from_bytes(to_bytes(v, WordBytes)) = v
<1>1. PICK w \in Nat : w = WordBytes
      BY WordValues
<1>2. v \in Nat /\ v < BytePower[w]
  <2>1. v \in 0..(BytePower[w] - 1)
        BY <1>1 DEF Word, MOD_VALUE
  <2>2. BytePower[w] \in Nat
        BY BytePowers
  <2>. QED BY <2>1, <2>2
<1>3. PICK s : s = to_bytes(v, w)
      OBVIOUS
<1>4. s \in Seq(Byte) /\ Len(s) = w
      BY <1>2, <1>3, ToBytes
<1>5. \A i \in 1..w : s[i] = (v \div BytePower[w - i]) % 256
      BY <1>3 DEF to_bytes
<1>6. PICK f : Reads(s, f)
      BY <1>4, Readable
<1>7. /\ f[0] = 0 /\ from_bytes(s) = f[w]
      /\ \A i \in Nat : i < w => f[i + 1] = f[i] * 256 + s[i + 1]
      BY <1>4, <1>6 DEF Reads
<1>. DEFINE P == {i \in Nat : i <= w => f[i] = v \div BytePower[w - i]}
<1>8. 0 \in P
  <2>1. PICK b \in Nat : b = BytePower[w] /\ b >= 1 /\ v < b
        BY <1>2, BytePowers
  <2>2. v = 0 * b + v
        BY <1>2, <2>1
  <2>3. v \div b = 0
        BY <1>2, <2>1, <2>2, QuotientIs
  <2>4. w - 0 = w
        OBVIOUS
  <2>. QED BY <1>7, <2>1, <2>3, <2>4
<1>9. ASSUME NEW i \in Nat, i \in P
      PROVE  i + 1 \in P
  <2>1. SUFFICES ASSUME i + 1 <= w PROVE f[i + 1] = v \div BytePower[w - (i + 1)]
        OBVIOUS
  <2>2. PICK j \in Nat : j = w - (i + 1) /\ w - i = j + 1
        BY <2>1
  <2>3. PICK b \in Nat : b = BytePower[j] /\ b >= 1 /\ BytePower[w - i] = 256 * b
        BY <2>2, BytePowers
  <2>4. f[i] = (v \div b) \div 256
    <3>1. f[i] = v \div (256 * b)
          BY <1>9, <2>1, <2>3
    <3>. QED BY <1>2, <2>3, <3>1, QuotientTwice
  <2>5. s[i + 1] = (v \div b) % 256
    <3>1. i + 1 \in 1..w
          BY <2>1
    <3>. QED BY <1>5, <2>2, <2>3, <3>1
  <2>6. f[i + 1] = f[i] * 256 + s[i + 1]
        BY <1>7, <2>1
  <2>7. PICK q \in Nat : q = v \div b
    <3>1. v \div b \in Nat
          BY <1>2, <2>3
    <3>. QED BY <3>1
  <2>8. (q \div 256) * 256 + (q % 256) = q
        OBVIOUS
  <2>. QED BY <2>2, <2>3, <2>4, <2>5, <2>6, <2>7, <2>8
<1>10. f[w] = v \div BytePower[w - w]
  <2>1. w \in P
    <3>. HIDE DEF P
    <3>. QED BY <1>8, <1>9, Induction
  <2>. QED BY <2>1
<1>11. w - w = 0 /\ BytePower[0] = 1 /\ v \div 1 = v
       BY <1>2, BytePowers
<1>. QED BY <1>1, <1>3, <1>7, <1>10, <1>11

(* What a client's call begins with tells the function.                      *)
LEMMA SelectorsApart ==
    ASSUME NEW name1 \in DOMAIN Selector, NEW name2 \in DOMAIN Selector
    PROVE  /\ Selector[name1] \in Seq(Byte) /\ Len(Selector[name1]) = SelectorBytes
           /\ from_bytes(Selector[name1]) = from_bytes(Selector[name2]) => name1 = name2
BY SelectorAssumption, PromiseAssumption, ReadsApart

LEMMA SlicedWithin ==
    ASSUME NEW c \in Seq(Byte), NEW k \in Nat, NEW s \in Seq(Byte), Within(c, k, s)
    PROVE  Slice(c, k, Len(s)) = s
<1>1. PICK n \in Nat : n = Len(s) /\ k + n <= Len(c) /\ \A i \in 1..n : c[k + i] = s[i]
  <2>1. Len(s) \in Nat
        OBVIOUS
  <2>. QED BY <2>1 DEF Within
<1>2. ASSUME NEW i \in 1..n
      PROVE  ByteAt(c, k + i - 1) = s[i]
  <2>1. k + i - 1 \in Nat /\ k + i - 1 < Len(c) /\ (k + i - 1) + 1 = k + i
        BY <1>1
  <2>. QED BY <1>1, <2>1 DEF ByteAt
<1>3. s = [i \in 1..n |-> s[i]]
      BY <1>1
<1>. QED BY <1>1, <1>2, <1>3 DEF Slice

LEMMA Followed ==
    ASSUME NEW a \in Seq(Byte), NEW b \in Seq(Byte)
    PROVE  /\ a \o b \in Seq(Byte) /\ Len(a \o b) = Len(a) + Len(b)
           /\ \A i \in 1..Len(a) : (a \o b)[i] = a[i]
<1>1. Len(a) \in Nat /\ Len(b) \in Nat
      OBVIOUS
<1>2. /\ a \o b \in Seq(Byte) /\ Len(a \o b) = Len(a) + Len(b)
      /\ \A i \in 1..(Len(a) + Len(b)) : (a \o b)[i] = IF i <= Len(a) THEN a[i] ELSE b[i - Len(a)]
      BY ConcatProperties
<1>. QED BY <1>1, <1>2

(* What the contracts read of a call.                                        *)
Operation(r) == from_bytes(Selector[r.op])

Argument(data, offset) == from_bytes(Slice(data, offset, WordBytes))

LEMMA Calldata ==
    ASSUME NEW r \in TokenRequests \cup CounterRequests, NEW data, data = encode(r)
    PROVE  /\ r.op \in DOMAIN Selector /\ data \in Seq(Byte)
           /\ Argument(data, 0) \div BytePower[WordBytes - SelectorBytes] = Operation(r)
           /\ r.op = "transfer" => /\ Argument(data, SelectorBytes) = r.to
                                   /\ Argument(data, SelectorBytes + WordBytes) = r.amount
           /\ r.op = "balanceOf" => Argument(data, SelectorBytes) = r.of
<1>. DEFINE W == WordBytes
            S == SelectorBytes
            words(s, n) == s \in Seq(Byte) /\ Len(s) = n
<1>1. W \in Nat /\ W >= 1 /\ S \in Nat /\ S >= 1 /\ S <= W
      BY WidthAssumption, SelectorAssumption
<1>2. /\ r.op \in {"transfer", "balanceOf", "increment", "getCount", "unknown"}
      /\ r.op = "transfer" => r.to \in Word /\ r.amount \in Word
      /\ r.op = "balanceOf" => r.of \in Word
      BY ClientAssumption DEF TokenRequests, CounterRequests, Asked
<1>3. r.op \in DOMAIN Selector /\ words(Selector[r.op], S)
      BY <1>2, SelectorAssumption
<1>4. ASSUME NEW v \in Word
      PROVE  words(encode_uint256(v), W) /\ from_bytes(encode_uint256(v)) = v
  <2>1. v \in Nat /\ W \in Nat
        BY WordValues
  <2>. QED BY <2>1, ToBytes, WordBack DEF encode_uint256
<1>5. data \in Seq(Byte) /\ S <= Len(data) /\ \A i \in 1..S : data[i] = Selector[r.op][i]
  <2>1. data \in Seq(Byte)
        BY EncodedBytes
  <2>2. CASE r.op = "transfer"
    <3>1. encode(r) = Selector.transfer \o encode_uint256(r.to) \o encode_uint256(r.amount)
          BY <2>2 DEF encode
    <3>2. PICK a, b, d : /\ a = Selector.transfer /\ words(a, S) /\ words(b, W) /\ words(d, W)
                         /\ encode(r) = a \o b \o d
          BY <1>2, <1>3, <1>4, <2>2, <3>1
    <3>3. words(a \o b, S + W) /\ \A i \in 1..S : (a \o b)[i] = a[i]
      <4>1. words(a, S) /\ words(b, W)
            BY <3>2
      <4>. QED BY <4>1, Followed
    <3>4. PICK e : e = a \o b /\ words(e, S + W)
          BY <3>3
    <3>5. Len(e \o d) = S + W + W /\ \A i \in 1..(S + W) : (e \o d)[i] = e[i]
      <4>1. words(e, S + W) /\ words(d, W)
            BY <3>2, <3>4
      <4>. QED BY <4>1, Followed
    <3>. QED BY <1>1, <2>1, <2>2, <3>2, <3>3, <3>4, <3>5
  <2>3. CASE r.op = "balanceOf"
    <3>1. encode(r) = Selector.balanceOf \o encode_uint256(r.of)
          BY <2>3 DEF encode
    <3>2. PICK a, b : a = Selector.balanceOf /\ words(a, S) /\ words(b, W) /\ encode(r) = a \o b
          BY <1>2, <1>3, <1>4, <2>3, <3>1
    <3>3. words(a \o b, S + W) /\ \A i \in 1..S : (a \o b)[i] = a[i]
          BY <3>2, Followed
    <3>. QED BY <1>1, <2>1, <2>3, <3>2, <3>3
  <2>4. CASE r.op \in {"increment", "getCount", "unknown"}
    <3>1. encode(r) = Selector[r.op]
          BY <2>4 DEF encode
    <3>. QED BY <1>1, <1>3, <2>1, <3>1
  <2>. QED BY <1>2, <2>2, <2>3, <2>4
<1>6. Argument(data, 0) \div BytePower[W - S] = Operation(r)
  <2>1. PICK s : s = Slice(data, 0, W)
        OBVIOUS
  <2>2. s \in Seq(Byte) /\ Len(s) = W
        BY <1>1, <1>5, <2>1, SliceType
  <2>3. ASSUME NEW i \in 1..S
        PROVE  s[i] = Selector[r.op][i]
    <3>1. i \in 1..W /\ 0 + i - 1 = i - 1 /\ i - 1 < Len(data) /\ (i - 1) + 1 = i
          BY <1>1, <1>5
    <3>2. s[i] = ByteAt(data, i - 1)
          BY <2>1, <3>1 DEF Slice
    <3>. QED BY <1>5, <3>1, <3>2 DEF ByteAt
  <2>4. PICK f : Reads(s, f)
        BY <2>2, Readable
  <2>5. PICK head : head = Selector[r.op] /\ head \in Seq(Byte) /\ Len(head) = S
        BY <1>3
  <2>6. from_bytes(s) \div BytePower[Len(s) - Len(head)] = from_bytes(head)
        BY <1>1, <2>2, <2>3, <2>4, <2>5, HeadOf
  <2>. QED BY <2>1, <2>2, <2>5, <2>6 DEF Argument, Operation
<1>7. ASSUME NEW k \in Nat, NEW v \in Word, Within(data, k, encode_uint256(v))
      PROVE  Argument(data, k) = v
  <2>1. Slice(data, k, W) = encode_uint256(v)
        BY <1>4, <1>5, <1>7, SlicedWithin
  <2>. QED BY <1>4, <2>1 DEF Argument
<1>8. ASSUME r.op = "transfer"
      PROVE  Argument(data, S) = r.to /\ Argument(data, S + W) = r.amount
  <2>1. PICK a, b, d : /\ words(a, S) /\ words(b, W) /\ words(d, W)
                       /\ b = encode_uint256(r.to) /\ d = encode_uint256(r.amount)
                       /\ encode(r) = a \o b \o d
    <3>1. encode(r) = Selector.transfer \o encode_uint256(r.to) \o encode_uint256(r.amount)
          BY <1>8 DEF encode
    <3>. QED BY <1>2, <1>3, <1>4, <1>8, <3>1
  <2>2. words(a \o b, S + W)
    <3>1. words(a, S) /\ words(b, W)
          BY <2>1
    <3>. QED BY <3>1, Followed
  <2>3. Within(data, 0, (a \o b) \o d)
        BY <1>5, <2>1, WithinSelf
  <2>4. Within(data, 0, a \o b) /\ Within(data, 0 + Len(a \o b), d)
        BY <1>5, <2>1, <2>2, <2>3, SplitWithin
  <2>5. Within(data, 0 + Len(a), b)
        BY <1>5, <2>1, <2>4, SplitWithin
  <2>6. 0 + Len(a) = S /\ 0 + Len(a \o b) = S + W /\ S + W \in Nat
        BY <1>1, <2>1, <2>2
  <2>. HIDE DEF W, S
  <2>. QED BY <1>1, <1>2, <1>7, <1>8, <2>1, <2>4, <2>5, <2>6
<1>9. ASSUME r.op = "balanceOf"
      PROVE  Argument(data, S) = r.of
  <2>1. PICK a, b : /\ words(a, S) /\ words(b, W) /\ b = encode_uint256(r.of)
                    /\ encode(r) = a \o b
    <3>1. encode(r) = Selector.balanceOf \o encode_uint256(r.of)
          BY <1>9 DEF encode
    <3>. QED BY <1>2, <1>3, <1>4, <1>9, <3>1
  <2>2. Within(data, 0, a \o b)
        BY <1>5, <2>1, WithinSelf
  <2>3. Within(data, 0 + Len(a), b)
        BY <1>5, <2>1, <2>2, SplitWithin
  <2>4. 0 + Len(a) = S
        BY <1>1, <2>1
  <2>. QED BY <1>1, <1>2, <1>7, <1>9, <2>1, <2>3, <2>4
<1>. QED BY <1>3, <1>5, <1>6, <1>8, <1>9

-----------------------------------------------------------------------------
(* The pushes of the contracts *)
LEMMA ImmediateByte ==
    ASSUME NEW c \in Seq(Byte), NEW k \in Nat, NEW byte \in Byte, Within(c, k, PUSH1(byte))
    PROVE  c[k + 1] = 95 + 1 /\ from_bytes(Slice(c, k + 1, 1)) = byte
<1>1. PUSH1(byte) = <<96, byte>>
      BY Opcodes DEF PUSH1
<1>2. k + 2 <= Len(c) /\ c[k + 1] = 96 /\ c[k + 2] = byte
  <2>1. Len(<<96, byte>>) = 2 /\ <<96, byte>>[1] = 96 /\ <<96, byte>>[2] = byte
        OBVIOUS
  <2>. QED BY <1>1, <2>1 DEF Within
<1>3. k + 1 \in Nat /\ k + 1 < Len(c) /\ (k + 1) + 1 = k + 2
      BY <1>2
<1>. QED BY <1>2, <1>3, OneByte

LEMMA ImmediateBytes ==
    ASSUME NEW c \in Seq(Byte), NEW k \in Nat, NEW bytes \in Seq(Byte),
           Len(bytes) \in 1..WordBytes, Within(c, k, PUSHn(bytes))
    PROVE  c[k + 1] = 95 + Len(bytes) /\ Slice(c, k + 1, Len(bytes)) = bytes
<1>1. c[k + 1] = 95 + Len(bytes)
      BY BytesPushed
<1>2. OP.PUSH1 + Len(bytes) - 1 = 95 + Len(bytes) /\ 95 + Len(bytes) \in Byte
  <2>1. PICK n \in Nat : n = Len(bytes) /\ n <= 32
    <3>1. WordBytes \in Int /\ WordBytes <= 32
          BY WidthAssumption
    <3>. QED BY <3>1
  <2>2. OP.PUSH1 = 96
        BY Opcodes
  <2>3. \A m \in Nat : m <= 32 => 96 + m - 1 = 95 + m /\ 95 + m \in 0..255
        OBVIOUS
  <2>. QED BY <2>1, <2>2, <2>3 DEF Byte
<1>3. PICK op \in Byte : op = 95 + Len(bytes)
      BY <1>2
<1>4. <<op>> \in Seq(Byte) /\ Len(<<op>>) = 1 /\ PUSHn(bytes) = <<op>> \o bytes
      BY <1>2, <1>3 DEF PUSHn
<1>5. Within(c, k + 1, bytes)
  <2>1. Within(c, k, <<op>> \o bytes)
        BY <1>4
  <2>2. Within(c, k + Len(<<op>>), bytes)
        BY <1>4, <2>1, SplitWithin
  <2>. QED BY <1>4, <2>2
<1>6. Slice(c, k + 1, Len(bytes)) = bytes
      BY <1>5, SlicedWithin
<1>. QED BY <1>1, <1>6

LEMMA Push1At ==
    ASSUME NEW p, NEW t, NEW u, NEW s, Turning(p, t, u, s),
           NEW byte \in Byte, Within(code, p, PUSH1(byte))
    PROVE  Broke(u + 3)' \/ (At(p + 2, Rewrite(t, 0, <<byte>>), u + 3, s)' /\ UNCHANGED memory)
<1>1. code \in Seq(Byte) /\ p \in Nat
      BY DEF Turning, IInv, MadeInv
<1>2. code[p + 1] = 95 + 1 /\ from_bytes(Slice(code, p + 1, 1)) = byte
      BY <1>1, ImmediateByte
<1>3. 1 \in 1..WordBytes /\ p + 1 + 1 = p + 2
      BY <1>1, WordValues
<1>4. \/ Broke(u + 3)'
      \/ At(p + 1 + 1, Rewrite(t, 0, <<byte>>), u + 3, s)' /\ UNCHANGED memory
      BY <1>2, <1>3, PushAt
<1>. QED BY <1>3, <1>4

LEMMA PushnAt ==
    ASSUME NEW p, NEW t, NEW u, NEW s, Turning(p, t, u, s),
           NEW bytes \in Seq(Byte), NEW n \in 1..WordBytes, Len(bytes) = n,
           Within(code, p, PUSHn(bytes)), NEW v, from_bytes(bytes) = v
    PROVE  Broke(u + 3)' \/ At(p + 1 + n, Rewrite(t, 0, <<v>>), u + 3, s)'
<1>1. code \in Seq(Byte) /\ p \in Nat
      BY DEF Turning, IInv, MadeInv
<1>2. code[p + 1] = 95 + n /\ Slice(code, p + 1, n) = bytes
      BY <1>1, ImmediateBytes
<1>. QED BY <1>2, PushAt

-----------------------------------------------------------------------------
(* Parts of the contracts' code, and what a frame with them does. It stands  *)
(* on some instruction of the part after so much gas, and then on the next,  *)
(* or has left the part, or its gas was too little.                          *)

(* The frame takes a step, with its context and code as they are.            *)
Stepping == IInv /\ context.value = 0 /\ Step

Terse(t) == Len(t) <= 6

LEMMA Going ==
    ASSUME Stepping, NEW p \in Nat, NEW t, NEW u \in Nat, NEW s, At(p, t, u, s), Terse(t)
    PROVE  Turning(p, t, u, s)
<1>1. execution_stack \in Seq(Cell) /\ execution_stack = t
      BY DEF Stepping, IInv, StackInv, At
<1>2. Len(t) \in Nat /\ MAX_STACK_DEPTH \in Nat
      BY <1>1, WidthAssumption
<1>. QED BY <1>2, PromiseAssumption DEF Turning, Stepping, Terse

LEMMA TerseStacks ==
    /\ Terse(<<>>)
    /\ \A a : Terse(<<a>>)
    /\ \A a, b : Terse(<<a, b>>)
    /\ \A a, b, c : Terse(<<a, b, c>>)
    /\ \A a, b, c, d : Terse(<<a, b, c, d>>)
    /\ \A a, b, c, d, e : Terse(<<a, b, c, d, e>>)
    /\ \A a, b, c, d, e, f : Terse(<<a, b, c, d, e, f>>)
BY Depths DEF Terse

(* Where an instruction has led.                                             *)
LEMMA Landed ==
    ASSUME NEW u \in Nat, NEW g \in Nat, NEW q, NEW t, NEW s, Broke(u + g)' \/ At(q, t, u + g, s)',
           NEW p, q = p, NEW r, t = r, NEW v, u + g = v
    PROVE  Broke(v)' \/ At(p, r, v, s)'
OBVIOUS

(* The value v on the stack is returned.                                     *)
Answering(k, v, u, s) ==
    \/ At(k, <<v>>, u, s)
    \/ At(k + 2, <<v, 0>>, u + 3, s)
    \/ /\ Within(memory, 0, to_bytes(v, WordBytes))
       /\ \/ At(k + 3, <<>>, u + 6, s)
          \/ At(k + 5, <<WordBytes>>, u + 9, s)
          \/ At(k + 7, <<WordBytes, 0>>, u + 12, s)

LEMMA BrokeMore ==
    ASSUME Stepping, NEW m \in Nat, NEW n \in Nat, m <= n, Broke(m)'
    PROVE  Broke(n)'
<1>1. IInv'
      BY IInvStep DEF Stepping, Next
<1>2. context'.gas \in Nat
      BY <1>1, WordValues DEF IInv, MadeInv
<1>. QED BY <1>2 DEF Broke

LEMMA AnsweringStep ==
    ASSUME Stepping, NEW k \in Nat, Within(code, k, RETURN1), NEW v \in Word, NEW u \in Nat, NEW s,
           Answering(k, v, u, s)
    PROVE  Broke(u + 12)' \/ Answering(k, v, u, s)' \/ Gave(to_bytes(v, WordBytes), s)'
<1>1. code \in Seq(Byte) /\ memory \in Seq(Byte) /\ WordBytes \in Byte /\ 0 \in Byte
      BY SmallBytes DEF Stepping, IInv, MadeInv, MemoryInv, Holds
<1>2. /\ code[k + 3] = OP.MSTORE /\ code[k + 8] = OP.RETURN
      /\ Within(code, k, PUSH1(0)) /\ Within(code, k + 3, PUSH1(WordBytes))
      /\ Within(code, k + 5, PUSH1(0))
      BY <1>1, ReturnCode
<1>3. Fits(0, WordBytes)
      BY WordValues, PromiseAssumption DEF Fits, Reach
<1>4. \A m \in Nat : m <= u + 12 /\ Broke(m)' => Broke(u + 12)'
      BY BrokeMore
<1>5. CASE At(k, <<v>>, u, s)
  <2>1. Turning(k, <<v>>, u, s)
        BY <1>5, Going, TerseStacks
  <2>2. Broke(u + 3)' \/ At(k + 2, Rewrite(<<v>>, 0, <<0>>), u + 3, s)'
        BY <1>1, <1>2, <2>1, Push1At
  <2>. QED BY <1>4, <2>2, Pushing DEF Answering
<1>6. CASE At(k + 2, <<v, 0>>, u + 3, s)
  <2>1. Turning(k + 2, <<v, 0>>, u + 3, s)
        BY <1>6, Going, TerseStacks
  <2>2. \/ Broke(u + 3 + 3)'
        \/ /\ At(k + 2 + 1, Rewrite(<<v, 0>>, 2, <<>>), u + 3 + 3, s)'
           /\ Within(memory, 0, to_bytes(v, WordBytes))'
    <3>1. FromTop(<<v, 0>>, 1) = 0 /\ FromTop(<<v, 0>>, 2) = v /\ 2 <= Len(<<v, 0>>)
          BY Tops, Depths
    <3>2. code[k + 2 + 1] = OP.MSTORE
          BY <1>2
    <3>. QED BY <1>3, <2>1, <3>1, <3>2, MstoreAt
  <2>3. k + 2 + 1 = k + 3 /\ u + 3 + 3 = u + 6
        OBVIOUS
  <2>. QED BY <1>4, <2>2, <2>3, Popping DEF Answering
<1>7. CASE At(k + 3, <<>>, u + 6, s) /\ Within(memory, 0, to_bytes(v, WordBytes))
  <2>1. Turning(k + 3, <<>>, u + 6, s)
        BY <1>7, Going, TerseStacks
  <2>2. \/ Broke(u + 6 + 3)'
        \/ At(k + 3 + 2, Rewrite(<<>>, 0, <<WordBytes>>), u + 6 + 3, s)' /\ UNCHANGED memory
        BY <1>1, <1>2, <2>1, Push1At
  <2>3. k + 3 + 2 = k + 5 /\ u + 6 + 3 = u + 9
        OBVIOUS
  <2>4. UNCHANGED memory => Within(memory, 0, to_bytes(v, WordBytes))'
        BY <1>7
  <2>. QED BY <1>4, <2>2, <2>3, <2>4, Pushing DEF Answering
<1>8. CASE At(k + 5, <<WordBytes>>, u + 9, s) /\ Within(memory, 0, to_bytes(v, WordBytes))
  <2>1. Turning(k + 5, <<WordBytes>>, u + 9, s)
        BY <1>8, Going, TerseStacks
  <2>2. \/ Broke(u + 9 + 3)'
        \/ At(k + 5 + 2, Rewrite(<<WordBytes>>, 0, <<0>>), u + 9 + 3, s)' /\ UNCHANGED memory
        BY <1>1, <1>2, <2>1, Push1At
  <2>3. k + 5 + 2 = k + 7 /\ u + 9 + 3 = u + 12
        OBVIOUS
  <2>4. UNCHANGED memory => Within(memory, 0, to_bytes(v, WordBytes))'
        BY <1>8
  <2>. QED BY <1>4, <2>2, <2>3, <2>4, Pushing DEF Answering
<1>9. CASE At(k + 7, <<WordBytes, 0>>, u + 12, s) /\ Within(memory, 0, to_bytes(v, WordBytes))
  <2>1. Turning(k + 7, <<WordBytes, 0>>, u + 12, s)
        BY <1>9, Going, TerseStacks
  <2>2. code[k + 7 + 1] = OP.RETURN
        BY <1>2
  <2>3. \/ Broke(u + 12)'
        \/ GaveSlice(0, WordBytes, s)
    <3>. DEFINE t == <<WordBytes, 0>>
    <3>1. FromTop(t, 1) = 0 /\ FromTop(t, 2) = WordBytes /\ 2 <= Len(t)
          BY Tops, Depths
    <3>. HIDE DEF t
    <3>2. Turning(k + 7, t, u + 12, s)
          BY <2>1 DEF t
    <3>. QED BY <1>3, <2>2, <3>1, <3>2, ReturnAt
  <2>5. Slice(memory, 0, WordBytes) = to_bytes(v, WordBytes)
    <3>1. /\ to_bytes(v, WordBytes) \in Seq(Byte)
          /\ Len(to_bytes(v, WordBytes)) = WordBytes
          BY WordValues, ToBytes
    <3>. QED BY <1>1, <1>9, <3>1, SlicedWithin
  <2>. QED BY <2>3, <2>5 DEF Gave, GaveSlice
<1>. QED BY <1>5, <1>6, <1>7, <1>8, <1>9 DEF Answering

(* Reverting with nothing: the two words on top of the stack are zero.       *)
Reverting(k, u, s) ==
    \E t : \/ At(k, t, u, s) /\ Len(t) <= 4
           \/ At(k + 2, t, u + 3, s) /\ Len(t) \in 1..5 /\ FromTop(t, 1) = 0
           \/ At(k + 4, t, u + 6, s) /\ Len(t) \in 2..6 /\ FromTop(t, 1) = 0 /\ FromTop(t, 2) = 0

LEMMA PushedTop ==
    ASSUME NEW t, Len(t) \in Nat, NEW v
    PROVE  LET r == Rewrite(t, 0, <<v>>) IN
           /\ Len(r) = Len(t) + 1 /\ FromTop(r, 1) = v
           /\ Len(t) >= 1 => FromTop(r, 2) = FromTop(t, 1)
<1>. DEFINE n == Len(t)
            r == Rewrite(t, 0, <<v>>)
<1>1. n \in Nat /\ n - 0 + Len(<<v>>) = n + 1 /\ n - 0 = n
      OBVIOUS
<1>2. r = [i \in 1..(n + 1) |-> IF i <= n THEN t[i] ELSE <<v>>[i - n]]
      BY <1>1 DEF Rewrite
<1>. HIDE DEF n
<1>3. Len(r) = n + 1 /\ r[n + 1] = <<v>>[n + 1 - n] /\ (n >= 1 => r[n] = t[n])
  <2>. HIDE DEF r
  <2>. QED BY <1>1, <1>2
<1>4. n + 1 - n = 1 /\ <<v>>[1] = v
      BY <1>1
<1>5. /\ n + 1 - 1 + 1 = n + 1 /\ n + 1 - 2 + 1 = n /\ n - 1 + 1 = n
      BY <1>1
<1>. HIDE DEF r
<1>6. FromTop(r, 1) = v /\ (n >= 1 => FromTop(r, 2) = FromTop(t, 1))
      BY <1>3, <1>4, <1>5 DEF FromTop, n
<1>. QED BY <1>3, <1>6 DEF n, r

LEMMA RevertingStep ==
    ASSUME Stepping, NEW k \in Nat, Within(code, k, REVERT0), NEW u \in Nat, NEW s,
           Reverting(k, u, s)
    PROVE  Broke(u + 6)' \/ Reverting(k, u, s)' \/ Reverted'
<1>1. code \in Seq(Byte) /\ 0 \in Byte
      BY SmallBytes DEF Stepping, IInv, MadeInv
<1>2. /\ code[k + 5] = OP.REVERT
      /\ Within(code, k, PUSH1(0)) /\ Within(code, k + 2, PUSH1(0))
      BY <1>1, RevertCode
<1>3. \A m \in Nat : m <= u + 6 /\ Broke(m)' => Broke(u + 6)'
      BY BrokeMore
<1>4. PICK t : \/ At(k, t, u, s) /\ Len(t) <= 4
               \/ At(k + 2, t, u + 3, s) /\ Len(t) \in 1..5 /\ FromTop(t, 1) = 0
               \/ At(k + 4, t, u + 6, s) /\ Len(t) \in 2..6 /\ FromTop(t, 1) = 0 /\ FromTop(t, 2) = 0
      BY DEF Reverting
<1>5. Len(t) \in Nat
  <2>1. execution_stack \in Seq(Cell) /\ execution_stack = t
        BY <1>4 DEF Stepping, IInv, StackInv, At
  <2>. QED BY <2>1
<1>6. ASSUME NEW v
      PROVE  \E r : r = Rewrite(t, 0, <<v>>) /\ Len(r) = Len(t) + 1 /\ FromTop(r, 1) = v
                    /\ (Len(t) >= 1 => FromTop(r, 2) = FromTop(t, 1))
      BY <1>5, PushedTop
<1>7. /\ \A m \in Nat : m <= 4 => m <= 6 /\ m + 1 \in 1..5
      /\ \A m \in Nat : m \in 1..5 => m <= 6 /\ m + 1 \in 2..6 /\ m >= 1
      /\ \A m \in Nat : m \in 2..6 => m <= 6 /\ 2 <= m
      /\ k + 2 \in Nat /\ k + 4 \in Nat /\ u + 3 \in Nat /\ u + 6 \in Nat
      /\ k + 2 + 2 = k + 4 /\ u + 3 + 3 = u + 6 /\ k + 4 + 1 = k + 5
      OBVIOUS
<1>8. CASE At(k, t, u, s) /\ Len(t) <= 4
  <2>1. Terse(t)
        BY <1>5, <1>7, <1>8 DEF Terse
  <2>2. Turning(k, t, u, s)
        BY <1>8, <2>1, Going
  <2>3. PICK r : r = Rewrite(t, 0, <<0>>) /\ Len(r) = Len(t) + 1 /\ FromTop(r, 1) = 0
        BY <1>6
  <2>4. Broke(u + 3)' \/ At(k + 2, r, u + 3, s)'
        BY <1>1, <1>2, <2>2, <2>3, Push1At
  <2>5. Len(r) \in 1..5
        BY <1>5, <1>7, <1>8, <2>3
  <2>. QED BY <1>3, <2>3, <2>4, <2>5 DEF Reverting
<1>9. CASE At(k + 2, t, u + 3, s) /\ Len(t) \in 1..5 /\ FromTop(t, 1) = 0
  <2>1. Terse(t) /\ Len(t) >= 1
        BY <1>5, <1>7, <1>9 DEF Terse
  <2>2. Turning(k + 2, t, u + 3, s)
        BY <1>7, <1>9, <2>1, Going
  <2>3. PICK r : /\ r = Rewrite(t, 0, <<0>>) /\ Len(r) = Len(t) + 1 /\ FromTop(r, 1) = 0
                 /\ FromTop(r, 2) = FromTop(t, 1)
        BY <1>6, <2>1
  <2>4. Broke(u + 3 + 3)' \/ At(k + 2 + 2, r, u + 3 + 3, s)'
        BY <1>1, <1>2, <2>2, <2>3, Push1At
  <2>5. Len(r) \in 2..6 /\ FromTop(r, 2) = 0
        BY <1>5, <1>7, <1>9, <2>3
  <2>. QED BY <1>7, <2>3, <2>4, <2>5 DEF Reverting
<1>10. CASE At(k + 4, t, u + 6, s) /\ Len(t) \in 2..6 /\ FromTop(t, 1) = 0 /\ FromTop(t, 2) = 0
  <2>1. Terse(t) /\ 2 <= Len(t)
        BY <1>5, <1>7, <1>10 DEF Terse
  <2>2. Turning(k + 4, t, u + 6, s)
        BY <1>7, <1>10, <2>1, Going
  <2>3. code[k + 4 + 1] = OP.REVERT
        BY <1>2, <1>7
  <2>4. Broke(u + 6)' \/ Reverted'
        BY <1>10, <2>1, <2>2, <2>3, RevertAt
  <2>. QED BY <2>4
<1>. QED BY <1>4, <1>8, <1>9, <1>10

-----------------------------------------------------------------------------
(* The instructions that compute, with what they compute *)
LEMMA EqAt ==
    ASSUME NEW p, NEW t, NEW u, NEW s, Turning(p, t, u, s), code[p + 1] = OP.EQ, 2 <= Len(t),
           NEW a, NEW b, FromTop(t, 1) = a, FromTop(t, 2) = b
    PROVE  Broke(u + 3)' \/ At(p + 1, Rewrite(t, 2, <<Flag(a = b)>>), u + 3, s)'
<1>1. Result(OP.EQ, FromTop(t, 1), FromTop(t, 2)) = Flag(a = b)
      BY Opcodes DEF Result, ResultOf
<1>2. CostOf(OP.EQ) = 3
      BY Prices
<1>. QED BY <1>1, <1>2, BinaryAt

LEMMA LtAt ==
    ASSUME NEW p, NEW t, NEW u, NEW s, Turning(p, t, u, s), code[p + 1] = OP.LT, 2 <= Len(t),
           NEW a, NEW b, FromTop(t, 1) = a, FromTop(t, 2) = b
    PROVE  Broke(u + 3)' \/ At(p + 1, Rewrite(t, 2, <<Flag(a < b)>>), u + 3, s)'
<1>1. Result(OP.LT, FromTop(t, 1), FromTop(t, 2)) = Flag(a < b)
      BY Opcodes DEF Result, ResultOf
<1>2. CostOf(OP.LT) = 3
      BY Prices
<1>. QED BY <1>1, <1>2, BinaryAt

LEMMA DivAt ==
    ASSUME NEW p, NEW t, NEW u, NEW s, Turning(p, t, u, s), code[p + 1] = OP.DIV, 2 <= Len(t),
           NEW a, NEW b, FromTop(t, 1) = a, FromTop(t, 2) = b, b # 0
    PROVE  Broke(u + 5)' \/ At(p + 1, Rewrite(t, 2, <<a \div b>>), u + 5, s)'
<1>1. Result(OP.DIV, FromTop(t, 1), FromTop(t, 2)) = a \div b
      BY Opcodes DEF Result, ResultOf
<1>2. CostOf(OP.DIV) = 5
      BY Prices
<1>. QED BY <1>1, <1>2, BinaryAt

LEMMA SubAt ==
    ASSUME NEW p, NEW t, NEW u, NEW s, Turning(p, t, u, s), code[p + 1] = OP.SUB, 2 <= Len(t),
           NEW a \in Word, NEW b \in Word, FromTop(t, 1) = a, FromTop(t, 2) = b, b <= a
    PROVE  Broke(u + 3)' \/ At(p + 1, Rewrite(t, 2, <<a - b>>), u + 3, s)'
<1>1. Result(OP.SUB, FromTop(t, 1), FromTop(t, 2)) = a - b
      BY Results
<1>2. CostOf(OP.SUB) = 3
      BY Prices
<1>. QED BY <1>1, <1>2, BinaryAt

LEMMA AddAt ==
    ASSUME NEW p, NEW t, NEW u, NEW s, Turning(p, t, u, s), code[p + 1] = OP.ADD, 2 <= Len(t),
           NEW a, NEW b, FromTop(t, 1) = a, FromTop(t, 2) = b, NEW v, ((a + b) % MOD_VALUE) = v
    PROVE  Broke(u + 3)' \/ At(p + 1, Rewrite(t, 2, <<v>>), u + 3, s)'
<1>1. Result(OP.ADD, FromTop(t, 1), FromTop(t, 2)) = v
      BY Opcodes DEF Result, ResultOf
<1>2. CostOf(OP.ADD) = 3
      BY Prices
<1>. QED BY <1>1, <1>2, BinaryAt

LEMMA CopyAt ==
    ASSUME NEW p, NEW t, NEW u, NEW s, Turning(p, t, u, s),
           NEW n \in 1..3, code[p + 1] = DUPn(n), n <= Len(t), NEW a, FromTop(t, n) = a
    PROVE  Broke(u + 3)' \/ At(p + 1, Rewrite(t, 0, <<a>>), u + 3, s)'
BY DupAt

LEMMA Copy2At ==
    ASSUME NEW p, NEW t, NEW u, NEW s, Turning(p, t, u, s),
           code[p + 1] = DUPn(2), 2 <= Len(t), NEW a, FromTop(t, 2) = a
    PROVE  Broke(u + 3)' \/ At(p + 1, Rewrite(t, 0, <<a>>), u + 3, s)'
<1>1. 2 \in 1..3
      OBVIOUS
<1>. QED BY <1>1, CopyAt

LEMMA LoadAt ==
    ASSUME NEW p, NEW t, NEW u, NEW s, Turning(p, t, u, s), code[p + 1] = OP.CALLDATALOAD,
           1 <= Len(t), NEW k, FromTop(t, 1) = k, NEW v, Argument(context.data, k) = v
    PROVE  Broke(u + 3)' \/ At(p + 1, Rewrite(t, 1, <<v>>), u + 3, s)'
BY CalldataloadAt DEF Argument

LEMMA FetchAt ==
    ASSUME NEW p, NEW t, NEW u, NEW s, Turning(p, t, u, s), code[p + 1] = OP.SLOAD,
           1 <= Len(t), NEW k, FromTop(t, 1) = k, NEW v, ValueIn(s, k) = v
    PROVE  Broke(u + 100)' \/ At(p + 1, Rewrite(t, 1, <<v>>), u + 100, s)'
BY SloadAt

LEMMA StoreAt ==
    ASSUME NEW p, NEW t, NEW u, NEW s, Turning(p, t, u, s), code[p + 1] = OP.SSTORE,
           2 <= Len(t), NEW k, FromTop(t, 1) = k, NEW v, FromTop(t, 2) = v,
           NEW r, Stored(s, k, v) = r
    PROVE  Broke(u + 5000)' \/ At(p + 1, Rewrite(t, 2, <<>>), u + 5000, r)'
BY SstoreAt

LEMMA ExchangeAt ==
    ASSUME NEW p, NEW t, NEW u, NEW s, Turning(p, t, u, s), code[p + 1] = OP.SWAP1, 2 <= Len(t),
           NEW a, NEW b, FromTop(t, 1) = a, FromTop(t, 2) = b
    PROVE  Broke(u + 3)' \/ At(p + 1, Rewrite(t, 2, <<a, b>>), u + 3, s)'
BY SwapAt

LEMMA BranchAt ==
    ASSUME NEW p, NEW t, NEW u, NEW s, Turning(p, t, u, s), code[p + 1] = OP.JUMPI, 2 <= Len(t),
           NEW q \in valid_jumpdests, FromTop(t, 1) = q,
           NEW a \in BOOLEAN, FromTop(t, 2) = Flag(a)
    PROVE  \/ Broke(u + 10)'
           \/ a /\ At(q, Rewrite(t, 2, <<>>), u + 10, s)'
           \/ ~a /\ At(p + 1, Rewrite(t, 2, <<>>), u + 10, s)'
<1>1. (FromTop(t, 2) # 0) <=> a
      BY DEF Flag
<1>. QED BY <1>1, JumpiAt

-----------------------------------------------------------------------------
(* The dispatcher: w is the first word of the call, x the function it names, *)
(* y1 and y2 those there are, W and S the widths of words and selectors.     *)
Dispatching(W, S, D, w, x, y1, d1, y2, d2, s) ==
    \/ At(0, <<>>, 0, s)
    \/ At(W + 1, <<D>>, 3, s)
    \/ At(W + 3, <<D, 0>>, 6, s)
    \/ At(W + 4, <<D, w>>, 9, s)
    \/ At(W + 5, <<x>>, 14, s)
    \/ At(W + 6, <<x, x>>, 17, s)
    \/ At(W + S + 7, <<x, x, y1>>, 20, s)
    \/ At(W + S + 8, <<x, Flag(y1 = x)>>, 23, s)
    \/ At(W + S + 10, <<x, Flag(y1 = x), d1>>, 26, s)
    \/ x # y1 /\ At(W + S + 11, <<x>>, 36, s)
    \/ x # y1 /\ At(W + S + 12, <<x, x>>, 39, s)
    \/ x # y1 /\ At(W + 2 * S + 13, <<x, x, y2>>, 42, s)
    \/ x # y1 /\ At(W + 2 * S + 14, <<x, Flag(y2 = x)>>, 45, s)
    \/ x # y1 /\ At(W + 2 * S + 16, <<x, Flag(y2 = x), d2>>, 48, s)
    \/ x # y1 /\ x # y2 /\ At(W + 2 * S + 17, <<x>>, 58, s)

(* Where its pieces are.                                                     *)
LEMMA DispatcherPieces ==
    ASSUME NEW c \in Seq(Byte), NEW n1 \in DOMAIN Selector, NEW d1 \in Byte,
           NEW n2 \in DOMAIN Selector, NEW d2 \in Byte, Within(c, 0, Dispatcher(n1, d1, n2, d2)),
           NEW W \in Nat, W = WordBytes, NEW S \in Nat, S = SelectorBytes
    PROVE  /\ Within(c, 0, PUSHn(Divisor)) /\ Within(c, W + 1, PUSH1(0))
           /\ c[W + 4] = OP.CALLDATALOAD /\ c[W + 5] = OP.DIV /\ c[W + 6] = DUPn(1)
           /\ Within(c, W + 6, PUSHn(Selector[n1])) /\ c[W + S + 8] = OP.EQ
           /\ Within(c, W + S + 8, PUSH1(d1)) /\ c[W + S + 11] = OP.JUMPI
           /\ c[W + S + 12] = DUPn(1) /\ Within(c, W + S + 12, PUSHn(Selector[n2]))
           /\ c[W + 2 * S + 14] = OP.EQ /\ Within(c, W + 2 * S + 14, PUSH1(d2))
           /\ c[W + 2 * S + 17] = OP.JUMPI /\ c[W + 2 * S + 18] = OP.POP
           /\ Within(c, W + 2 * S + 18, REVERT0)
<1>1. 0 \in Nat /\ W + 5 \in Nat /\ W + S + 11 \in Nat
      OBVIOUS
<1>2. /\ c[0 + W + 4] = OP.CALLDATALOAD /\ c[0 + W + 5] = OP.DIV
      /\ c[0 + W + 2 * S + 18] = OP.POP
      /\ Within(c, 0, PUSHn(Divisor)) /\ Within(c, 0 + W + 1, PUSH1(0))
      /\ Within(c, 0 + W + 5, Compare(n1, d1)) /\ Within(c, 0 + W + S + 11, Compare(n2, d2))
      /\ Within(c, 0 + W + 2 * S + 18, REVERT0)
      BY <1>1, DispatcherCode
<1>3. /\ 0 + W + 4 = W + 4 /\ 0 + W + 5 = W + 5 /\ 0 + W + 2 * S + 18 = W + 2 * S + 18
      /\ 0 + W + 1 = W + 1 /\ 0 + W + S + 11 = W + S + 11
      OBVIOUS
<1>4. /\ c[W + 5 + 1] = DUPn(1) /\ c[W + 5 + S + 3] = OP.EQ /\ c[W + 5 + S + 6] = OP.JUMPI
      /\ Within(c, W + 5 + 1, PUSHn(Selector[n1])) /\ Within(c, W + 5 + S + 3, PUSH1(d1))
      BY <1>1, <1>2, <1>3, CompareCode
<1>5. /\ c[W + S + 11 + 1] = DUPn(1) /\ c[W + S + 11 + S + 3] = OP.EQ
      /\ c[W + S + 11 + S + 6] = OP.JUMPI
      /\ Within(c, W + S + 11 + 1, PUSHn(Selector[n2]))
      /\ Within(c, W + S + 11 + S + 3, PUSH1(d2))
      BY <1>1, <1>2, <1>3, CompareCode
<1>6. /\ W + 5 + 1 = W + 6 /\ W + 5 + S + 3 = W + S + 8 /\ W + 5 + S + 6 = W + S + 11
      /\ W + S + 11 + 1 = W + S + 12 /\ W + S + 11 + S + 3 = W + 2 * S + 14
      /\ W + S + 11 + S + 6 = W + 2 * S + 17
      BY SMTT(30)
<1>. QED BY <1>2, <1>3, <1>4, <1>5, <1>6

LEMMA DispatchingStep ==
    ASSUME Stepping, NEW n1 \in DOMAIN Selector, NEW d1 \in Byte,
           NEW n2 \in DOMAIN Selector, NEW d2 \in Byte, Within(code, 0, Dispatcher(n1, d1, n2, d2)),
           d1 \in valid_jumpdests, d2 \in valid_jumpdests,
           NEW w, Argument(context.data, 0) = w,
           NEW D, D = BytePower[WordBytes - SelectorBytes], NEW x, w \div D = x,
           NEW y1, y1 = from_bytes(Selector[n1]), NEW y2, y2 = from_bytes(Selector[n2]), NEW s,
           NEW W \in Nat, W = WordBytes, NEW S \in Nat, S = SelectorBytes,
           Dispatching(W, S, D, w, x, y1, d1, y2, d2, s)
    PROVE  \/ Broke(60)' \/ Dispatching(W, S, D, w, x, y1, d1, y2, d2, s)'
           \/ x = y1 /\ At(d1, <<x>>, 36, s)'
           \/ x # y1 /\ x = y2 /\ At(d2, <<x>>, 58, s)'
           \/ x # y1 /\ x # y2 /\ Reverting(W + 2 * S + 18, 60, s)'
<1>0. W \in Nat /\ S \in Nat /\ Stepping /\ code \in Seq(Byte) /\ 0 \in Byte
      BY SmallBytes DEF Stepping, IInv, MadeInv
<1>1. /\ Within(code, 0, PUSHn(Divisor)) /\ Within(code, W + 1, PUSH1(0))
      /\ code[W + 4] = OP.CALLDATALOAD /\ code[W + 5] = OP.DIV /\ code[W + 6] = DUPn(1)
      /\ Within(code, W + 6, PUSHn(Selector[n1])) /\ code[W + S + 8] = OP.EQ
      /\ Within(code, W + S + 8, PUSH1(d1)) /\ code[W + S + 11] = OP.JUMPI
      /\ code[W + S + 12] = DUPn(1) /\ Within(code, W + S + 12, PUSHn(Selector[n2]))
      /\ code[W + 2 * S + 14] = OP.EQ /\ Within(code, W + 2 * S + 14, PUSH1(d2))
      /\ code[W + 2 * S + 17] = OP.JUMPI /\ code[W + 2 * S + 18] = OP.POP
      BY <1>0, DispatcherPieces
<1>2. \A m \in Nat : m <= 60 /\ Broke(m)' => Broke(60)'
      BY BrokeMore
<1>3. /\ Divisor \in Seq(Byte) /\ Len(Divisor) = W /\ W \in 1..WordBytes
      /\ from_bytes(Divisor) = D /\ D # 0
      /\ Selector[n1] \in Seq(Byte) /\ Len(Selector[n1]) = S
      /\ Selector[n2] \in Seq(Byte) /\ Len(Selector[n2]) = S /\ S \in 1..WordBytes
  <2>1. Divisor \in Seq(Byte) /\ Len(Divisor) = W
    <3>1. \A i \in 1..WordBytes : Divisor[i] \in Byte
          BY DEF Divisor, Byte
    <3>. QED BY <3>1 DEF Divisor
  <2>2. S \in 1..WordBytes /\ W >= 1 /\ W - S \in Nat
        BY SelectorAssumption, WordValues
  <2>3. D # 0
        BY <2>2, BytePowers
  <2>. QED BY <2>1, <2>2, <2>3, DivisorIs, SelectorsApart
<1>4. CASE At(0, <<>>, 0, s)
  <2>. DEFINE t == <<>>
  <2>1. Turning(0, t, 0, s)
        BY <1>0, <1>4, Going, TerseStacks
  <2>2. Within(code, 0, PUSHn(Divisor))
        BY <1>0, <1>1
  <2>3. Rewrite(t, 0, <<D>>) = <<D>>
        BY Pushing
  <2>. HIDE DEF t
  <2>4. Broke(0 + 3)' \/ At(0 + 1 + W, Rewrite(t, 0, <<D>>), 0 + 3, s)'
        BY <1>0, <2>1, <2>2, <1>3, PushnAt
  <2>5. 0 + 1 + W = W + 1 /\ 0 + 3 = 3
        BY <1>0
  <2>6. Broke(3)' \/ At(W + 1, <<D>>, 3, s)'
        BY <2>3, <2>4, <2>5
  <2>7. Broke(3)' => Broke(60)'
        BY <1>2
  <2>. QED BY <2>6, <2>7 DEF Dispatching
<1>5. CASE At(W + 1, <<D>>, 3, s)
  <2>. DEFINE t == <<D>>
  <2>1. Turning(W + 1, t, 3, s)
        BY <1>0, <1>5, Going, TerseStacks
  <2>2. Within(code, W + 1, PUSH1(0))
        BY <1>0, <1>1
  <2>3. Rewrite(t, 0, <<0>>) = <<D, 0>>
        BY Pushing
  <2>. HIDE DEF t
  <2>4. Broke(3 + 3)' \/ At(W + 1 + 2, Rewrite(t, 0, <<0>>), 3 + 3, s)'
        BY <1>0, <2>1, <2>2, Push1At
  <2>5. W + 1 + 2 = W + 3 /\ 3 + 3 = 6
        BY <1>0
  <2>6. Broke(6)' \/ At(W + 3, <<D, 0>>, 6, s)'
        BY <2>3, <2>4, <2>5
  <2>7. Broke(6)' => Broke(60)'
        BY <1>2
  <2>. QED BY <2>6, <2>7 DEF Dispatching
<1>6. CASE At(W + 3, <<D, 0>>, 6, s)
  <2>. DEFINE t == <<D, 0>>
  <2>1. Turning(W + 3, t, 6, s)
        BY <1>0, <1>6, Going, TerseStacks
  <2>2. code[W + 3 + 1] = OP.CALLDATALOAD
        BY <1>0, <1>1
  <2>3. 1 <= Len(t) /\ FromTop(t, 1) = 0
        BY Tops, Depths
  <2>4. Rewrite(t, 1, <<w>>) = <<D, w>>
        BY Replacing
  <2>. HIDE DEF t
  <2>5. Broke(6 + 3)' \/ At(W + 3 + 1, Rewrite(t, 1, <<w>>), 6 + 3, s)'
        BY <1>0, <2>1, <2>2, <2>3, LoadAt
  <2>6. W + 3 + 1 = W + 4 /\ 6 + 3 = 9
        BY <1>0
  <2>7. Broke(9)' \/ At(W + 4, <<D, w>>, 9, s)'
        BY <2>4, <2>5, <2>6
  <2>8. Broke(9)' => Broke(60)'
        BY <1>2
  <2>. QED BY <2>7, <2>8 DEF Dispatching
<1>7. CASE At(W + 4, <<D, w>>, 9, s)
  <2>. DEFINE t == <<D, w>>
  <2>1. Turning(W + 4, t, 9, s)
        BY <1>0, <1>7, Going, TerseStacks
  <2>2. code[W + 4 + 1] = OP.DIV
        BY <1>0, <1>1
  <2>3. 2 <= Len(t) /\ FromTop(t, 1) = w /\ FromTop(t, 2) = D
        BY Tops, Depths
  <2>4. Rewrite(t, 2, <<w \div D>>) = <<x>>
        BY Replacing
  <2>. HIDE DEF t
  <2>5. Broke(9 + 5)' \/ At(W + 4 + 1, Rewrite(t, 2, <<w \div D>>), 9 + 5, s)'
        BY <1>0, <2>1, <2>2, <2>3, <1>3, DivAt
  <2>6. W + 4 + 1 = W + 5 /\ 9 + 5 = 14
        BY <1>0
  <2>7. Broke(14)' \/ At(W + 5, <<x>>, 14, s)'
        BY <2>4, <2>5, <2>6
  <2>8. Broke(14)' => Broke(60)'
        BY <1>2
  <2>. QED BY <2>7, <2>8 DEF Dispatching
<1>8. CASE At(W + 5, <<x>>, 14, s)
  <2>. DEFINE t == <<x>>
  <2>1. Turning(W + 5, t, 14, s)
        BY <1>0, <1>8, Going, TerseStacks
  <2>2. code[W + 5 + 1] = DUPn(1)
        BY <1>0, <1>1
  <2>3. 1 <= Len(t) /\ FromTop(t, 1) = x
        BY Tops, Depths
  <2>4. Rewrite(t, 0, <<x>>) = <<x, x>>
        BY Pushing
  <2>. HIDE DEF t
  <2>5. Broke(14 + 3)' \/ At(W + 5 + 1, Rewrite(t, 0, <<x>>), 14 + 3, s)'
        BY <1>0, <2>1, <2>2, <2>3, CopyAt
  <2>6. W + 5 + 1 = W + 6 /\ 14 + 3 = 17
        BY <1>0
  <2>7. Broke(17)' \/ At(W + 6, <<x, x>>, 17, s)'
        BY <2>4, <2>5, <2>6
  <2>8. Broke(17)' => Broke(60)'
        BY <1>2
  <2>. QED BY <2>7, <2>8 DEF Dispatching
<1>9. CASE At(W + 6, <<x, x>>, 17, s)
  <2>. DEFINE t == <<x, x>>
  <2>1. Turning(W + 6, t, 17, s)
        BY <1>0, <1>9, Going, TerseStacks
  <2>2. Within(code, W + 6, PUSHn(Selector[n1]))
        BY <1>0, <1>1
  <2>3. Rewrite(t, 0, <<y1>>) = <<x, x, y1>>
        BY Pushing
  <2>. HIDE DEF t
  <2>4. Broke(17 + 3)' \/ At(W + 6 + 1 + S, Rewrite(t, 0, <<y1>>), 17 + 3, s)'
        BY <1>0, <2>1, <2>2, <1>3, PushnAt
  <2>5. W + 6 + 1 + S = W + S + 7 /\ 17 + 3 = 20
        BY <1>0
  <2>6. Broke(20)' \/ At(W + S + 7, <<x, x, y1>>, 20, s)'
        BY <2>3, <2>4, <2>5
  <2>7. Broke(20)' => Broke(60)'
        BY <1>2
  <2>. QED BY <2>6, <2>7 DEF Dispatching
<1>10. CASE At(W + S + 7, <<x, x, y1>>, 20, s)
  <2>. DEFINE t == <<x, x, y1>>
  <2>1. Turning(W + S + 7, t, 20, s)
        BY <1>0, <1>10, Going, TerseStacks
  <2>2. code[W + S + 7 + 1] = OP.EQ
        BY <1>0, <1>1
  <2>3. 2 <= Len(t) /\ FromTop(t, 1) = y1 /\ FromTop(t, 2) = x
        BY Tops, Depths
  <2>4. Rewrite(t, 2, <<Flag(y1 = x)>>) = <<x, Flag(y1 = x)>>
        BY Replacing
  <2>. HIDE DEF t
  <2>5. Broke(20 + 3)' \/ At(W + S + 7 + 1, Rewrite(t, 2, <<Flag(y1 = x)>>), 20 + 3, s)'
        BY <1>0, <2>1, <2>2, <2>3, EqAt
  <2>6. W + S + 7 + 1 = W + S + 8 /\ 20 + 3 = 23
        BY <1>0
  <2>7. Broke(23)' \/ At(W + S + 8, <<x, Flag(y1 = x)>>, 23, s)'
        BY <2>4, <2>5, <2>6
  <2>8. Broke(23)' => Broke(60)'
        BY <1>2
  <2>. QED BY <2>7, <2>8 DEF Dispatching
<1>11. CASE At(W + S + 8, <<x, Flag(y1 = x)>>, 23, s)
  <2>. DEFINE t == <<x, Flag(y1 = x)>>
  <2>1. Turning(W + S + 8, t, 23, s)
        BY <1>0, <1>11, Going, TerseStacks
  <2>2. Within(code, W + S + 8, PUSH1(d1))
        BY <1>0, <1>1
  <2>3. Rewrite(t, 0, <<d1>>) = <<x, Flag(y1 = x), d1>>
        BY Pushing
  <2>. HIDE DEF t
  <2>4. Broke(23 + 3)' \/ At(W + S + 8 + 2, Rewrite(t, 0, <<d1>>), 23 + 3, s)'
        BY <1>0, <2>1, <2>2, Push1At
  <2>5. W + S + 8 + 2 = W + S + 10 /\ 23 + 3 = 26
        BY <1>0
  <2>6. Broke(26)' \/ At(W + S + 10, <<x, Flag(y1 = x), d1>>, 26, s)'
        BY <2>3, <2>4, <2>5
  <2>7. Broke(26)' => Broke(60)'
        BY <1>2
  <2>. QED BY <2>6, <2>7 DEF Dispatching
<1>12. CASE At(W + S + 10, <<x, Flag(y1 = x), d1>>, 26, s)
  <2>. DEFINE t == <<x, Flag(y1 = x), d1>>
  <2>1. Turning(W + S + 10, t, 26, s)
        BY <1>0, <1>12, Going, TerseStacks
  <2>2. code[W + S + 10 + 1] = OP.JUMPI
        BY <1>0, <1>1
  <2>3. 2 <= Len(t) /\ FromTop(t, 1) = d1 /\ FromTop(t, 2) = Flag(y1 = x)
        BY Tops, Depths
  <2>4. Rewrite(t, 2, <<>>) = <<x>>
        BY Popping
  <2>. HIDE DEF t
  <2>6. \/ Broke(26 + 10)'
        \/ y1 = x /\ At(d1, Rewrite(t, 2, <<>>), 26 + 10, s)'
        \/ y1 # x /\ At(W + S + 10 + 1, Rewrite(t, 2, <<>>), 26 + 10, s)'
    <3>1. (y1 = x) \in BOOLEAN
          OBVIOUS
    <3>. QED BY <1>0, <2>1, <2>2, <2>3, <3>1, BranchAt
  <2>7. W + S + 10 + 1 = W + S + 11 /\ 26 + 10 = 36
        BY <1>0
  <2>8. \/ Broke(36)'
        \/ y1 = x /\ At(d1, <<x>>, 36, s)'
        \/ y1 # x /\ At(W + S + 11, <<x>>, 36, s)'
        BY <2>4, <2>6, <2>7
  <2>9. Broke(36)' => Broke(60)'
        BY <1>2
  <2>. QED BY <1>12, <2>8, <2>9 DEF Dispatching
<1>13. CASE x # y1 /\ At(W + S + 11, <<x>>, 36, s)
  <2>. DEFINE t == <<x>>
  <2>1. Turning(W + S + 11, t, 36, s)
        BY <1>0, <1>13, Going, TerseStacks
  <2>2. code[W + S + 11 + 1] = DUPn(1)
        BY <1>0, <1>1
  <2>3. 1 <= Len(t) /\ FromTop(t, 1) = x
        BY Tops, Depths
  <2>4. Rewrite(t, 0, <<x>>) = <<x, x>>
        BY Pushing
  <2>. HIDE DEF t
  <2>5. Broke(36 + 3)' \/ At(W + S + 11 + 1, Rewrite(t, 0, <<x>>), 36 + 3, s)'
        BY <1>0, <2>1, <2>2, <2>3, CopyAt
  <2>6. W + S + 11 + 1 = W + S + 12 /\ 36 + 3 = 39
        BY <1>0
  <2>7. Broke(39)' \/ At(W + S + 12, <<x, x>>, 39, s)'
        BY <2>4, <2>5, <2>6
  <2>8. Broke(39)' => Broke(60)'
        BY <1>2
  <2>. QED BY <1>13, <2>7, <2>8 DEF Dispatching
<1>14. CASE x # y1 /\ At(W + S + 12, <<x, x>>, 39, s)
  <2>. DEFINE t == <<x, x>>
  <2>1. Turning(W + S + 12, t, 39, s)
        BY <1>0, <1>14, Going, TerseStacks
  <2>2. Within(code, W + S + 12, PUSHn(Selector[n2]))
        BY <1>0, <1>1
  <2>3. Rewrite(t, 0, <<y2>>) = <<x, x, y2>>
        BY Pushing
  <2>. HIDE DEF t
  <2>4. Broke(39 + 3)' \/ At(W + S + 12 + 1 + S, Rewrite(t, 0, <<y2>>), 39 + 3, s)'
        BY <1>0, <2>1, <2>2, <1>3, PushnAt
  <2>5. W + S + 12 + 1 + S = W + 2 * S + 13 /\ 39 + 3 = 42
        BY <1>0
  <2>6. Broke(42)' \/ At(W + 2 * S + 13, <<x, x, y2>>, 42, s)'
        BY <2>3, <2>4, <2>5
  <2>7. Broke(42)' => Broke(60)'
        BY <1>2
  <2>. QED BY <1>14, <2>6, <2>7 DEF Dispatching
<1>15. CASE x # y1 /\ At(W + 2 * S + 13, <<x, x, y2>>, 42, s)
  <2>. DEFINE t == <<x, x, y2>>
  <2>1. Turning(W + 2 * S + 13, t, 42, s)
        BY <1>0, <1>15, Going, TerseStacks
  <2>2. code[W + 2 * S + 13 + 1] = OP.EQ
        BY <1>0, <1>1
  <2>3. 2 <= Len(t) /\ FromTop(t, 1) = y2 /\ FromTop(t, 2) = x
        BY Tops, Depths
  <2>4. Rewrite(t, 2, <<Flag(y2 = x)>>) = <<x, Flag(y2 = x)>>
        BY Replacing
  <2>. HIDE DEF t
  <2>5. Broke(42 + 3)' \/ At(W + 2 * S + 13 + 1, Rewrite(t, 2, <<Flag(y2 = x)>>), 42 + 3, s)'
        BY <1>0, <2>1, <2>2, <2>3, EqAt, SMTT(30)
  <2>6. W + 2 * S + 13 + 1 = W + 2 * S + 14 /\ 42 + 3 = 45
        BY <1>0
  <2>7. Broke(45)' \/ At(W + 2 * S + 14, <<x, Flag(y2 = x)>>, 45, s)'
        BY <2>4, <2>5, <2>6
  <2>8. Broke(45)' => Broke(60)'
        BY <1>2
  <2>. QED BY <1>15, <2>7, <2>8 DEF Dispatching
<1>16. CASE x # y1 /\ At(W + 2 * S + 14, <<x, Flag(y2 = x)>>, 45, s)
  <2>. DEFINE t == <<x, Flag(y2 = x)>>
  <2>1. Turning(W + 2 * S + 14, t, 45, s)
        BY <1>0, <1>16, Going, TerseStacks
  <2>2. Within(code, W + 2 * S + 14, PUSH1(d2))
        BY <1>0, <1>1
  <2>3. Rewrite(t, 0, <<d2>>) = <<x, Flag(y2 = x), d2>>
        BY Pushing
  <2>. HIDE DEF t
  <2>4. Broke(45 + 3)' \/ At(W + 2 * S + 14 + 2, Rewrite(t, 0, <<d2>>), 45 + 3, s)'
        BY <1>0, <2>1, <2>2, Push1At
  <2>5. W + 2 * S + 14 + 2 = W + 2 * S + 16 /\ 45 + 3 = 48
        BY <1>0
  <2>6. Broke(48)' \/ At(W + 2 * S + 16, <<x, Flag(y2 = x), d2>>, 48, s)'
        BY <2>3, <2>4, <2>5
  <2>7. Broke(48)' => Broke(60)'
        BY <1>2
  <2>. QED BY <1>16, <2>6, <2>7 DEF Dispatching
<1>17. CASE x # y1 /\ At(W + 2 * S + 16, <<x, Flag(y2 = x), d2>>, 48, s)
  <2>. DEFINE t == <<x, Flag(y2 = x), d2>>
  <2>1. Turning(W + 2 * S + 16, t, 48, s)
        BY <1>0, <1>17, Going, TerseStacks
  <2>2. code[W + 2 * S + 16 + 1] = OP.JUMPI
        BY <1>0, <1>1
  <2>3. 2 <= Len(t) /\ FromTop(t, 1) = d2 /\ FromTop(t, 2) = Flag(y2 = x)
        BY Tops, Depths
  <2>4. Rewrite(t, 2, <<>>) = <<x>>
        BY Popping
  <2>. HIDE DEF t
  <2>6. \/ Broke(48 + 10)'
        \/ y2 = x /\ At(d2, Rewrite(t, 2, <<>>), 48 + 10, s)'
        \/ y2 # x /\ At(W + 2 * S + 16 + 1, Rewrite(t, 2, <<>>), 48 + 10, s)'
    <3>1. (y2 = x) \in BOOLEAN
          OBVIOUS
    <3>. QED BY <1>0, <2>1, <2>2, <2>3, <3>1, BranchAt
  <2>7. W + 2 * S + 16 + 1 = W + 2 * S + 17 /\ 48 + 10 = 58
        BY <1>0
  <2>8. \/ Broke(58)'
        \/ y2 = x /\ At(d2, <<x>>, 58, s)'
        \/ y2 # x /\ At(W + 2 * S + 17, <<x>>, 58, s)'
        BY <2>4, <2>6, <2>7
  <2>9. Broke(58)' => Broke(60)'
        BY <1>2
  <2>. QED BY <1>17, <2>8, <2>9 DEF Dispatching
<1>18. CASE x # y1 /\ x # y2 /\ At(W + 2 * S + 17, <<x>>, 58, s)
  <2>. DEFINE t == <<x>>
  <2>1. Turning(W + 2 * S + 17, t, 58, s)
        BY <1>0, <1>18, Going, TerseStacks
  <2>2. code[W + 2 * S + 17 + 1] = OP.POP
        BY <1>0, <1>1
  <2>3. 1 <= Len(t)
        BY Depths
  <2>4. Rewrite(t, 1, <<>>) = <<>>
        BY Popping
  <2>. HIDE DEF t
  <2>5. Broke(58 + 2)' \/ At(W + 2 * S + 17 + 1, Rewrite(t, 1, <<>>), 58 + 2, s)'
        BY <1>0, <2>1, <2>2, <2>3, PopAt
  <2>6. W + 2 * S + 17 + 1 = W + 2 * S + 18 /\ 58 + 2 = 60
        BY <1>0
  <2>7. Len(<<>>) <= 4
        BY Depths
  <2>. QED BY <1>2, <1>18, <2>4, <2>5, <2>6, <2>7 DEF Reverting
<1>. QED BY <1>4, <1>5, <1>6, <1>7, <1>8, <1>9, <1>10, <1>11, <1>12, <1>13, <1>14, <1>15,
           <1>16, <1>17, <1>18 DEF Dispatching

-----------------------------------------------------------------------------
(* The transfer: the caller c has own and the recipient, after the first     *)
(* write, other; t1 and t2 are what is stored after each of the two.         *)
Fetching(h, S, W, x, c, to, amount, own, s) ==
    \/ At(h, <<x>>, 36, s)
    \/ At(h + 1, <<x>>, 37, s)
    \/ At(h + 2, <<>>, 39, s)
    \/ At(h + 4, <<S>>, 42, s)
    \/ At(h + 5, <<to>>, 45, s)
    \/ At(h + 7, <<to, S + W>>, 48, s)
    \/ At(h + 8, <<to, amount>>, 51, s)
    \/ At(h + 9, <<to, amount, c>>, 53, s)
    \/ At(h + 10, <<to, amount, c, c>>, 56, s)
    \/ At(h + 11, <<to, amount, c, own>>, 156, s)
    \/ At(h + 12, <<to, amount, c, own, amount>>, 159, s)
    \/ At(h + 13, <<to, amount, c, own, amount, own>>, 162, s)
    \/ At(h + 14, <<to, amount, c, own, Flag(own < amount)>>, 165, s)
    \/ At(h + 16, <<to, amount, c, own, Flag(own < amount), h + 29>>, 168, s)
    \/ own < amount /\ At(h + 29, <<to, amount, c, own>>, 178, s)

Paying(h, c, to, amount, own, other, sum, s, t1, t2) ==
    /\ amount <= own
    /\ \/ At(h + 17, <<to, amount, c, own>>, 178, s)
       \/ At(h + 18, <<to, amount, c, own, amount>>, 181, s)
       \/ At(h + 19, <<to, amount, c, amount, own>>, 184, s)
       \/ At(h + 20, <<to, amount, c, own - amount>>, 187, s)
       \/ At(h + 21, <<to, amount, own - amount, c>>, 190, s)
       \/ At(h + 22, <<to, amount>>, 5190, t1)
       \/ At(h + 23, <<to, amount, to>>, 5193, t1)
       \/ At(h + 24, <<to, amount, other>>, 5293, t1)
       \/ At(h + 25, <<to, sum>>, 5296, t1)
       \/ At(h + 26, <<to, sum, to>>, 5299, t1)
       \/ At(h + 27, <<to>>, 10299, t2)
       \/ At(h + 28, <<>>, 10301, t2)

Transferring(h, S, W, x, c, to, amount, own, other, sum, s, t1, t2) ==
    \/ Fetching(h, S, W, x, c, to, amount, own, s)
    \/ Paying(h, c, to, amount, own, other, sum, s, t1, t2)

LEMMA TransferringStep ==
    ASSUME Stepping, NEW h \in Nat, h = Handlers, Within(code, h, TransferHandler),
           Within(code, h + 29, <<OP.JUMPDEST>>), h + 29 \in valid_jumpdests,
           NEW W \in Nat, W = WordBytes, NEW S \in Nat, S = SelectorBytes, NEW x,
           NEW c, context.caller = c, NEW to, Argument(context.data, S) = to,
           NEW amount \in Word, Argument(context.data, S + W) = amount,
           NEW s, NEW own \in Word, ValueIn(s, c) = own,
           NEW t1, Stored(s, c, own - amount) = t1, NEW other, ValueIn(t1, to) = other,
           NEW sum, ((other + amount) % MOD_VALUE) = sum, NEW t2, Stored(t1, to, sum) = t2,
           Transferring(h, S, W, x, c, to, amount, own, other, sum, s, t1, t2)
    PROVE  \/ Broke(10301)' \/ Transferring(h, S, W, x, c, to, amount, own, other, sum, s, t1, t2)'
           \/ own < amount /\ Reverting(h + 30, 179, s)'
           \/ amount <= own /\ Gave(<<>>, t2)'
<1>0. /\ h \in Nat /\ W \in Nat /\ S \in Nat /\ Stepping /\ code \in Seq(Byte)
      /\ S \in Byte /\ S + W \in Byte /\ h + 29 \in Byte
      BY SmallBytes DEF Stepping, IInv, MadeInv
<1>1. /\ code[h + 1] = OP.JUMPDEST /\ code[h + 2] = OP.POP
      /\ code[h + 5] = OP.CALLDATALOAD
      /\ code[h + 8] = OP.CALLDATALOAD /\ code[h + 9] = OP.CALLER /\ code[h + 10] = DUPn(1)
      /\ code[h + 11] = OP.SLOAD /\ code[h + 12] = DUPn(3) /\ code[h + 13] = DUPn(2)
      /\ code[h + 14] = OP.LT /\ code[h + 17] = OP.JUMPI
      /\ code[h + 18] = DUPn(3) /\ code[h + 19] = OP.SWAP1 /\ code[h + 20] = OP.SUB
      /\ code[h + 21] = OP.SWAP1 /\ code[h + 22] = OP.SSTORE /\ code[h + 23] = DUPn(2)
      /\ code[h + 24] = OP.SLOAD /\ code[h + 25] = OP.ADD /\ code[h + 26] = DUPn(2)
      /\ code[h + 27] = OP.SSTORE /\ code[h + 28] = OP.POP /\ code[h + 29] = OP.STOP
      /\ Within(code, h + 2, PUSH1(S)) /\ Within(code, h + 5, PUSH1(S + W))
      /\ Within(code, h + 14, PUSH1(h + 29)) /\ code[h + 30] = OP.JUMPDEST
  <2>1. code[h + 29 + 1] = OP.JUMPDEST
        BY DEF Within
  <2>2. h + 29 + 1 = h + 30
        OBVIOUS
  <2>. QED BY <1>0, <2>1, <2>2, TransferCode
<1>2. \A m \in Nat : m <= 10301 /\ Broke(m)' => Broke(10301)'
      BY BrokeMore
<1>3. /\ amount \in Word /\ amount \in Nat /\ own \in Word /\ own \in Nat
      /\ 1 \in 1..3 /\ 2 \in 1..3 /\ 3 \in 1..3
      BY WordValues
<1>4. ASSUME At(h, <<x>>, 36, s)
      PROVE  Broke(10301)' \/ At(h + 1, <<x>>, 37, s)'
  <2>. DEFINE t == <<x>>
  <2>1. Turning(h, t, 36, s)
        BY <1>0, <1>4, Going, TerseStacks
  <2>2. code[h + 1] = OP.JUMPDEST
        BY <1>0, <1>1
  <2>3. t = <<x>>
        OBVIOUS
  <2>. HIDE DEF t
  <2>4. Broke(36 + 1)' \/ At(h + 1, t, 36 + 1, s)'
        BY <1>0, <2>1, <2>2, <1>3, JumpdestAt
  <2>5. h + 1 = h + 1 /\ 36 + 1 = 37
        BY <1>0
  <2>6. Broke(37)' \/ At(h + 1, <<x>>, 37, s)'
        BY <2>3, <2>4, <2>5
  <2>7. Broke(37)' => Broke(10301)'
        BY <1>0, <1>2
  <2>. QED BY <2>6, <2>7
<1>5. ASSUME At(h + 1, <<x>>, 37, s)
      PROVE  Broke(10301)' \/ At(h + 2, <<>>, 39, s)'
  <2>. DEFINE t == <<x>>
  <2>1. Turning(h + 1, t, 37, s)
        BY <1>0, <1>5, Going, TerseStacks
  <2>2. code[h + 1 + 1] = OP.POP
        BY <1>0, <1>1
  <2>3. 1 <= Len(t) /\ FromTop(t, 1) = x
        BY Tops, Depths
  <2>4. Rewrite(t, 1, <<>>) = <<>>
        BY Popping
  <2>. HIDE DEF t
  <2>5. Broke(37 + 2)' \/ At(h + 1 + 1, Rewrite(t, 1, <<>>), 37 + 2, s)'
        BY <1>0, <2>1, <2>2, <2>3, <1>3, PopAt
  <2>6. h + 1 + 1 = h + 2 /\ 37 + 2 = 39
        BY <1>0
  <2>7. Broke(39)' \/ At(h + 2, <<>>, 39, s)'
        BY <2>4, <2>5, <2>6
  <2>8. Broke(39)' => Broke(10301)'
        BY <1>0, <1>2
  <2>. QED BY <2>7, <2>8
<1>6. ASSUME At(h + 2, <<>>, 39, s)
      PROVE  Broke(10301)' \/ At(h + 4, <<S>>, 42, s)'
  <2>. DEFINE t == <<>>
  <2>1. Turning(h + 2, t, 39, s)
        BY <1>0, <1>6, Going, TerseStacks
  <2>2. Within(code, h + 2, PUSH1(S))
        BY <1>0, <1>1
  <2>3. Rewrite(t, 0, <<S>>) = <<S>>
        BY Pushing
  <2>. HIDE DEF t
  <2>4. Broke(39 + 3)' \/ At(h + 2 + 2, Rewrite(t, 0, <<S>>), 39 + 3, s)'
        BY <1>0, <2>1, <2>2, <1>3, Push1At
  <2>5. h + 2 + 2 = h + 4 /\ 39 + 3 = 42
        BY <1>0
  <2>6. Broke(42)' \/ At(h + 4, <<S>>, 42, s)'
        BY <2>3, <2>4, <2>5
  <2>7. Broke(42)' => Broke(10301)'
        BY <1>0, <1>2
  <2>. QED BY <2>6, <2>7
<1>7. ASSUME At(h + 4, <<S>>, 42, s)
      PROVE  Broke(10301)' \/ At(h + 5, <<to>>, 45, s)'
  <2>. DEFINE t == <<S>>
  <2>1. Turning(h + 4, t, 42, s)
        BY <1>0, <1>7, Going, TerseStacks
  <2>2. code[h + 4 + 1] = OP.CALLDATALOAD
        BY <1>0, <1>1
  <2>3. 1 <= Len(t) /\ FromTop(t, 1) = S
        BY Tops, Depths
  <2>4. Rewrite(t, 1, <<to>>) = <<to>>
        BY Replacing
  <2>. HIDE DEF t
  <2>5. Broke(42 + 3)' \/ At(h + 4 + 1, Rewrite(t, 1, <<to>>), 42 + 3, s)'
        BY <1>0, <2>1, <2>2, <2>3, <1>3, LoadAt
  <2>6. h + 4 + 1 = h + 5 /\ 42 + 3 = 45
        BY <1>0
  <2>7. Broke(45)' \/ At(h + 5, <<to>>, 45, s)'
        BY <2>4, <2>5, <2>6
  <2>8. Broke(45)' => Broke(10301)'
        BY <1>0, <1>2
  <2>. QED BY <2>7, <2>8
<1>8. ASSUME At(h + 5, <<to>>, 45, s)
      PROVE  Broke(10301)' \/ At(h + 7, <<to, S + W>>, 48, s)'
  <2>. DEFINE t == <<to>>
  <2>1. Turning(h + 5, t, 45, s)
        BY <1>0, <1>8, Going, TerseStacks
  <2>2. Within(code, h + 5, PUSH1(S + W))
        BY <1>0, <1>1
  <2>3. Rewrite(t, 0, <<S + W>>) = <<to, S + W>>
        BY Pushing
  <2>. HIDE DEF t
  <2>4. Broke(45 + 3)' \/ At(h + 5 + 2, Rewrite(t, 0, <<S + W>>), 45 + 3, s)'
        BY <1>0, <2>1, <2>2, <1>3, Push1At
  <2>5. h + 5 + 2 = h + 7 /\ 45 + 3 = 48
        BY <1>0
  <2>6. Broke(48)' \/ At(h + 7, <<to, S + W>>, 48, s)'
        BY <2>3, <2>4, <2>5
  <2>7. Broke(48)' => Broke(10301)'
        BY <1>0, <1>2
  <2>. QED BY <2>6, <2>7
<1>9. ASSUME At(h + 7, <<to, S + W>>, 48, s)
      PROVE  Broke(10301)' \/ At(h + 8, <<to, amount>>, 51, s)'
  <2>. DEFINE t == <<to, S + W>>
  <2>1. Turning(h + 7, t, 48, s)
        BY <1>0, <1>9, Going, TerseStacks
  <2>2. code[h + 7 + 1] = OP.CALLDATALOAD
        BY <1>0, <1>1
  <2>3. 1 <= Len(t) /\ FromTop(t, 1) = S + W
        BY Tops, Depths
  <2>4. Rewrite(t, 1, <<amount>>) = <<to, amount>>
        BY Replacing
  <2>. HIDE DEF t
  <2>5. Broke(48 + 3)' \/ At(h + 7 + 1, Rewrite(t, 1, <<amount>>), 48 + 3, s)'
        BY <1>0, <2>1, <2>2, <2>3, <1>3, LoadAt
  <2>6. h + 7 + 1 = h + 8 /\ 48 + 3 = 51
        BY <1>0
  <2>7. Broke(51)' \/ At(h + 8, <<to, amount>>, 51, s)'
        BY <2>4, <2>5, <2>6
  <2>8. Broke(51)' => Broke(10301)'
        BY <1>0, <1>2
  <2>. QED BY <2>7, <2>8
<1>10. ASSUME At(h + 8, <<to, amount>>, 51, s)
      PROVE  Broke(10301)' \/ At(h + 9, <<to, amount, c>>, 53, s)'
  <2>. DEFINE t == <<to, amount>>
  <2>1. Turning(h + 8, t, 51, s)
        BY <1>0, <1>10, Going, TerseStacks
  <2>2. code[h + 8 + 1] = OP.CALLER
        BY <1>0, <1>1
  <2>3. Rewrite(t, 0, <<c>>) = <<to, amount, c>>
        BY Pushing
  <2>. HIDE DEF t
  <2>4. Broke(51 + 2)' \/ At(h + 8 + 1, Rewrite(t, 0, <<c>>), 51 + 2, s)'
        BY <1>0, <2>1, <2>2, <1>3, CallerAt
  <2>5. h + 8 + 1 = h + 9 /\ 51 + 2 = 53
        BY <1>0
  <2>6. Broke(53)' \/ At(h + 9, <<to, amount, c>>, 53, s)'
        BY <2>3, <2>4, <2>5
  <2>7. Broke(53)' => Broke(10301)'
        BY <1>0, <1>2
  <2>. QED BY <2>6, <2>7
<1>11. ASSUME At(h + 9, <<to, amount, c>>, 53, s)
      PROVE  Broke(10301)' \/ At(h + 10, <<to, amount, c, c>>, 56, s)'
  <2>. DEFINE t == <<to, amount, c>>
  <2>1. Turning(h + 9, t, 53, s)
        BY <1>0, <1>11, Going, TerseStacks
  <2>2. code[h + 9 + 1] = DUPn(1)
        BY <1>0, <1>1
  <2>3. 1 <= Len(t) /\ FromTop(t, 1) = c
        BY Tops, Depths
  <2>4. Rewrite(t, 0, <<c>>) = <<to, amount, c, c>>
        BY Pushing
  <2>. HIDE DEF t
  <2>5. Broke(53 + 3)' \/ At(h + 9 + 1, Rewrite(t, 0, <<c>>), 53 + 3, s)'
        BY <1>0, <2>1, <2>2, <2>3, <1>3, CopyAt
  <2>6. h + 9 + 1 = h + 10 /\ 53 + 3 = 56
        BY <1>0
  <2>7. Broke(56)' \/ At(h + 10, <<to, amount, c, c>>, 56, s)'
        BY <2>4, <2>5, <2>6
  <2>8. Broke(56)' => Broke(10301)'
        BY <1>0, <1>2
  <2>. QED BY <2>7, <2>8
<1>12. ASSUME At(h + 10, <<to, amount, c, c>>, 56, s)
      PROVE  Broke(10301)' \/ At(h + 11, <<to, amount, c, own>>, 156, s)'
  <2>. DEFINE t == <<to, amount, c, c>>
  <2>1. Turning(h + 10, t, 56, s)
        BY <1>0, <1>12, Going, TerseStacks
  <2>2. code[h + 10 + 1] = OP.SLOAD
        BY <1>0, <1>1
  <2>3. 1 <= Len(t) /\ FromTop(t, 1) = c
        BY Tops, Depths
  <2>4. Rewrite(t, 1, <<own>>) = <<to, amount, c, own>>
        BY Replacing
  <2>. HIDE DEF t
  <2>5. Broke(56 + 100)' \/ At(h + 10 + 1, Rewrite(t, 1, <<own>>), 56 + 100, s)'
        BY <1>0, <2>1, <2>2, <2>3, <1>3, FetchAt
  <2>6. h + 10 + 1 = h + 11 /\ 56 + 100 = 156
        BY <1>0
  <2>7. Broke(156)' \/ At(h + 11, <<to, amount, c, own>>, 156, s)'
        BY <2>4, <2>5, <2>6
  <2>8. Broke(156)' => Broke(10301)'
        BY <1>0, <1>2
  <2>. QED BY <2>7, <2>8
<1>13. ASSUME At(h + 11, <<to, amount, c, own>>, 156, s)
      PROVE  Broke(10301)' \/ At(h + 12, <<to, amount, c, own, amount>>, 159, s)'
  <2>. DEFINE t == <<to, amount, c, own>>
  <2>1. Turning(h + 11, t, 156, s)
        BY <1>0, <1>13, Going, TerseStacks
  <2>2. code[h + 11 + 1] = DUPn(3)
        BY <1>0, <1>1
  <2>3. 3 <= Len(t) /\ FromTop(t, 3) = amount
        BY Tops, Depths
  <2>4. Rewrite(t, 0, <<amount>>) = <<to, amount, c, own, amount>>
        BY Pushing
  <2>. HIDE DEF t
  <2>5. Broke(156 + 3)' \/ At(h + 11 + 1, Rewrite(t, 0, <<amount>>), 156 + 3, s)'
        BY <1>0, <2>1, <2>2, <2>3, <1>3, CopyAt
  <2>6. h + 11 + 1 = h + 12 /\ 156 + 3 = 159
        BY <1>0
  <2>7. Broke(159)' \/ At(h + 12, <<to, amount, c, own, amount>>, 159, s)'
        BY <2>4, <2>5, <2>6
  <2>8. Broke(159)' => Broke(10301)'
        BY <1>0, <1>2
  <2>. QED BY <2>7, <2>8
<1>14. ASSUME At(h + 12, <<to, amount, c, own, amount>>, 159, s)
      PROVE  Broke(10301)' \/ At(h + 13, <<to, amount, c, own, amount, own>>, 162, s)'
  <2>. DEFINE t == <<to, amount, c, own, amount>>
  <2>1. Turning(h + 12, t, 159, s)
        BY <1>0, <1>14, Going, TerseStacks
  <2>2. code[h + 12 + 1] = DUPn(2)
        BY <1>0, <1>1
  <2>3. 2 <= Len(t) /\ FromTop(t, 2) = own
        BY Tops, Depths
  <2>4. Rewrite(t, 0, <<own>>) = <<to, amount, c, own, amount, own>>
        BY Pushing
  <2>. HIDE DEF t
  <2>5. Broke(159 + 3)' \/ At(h + 12 + 1, Rewrite(t, 0, <<own>>), 159 + 3, s)'
        BY <2>1, <2>2, <2>3, Copy2At
  <2>6. h + 12 + 1 = h + 13 /\ 159 + 3 = 162
        BY <1>0
  <2>7. Broke(162)' \/ At(h + 13, <<to, amount, c, own, amount, own>>, 162, s)'
        BY <2>4, <2>5, <2>6
  <2>8. Broke(162)' => Broke(10301)'
        BY <1>0, <1>2
  <2>. QED BY <2>7, <2>8
<1>15. ASSUME At(h + 13, <<to, amount, c, own, amount, own>>, 162, s)
      PROVE  Broke(10301)' \/ At(h + 14, <<to, amount, c, own, Flag(own < amount)>>, 165, s)'
  <2>. DEFINE t == <<to, amount, c, own, amount, own>>
  <2>1. Turning(h + 13, t, 162, s)
        BY <1>0, <1>15, Going, TerseStacks
  <2>2. code[h + 13 + 1] = OP.LT
        BY <1>0, <1>1
  <2>3. 2 <= Len(t) /\ FromTop(t, 1) = own /\ FromTop(t, 2) = amount
        BY Tops, Depths
  <2>4. Rewrite(t, 2, <<Flag(own < amount)>>) = <<to, amount, c, own, Flag(own < amount)>>
        BY Replacing
  <2>. HIDE DEF t
  <2>5. Broke(162 + 3)' \/ At(h + 13 + 1, Rewrite(t, 2, <<Flag(own < amount)>>), 162 + 3, s)'
        BY <1>0, <2>1, <2>2, <2>3, <1>3, LtAt
  <2>6. h + 13 + 1 = h + 14 /\ 162 + 3 = 165
        BY <1>0
  <2>7. Broke(165)' \/ At(h + 14, <<to, amount, c, own, Flag(own < amount)>>, 165, s)'
        BY <2>4, <2>5, <2>6
  <2>8. Broke(165)' => Broke(10301)'
        BY <1>0, <1>2
  <2>. QED BY <2>7, <2>8
<1>16. ASSUME At(h + 14, <<to, amount, c, own, Flag(own < amount)>>, 165, s)
      PROVE  Broke(10301)' \/ At(h + 16, <<to, amount, c, own, Flag(own < amount), h + 29>>, 168, s)'
  <2>. DEFINE t == <<to, amount, c, own, Flag(own < amount)>>
  <2>1. Turning(h + 14, t, 165, s)
        BY <1>0, <1>16, Going, TerseStacks
  <2>2. Within(code, h + 14, PUSH1(h + 29))
        BY <1>0, <1>1
  <2>3. Rewrite(t, 0, <<h + 29>>) = <<to, amount, c, own, Flag(own < amount), h + 29>>
        BY Pushing
  <2>. HIDE DEF t
  <2>4. Broke(165 + 3)' \/ At(h + 14 + 2, Rewrite(t, 0, <<h + 29>>), 165 + 3, s)'
        BY <1>0, <2>1, <2>2, <1>3, Push1At
  <2>5. h + 14 + 2 = h + 16 /\ 165 + 3 = 168
        BY <1>0
  <2>6. Broke(168)' \/ At(h + 16, <<to, amount, c, own, Flag(own < amount), h + 29>>, 168, s)'
        BY <2>3, <2>4, <2>5
  <2>7. Broke(168)' => Broke(10301)'
        BY <1>0, <1>2
  <2>. QED BY <2>6, <2>7
<1>17. ASSUME At(h + 16, <<to, amount, c, own, Flag(own < amount), h + 29>>, 168, s)
       PROVE  \/ Broke(10301)'
              \/ own < amount /\ At(h + 29, <<to, amount, c, own>>, 178, s)'
              \/ amount <= own /\ At(h + 17, <<to, amount, c, own>>, 178, s)'
  <2>. DEFINE t == <<to, amount, c, own, Flag(own < amount), h + 29>>
  <2>1. Turning(h + 16, t, 168, s)
        BY <1>0, <1>17, Going, TerseStacks
  <2>2. code[h + 16 + 1] = OP.JUMPI
        BY <1>0, <1>1
  <2>3. 2 <= Len(t) /\ FromTop(t, 1) = h + 29 /\ FromTop(t, 2) = Flag(own < amount)
        BY Tops, Depths
  <2>4. Rewrite(t, 2, <<>>) = <<to, amount, c, own>>
        BY Popping
  <2>. HIDE DEF t
  <2>6. \/ Broke(168 + 10)'
        \/ (own < amount) /\ At(h + 29, Rewrite(t, 2, <<>>), 168 + 10, s)'
        \/ ~(own < amount) /\ At(h + 16 + 1, Rewrite(t, 2, <<>>), 168 + 10, s)'
    <3>1. (own < amount) \in BOOLEAN
          OBVIOUS
    <3>. QED BY <1>0, <2>1, <2>2, <2>3, <3>1, BranchAt
  <2>7. h + 16 + 1 = h + 17 /\ 168 + 10 = 178 /\ (~(own < amount) => amount <= own)
        BY <1>0, <1>3
  <2>8. \/ Broke(178)'
        \/ own < amount /\ At(h + 29, <<to, amount, c, own>>, 178, s)'
        \/ amount <= own /\ At(h + 17, <<to, amount, c, own>>, 178, s)'
        BY <2>4, <2>6, <2>7
  <2>9. Broke(178)' => Broke(10301)'
        BY <1>2
  <2>. QED BY <2>8, <2>9
<1>18. ASSUME At(h + 17, <<to, amount, c, own>>, 178, s)
      PROVE  Broke(10301)' \/ At(h + 18, <<to, amount, c, own, amount>>, 181, s)'
  <2>. DEFINE t == <<to, amount, c, own>>
  <2>1. Turning(h + 17, t, 178, s)
        BY <1>0, <1>18, Going, TerseStacks
  <2>2. code[h + 17 + 1] = DUPn(3)
        BY <1>0, <1>1
  <2>3. 3 <= Len(t) /\ FromTop(t, 3) = amount
        BY Tops, Depths
  <2>4. Rewrite(t, 0, <<amount>>) = <<to, amount, c, own, amount>>
        BY Pushing
  <2>. HIDE DEF t
  <2>5. Broke(178 + 3)' \/ At(h + 17 + 1, Rewrite(t, 0, <<amount>>), 178 + 3, s)'
        BY <1>0, <2>1, <2>2, <2>3, <1>3, CopyAt
  <2>6. h + 17 + 1 = h + 18 /\ 178 + 3 = 181
        BY <1>0
  <2>7. Broke(181)' \/ At(h + 18, <<to, amount, c, own, amount>>, 181, s)'
        BY <2>4, <2>5, <2>6
  <2>8. Broke(181)' => Broke(10301)'
        BY <1>0, <1>2
  <2>. QED BY <2>7, <2>8
<1>19. ASSUME At(h + 18, <<to, amount, c, own, amount>>, 181, s)
      PROVE  Broke(10301)' \/ At(h + 19, <<to, amount, c, amount, own>>, 184, s)'
  <2>. DEFINE t == <<to, amount, c, own, amount>>
  <2>1. Turning(h + 18, t, 181, s)
        BY <1>0, <1>19, Going, TerseStacks
  <2>2. code[h + 18 + 1] = OP.SWAP1
        BY <1>0, <1>1
  <2>3. 2 <= Len(t) /\ FromTop(t, 1) = amount /\ FromTop(t, 2) = own
        BY Tops, Depths
  <2>4. Rewrite(t, 2, <<amount, own>>) = <<to, amount, c, amount, own>>
        BY Swapping
  <2>. HIDE DEF t
  <2>5. Broke(181 + 3)' \/ At(h + 18 + 1, Rewrite(t, 2, <<amount, own>>), 181 + 3, s)'
        BY <1>0, <2>1, <2>2, <2>3, <1>3, ExchangeAt
  <2>6. h + 18 + 1 = h + 19 /\ 181 + 3 = 184
        BY <1>0
  <2>7. Broke(184)' \/ At(h + 19, <<to, amount, c, amount, own>>, 184, s)'
        BY <2>4, <2>5, <2>6
  <2>8. Broke(184)' => Broke(10301)'
        BY <1>0, <1>2
  <2>. QED BY <2>7, <2>8
<1>20. ASSUME amount <= own, At(h + 19, <<to, amount, c, amount, own>>, 184, s)
      PROVE  Broke(10301)' \/ At(h + 20, <<to, amount, c, own - amount>>, 187, s)'
  <2>. DEFINE t == <<to, amount, c, amount, own>>
  <2>1. Turning(h + 19, t, 184, s)
        BY <1>0, <1>20, Going, TerseStacks
  <2>2. code[h + 19 + 1] = OP.SUB
        BY <1>0, <1>1
  <2>3. 2 <= Len(t) /\ FromTop(t, 1) = own /\ FromTop(t, 2) = amount
        BY Tops, Depths
  <2>4. Rewrite(t, 2, <<own - amount>>) = <<to, amount, c, own - amount>>
        BY Replacing
  <2>. HIDE DEF t
  <2>5. Broke(184 + 3)' \/ At(h + 19 + 1, Rewrite(t, 2, <<own - amount>>), 184 + 3, s)'
        BY <1>0, <2>1, <2>2, <2>3, <1>3, <1>20, SubAt
  <2>6. h + 19 + 1 = h + 20 /\ 184 + 3 = 187
        BY <1>0
  <2>7. Broke(187)' \/ At(h + 20, <<to, amount, c, own - amount>>, 187, s)'
        BY <2>4, <2>5, <2>6
  <2>8. Broke(187)' => Broke(10301)'
        BY <1>0, <1>2
  <2>. QED BY <2>7, <2>8
<1>21. ASSUME At(h + 20, <<to, amount, c, own - amount>>, 187, s)
      PROVE  Broke(10301)' \/ At(h + 21, <<to, amount, own - amount, c>>, 190, s)'
  <2>. DEFINE t == <<to, amount, c, own - amount>>
  <2>1. Turning(h + 20, t, 187, s)
        BY <1>0, <1>21, Going, TerseStacks
  <2>2. code[h + 20 + 1] = OP.SWAP1
        BY <1>0, <1>1
  <2>3. 2 <= Len(t) /\ FromTop(t, 1) = own - amount /\ FromTop(t, 2) = c
        BY Tops, Depths
  <2>4. Rewrite(t, 2, <<own - amount, c>>) = <<to, amount, own - amount, c>>
        BY Swapping
  <2>. HIDE DEF t
  <2>5. Broke(187 + 3)' \/ At(h + 20 + 1, Rewrite(t, 2, <<own - amount, c>>), 187 + 3, s)'
        BY <1>0, <2>1, <2>2, <2>3, <1>3, ExchangeAt
  <2>6. h + 20 + 1 = h + 21 /\ 187 + 3 = 190
        BY <1>0
  <2>7. Broke(190)' \/ At(h + 21, <<to, amount, own - amount, c>>, 190, s)'
        BY <2>4, <2>5, <2>6
  <2>8. Broke(190)' => Broke(10301)'
        BY <1>0, <1>2
  <2>. QED BY <2>7, <2>8
<1>22. ASSUME At(h + 21, <<to, amount, own - amount, c>>, 190, s)
      PROVE  Broke(10301)' \/ At(h + 22, <<to, amount>>, 5190, t1)'
  <2>. DEFINE t == <<to, amount, own - amount, c>>
  <2>1. Turning(h + 21, t, 190, s)
        BY <1>0, <1>22, Going, TerseStacks
  <2>2. code[h + 21 + 1] = OP.SSTORE
        BY <1>0, <1>1
  <2>3. 2 <= Len(t) /\ FromTop(t, 1) = c /\ FromTop(t, 2) = own - amount
        BY Tops, Depths
  <2>4. Rewrite(t, 2, <<>>) = <<to, amount>>
        BY Popping
  <2>. HIDE DEF t
  <2>5. Broke(190 + 5000)' \/ At(h + 21 + 1, Rewrite(t, 2, <<>>), 190 + 5000, t1)'
        BY <1>0, <2>1, <2>2, <2>3, <1>3, StoreAt
  <2>6. h + 21 + 1 = h + 22 /\ 190 + 5000 = 5190
        BY <1>0
  <2>7. Broke(5190)' \/ At(h + 22, <<to, amount>>, 5190, t1)'
        BY <2>4, <2>5, <2>6
  <2>8. Broke(5190)' => Broke(10301)'
        BY <1>0, <1>2
  <2>. QED BY <2>7, <2>8
<1>23. ASSUME At(h + 22, <<to, amount>>, 5190, t1)
      PROVE  Broke(10301)' \/ At(h + 23, <<to, amount, to>>, 5193, t1)'
  <2>. DEFINE t == <<to, amount>>
  <2>1. Turning(h + 22, t, 5190, t1)
        BY <1>0, <1>23, Going, TerseStacks
  <2>2. code[h + 22 + 1] = DUPn(2)
        BY <1>0, <1>1
  <2>3. 2 <= Len(t) /\ FromTop(t, 2) = to
        BY Tops, Depths
  <2>4. Rewrite(t, 0, <<to>>) = <<to, amount, to>>
        BY Pushing
  <2>. HIDE DEF t
  <2>5. Broke(5190 + 3)' \/ At(h + 22 + 1, Rewrite(t, 0, <<to>>), 5190 + 3, t1)'
        BY <2>1, <2>2, <2>3, Copy2At
  <2>6. h + 22 + 1 = h + 23 /\ 5190 + 3 = 5193
        BY <1>0
  <2>7. Broke(5193)' \/ At(h + 23, <<to, amount, to>>, 5193, t1)'
        BY <2>4, <2>5, <2>6
  <2>8. Broke(5193)' => Broke(10301)'
        BY <1>0, <1>2
  <2>. QED BY <2>7, <2>8
<1>24. ASSUME At(h + 23, <<to, amount, to>>, 5193, t1)
      PROVE  Broke(10301)' \/ At(h + 24, <<to, amount, other>>, 5293, t1)'
  <2>. DEFINE t == <<to, amount, to>>
  <2>1. Turning(h + 23, t, 5193, t1)
        BY <1>0, <1>24, Going, TerseStacks
  <2>2. code[h + 23 + 1] = OP.SLOAD
        BY <1>0, <1>1
  <2>3. 1 <= Len(t) /\ FromTop(t, 1) = to
        BY Tops, Depths
  <2>4. Rewrite(t, 1, <<other>>) = <<to, amount, other>>
        BY Replacing
  <2>. HIDE DEF t
  <2>5. Broke(5193 + 100)' \/ At(h + 23 + 1, Rewrite(t, 1, <<other>>), 5193 + 100, t1)'
        BY <1>0, <2>1, <2>2, <2>3, <1>3, FetchAt, SMTT(30)
  <2>6. h + 23 + 1 = h + 24 /\ 5193 + 100 = 5293
        BY <1>0
  <2>7. Broke(5293)' \/ At(h + 24, <<to, amount, other>>, 5293, t1)'
        BY <2>4, <2>5, <2>6
  <2>8. Broke(5293)' => Broke(10301)'
        BY <1>0, <1>2
  <2>. QED BY <2>7, <2>8
<1>25. ASSUME At(h + 24, <<to, amount, other>>, 5293, t1)
      PROVE  Broke(10301)' \/ At(h + 25, <<to, sum>>, 5296, t1)'
  <2>. DEFINE t == <<to, amount, other>>
  <2>1. Turning(h + 24, t, 5293, t1)
        BY <1>0, <1>25, Going, TerseStacks
  <2>2. code[h + 24 + 1] = OP.ADD
        BY <1>0, <1>1
  <2>3. 2 <= Len(t) /\ FromTop(t, 1) = other /\ FromTop(t, 2) = amount
        BY Tops, Depths
  <2>4. Rewrite(t, 2, <<sum>>) = <<to, sum>>
        BY Replacing
  <2>. HIDE DEF t
  <2>5. Broke(5293 + 3)' \/ At(h + 24 + 1, Rewrite(t, 2, <<sum>>), 5293 + 3, t1)'
        BY <1>0, <2>1, <2>2, <2>3, <1>3, AddAt, SMTT(30)
  <2>6. h + 24 + 1 = h + 25 /\ 5293 + 3 = 5296
        BY <1>0
  <2>7. Broke(5296)' \/ At(h + 25, <<to, sum>>, 5296, t1)'
        BY <2>4, <2>5, <2>6
  <2>8. Broke(5296)' => Broke(10301)'
        BY <1>0, <1>2
  <2>. QED BY <2>7, <2>8
<1>26. ASSUME At(h + 25, <<to, sum>>, 5296, t1)
      PROVE  Broke(10301)' \/ At(h + 26, <<to, sum, to>>, 5299, t1)'
  <2>. DEFINE t == <<to, sum>>
  <2>1. Turning(h + 25, t, 5296, t1)
        BY <1>0, <1>26, Going, TerseStacks
  <2>2. code[h + 25 + 1] = DUPn(2)
        BY <1>0, <1>1
  <2>3. 2 <= Len(t) /\ FromTop(t, 2) = to
        BY Tops, Depths
  <2>4. Rewrite(t, 0, <<to>>) = <<to, sum, to>>
        BY Pushing
  <2>. HIDE DEF t
  <2>5. Broke(5296 + 3)' \/ At(h + 25 + 1, Rewrite(t, 0, <<to>>), 5296 + 3, t1)'
        BY <2>1, <2>2, <2>3, Copy2At
  <2>6. h + 25 + 1 = h + 26 /\ 5296 + 3 = 5299
        BY <1>0
  <2>7. Broke(5299)' \/ At(h + 26, <<to, sum, to>>, 5299, t1)'
        BY <2>4, <2>5, <2>6
  <2>8. Broke(5299)' => Broke(10301)'
        BY <1>0, <1>2
  <2>. QED BY <2>7, <2>8
<1>27. ASSUME At(h + 26, <<to, sum, to>>, 5299, t1)
      PROVE  Broke(10301)' \/ At(h + 27, <<to>>, 10299, t2)'
  <2>. DEFINE t == <<to, sum, to>>
  <2>1. Turning(h + 26, t, 5299, t1)
        BY <1>0, <1>27, Going, TerseStacks
  <2>2. code[h + 26 + 1] = OP.SSTORE
        BY <1>0, <1>1
  <2>3. 2 <= Len(t) /\ FromTop(t, 1) = to /\ FromTop(t, 2) = sum
        BY Tops, Depths
  <2>4. Rewrite(t, 2, <<>>) = <<to>>
        BY Popping
  <2>. HIDE DEF t
  <2>5. Broke(5299 + 5000)' \/ At(h + 26 + 1, Rewrite(t, 2, <<>>), 5299 + 5000, t2)'
        BY <1>0, <2>1, <2>2, <2>3, <1>3, StoreAt, SMTT(30)
  <2>6. h + 26 + 1 = h + 27 /\ 5299 + 5000 = 10299
        BY <1>0
  <2>7. Broke(10299)' \/ At(h + 27, <<to>>, 10299, t2)'
        BY <2>4, <2>5, <2>6
  <2>8. Broke(10299)' => Broke(10301)'
        BY <1>0, <1>2
  <2>. QED BY <2>7, <2>8
<1>28. ASSUME At(h + 27, <<to>>, 10299, t2)
      PROVE  Broke(10301)' \/ At(h + 28, <<>>, 10301, t2)'
  <2>. DEFINE t == <<to>>
  <2>1. Turning(h + 27, t, 10299, t2)
        BY <1>0, <1>28, Going, TerseStacks
  <2>2. code[h + 27 + 1] = OP.POP
        BY <1>0, <1>1
  <2>3. 1 <= Len(t) /\ FromTop(t, 1) = to
        BY Tops, Depths
  <2>4. Rewrite(t, 1, <<>>) = <<>>
        BY Popping
  <2>. HIDE DEF t
  <2>5. Broke(10299 + 2)' \/ At(h + 27 + 1, Rewrite(t, 1, <<>>), 10299 + 2, t2)'
        BY <1>0, <2>1, <2>2, <2>3, <1>3, PopAt
  <2>6. h + 27 + 1 = h + 28 /\ 10299 + 2 = 10301
        BY <1>0
  <2>7. Broke(10301)' \/ At(h + 28, <<>>, 10301, t2)'
        BY <2>4, <2>5, <2>6
  <2>8. Broke(10301)' => Broke(10301)'
        BY <1>0, <1>2
  <2>. QED BY <2>7, <2>8
<1>29. ASSUME At(h + 28, <<>>, 10301, t2)
       PROVE  Broke(10301)' \/ Gave(<<>>, t2)'
  <2>1. Turning(h + 28, <<>>, 10301, t2)
        BY <1>0, <1>29, Going, TerseStacks
  <2>2. code[h + 28 + 1] = OP.STOP
        BY <1>0, <1>1
  <2>. QED BY <2>1, <2>2, StopAt
<1>30. ASSUME At(h + 29, <<to, amount, c, own>>, 178, s)
       PROVE  Broke(10301)' \/ Reverting(h + 30, 179, s)'
  <2>. DEFINE t == <<to, amount, c, own>>
  <2>1. Turning(h + 29, t, 178, s)
        BY <1>0, <1>30, Going, TerseStacks
  <2>2. code[h + 29 + 1] = OP.JUMPDEST
        BY <1>0, <1>1
  <2>3. Len(t) <= 4
        BY Depths
  <2>. HIDE DEF t
  <2>4. Broke(178 + 1)' \/ At(h + 29 + 1, t, 178 + 1, s)'
        BY <1>0, <2>1, <2>2, JumpdestAt
  <2>5. h + 29 + 1 = h + 30 /\ 178 + 1 = 179
        BY <1>0
  <2>6. Broke(179)' \/ At(h + 30, t, 179, s)'
        BY <2>4, <2>5
  <2>7. Broke(179)' => Broke(10301)'
        BY <1>2
  <2>. QED BY <2>3, <2>6, <2>7 DEF Reverting
<1>31. ASSUME Fetching(h, S, W, x, c, to, amount, own, s)
       PROVE  \/ Broke(10301)' \/ Fetching(h, S, W, x, c, to, amount, own, s)'
              \/ amount <= own /\ At(h + 17, <<to, amount, c, own>>, 178, s)'
              \/ own < amount /\ Reverting(h + 30, 179, s)'
       BY <1>31, <1>4, <1>5, <1>6, <1>7, <1>8, <1>9, <1>10, <1>11, <1>12, <1>13, <1>14,
          <1>15, <1>16, <1>17, <1>30 DEF Fetching
<1>32. ASSUME Paying(h, c, to, amount, own, other, sum, s, t1, t2)
       PROVE  \/ Broke(10301)' \/ Paying(h, c, to, amount, own, other, sum, s, t1, t2)'
              \/ amount <= own /\ Gave(<<>>, t2)'
       BY <1>32, <1>18, <1>19, <1>20, <1>21, <1>22, <1>23, <1>24, <1>25, <1>26, <1>27,
          <1>28, <1>29 DEF Paying
<1>33. amount <= own /\ At(h + 17, <<to, amount, c, own>>, 178, s)'
          => Paying(h, c, to, amount, own, other, sum, s, t1, t2)'
       BY DEF Paying
<1>. QED BY <1>31, <1>32, <1>33 DEF Transferring

-----------------------------------------------------------------------------
LEMMA PairWithin ==
    ASSUME NEW c, NEW k, NEW a, NEW b, Within(c, k, <<a, b>>)
    PROVE  c[k + 1] = a /\ c[k + 2] = b
BY DEF Within

(* The balance of an account is looked up.                                   *)
Querying(k, S, x, of, s) ==
    \/ At(k, <<x>>, 58, s)
    \/ At(k + 1, <<x>>, 59, s)
    \/ At(k + 2, <<>>, 61, s)
    \/ At(k + 4, <<S>>, 64, s)
    \/ At(k + 5, <<of>>, 67, s)

LEMMA QueryingStep ==
    ASSUME Stepping, NEW k \in Nat,
           Within(code, k, <<OP.JUMPDEST, OP.POP>>),
           NEW S, S = SelectorBytes, Within(code, k + 2, PUSH1(S)),
           Within(code, k + 4, <<OP.CALLDATALOAD, OP.SLOAD>>),
           NEW x, NEW of, Argument(context.data, S) = of, NEW s, NEW v, ValueIn(s, of) = v,
           Querying(k, S, x, of, s)
    PROVE  Broke(167)' \/ Querying(k, S, x, of, s)' \/ At(k + 6, <<v>>, 167, s)'
<1>0. k \in Nat /\ Stepping /\ code \in Seq(Byte) /\ S \in Byte
      BY SmallBytes DEF Stepping, IInv, MadeInv
<1>1. /\ code[k + 1] = OP.JUMPDEST /\ code[k + 1 + 1] = OP.POP
      /\ code[k + 4 + 1] = OP.CALLDATALOAD /\ code[k + 5 + 1] = OP.SLOAD
      /\ Within(code, k + 2, PUSH1(S))
  <2>1. /\ code[k + 1] = OP.JUMPDEST /\ code[k + 2] = OP.POP
        /\ code[k + 4 + 1] = OP.CALLDATALOAD /\ code[k + 4 + 2] = OP.SLOAD
        BY PairWithin
  <2>2. k + 1 + 1 = k + 2 /\ k + 5 + 1 = k + 4 + 2
        OBVIOUS
  <2>. QED BY <2>1, <2>2
<1>2. \A m \in Nat : m <= 167 /\ Broke(m)' => Broke(167)'
      BY BrokeMore
<1>3. S \in Byte
      BY <1>0
<1>4. ASSUME At(k, <<x>>, 58, s)
      PROVE  Broke(167)' \/ At(k + 1, <<x>>, 59, s)'
  <2>. DEFINE t == <<x>>
  <2>1. Turning(k, t, 58, s)
        BY <1>0, <1>4, Going, TerseStacks
  <2>2. code[k + 1] = OP.JUMPDEST
        BY <1>0, <1>1
  <2>3. t = <<x>>
        OBVIOUS
  <2>. HIDE DEF t
  <2>4. Broke(58 + 1)' \/ At(k + 1, t, 58 + 1, s)'
        BY <1>0, <2>1, <2>2, <1>3, JumpdestAt
  <2>5. k + 1 = k + 1 /\ 58 + 1 = 59
        BY <1>0
  <2>6. Broke(59)' \/ At(k + 1, <<x>>, 59, s)'
        BY <2>3, <2>4, <2>5
  <2>7. Broke(59)' => Broke(167)'
        BY <1>0, <1>2
  <2>. QED BY <2>6, <2>7
<1>5. ASSUME At(k + 1, <<x>>, 59, s)
      PROVE  Broke(167)' \/ At(k + 2, <<>>, 61, s)'
  <2>. DEFINE t == <<x>>
  <2>1. Turning(k + 1, t, 59, s)
        BY <1>0, <1>5, Going, TerseStacks
  <2>2. code[k + 1 + 1] = OP.POP
        BY <1>0, <1>1
  <2>3. 1 <= Len(t) /\ FromTop(t, 1) = x
        BY Tops, Depths
  <2>4. Rewrite(t, 1, <<>>) = <<>>
        BY Popping
  <2>. HIDE DEF t
  <2>5. Broke(59 + 2)' \/ At(k + 1 + 1, Rewrite(t, 1, <<>>), 59 + 2, s)'
        BY <1>0, <2>1, <2>2, <2>3, <1>3, PopAt
  <2>6. k + 1 + 1 = k + 2 /\ 59 + 2 = 61
        BY <1>0
  <2>7. Broke(61)' \/ At(k + 2, <<>>, 61, s)'
        BY <2>4, <2>5, <2>6
  <2>8. Broke(61)' => Broke(167)'
        BY <1>0, <1>2
  <2>. QED BY <2>7, <2>8
<1>6. ASSUME At(k + 2, <<>>, 61, s)
      PROVE  Broke(167)' \/ At(k + 4, <<S>>, 64, s)'
  <2>. DEFINE t == <<>>
  <2>1. Turning(k + 2, t, 61, s)
        BY <1>0, <1>6, Going, TerseStacks
  <2>2. Within(code, k + 2, PUSH1(S))
        BY <1>0, <1>1
  <2>3. Rewrite(t, 0, <<S>>) = <<S>>
        BY Pushing
  <2>. HIDE DEF t
  <2>4. Broke(61 + 3)' \/ At(k + 2 + 2, Rewrite(t, 0, <<S>>), 61 + 3, s)'
        BY <1>0, <2>1, <2>2, <1>3, Push1At
  <2>5. k + 2 + 2 = k + 4 /\ 61 + 3 = 64
        BY <1>0
  <2>6. Broke(64)' \/ At(k + 4, <<S>>, 64, s)'
        BY <2>3, <2>4, <2>5
  <2>7. Broke(64)' => Broke(167)'
        BY <1>0, <1>2
  <2>. QED BY <2>6, <2>7
<1>7. ASSUME At(k + 4, <<S>>, 64, s)
      PROVE  Broke(167)' \/ At(k + 5, <<of>>, 67, s)'
  <2>. DEFINE t == <<S>>
  <2>1. Turning(k + 4, t, 64, s)
        BY <1>0, <1>7, Going, TerseStacks
  <2>2. code[k + 4 + 1] = OP.CALLDATALOAD
        BY <1>0, <1>1
  <2>3. 1 <= Len(t) /\ FromTop(t, 1) = S
        BY Tops, Depths
  <2>4. Rewrite(t, 1, <<of>>) = <<of>>
        BY Replacing
  <2>. HIDE DEF t
  <2>5. Broke(64 + 3)' \/ At(k + 4 + 1, Rewrite(t, 1, <<of>>), 64 + 3, s)'
        BY <1>0, <2>1, <2>2, <2>3, <1>3, LoadAt
  <2>6. k + 4 + 1 = k + 5 /\ 64 + 3 = 67
        BY <1>0
  <2>7. Broke(67)' \/ At(k + 5, <<of>>, 67, s)'
        BY <2>4, <2>5, <2>6
  <2>8. Broke(67)' => Broke(167)'
        BY <1>0, <1>2
  <2>. QED BY <2>7, <2>8
<1>8. ASSUME At(k + 5, <<of>>, 67, s)
      PROVE  Broke(167)' \/ At(k + 6, <<v>>, 167, s)'
  <2>. DEFINE t == <<of>>
  <2>1. Turning(k + 5, t, 67, s)
        BY <1>0, <1>8, Going, TerseStacks
  <2>2. code[k + 5 + 1] = OP.SLOAD
        BY <1>0, <1>1
  <2>3. 1 <= Len(t) /\ FromTop(t, 1) = of
        BY Tops, Depths
  <2>4. Rewrite(t, 1, <<v>>) = <<v>>
        BY Replacing
  <2>. HIDE DEF t
  <2>5. Broke(67 + 100)' \/ At(k + 5 + 1, Rewrite(t, 1, <<v>>), 67 + 100, s)'
        BY <1>0, <2>1, <2>2, <2>3, <1>3, FetchAt
  <2>6. k + 5 + 1 = k + 6 /\ 67 + 100 = 167
        BY <1>0
  <2>7. Broke(167)' \/ At(k + 6, <<v>>, 167, s)'
        BY <2>4, <2>5, <2>6
  <2>8. Broke(167)' => Broke(167)'
        BY <1>0, <1>2
  <2>. QED BY <2>7, <2>8
<1>. QED BY <1>4, <1>5, <1>6, <1>7, <1>8 DEF Querying

Incremented(s) == (1 + ValueIn(s, 0)) % MOD_VALUE

(* The counter is incremented.                                              *)
Counting(k, x, v, sum, s, r) ==
    \/ At(k, <<x>>, 36, s)
    \/ At(k + 1, <<x>>, 37, s)
    \/ At(k + 2, <<>>, 39, s)
    \/ At(k + 4, <<0>>, 42, s)
    \/ At(k + 5, <<v>>, 142, s)
    \/ At(k + 7, <<v, 1>>, 145, s)
    \/ At(k + 8, <<sum>>, 148, s)
    \/ At(k + 10, <<sum, 0>>, 151, s)
    \/ At(k + 11, <<>>, 5151, r)

LEMMA CountingStep ==
    ASSUME Stepping, NEW k \in Nat,
           Within(code, k, <<OP.JUMPDEST, OP.POP>>), Within(code, k + 2, PUSH1(0)),
           Within(code, k + 4, <<OP.SLOAD>>), Within(code, k + 5, PUSH1(1)),
           Within(code, k + 7, <<OP.ADD>>), Within(code, k + 8, PUSH1(0)),
           Within(code, k + 10, <<OP.SSTORE, OP.STOP>>),
           NEW x, NEW s, NEW v, ValueIn(s, 0) = v, NEW sum, Incremented(s) = sum,
           NEW r, Stored(s, 0, sum) = r,
           Counting(k, x, v, sum, s, r)
    PROVE  Broke(5151)' \/ Counting(k, x, v, sum, s, r)' \/ Gave(<<>>, r)'
<1>0. k \in Nat /\ Stepping /\ code \in Seq(Byte) /\ 0 \in Byte /\ 1 \in Byte
      BY SmallBytes DEF Stepping, IInv, MadeInv
<1>1. /\ code[k + 1] = OP.JUMPDEST /\ code[k + 1 + 1] = OP.POP
      /\ code[k + 4 + 1] = OP.SLOAD /\ code[k + 7 + 1] = OP.ADD
      /\ code[k + 10 + 1] = OP.SSTORE /\ code[k + 11 + 1] = OP.STOP
      /\ Within(code, k + 2, PUSH1(0)) /\ Within(code, k + 5, PUSH1(1))
      /\ Within(code, k + 8, PUSH1(0))
  <2>1. code[k + 2] = OP.POP /\ code[k + 10 + 2] = OP.STOP
        BY DEF Within
  <2>2. k + 1 + 1 = k + 2 /\ k + 11 + 1 = k + 10 + 2
        OBVIOUS
  <2>. QED BY <2>1, <2>2 DEF Within
<1>2. \A m \in Nat : m <= 5151 /\ Broke(m)' => Broke(5151)'
      BY BrokeMore
<1>3. 0 \in Byte /\ 1 \in Byte /\ ((1 + v) % MOD_VALUE) = sum
      BY <1>0 DEF Incremented
<1>4. ASSUME At(k, <<x>>, 36, s)
      PROVE  Broke(5151)' \/ At(k + 1, <<x>>, 37, s)'
  <2>. DEFINE t == <<x>>
  <2>1. Turning(k, t, 36, s)
        BY <1>0, <1>4, Going, TerseStacks
  <2>2. code[k + 1] = OP.JUMPDEST
        BY <1>0, <1>1
  <2>3. t = <<x>>
        OBVIOUS
  <2>. HIDE DEF t
  <2>4. Broke(36 + 1)' \/ At(k + 1, t, 36 + 1, s)'
        BY <1>0, <2>1, <2>2, <1>3, JumpdestAt
  <2>5. k + 1 = k + 1 /\ 36 + 1 = 37
        BY <1>0
  <2>6. Broke(37)' \/ At(k + 1, <<x>>, 37, s)'
        BY <2>3, <2>4, <2>5
  <2>7. Broke(37)' => Broke(5151)'
        BY <1>0, <1>2
  <2>. QED BY <2>6, <2>7
<1>5. ASSUME At(k + 1, <<x>>, 37, s)
      PROVE  Broke(5151)' \/ At(k + 2, <<>>, 39, s)'
  <2>. DEFINE t == <<x>>
  <2>1. Turning(k + 1, t, 37, s)
        BY <1>0, <1>5, Going, TerseStacks
  <2>2. code[k + 1 + 1] = OP.POP
        BY <1>0, <1>1
  <2>3. 1 <= Len(t) /\ FromTop(t, 1) = x
        BY Tops, Depths
  <2>4. Rewrite(t, 1, <<>>) = <<>>
        BY Popping
  <2>. HIDE DEF t
  <2>5. Broke(37 + 2)' \/ At(k + 1 + 1, Rewrite(t, 1, <<>>), 37 + 2, s)'
        BY <1>0, <2>1, <2>2, <2>3, <1>3, PopAt
  <2>6. k + 1 + 1 = k + 2 /\ 37 + 2 = 39
        BY <1>0
  <2>7. Broke(39)' \/ At(k + 2, <<>>, 39, s)'
        BY <2>4, <2>5, <2>6
  <2>8. Broke(39)' => Broke(5151)'
        BY <1>0, <1>2
  <2>. QED BY <2>7, <2>8
<1>6. ASSUME At(k + 2, <<>>, 39, s)
      PROVE  Broke(5151)' \/ At(k + 4, <<0>>, 42, s)'
  <2>. DEFINE t == <<>>
  <2>1. Turning(k + 2, t, 39, s)
        BY <1>0, <1>6, Going, TerseStacks
  <2>2. Within(code, k + 2, PUSH1(0))
        BY <1>0, <1>1
  <2>3. Rewrite(t, 0, <<0>>) = <<0>>
        BY Pushing
  <2>. HIDE DEF t
  <2>4. Broke(39 + 3)' \/ At(k + 2 + 2, Rewrite(t, 0, <<0>>), 39 + 3, s)'
        BY <1>0, <2>1, <2>2, <1>3, Push1At
  <2>5. k + 2 + 2 = k + 4 /\ 39 + 3 = 42
        BY <1>0
  <2>6. Broke(42)' \/ At(k + 4, <<0>>, 42, s)'
        BY <2>3, <2>4, <2>5
  <2>7. Broke(42)' => Broke(5151)'
        BY <1>0, <1>2
  <2>. QED BY <2>6, <2>7
<1>7. ASSUME At(k + 4, << 0 >>, 42, s)
      PROVE  Broke(5151)' \/ At(k + 5, <<v>>, 142, s)'
  <2>. DEFINE t == <<0>>
  <2>1. Turning(k + 4, t, 42, s)
        BY <1>0, <1>7, Going, TerseStacks
  <2>2. code[k + 4 + 1] = OP.SLOAD
        BY <1>0, <1>1
  <2>3. 1 <= Len(t) /\ FromTop(t, 1) = 0
        BY Tops, Depths
  <2>4. Rewrite(t, 1, <<v>>) = <<v>>
        BY Replacing
  <2>. HIDE DEF t
  <2>5. Broke(42 + 100)' \/ At(k + 4 + 1, Rewrite(t, 1, <<v>>), 42 + 100, s)'
        BY <1>0, <2>1, <2>2, <2>3, <1>3, FetchAt
  <2>6. k + 4 + 1 = k + 5 /\ 42 + 100 = 142
        BY <1>0
  <2>7. Broke(142)' \/ At(k + 5, <<v>>, 142, s)'
        BY <2>4, <2>5, <2>6
  <2>8. Broke(142)' => Broke(5151)'
        BY <1>0, <1>2
  <2>. QED BY <2>7, <2>8
<1>8. ASSUME At(k + 5, <<v>>, 142, s)
      PROVE  Broke(5151)' \/ At(k + 7, <<v, 1>>, 145, s)'
  <2>. DEFINE t == <<v>>
  <2>1. Turning(k + 5, t, 142, s)
        BY <1>0, <1>8, Going, TerseStacks
  <2>2. Within(code, k + 5, PUSH1(1))
        BY <1>0, <1>1
  <2>3. Rewrite(t, 0, <<1>>) = <<v, 1>>
        BY Pushing
  <2>. HIDE DEF t
  <2>4. Broke(142 + 3)' \/ At(k + 5 + 2, Rewrite(t, 0, <<1>>), 142 + 3, s)'
        BY <1>0, <2>1, <2>2, <1>3, Push1At
  <2>5. k + 5 + 2 = k + 7 /\ 142 + 3 = 145
        BY <1>0
  <2>6. Broke(145)' \/ At(k + 7, <<v, 1>>, 145, s)'
        BY <2>3, <2>4, <2>5
  <2>7. Broke(145)' => Broke(5151)'
        BY <1>0, <1>2
  <2>. QED BY <2>6, <2>7
<1>9. ASSUME At(k + 7, <<v, 1>>, 145, s)
      PROVE  Broke(5151)' \/ At(k + 8, <<sum>>, 148, s)'
  <2>. DEFINE t == <<v, 1>>
  <2>1. Turning(k + 7, t, 145, s)
        BY <1>0, <1>9, Going, TerseStacks
  <2>2. code[k + 7 + 1] = OP.ADD
        BY <1>0, <1>1
  <2>3. 2 <= Len(t) /\ FromTop(t, 1) = 1 /\ FromTop(t, 2) = v
        BY Tops, Depths
  <2>4. Rewrite(t, 2, <<sum>>) = <<sum>>
        BY Replacing
  <2>. HIDE DEF t
  <2>5. Broke(145 + 3)' \/ At(k + 7 + 1, Rewrite(t, 2, <<sum>>), 145 + 3, s)'
        BY <1>0, <2>1, <2>2, <2>3, <1>3, AddAt
  <2>6. k + 7 + 1 = k + 8 /\ 145 + 3 = 148
        BY <1>0
  <2>7. Broke(148)' \/ At(k + 8, <<sum>>, 148, s)'
        BY <2>4, <2>5, <2>6
  <2>8. Broke(148)' => Broke(5151)'
        BY <1>0, <1>2
  <2>. QED BY <2>7, <2>8
<1>10. ASSUME At(k + 8, <<sum>>, 148, s)
      PROVE  Broke(5151)' \/ At(k + 10, <<sum, 0>>, 151, s)'
  <2>. DEFINE t == <<sum>>
  <2>1. Turning(k + 8, t, 148, s)
        BY <1>0, <1>10, Going, TerseStacks
  <2>2. Within(code, k + 8, PUSH1(0))
        BY <1>0, <1>1
  <2>3. Rewrite(t, 0, <<0>>) = <<sum, 0>>
        BY Pushing
  <2>. HIDE DEF t
  <2>4. Broke(148 + 3)' \/ At(k + 8 + 2, Rewrite(t, 0, <<0>>), 148 + 3, s)'
        BY <1>0, <2>1, <2>2, <1>3, Push1At
  <2>5. k + 8 + 2 = k + 10 /\ 148 + 3 = 151
        BY <1>0
  <2>6. Broke(151)' \/ At(k + 10, <<sum, 0>>, 151, s)'
        BY <2>3, <2>4, <2>5
  <2>7. Broke(151)' => Broke(5151)'
        BY <1>0, <1>2
  <2>. QED BY <2>6, <2>7
<1>11. ASSUME At(k + 10, <<sum, 0>>, 151, s)
      PROVE  Broke(5151)' \/ At(k + 11, <<>>, 5151, r)'
  <2>. DEFINE t == <<sum, 0>>
  <2>1. Turning(k + 10, t, 151, s)
        BY <1>0, <1>11, Going, TerseStacks
  <2>2. code[k + 10 + 1] = OP.SSTORE
        BY <1>0, <1>1
  <2>3. 2 <= Len(t) /\ FromTop(t, 1) = 0 /\ FromTop(t, 2) = sum
        BY Tops, Depths
  <2>4. Rewrite(t, 2, <<>>) = <<>>
        BY Popping
  <2>. HIDE DEF t
  <2>5. Broke(151 + 5000)' \/ At(k + 10 + 1, Rewrite(t, 2, <<>>), 151 + 5000, r)'
        BY <1>0, <2>1, <2>2, <2>3, <1>3, StoreAt, SMTT(30)
  <2>6. k + 10 + 1 = k + 11 /\ 151 + 5000 = 5151
        BY <1>0
  <2>7. Broke(5151)' \/ At(k + 11, <<>>, 5151, r)'
        BY <2>4, <2>5, <2>6
  <2>8. Broke(5151)' => Broke(5151)'
        BY <1>0, <1>2
  <2>. QED BY <2>7, <2>8
<1>12. ASSUME At(k + 11, <<>>, 5151, r)
      PROVE  Broke(5151)' \/ Gave(<<>>, r)'
  <2>1. Turning(k + 11, <<>>, 5151, r)
        BY <1>0, <1>12, Going, TerseStacks
  <2>2. code[k + 11 + 1] = OP.STOP
        BY <1>0, <1>1
  <2>. QED BY <2>1, <2>2, StopAt
<1>. QED BY <1>4, <1>5, <1>6, <1>7, <1>8, <1>9, <1>10, <1>11, <1>12 DEF Counting

(* The count is looked up.                                                   *)
Recalling(k, x, s) ==
    \/ At(k, <<x>>, 58, s)
    \/ At(k + 1, <<x>>, 59, s)
    \/ At(k + 2, <<>>, 61, s)
    \/ At(k + 4, <<0>>, 64, s)

LEMMA RecallingStep ==
    ASSUME Stepping, NEW k \in Nat,
           Within(code, k, <<OP.JUMPDEST, OP.POP>>), Within(code, k + 2, PUSH1(0)),
           Within(code, k + 4, <<OP.SLOAD>>),
           NEW x, NEW s, NEW v, ValueIn(s, 0) = v,
           Recalling(k, x, s)
    PROVE  Broke(164)' \/ Recalling(k, x, s)' \/ At(k + 5, <<v>>, 164, s)'
<1>0. k \in Nat /\ Stepping /\ code \in Seq(Byte) /\ 0 \in Byte
      BY SmallBytes DEF Stepping, IInv, MadeInv
<1>1. /\ code[k + 1] = OP.JUMPDEST /\ code[k + 1 + 1] = OP.POP
      /\ code[k + 4 + 1] = OP.SLOAD /\ Within(code, k + 2, PUSH1(0))
  <2>1. code[k + 2] = OP.POP
        BY DEF Within
  <2>2. k + 1 + 1 = k + 2
        OBVIOUS
  <2>. QED BY <2>1, <2>2 DEF Within
<1>2. \A m \in Nat : m <= 164 /\ Broke(m)' => Broke(164)'
      BY BrokeMore
<1>3. 0 \in Byte
      BY <1>0
<1>4. ASSUME At(k, <<x>>, 58, s)
      PROVE  Broke(164)' \/ At(k + 1, <<x>>, 59, s)'
  <2>. DEFINE t == <<x>>
  <2>1. Turning(k, t, 58, s)
        BY <1>0, <1>4, Going, TerseStacks
  <2>2. code[k + 1] = OP.JUMPDEST
        BY <1>0, <1>1
  <2>3. t = <<x>>
        OBVIOUS
  <2>. HIDE DEF t
  <2>4. Broke(58 + 1)' \/ At(k + 1, t, 58 + 1, s)'
        BY <1>0, <2>1, <2>2, <1>3, JumpdestAt
  <2>5. k + 1 = k + 1 /\ 58 + 1 = 59
        BY <1>0
  <2>6. Broke(59)' \/ At(k + 1, <<x>>, 59, s)'
        BY <2>3, <2>4, <2>5
  <2>7. Broke(59)' => Broke(164)'
        BY <1>0, <1>2
  <2>. QED BY <2>6, <2>7
<1>5. ASSUME At(k + 1, <<x>>, 59, s)
      PROVE  Broke(164)' \/ At(k + 2, <<>>, 61, s)'
  <2>. DEFINE t == <<x>>
  <2>1. Turning(k + 1, t, 59, s)
        BY <1>0, <1>5, Going, TerseStacks
  <2>2. code[k + 1 + 1] = OP.POP
        BY <1>0, <1>1
  <2>3. 1 <= Len(t) /\ FromTop(t, 1) = x
        BY Tops, Depths
  <2>4. Rewrite(t, 1, <<>>) = <<>>
        BY Popping
  <2>. HIDE DEF t
  <2>5. Broke(59 + 2)' \/ At(k + 1 + 1, Rewrite(t, 1, <<>>), 59 + 2, s)'
        BY <1>0, <2>1, <2>2, <2>3, <1>3, PopAt
  <2>6. k + 1 + 1 = k + 2 /\ 59 + 2 = 61
        BY <1>0
  <2>7. Broke(61)' \/ At(k + 2, <<>>, 61, s)'
        BY <2>4, <2>5, <2>6
  <2>8. Broke(61)' => Broke(164)'
        BY <1>0, <1>2
  <2>. QED BY <2>7, <2>8
<1>6. ASSUME At(k + 2, <<>>, 61, s)
      PROVE  Broke(164)' \/ At(k + 4, <<0>>, 64, s)'
  <2>. DEFINE t == <<>>
  <2>1. Turning(k + 2, t, 61, s)
        BY <1>0, <1>6, Going, TerseStacks
  <2>2. Within(code, k + 2, PUSH1(0))
        BY <1>0, <1>1
  <2>3. Rewrite(t, 0, <<0>>) = <<0>>
        BY Pushing
  <2>. HIDE DEF t
  <2>4. Broke(61 + 3)' \/ At(k + 2 + 2, Rewrite(t, 0, <<0>>), 61 + 3, s)'
        BY <1>0, <2>1, <2>2, <1>3, Push1At
  <2>5. k + 2 + 2 = k + 4 /\ 61 + 3 = 64
        BY <1>0
  <2>6. Broke(64)' \/ At(k + 4, <<0>>, 64, s)'
        BY <2>3, <2>4, <2>5
  <2>7. Broke(64)' => Broke(164)'
        BY <1>0, <1>2
  <2>. QED BY <2>6, <2>7
<1>7. ASSUME At(k + 4, << 0 >>, 64, s)
      PROVE  Broke(164)' \/ At(k + 5, <<v>>, 164, s)'
  <2>. DEFINE t == <<0>>
  <2>1. Turning(k + 4, t, 64, s)
        BY <1>0, <1>7, Going, TerseStacks
  <2>2. code[k + 4 + 1] = OP.SLOAD
        BY <1>0, <1>1
  <2>3. 1 <= Len(t) /\ FromTop(t, 1) = 0
        BY Tops, Depths
  <2>4. Rewrite(t, 1, <<v>>) = <<v>>
        BY Replacing
  <2>. HIDE DEF t
  <2>5. Broke(64 + 100)' \/ At(k + 4 + 1, Rewrite(t, 1, <<v>>), 64 + 100, s)'
        BY <1>0, <2>1, <2>2, <2>3, <1>3, FetchAt
  <2>6. k + 4 + 1 = k + 5 /\ 64 + 100 = 164
        BY <1>0
  <2>7. Broke(164)' \/ At(k + 5, <<v>>, 164, s)'
        BY <2>4, <2>5, <2>6
  <2>8. Broke(164)' => Broke(164)'
        BY <1>0, <1>2
  <2>. QED BY <2>7, <2>8
<1>. QED BY <1>4, <1>5, <1>6, <1>7 DEF Recalling

-----------------------------------------------------------------------------
(* The jump destinations *)

(* Positions each of which is followed by another of them or by e are left   *)
(* at e.                                                                     *)
LEMMA PathLeads ==
    ASSUME NEW next \in [Nat -> Nat], \A q \in Nat : next[q] > q, NEW e \in Nat,
           NEW D, \A q \in D : q \in 0..(e - 1) /\ next[q] \in D \cup {e},
           NEW p \in D, NEW R \in SUBSET Nat, p \in R, Closed(next, R)
    PROVE  e \in R
<1>. SUFFICES ASSUME e \notin R PROVE FALSE
     OBVIOUS
<1>. DEFINE T == {e - q : q \in D \cap R}
<1>1. \A q \in D \cap R : q \in Nat /\ e - q \in Nat
      OBVIOUS
<1>2. T \subseteq Nat /\ T # {}
      BY <1>1
<1>3. PICK x \in T : \A y \in T : x <= y
      BY <1>2, LeastNumber
<1>4. PICK q \in D \cap R : x = e - q
      BY <1>3
<1>5. next[q] \in D \cap R
      BY <1>4 DEF Closed
<1>6. next[q] > q /\ next[q] \in Nat /\ q \in Nat
      BY <1>1, <1>4, <1>5
<1>7. x <= e - next[q]
      BY <1>3, <1>5
<1>. QED BY <1>4, <1>6, <1>7

LEMMA TokenTargets ==
    ASSUME NEW c, c = TOKEN_RUNTIME_BYTECODE, NEW h \in Nat, h = Handlers
    PROVE  {h, h + 29, h + 35} \subseteq find_jumpdests(c)
<1>. DEFINE next == After(c)
            R == ReachedFrom(next, 0)
            Between(m, n) == {h + d : d \in {d \in HandlerAt : m <= d /\ d < n}}
<1>1. Len(c) = h + 49
      BY TokenParts
<1>2. next \in [Nat -> Nat] /\ \A q \in Nat : next[q] > q
      BY AfterType
<1>3. 0 \in Nat /\ h + 29 \in Nat /\ h + 35 \in Nat
      OBVIOUS
<1>4. 0 \in R /\ Closed(next, R) /\ R \in SUBSET Nat
      BY <1>2, <1>3, ReachClosed
<1>5. \A q \in DispatcherAt : q \in 0..(h - 1) /\ next[q] \in DispatcherAt \cup {h}
      BY TokenDispatcher
<1>6. 0 \in DispatcherAt
      BY DEF DispatcherAt
<1>7. \A d \in HandlerAt : next[h + d] = h + d + (IF d \in HandlerPushes THEN 2 ELSE 1)
  <2>. SUFFICES ASSUME NEW d \in HandlerAt
                PROVE  next[h + d] = h + d + (IF d \in HandlerPushes THEN 2 ELSE 1)
       OBVIOUS
  <2>1. /\ d \in HandlerPushes => After(c)[h + d] = h + d + 2
        /\ d \in HandlerOthers => After(c)[h + d] = h + d + 1
        BY HandlerPath
  <2>. QED BY <2>1 DEF HandlerAt
<1>. HIDE DEF next
<1>8. h \in R
      BY <1>2, <1>4, <1>5, <1>6, PathLeads
<1>9. h + 29 \in R
  <2>. DEFINE D == Between(0, 29)
  <2>1. \A q \in D : q \in 0..(h + 29 - 1) /\ next[q] \in D \cup {h + 29}
    <3>. SUFFICES ASSUME NEW d \in HandlerAt, d < 29
                  PROVE  /\ h + d \in 0..(h + 29 - 1)
                         /\ next[h + d] = h + 29
                            \/ \E d2 \in HandlerAt : d2 < 29 /\ 0 <= d2 /\ next[h + d] = h + d2
         OBVIOUS
    <3>1. d \in HandlerPushes => d + 2 \in HandlerAt /\ d + 2 < 29 /\ 0 <= d + 2
          BY DEF HandlerAt, HandlerPushes, HandlerOthers
    <3>2. d \notin HandlerPushes => d = 28 \/ (d + 1 \in HandlerAt /\ d + 1 < 29 /\ 0 <= d + 1)
          BY DEF HandlerAt, HandlerPushes, HandlerOthers
    <3>3. d \in 0..28
          BY HandlerOffsets
    <3>4. h + d + 2 = h + (d + 2) /\ h + d + 1 = h + (d + 1) /\ h + 28 + 1 = h + 29
          BY <3>3
    <3>5. h + d \in 0..(h + 29 - 1)
          BY <3>3
    <3>6. CASE d \in HandlerPushes
          BY <1>7, <3>1, <3>4, <3>5, <3>6
    <3>7. CASE d \notin HandlerPushes
          BY <1>7, <3>2, <3>4, <3>5, <3>7
    <3>. QED BY <3>6, <3>7
  <2>2. h \in D
    <3>1. h + 0 = h /\ 0 \in HandlerAt /\ 0 <= 0 /\ 0 < 29
          BY HandlerOffsets
    <3>. QED BY <3>1
  <2>. HIDE DEF D, R
  <2>. DEFINE e == h + 29
  <2>3. e \in Nat /\ \A q \in D : q \in 0..(e - 1) /\ next[q] \in D \cup {e}
        BY <1>3, <2>1
  <2>4. R \in SUBSET Nat /\ Closed(next, R) /\ h \in R
        BY <1>4, <1>8
  <2>. HIDE DEF e
  <2>5. e \in R
        BY <1>2, <2>2, <2>3, <2>4, PathLeads
  <2>. QED BY <2>5 DEF e
<1>10. h + 35 \in R
  <2>. DEFINE D == Between(29, 35)
  <2>1. \A q \in D : q \in 0..(h + 35 - 1) /\ next[q] \in D \cup {h + 35}
    <3>. SUFFICES ASSUME NEW d \in HandlerAt, 29 <= d, d < 35
                  PROVE  /\ h + d \in 0..(h + 35 - 1)
                         /\ next[h + d] = h + 35
                            \/ \E d2 \in HandlerAt : d2 < 35 /\ 29 <= d2 /\ next[h + d] = h + d2
         OBVIOUS
    <3>1. d \in HandlerPushes => d + 2 \in HandlerAt /\ d + 2 < 35 /\ 29 <= d + 2
          BY DEF HandlerAt, HandlerPushes, HandlerOthers
    <3>2. d \notin HandlerPushes => d = 34 \/ (d + 1 \in HandlerAt /\ d + 1 < 35 /\ 29 <= d + 1)
          BY DEF HandlerAt, HandlerPushes, HandlerOthers
    <3>3. d \in 29..34
          BY HandlerOffsets
    <3>4. h + d + 2 = h + (d + 2) /\ h + d + 1 = h + (d + 1) /\ h + 34 + 1 = h + 35
          BY <3>3
    <3>5. h + d \in 0..(h + 35 - 1)
          BY <3>3
    <3>6. CASE d \in HandlerPushes
          BY <1>7, <3>1, <3>4, <3>5, <3>6
    <3>7. CASE d \notin HandlerPushes
          BY <1>7, <3>2, <3>4, <3>5, <3>7
    <3>. QED BY <3>6, <3>7
  <2>2. h + 29 \in D
    <3>1. 29 \in HandlerAt /\ 29 <= 29 /\ 29 < 35
          BY DEF HandlerAt, HandlerOthers
    <3>. QED BY <3>1
  <2>. HIDE DEF D, R
  <2>. QED BY <1>2, <1>3, <1>4, <1>9, <2>1, <2>2, PathLeads
<1>11. /\ h < Len(c) /\ h + 29 < Len(c) /\ h + 35 < Len(c)
       /\ c[h + 1] = OP.JUMPDEST /\ c[h + 29 + 1] = OP.JUMPDEST /\ c[h + 35 + 1] = OP.JUMPDEST
  <2>1. c[h + 1] = 91 /\ c[h + 30] = 91 /\ c[h + 36] = 91
        BY HandlerBytes
  <2>2. h + 29 + 1 = h + 30 /\ h + 35 + 1 = h + 36 /\ OP.JUMPDEST = 91
        BY Opcodes
  <2>. QED BY <1>1, <2>1, <2>2
<1>12. find_jumpdests(c) = {q \in R : q < Len(c) /\ c[q + 1] = OP.JUMPDEST}
  <2>1. Len(c) \in Nat
        BY <1>1
  <2>. QED BY <2>1, JumpdestsReached DEF next
<1>. HIDE DEF R
<1>. QED BY <1>8, <1>9, <1>10, <1>11, <1>12

LEMMA CounterParts ==
    ASSUME NEW c, c = COUNTER_RUNTIME_BYTECODE
    PROVE  /\ c \in Seq(Byte) /\ Len(c) = Handlers + 25 /\ Handlers \in Nat
           /\ Within(c, 0, Dispatcher("increment", Handlers, "getCount", Handlers + 12))
           /\ Within(c, Handlers, <<OP.JUMPDEST, OP.POP>>)
           /\ Within(c, Handlers + 2, PUSH1(0)) /\ Within(c, Handlers + 4, <<OP.SLOAD>>)
           /\ Within(c, Handlers + 5, PUSH1(1)) /\ Within(c, Handlers + 7, <<OP.ADD>>)
           /\ Within(c, Handlers + 8, PUSH1(0))
           /\ Within(c, Handlers + 10, <<OP.SSTORE, OP.STOP>>)
           /\ Within(c, Handlers + 12, <<OP.JUMPDEST, OP.POP>>)
           /\ Within(c, Handlers + 14, PUSH1(0)) /\ Within(c, Handlers + 16, <<OP.SLOAD>>)
           /\ Within(c, Handlers + 17, RETURN1)
<1>. DEFINE W == WordBytes
            S == SelectorBytes
<1>1. c \in Seq(Byte) /\ Len(c) = W + 2 * S + 48
      BY CounterCode DEF IsCode
<1>2. Within(c, 0, c)
      BY <1>1, WithinSelf
<1>3. 0 \in Nat
      OBVIOUS
<1>4. /\ Within(c, 0, Dispatcher("increment", Handlers, "getCount", Handlers + 12))
      /\ Within(c, 0 + W + 2 * S + 23, <<OP.JUMPDEST, OP.POP>>)
      /\ Within(c, 0 + W + 2 * S + 25, PUSH1(0)) /\ Within(c, 0 + W + 2 * S + 27, <<OP.SLOAD>>)
      /\ Within(c, 0 + W + 2 * S + 28, PUSH1(1)) /\ Within(c, 0 + W + 2 * S + 30, <<OP.ADD>>)
      /\ Within(c, 0 + W + 2 * S + 31, PUSH1(0))
      /\ Within(c, 0 + W + 2 * S + 33, <<OP.SSTORE, OP.STOP>>)
      /\ Within(c, 0 + W + 2 * S + 35, <<OP.JUMPDEST, OP.POP>>)
      /\ Within(c, 0 + W + 2 * S + 37, PUSH1(0)) /\ Within(c, 0 + W + 2 * S + 39, <<OP.SLOAD>>)
      /\ Within(c, 0 + W + 2 * S + 40, RETURN1)
      BY <1>1, <1>2, <1>3, CounterCode, ZenonT(30)
<1>5. W \in Int /\ S \in Int
      BY Widths
<1>6. Handlers = W + 2 * S + 23 /\ Handlers \in Nat
      BY SmallBytes DEF Byte
<1>. HIDE DEF W, S
<1>7. /\ 0 + W + 2 * S + 23 = Handlers /\ 0 + W + 2 * S + 25 = Handlers + 2
      /\ 0 + W + 2 * S + 27 = Handlers + 4 /\ 0 + W + 2 * S + 28 = Handlers + 5
      /\ 0 + W + 2 * S + 30 = Handlers + 7 /\ 0 + W + 2 * S + 31 = Handlers + 8
      /\ 0 + W + 2 * S + 33 = Handlers + 10 /\ 0 + W + 2 * S + 35 = Handlers + 12
      /\ 0 + W + 2 * S + 37 = Handlers + 14 /\ 0 + W + 2 * S + 39 = Handlers + 16
      /\ 0 + W + 2 * S + 40 = Handlers + 17 /\ W + 2 * S + 48 = Handlers + 25
      BY <1>5, <1>6
<1>. QED BY <1>1, <1>4, <1>6, <1>7

LEMMA CounterTargets ==
    ASSUME NEW c, c = COUNTER_RUNTIME_BYTECODE, NEW h \in Nat, h = Handlers
    PROVE  {h, h + 12} \subseteq find_jumpdests(c)
<1>. DEFINE next == After(c)
            R == ReachedFrom(next, 0)
<1>1. Len(c) = h + 25 /\ c \in Seq(Byte)
      BY CounterParts
<1>2. next \in [Nat -> Nat] /\ \A q \in Nat : next[q] > q
      BY AfterType
<1>3. 0 \in Nat
      OBVIOUS
<1>4. 0 \in R /\ Closed(next, R) /\ R \in SUBSET Nat
      BY <1>2, <1>3, ReachClosed
<1>5. \A q \in DispatcherAt : q \in 0..(h - 1) /\ next[q] \in DispatcherAt \cup {h}
  <2>1. "increment" \in DOMAIN Selector /\ "getCount" \in DOMAIN Selector
        BY SelectorAssumption
  <2>2. Handlers \in Byte /\ Handlers + 12 \in Byte
        BY SmallBytes DEF Byte
  <2>3. Within(c, 0, Dispatcher("increment", Handlers, "getCount", Handlers + 12))
        BY CounterParts
  <2>. QED BY <1>1, <2>1, <2>2, <2>3, DispatcherPath
<1>6. 0 \in DispatcherAt
      BY DEF DispatcherAt
<1>7. /\ c[h + 1] = 91 /\ c[h + 2] = 80 /\ c[h + 3] = 96 /\ c[h + 5] = 84 /\ c[h + 6] = 96
      /\ c[h + 8] = 1 /\ c[h + 9] = 96 /\ c[h + 11] = 85 /\ c[h + 12] = 0 /\ c[h + 13] = 91
  <2>1. /\ Within(c, h, <<OP.JUMPDEST, OP.POP>>) /\ Within(c, h + 2, PUSH1(0))
        /\ Within(c, h + 4, <<OP.SLOAD>>) /\ Within(c, h + 5, PUSH1(1))
        /\ Within(c, h + 7, <<OP.ADD>>) /\ Within(c, h + 8, PUSH1(0))
        /\ Within(c, h + 10, <<OP.SSTORE, OP.STOP>>)
        /\ Within(c, h + 12, <<OP.JUMPDEST, OP.POP>>)
        BY CounterParts
  <2>2. /\ c[h + 1] = OP.JUMPDEST /\ c[h + 2] = OP.POP /\ c[h + 2 + 1] = OP.PUSH1
        /\ c[h + 5 + 1] = OP.PUSH1 /\ c[h + 8 + 1] = OP.PUSH1 /\ c[h + 10 + 1] = OP.SSTORE
        /\ c[h + 10 + 2] = OP.STOP /\ c[h + 12 + 1] = OP.JUMPDEST
        BY <2>1, PairWithin DEF PUSH1
  <2>3. c[h + 4 + 1] = OP.SLOAD /\ c[h + 7 + 1] = OP.ADD
        BY <2>1 DEF Within
  <2>4. /\ OP.JUMPDEST = 91 /\ OP.POP = 80 /\ OP.PUSH1 = 96 /\ OP.SLOAD = 84
        /\ OP.SSTORE = 85 /\ OP.ADD = 1 /\ OP.STOP = 0
        BY Opcodes
  <2>5. /\ h + 2 + 1 = h + 3 /\ h + 5 + 1 = h + 6 /\ h + 8 + 1 = h + 9 /\ h + 10 + 1 = h + 11
        /\ h + 10 + 2 = h + 12 /\ h + 12 + 1 = h + 13 /\ h + 4 + 1 = h + 5 /\ h + 7 + 1 = h + 8
        OBVIOUS
  <2>. QED BY <2>2, <2>3, <2>4, <2>5
<1>8. \A q \in Nat : /\ c[q + 1] \in Byte /\ c[q + 1] \notin 96..127 => next[q] = q + 1
                     /\ c[q + 1] = 96 => next[q] = q + 2
  <2>1. OP.PUSH1 = 96
        BY Opcodes
  <2>. QED BY <2>1, Walk
<1>. HIDE DEF next
<1>9. h \in R
      BY <1>2, <1>4, <1>5, <1>6, PathLeads
<1>10. /\ next[h] = h + 1 /\ next[h + 1] = h + 2 /\ next[h + 2] = h + 4 /\ next[h + 4] = h + 5
       /\ next[h + 5] = h + 7 /\ next[h + 7] = h + 8 /\ next[h + 8] = h + 10
       /\ next[h + 10] = h + 11 /\ next[h + 11] = h + 12
  <2>1. /\ h + 1 \in Nat /\ h + 2 \in Nat /\ h + 4 \in Nat /\ h + 5 \in Nat /\ h + 7 \in Nat
        /\ h + 8 \in Nat /\ h + 10 \in Nat /\ h + 11 \in Nat
        OBVIOUS
  <2>2. /\ h + 1 + 1 = h + 2 /\ h + 2 + 1 = h + 3 /\ h + 2 + 2 = h + 4 /\ h + 4 + 1 = h + 5
        /\ h + 5 + 1 = h + 6 /\ h + 5 + 2 = h + 7 /\ h + 7 + 1 = h + 8 /\ h + 8 + 1 = h + 9
        /\ h + 8 + 2 = h + 10 /\ h + 10 + 1 = h + 11 /\ h + 11 + 1 = h + 12
        OBVIOUS
  <2>3. /\ 91 \in Byte /\ 80 \in Byte /\ 84 \in Byte /\ 1 \in Byte /\ 85 \in Byte /\ 0 \in Byte
        /\ 91 \notin 96..127 /\ 80 \notin 96..127 /\ 84 \notin 96..127 /\ 1 \notin 96..127
        /\ 85 \notin 96..127 /\ 0 \notin 96..127
        BY DEF Byte
  <2>4. next[h] = h + 1 /\ next[h + 1] = h + 2 /\ next[h + 2] = h + 4 /\ next[h + 4] = h + 5
        BY <1>7, <1>8, <2>1, <2>2, <2>3
  <2>5. next[h + 5] = h + 7 /\ next[h + 7] = h + 8 /\ next[h + 8] = h + 10
        BY <1>7, <1>8, <2>1, <2>2, <2>3
  <2>6. next[h + 10] = h + 11 /\ next[h + 11] = h + 12
        BY <1>7, <1>8, <2>1, <2>2, <2>3
  <2>. QED BY <2>4, <2>5, <2>6
<1>11. h + 12 \in R
  <2>. HIDE DEF R
  <2>1. \A q \in R : next[q] \in R
        BY <1>4 DEF Closed
  <2>2. h + 1 \in R /\ h + 2 \in R /\ h + 4 \in R /\ h + 5 \in R
        BY <1>9, <1>10, <2>1
  <2>3. h + 7 \in R /\ h + 8 \in R /\ h + 10 \in R
        BY <1>10, <2>1, <2>2
  <2>. QED BY <1>10, <2>1, <2>3
<1>12. /\ h < Len(c) /\ h + 12 < Len(c)
       /\ c[h + 1] = OP.JUMPDEST /\ c[h + 12 + 1] = OP.JUMPDEST
  <2>1. h + 12 + 1 = h + 13 /\ OP.JUMPDEST = 91
        BY Opcodes
  <2>. QED BY <1>1, <1>7, <2>1
<1>13. find_jumpdests(c) = {q \in R : q < Len(c) /\ c[q + 1] = OP.JUMPDEST}
  <2>1. Len(c) \in Nat
        BY <1>1
  <2>. QED BY <2>1, JumpdestsReached DEF next
<1>. HIDE DEF R
<1>. QED BY <1>9, <1>11, <1>12, <1>13

-----------------------------------------------------------------------------
(* Serving a call: r is the request and s what the account stores *)

Debited(r, s) == Stored(s, r.caller, ValueIn(s, r.caller) - r.amount)

Received(r, s) == (ValueIn(Debited(r, s), r.to) + r.amount) % MOD_VALUE

Credited(r, s) == Stored(Debited(r, s), r.to, Received(r, s))

Sorting(r, s, n1, d1, n2, d2) ==
    Dispatching(WordBytes, SelectorBytes, BytePower[WordBytes - SelectorBytes],
                Argument(encode(r), 0), Operation(r),
                from_bytes(Selector[n1]), d1, from_bytes(Selector[n2]), d2, s)

TransferServed(r, s) ==
    \/ Broke(10301)
    \/ Transferring(Handlers, SelectorBytes, WordBytes, Operation(r), r.caller, r.to, r.amount,
                    ValueIn(s, r.caller), ValueIn(Debited(r, s), r.to), Received(r, s),
                    s, Debited(r, s), Credited(r, s))
    \/ ValueIn(s, r.caller) < r.amount /\ (Reverting(Handlers + 30, 179, s) \/ Reverted)
    \/ r.amount <= ValueIn(s, r.caller) /\ Gave(<<>>, Credited(r, s))

Answered(k, v, u, s) == Answering(k, v, u, s) \/ Gave(to_bytes(v, WordBytes), s)

BalanceServed(r, s) ==
    \/ Broke(179)
    \/ Querying(Handlers + 35, SelectorBytes, Operation(r), r.of, s)
    \/ Answered(Handlers + 41, ValueIn(s, r.of), 167, s)

IncrementServed(r, s) ==
    \/ Broke(5151)
    \/ Counting(Handlers, Operation(r), ValueIn(s, 0), Incremented(s), s,
                Stored(s, 0, Incremented(s)))
    \/ Gave(<<>>, Stored(s, 0, Incremented(s)))

CountServed(r, s) ==
    \/ Broke(176)
    \/ Recalling(Handlers + 12, Operation(r), s)
    \/ Answered(Handlers + 17, ValueIn(s, 0), 164, s)

(* A frame that has ended takes no step.                                     *)
LEMMA Unended ==
    ASSUME Stepping
    PROVE  stopped = FALSE /\ raised # "OutOfGas"
<1>1. ~stopped /\ raised = NoException
      BY StepRuns DEF Stepping, Running
<1>2. stopped \in BOOLEAN
      BY DEF Stepping, IInv, EndInv
<1>. QED BY <1>1, <1>2 DEF NoException

LEMMA FrameStays ==
    ASSUME Stepping
    PROVE  /\ UNCHANGED <<code, context, valid_jumpdests>> /\ IInv'
           /\ code \in Seq(Byte) /\ valid_jumpdests = find_jumpdests(code)
<1>1. UNCHANGED made
      BY Outcome DEF Throws, Stepping
<1>2. IInv'
      BY IInvStep DEF Stepping, Next
<1>. QED BY <1>1, <1>2 DEF made, Stepping, IInv, MadeInv

LEMMA SlotWord ==
    ASSUME NEW s, IsBook(s)
    PROVE  \A k : ValueIn(s, k) \in Word
BY WordValues DEF IsBook, ValueIn

LEMMA SortingStep ==
    ASSUME Stepping, NEW r \in TokenRequests \cup CounterRequests, context.data = encode(r), NEW s,
           NEW n1 \in DOMAIN Selector, NEW d1 \in Byte, NEW n2 \in DOMAIN Selector, NEW d2 \in Byte,
           Within(code, 0, Dispatcher(n1, d1, n2, d2)),
           d1 \in valid_jumpdests, d2 \in valid_jumpdests, Sorting(r, s, n1, d1, n2, d2)
    PROVE  \/ Broke(60)' \/ Sorting(r, s, n1, d1, n2, d2)'
           \/ r.op = n1 /\ At(d1, <<Operation(r)>>, 36, s)'
           \/ r.op = n2 /\ At(d2, <<Operation(r)>>, 58, s)'
           \/ r.op \notin {n1, n2} /\ Reverting(WordBytes + 2 * SelectorBytes + 18, 60, s)'
<1>1. PICK W \in Nat, S \in Nat : W = WordBytes /\ S = SelectorBytes
      BY SmallBytes DEF Byte
<1>2. PICK D, w, x, y1, y2 : /\ D = BytePower[WordBytes - SelectorBytes]
                             /\ w = Argument(encode(r), 0) /\ x = Operation(r)
                             /\ y1 = from_bytes(Selector[n1]) /\ y2 = from_bytes(Selector[n2])
      OBVIOUS
<1>3. r.op \in DOMAIN Selector /\ w \div D = x
      BY <1>2, Calldata
<1>4. Argument(context.data, 0) = w
      BY <1>2
<1>5. (x = y1 => r.op = n1) /\ (x = y2 => r.op = n2)
      BY <1>2, <1>3, SelectorsApart DEF Operation
<1>6. (r.op = n1 => x = y1) /\ (r.op = n2 => x = y2)
      BY <1>2 DEF Operation
<1>7. Dispatching(W, S, D, w, x, y1, d1, y2, d2, s)
      BY <1>1, <1>2 DEF Sorting
<1>8. \/ Broke(60)' \/ Dispatching(W, S, D, w, x, y1, d1, y2, d2, s)'
      \/ x = y1 /\ At(d1, <<x>>, 36, s)'
      \/ x # y1 /\ x = y2 /\ At(d2, <<x>>, 58, s)'
      \/ x # y1 /\ x # y2 /\ Reverting(W + 2 * S + 18, 60, s)'
      BY <1>1, <1>2, <1>3, <1>4, <1>7, DispatchingStep, SMTT(30)
<1>9. Dispatching(W, S, D, w, x, y1, d1, y2, d2, s)' => Sorting(r, s, n1, d1, n2, d2)'
      BY <1>1, <1>2 DEF Sorting
<1>10. x = Operation(r)
       BY <1>2
<1>. QED BY <1>1, <1>5, <1>6, <1>8, <1>9, <1>10

LEMMA AnsweredStep ==
    ASSUME Stepping, NEW k \in Nat, Within(code, k, RETURN1), NEW v \in Word, NEW u \in Nat, NEW s,
           Answered(k, v, u, s)
    PROVE  Broke(u + 12)' \/ Answered(k, v, u, s)'
<1>1. Answering(k, v, u, s)
      BY Unended DEF Answered, Gave
<1>. QED BY <1>1, AnsweringStep DEF Answered

LEMMA TransferServedStep ==
    ASSUME Stepping, code = TOKEN_RUNTIME_BYTECODE, NEW r \in TokenRequests, r.op = "transfer",
           context.data = encode(r), context.caller = r.caller, NEW s, IsBook(s),
           TransferServed(r, s)
    PROVE  TransferServed(r, s)'
<1>1. PICK h \in Nat, W \in Nat, S \in Nat : h = Handlers /\ W = WordBytes /\ S = SelectorBytes
      BY SmallBytes DEF Byte
<1>2. PICK x, c, to, amount, own, other, sum, t1, t2 :
           /\ x = Operation(r) /\ c = r.caller /\ to = r.to /\ amount = r.amount
           /\ own = ValueIn(s, r.caller) /\ other = ValueIn(Debited(r, s), r.to)
           /\ sum = Received(r, s) /\ t1 = Debited(r, s) /\ t2 = Credited(r, s)
      OBVIOUS
<1>3. /\ Argument(context.data, S) = to /\ Argument(context.data, S + W) = amount
      /\ context.caller = c
      BY <1>1, <1>2, Calldata
<1>4. amount \in Word /\ own \in Word
      BY <1>2, ClientAssumption, SlotWord DEF TokenRequests, Asked
<1>5. /\ ValueIn(s, c) = own /\ Stored(s, c, own - amount) = t1 /\ ValueIn(t1, to) = other
      /\ ((other + amount) % MOD_VALUE) = sum /\ Stored(t1, to, sum) = t2
      BY <1>2 DEF Debited, Received, Credited
<1>6. /\ Within(code, h, TransferHandler) /\ Within(code, h + 29, <<OP.JUMPDEST>>)
      /\ Within(code, h + 30, REVERT0)
      BY <1>1, TokenParts
<1>7. h + 29 \in valid_jumpdests
      BY <1>1, FrameStays, TokenTargets
<1>8. stopped = FALSE /\ raised # "OutOfGas"
      BY Unended
<1>9. \/ Transferring(h, S, W, x, c, to, amount, own, other, sum, s, t1, t2)
      \/ own < amount /\ Reverting(h + 30, 179, s)
      BY <1>1, <1>2, <1>8 DEF TransferServed, Broke, Reverted, Gave
<1>10. SUFFICES \/ Broke(10301)'
                \/ Transferring(h, S, W, x, c, to, amount, own, other, sum, s, t1, t2)'
                \/ own < amount /\ Reverting(h + 30, 179, s)'
                \/ own < amount /\ Reverted'
                \/ amount <= own /\ Gave(<<>>, t2)'
       BY <1>1, <1>2 DEF TransferServed
<1>11. CASE Transferring(h, S, W, x, c, to, amount, own, other, sum, s, t1, t2)
       BY <1>1, <1>3, <1>4, <1>5, <1>6, <1>7, <1>11, TransferringStep
<1>12. CASE own < amount /\ Reverting(h + 30, 179, s)
  <2>1. h + 30 \in Nat /\ 179 \in Nat
        OBVIOUS
  <2>2. Broke(179 + 6)' \/ Reverting(h + 30, 179, s)' \/ Reverted'
        BY <1>6, <1>12, <2>1, RevertingStep
  <2>3. Broke(179 + 6)' => Broke(10301)'
        BY BrokeMore
  <2>. QED BY <1>12, <2>2, <2>3
<1>. QED BY <1>9, <1>11, <1>12

LEMMA BalanceServedStep ==
    ASSUME Stepping, code = TOKEN_RUNTIME_BYTECODE, NEW r \in TokenRequests, r.op = "balanceOf",
           context.data = encode(r), NEW s, IsBook(s), BalanceServed(r, s)
    PROVE  BalanceServed(r, s)'
<1>1. PICK h \in Nat, S \in Nat : h = Handlers /\ S = SelectorBytes
      BY SmallBytes DEF Byte
<1>2. PICK x, of, v : x = Operation(r) /\ of = r.of /\ v = ValueIn(s, r.of)
      OBVIOUS
<1>3. Argument(context.data, S) = of
      BY <1>1, <1>2, Calldata
<1>4. v \in Word /\ ValueIn(s, of) = v
      BY <1>2, SlotWord
<1>5. /\ Within(code, h + 35, <<OP.JUMPDEST, OP.POP>>) /\ Within(code, h + 35 + 2, PUSH1(S))
      /\ Within(code, h + 35 + 4, <<OP.CALLDATALOAD, OP.SLOAD>>)
      /\ Within(code, h + 41, RETURN1)
  <2>1. h + 35 + 2 = h + 37 /\ h + 35 + 4 = h + 39
        OBVIOUS
  <2>. QED BY <1>1, <2>1, TokenParts
<1>6. stopped = FALSE /\ raised # "OutOfGas"
      BY Unended
<1>7. Querying(h + 35, S, x, of, s) \/ Answered(h + 41, v, 167, s)
      BY <1>1, <1>2, <1>6 DEF BalanceServed, Broke
<1>8. SUFFICES Broke(179)' \/ Querying(h + 35, S, x, of, s)' \/ Answered(h + 41, v, 167, s)'
      BY <1>1, <1>2 DEF BalanceServed
<1>9. CASE Querying(h + 35, S, x, of, s)
  <2>1. h + 35 \in Nat /\ h + 35 + 6 = h + 41
        OBVIOUS
  <2>2. Broke(167)' \/ Querying(h + 35, S, x, of, s)' \/ At(h + 35 + 6, <<v>>, 167, s)'
        BY <1>1, <1>3, <1>4, <1>5, <1>9, <2>1, QueryingStep
  <2>3. Broke(167)' => Broke(179)'
        BY BrokeMore
  <2>4. At(h + 41, <<v>>, 167, s)' => Answered(h + 41, v, 167, s)'
        BY DEF Answered, Answering
  <2>. QED BY <2>1, <2>2, <2>3, <2>4
<1>10. CASE Answered(h + 41, v, 167, s)
  <2>1. h + 41 \in Nat /\ 167 \in Nat /\ 167 + 12 = 179
        OBVIOUS
  <2>2. Broke(167 + 12)' \/ Answered(h + 41, v, 167, s)'
        BY <1>4, <1>5, <1>10, <2>1, AnsweredStep
  <2>. QED BY <2>1, <2>2
<1>. QED BY <1>7, <1>9, <1>10

LEMMA IncrementServedStep ==
    ASSUME Stepping, code = COUNTER_RUNTIME_BYTECODE, NEW r, NEW s, IncrementServed(r, s)
    PROVE  IncrementServed(r, s)'
<1>1. PICK h \in Nat : h = Handlers
      BY SmallBytes DEF Byte
<1>2. PICK x, v, sum, t : /\ x = Operation(r) /\ v = ValueIn(s, 0) /\ sum = Incremented(s)
                          /\ t = Stored(s, 0, Incremented(s))
      OBVIOUS
<1>3. ValueIn(s, 0) = v /\ Incremented(s) = sum /\ Stored(s, 0, sum) = t
      BY <1>2
<1>4. /\ Within(code, h, <<OP.JUMPDEST, OP.POP>>) /\ Within(code, h + 2, PUSH1(0))
      /\ Within(code, h + 4, <<OP.SLOAD>>) /\ Within(code, h + 5, PUSH1(1))
      /\ Within(code, h + 7, <<OP.ADD>>) /\ Within(code, h + 8, PUSH1(0))
      /\ Within(code, h + 10, <<OP.SSTORE, OP.STOP>>)
      BY <1>1, CounterParts
<1>5. stopped = FALSE /\ raised # "OutOfGas"
      BY Unended
<1>6. Counting(h, x, v, sum, s, t)
      BY <1>1, <1>2, <1>5 DEF IncrementServed, Broke, Gave
<1>7. Broke(5151)' \/ Counting(h, x, v, sum, s, t)' \/ Gave(<<>>, t)'
      BY <1>3, <1>4, <1>6, CountingStep, SMTT(30)
<1>. QED BY <1>1, <1>2, <1>7 DEF IncrementServed

LEMMA CountServedStep ==
    ASSUME Stepping, code = COUNTER_RUNTIME_BYTECODE, NEW r, NEW s, IsBook(s), CountServed(r, s)
    PROVE  CountServed(r, s)'
<1>1. PICK h \in Nat : h = Handlers
      BY SmallBytes DEF Byte
<1>2. PICK x, v : x = Operation(r) /\ v = ValueIn(s, 0)
      OBVIOUS
<1>3. v \in Word /\ ValueIn(s, 0) = v
      BY <1>2, SlotWord
<1>4. /\ Within(code, h + 12, <<OP.JUMPDEST, OP.POP>>) /\ Within(code, h + 12 + 2, PUSH1(0))
      /\ Within(code, h + 12 + 4, <<OP.SLOAD>>) /\ Within(code, h + 17, RETURN1)
  <2>1. h + 12 + 2 = h + 14 /\ h + 12 + 4 = h + 16
        OBVIOUS
  <2>. QED BY <1>1, <2>1, CounterParts
<1>5. stopped = FALSE /\ raised # "OutOfGas"
      BY Unended
<1>6. Recalling(h + 12, x, s) \/ Answered(h + 17, v, 164, s)
      BY <1>1, <1>2, <1>5 DEF CountServed, Broke
<1>7. SUFFICES Broke(176)' \/ Recalling(h + 12, x, s)' \/ Answered(h + 17, v, 164, s)'
      BY <1>1, <1>2 DEF CountServed
<1>8. CASE Recalling(h + 12, x, s)
  <2>1. h + 12 \in Nat /\ h + 12 + 5 = h + 17
        OBVIOUS
  <2>2. Broke(164)' \/ Recalling(h + 12, x, s)' \/ At(h + 12 + 5, <<v>>, 164, s)'
        BY <1>3, <1>4, <1>8, <2>1, RecallingStep
  <2>3. Broke(164)' => Broke(176)'
        BY BrokeMore
  <2>4. At(h + 17, <<v>>, 164, s)' => Answered(h + 17, v, 164, s)'
        BY DEF Answered, Answering
  <2>. QED BY <2>1, <2>2, <2>3, <2>4
<1>9. CASE Answered(h + 17, v, 164, s)
  <2>1. h + 17 \in Nat /\ 164 \in Nat /\ 164 + 12 = 176
        OBVIOUS
  <2>2. Broke(164 + 12)' \/ Answered(h + 17, v, 164, s)'
        BY <1>3, <1>4, <1>9, <2>1, AnsweredStep
  <2>. QED BY <2>1, <2>2
<1>. QED BY <1>6, <1>8, <1>9

-----------------------------------------------------------------------------
(* From the start of a call to its end *)

Asks(k) == IF k = "token" THEN TokenRequests ELSE CounterRequests

Refusing(s) == Broke(66) \/ Reverting(Handlers - 5, 60, s) \/ Reverted

Served(k, r, s) ==
    \/ Broke(60)
    \/ k = "token" /\ Sorting(r, s, "transfer", Handlers, "balanceOf", Handlers + 35)
    \/ k = "counter" /\ Sorting(r, s, "increment", Handlers, "getCount", Handlers + 12)
    \/ r.op = "transfer" /\ TransferServed(r, s)
    \/ r.op = "balanceOf" /\ BalanceServed(r, s)
    \/ r.op = "increment" /\ IncrementServed(r, s)
    \/ r.op = "getCount" /\ CountServed(r, s)
    \/ r.op = "unknown" /\ Refusing(s)

LEMMA AsksType ==
    ASSUME NEW k \in Names, NEW r \in Asks(k)
    PROVE  /\ r \in TokenRequests \cup CounterRequests
           /\ k = "token" => r \in TokenRequests /\ r.op \in {"transfer", "balanceOf", "unknown"}
           /\ k = "counter" => r.op \in {"increment", "getCount", "unknown"}
BY DEF Names, Asks, TokenRequests, CounterRequests, Asked

LEMMA RefusingStep ==
    ASSUME Stepping, Within(code, Handlers - 5, REVERT0), NEW s, Refusing(s)
    PROVE  Refusing(s)'
<1>1. PICK k \in Nat : k = Handlers - 5
      BY SmallBytes DEF Byte
<1>2. Reverting(k, 60, s)
      BY <1>1, Unended DEF Refusing, Broke, Reverted
<1>3. 60 \in Nat /\ 60 + 6 = 66
      OBVIOUS
<1>4. Broke(60 + 6)' \/ Reverting(k, 60, s)' \/ Reverted'
      BY <1>1, <1>2, <1>3, RevertingStep
<1>. QED BY <1>1, <1>3, <1>4 DEF Refusing

LEMMA ServedStep ==
    ASSUME Stepping, NEW k \in Names, NEW r \in Asks(k), NEW s, IsBook(s),
           code = IF k = "token" THEN TOKEN_RUNTIME_BYTECODE ELSE COUNTER_RUNTIME_BYTECODE,
           context.data = encode(r), context.caller = r.caller, Served(k, r, s)
    PROVE  Served(k, r, s)'
<1>1. PICK h \in Nat : h = Handlers /\ Handlers - 5 = WordBytes + 2 * SelectorBytes + 18
  <2>1. Handlers \in Nat /\ WordBytes \in Int /\ SelectorBytes \in Int
        BY SmallBytes DEF Byte
  <2>. QED BY <2>1, SmallBytes
<1>2. /\ code \in Seq(Byte) /\ valid_jumpdests = find_jumpdests(code)
      BY FrameStays
<1>3. \/ k = "token" /\ code = TOKEN_RUNTIME_BYTECODE /\ r \in TokenRequests
      \/ k = "counter" /\ code = COUNTER_RUNTIME_BYTECODE
      BY AsksType DEF Names
<1>4. raised # "OutOfGas"
      BY Unended
<1>5. r \in TokenRequests \cup CounterRequests
      BY AsksType
<1>6. /\ {"transfer", "balanceOf", "increment", "getCount"} \subseteq DOMAIN Selector
      /\ Handlers \in Byte /\ Handlers + 35 \in Byte /\ Handlers + 12 \in Byte
      BY SelectorAssumption, SmallBytes
<1>7. CASE k = "token"
  <2>1. /\ code = TOKEN_RUNTIME_BYTECODE /\ r \in TokenRequests
        /\ r.op \in {"transfer", "balanceOf", "unknown"}
        BY <1>3, <1>7, AsksType
  <2>2. Within(code, 0, Dispatcher("transfer", Handlers, "balanceOf", Handlers + 35))
        BY <2>1, TokenParts
  <2>3. Within(code, Handlers - 5, REVERT0)
    <3>1. PICK n1, d1, n2, d2 : /\ n1 = "transfer" /\ d1 = Handlers
                                /\ n2 = "balanceOf" /\ d2 = Handlers + 35
          OBVIOUS
    <3>2. /\ n1 \in DOMAIN Selector /\ d1 \in Byte /\ n2 \in DOMAIN Selector /\ d2 \in Byte
          /\ Within(code, 0, Dispatcher(n1, d1, n2, d2))
          BY <1>6, <2>2, <3>1
    <3>3. PICK W \in Nat, S \in Nat : W = WordBytes /\ S = SelectorBytes
          BY SmallBytes DEF Byte
    <3>4. Within(code, W + 2 * S + 18, REVERT0)
          BY <1>2, <3>2, <3>3, DispatcherPieces
    <3>. QED BY <1>1, <3>3, <3>4
  <2>4. CASE Sorting(r, s, "transfer", Handlers, "balanceOf", Handlers + 35)
    <3>1. PICK n1, d1, n2, d2 : /\ n1 = "transfer" /\ d1 = Handlers
                                /\ n2 = "balanceOf" /\ d2 = Handlers + 35
          OBVIOUS
    <3>2. /\ n1 \in DOMAIN Selector /\ d1 \in Byte /\ n2 \in DOMAIN Selector /\ d2 \in Byte
          /\ Within(code, 0, Dispatcher(n1, d1, n2, d2)) /\ Sorting(r, s, n1, d1, n2, d2)
          BY <1>6, <2>2, <2>4, <3>1
    <3>3. d1 \in valid_jumpdests /\ d2 \in valid_jumpdests
          BY <1>1, <1>2, <2>1, <3>1, TokenTargets
    <3>4. \/ Broke(60)' \/ Sorting(r, s, n1, d1, n2, d2)'
          \/ r.op = n1 /\ At(d1, <<Operation(r)>>, 36, s)'
          \/ r.op = n2 /\ At(d2, <<Operation(r)>>, 58, s)'
          \/ r.op \notin {n1, n2} /\ Reverting(WordBytes + 2 * SelectorBytes + 18, 60, s)'
          BY <1>5, <3>2, <3>3, SortingStep
    <3>5. CASE r.op = n1 /\ At(d1, <<Operation(r)>>, 36, s)'
      <4>1. TransferServed(r, s)'
            BY <3>1, <3>5 DEF TransferServed, Transferring, Fetching
      <4>. QED BY <3>1, <3>5, <4>1 DEF Served
    <3>6. CASE r.op = n2 /\ At(d2, <<Operation(r)>>, 58, s)'
      <4>1. BalanceServed(r, s)'
            BY <3>1, <3>6 DEF BalanceServed, Querying
      <4>. QED BY <3>1, <3>6, <4>1 DEF Served
    <3>7. CASE r.op \notin {n1, n2} /\ Reverting(WordBytes + 2 * SelectorBytes + 18, 60, s)'
      <4>1. r.op = "unknown"
            BY <2>1, <3>1, <3>7
      <4>2. Refusing(s)'
            BY <1>1, <3>7 DEF Refusing
      <4>. QED BY <4>1, <4>2 DEF Served
    <3>8. CASE Broke(60)' \/ Sorting(r, s, n1, d1, n2, d2)'
          BY <1>7, <3>1, <3>8 DEF Served
    <3>. QED BY <3>4, <3>5, <3>6, <3>7, <3>8
  <2>5. CASE r.op = "transfer" /\ TransferServed(r, s)
    <3>1. TransferServed(r, s)'
          BY <2>1, <2>5, TransferServedStep
    <3>. QED BY <2>5, <3>1 DEF Served
  <2>6. CASE r.op = "balanceOf" /\ BalanceServed(r, s)
    <3>1. BalanceServed(r, s)'
          BY <2>1, <2>6, BalanceServedStep
    <3>. QED BY <2>6, <3>1 DEF Served
  <2>7. CASE r.op = "unknown" /\ Refusing(s)
    <3>1. Refusing(s)'
          BY <2>3, <2>7, RefusingStep
    <3>. QED BY <2>7, <3>1 DEF Served
  <2>. QED BY <1>4, <1>7, <2>1, <2>4, <2>5, <2>6, <2>7 DEF Served, Broke
<1>8. CASE k = "counter"
  <2>1. /\ code = COUNTER_RUNTIME_BYTECODE /\ r.op \in {"increment", "getCount", "unknown"}
        BY <1>3, <1>8, AsksType
  <2>2. Within(code, 0, Dispatcher("increment", Handlers, "getCount", Handlers + 12))
        BY <2>1, CounterParts
  <2>3. Within(code, Handlers - 5, REVERT0)
    <3>1. PICK n1, d1, n2, d2 : /\ n1 = "increment" /\ d1 = Handlers
                                /\ n2 = "getCount" /\ d2 = Handlers + 12
          OBVIOUS
    <3>2. /\ n1 \in DOMAIN Selector /\ d1 \in Byte /\ n2 \in DOMAIN Selector /\ d2 \in Byte
          /\ Within(code, 0, Dispatcher(n1, d1, n2, d2))
          BY <1>6, <2>2, <3>1
    <3>3. PICK W \in Nat, S \in Nat : W = WordBytes /\ S = SelectorBytes
          BY SmallBytes DEF Byte
    <3>4. Within(code, W + 2 * S + 18, REVERT0)
          BY <1>2, <3>2, <3>3, DispatcherPieces
    <3>. QED BY <1>1, <3>3, <3>4
  <2>4. CASE Sorting(r, s, "increment", Handlers, "getCount", Handlers + 12)
    <3>1. PICK n1, d1, n2, d2 : /\ n1 = "increment" /\ d1 = Handlers
                                /\ n2 = "getCount" /\ d2 = Handlers + 12
          OBVIOUS
    <3>2. /\ n1 \in DOMAIN Selector /\ d1 \in Byte /\ n2 \in DOMAIN Selector /\ d2 \in Byte
          /\ Within(code, 0, Dispatcher(n1, d1, n2, d2)) /\ Sorting(r, s, n1, d1, n2, d2)
          BY <1>6, <2>2, <2>4, <3>1
    <3>3. d1 \in valid_jumpdests /\ d2 \in valid_jumpdests
          BY <1>1, <1>2, <2>1, <3>1, CounterTargets
    <3>4. \/ Broke(60)' \/ Sorting(r, s, n1, d1, n2, d2)'
          \/ r.op = n1 /\ At(d1, <<Operation(r)>>, 36, s)'
          \/ r.op = n2 /\ At(d2, <<Operation(r)>>, 58, s)'
          \/ r.op \notin {n1, n2} /\ Reverting(WordBytes + 2 * SelectorBytes + 18, 60, s)'
          BY <1>5, <3>2, <3>3, SortingStep
    <3>5. CASE r.op = n1 /\ At(d1, <<Operation(r)>>, 36, s)'
      <4>1. IncrementServed(r, s)'
            BY <3>1, <3>5 DEF IncrementServed, Counting
      <4>. QED BY <3>1, <3>5, <4>1 DEF Served
    <3>6. CASE r.op = n2 /\ At(d2, <<Operation(r)>>, 58, s)'
      <4>1. CountServed(r, s)'
            BY <3>1, <3>6 DEF CountServed, Recalling
      <4>. QED BY <3>1, <3>6, <4>1 DEF Served
    <3>7. CASE r.op \notin {n1, n2} /\ Reverting(WordBytes + 2 * SelectorBytes + 18, 60, s)'
      <4>1. r.op = "unknown"
            BY <2>1, <3>1, <3>7
      <4>2. Refusing(s)'
            BY <1>1, <3>7 DEF Refusing
      <4>. QED BY <4>1, <4>2 DEF Served
    <3>8. CASE Broke(60)' \/ Sorting(r, s, n1, d1, n2, d2)'
          BY <1>8, <3>1, <3>8 DEF Served
    <3>. QED BY <3>4, <3>5, <3>6, <3>7, <3>8
  <2>5. CASE r.op = "increment" /\ IncrementServed(r, s)
    <3>1. IncrementServed(r, s)'
          BY <2>1, <2>5, IncrementServedStep
    <3>. QED BY <2>5, <3>1 DEF Served
  <2>6. CASE r.op = "getCount" /\ CountServed(r, s)
    <3>1. CountServed(r, s)'
          BY <2>1, <2>6, CountServedStep
    <3>. QED BY <2>6, <3>1 DEF Served
  <2>7. CASE r.op = "unknown" /\ Refusing(s)
    <3>1. Refusing(s)'
          BY <2>3, <2>7, RefusingStep
    <3>. QED BY <2>7, <3>1 DEF Served
  <2>. QED BY <1>4, <1>8, <2>1, <2>4, <2>5, <2>6, <2>7 DEF Served, Broke
<1>. QED BY <1>3, <1>7, <1>8

(* A frame that has not come to the end of the first n bytes of its code.    *)
Underway(n) ==
    stopped = FALSE /\ raised = NoException /\ program_counter \in Nat /\ program_counter < n

LEMMA FramesUnderway ==
    ASSUME NEW h \in Nat, NEW s
    PROVE  /\ \A k, n \in Nat : Reverting(k, 60, s) /\ k + 4 < n => Underway(n)
           /\ \A k, n \in Nat : Reverting(k, 179, s) /\ k + 4 < n => Underway(n)
           /\ \A k, n \in Nat : \A v, u : Answering(k, v, u, s) /\ k + 7 < n => Underway(n)
           /\ \A n \in Nat : \A S, x, of : Querying(h + 35, S, x, of, s) /\ h + 41 < n => Underway(n)
           /\ \A n \in Nat : \A x, v, sum, t :
                 Counting(h, x, v, sum, s, t) /\ h + 11 < n => Underway(n)
           /\ \A n \in Nat : \A x : Recalling(h + 12, x, s) /\ h + 16 < n => Underway(n)
           /\ \A n \in Nat : \A S, W, x, c, to, amount, own :
                 Fetching(h, S, W, x, c, to, amount, own, s) /\ h + 29 < n => Underway(n)
           /\ \A n \in Nat : \A c, to, amount, own, other, sum, t1, t2 :
                 Paying(h, c, to, amount, own, other, sum, s, t1, t2) /\ h + 28 < n => Underway(n)
<1>1. \A p, n \in Nat : \A t, u, r : At(p, t, u, r) /\ p < n => Underway(n)
      BY DEF At, Underway
<1>2. ASSUME NEW k \in Nat, NEW n \in Nat, NEW u, Reverting(k, u, s), k + 4 < n
      PROVE  Underway(n)
  <2>1. k \in Nat /\ k + 2 \in Nat /\ k + 4 \in Nat /\ k < n /\ k + 2 < n
        BY <1>2
  <2>. QED BY <1>1, <1>2, <2>1 DEF Reverting
<1>3. ASSUME NEW k \in Nat, NEW n \in Nat, NEW v, NEW u, Answering(k, v, u, s), k + 7 < n
      PROVE  Underway(n)
  <2>1. /\ k \in Nat /\ k + 2 \in Nat /\ k + 3 \in Nat /\ k + 5 \in Nat /\ k + 7 \in Nat
        /\ k < n /\ k + 2 < n /\ k + 3 < n /\ k + 5 < n
        BY <1>3
  <2>. QED BY <1>1, <1>3, <2>1 DEF Answering
<1>4. ASSUME NEW n \in Nat, NEW S, NEW x, NEW of, Querying(h + 35, S, x, of, s), h + 41 < n
      PROVE  Underway(n)
  <2>1. /\ h + 35 \in Nat /\ h + 35 + 1 \in Nat /\ h + 35 + 2 \in Nat /\ h + 35 + 4 \in Nat
        /\ h + 35 + 5 \in Nat /\ h + 35 < n /\ h + 35 + 1 < n /\ h + 35 + 2 < n
        /\ h + 35 + 4 < n /\ h + 35 + 5 < n
        BY <1>4
  <2>. QED BY <1>1, <1>4, <2>1 DEF Querying
<1>5. ASSUME NEW n \in Nat, NEW x, NEW v, NEW sum, NEW t,
             Counting(h, x, v, sum, s, t), h + 11 < n
      PROVE  Underway(n)
  <2>1. \A i \in 0..11 : h + i \in Nat /\ h + i < n
        BY <1>5
  <2>2. h + 0 = h
        OBVIOUS
  <2>. QED BY <1>1, <1>5, <2>1, <2>2, SMTT(30) DEF Counting
<1>6. ASSUME NEW n \in Nat, NEW x, Recalling(h + 12, x, s), h + 16 < n
      PROVE  Underway(n)
  <2>1. /\ h + 12 \in Nat /\ h + 12 + 1 \in Nat /\ h + 12 + 2 \in Nat /\ h + 12 + 4 \in Nat
        /\ h + 12 < n /\ h + 12 + 1 < n /\ h + 12 + 2 < n /\ h + 12 + 4 < n
        BY <1>6
  <2>. QED BY <1>1, <1>6, <2>1 DEF Recalling
<1>7. ASSUME NEW n \in Nat, NEW S, NEW W, NEW x, NEW c, NEW to, NEW amount, NEW own,
             Fetching(h, S, W, x, c, to, amount, own, s), h + 29 < n
      PROVE  Underway(n)
  <2>1. /\ h + 1 \in Nat /\ h + 2 \in Nat /\ h + 4 \in Nat /\ h + 5 \in Nat
        /\ h + 7 \in Nat /\ h + 8 \in Nat /\ h + 9 \in Nat /\ h + 10 \in Nat
        /\ h + 11 \in Nat /\ h + 12 \in Nat /\ h + 13 \in Nat /\ h + 14 \in Nat
        /\ h + 16 \in Nat /\ h + 29 \in Nat /\ h < n /\ h + 1 < n /\ h + 2 < n
        /\ h + 4 < n /\ h + 5 < n /\ h + 7 < n /\ h + 8 < n /\ h + 9 < n /\ h + 10 < n
        /\ h + 11 < n /\ h + 12 < n /\ h + 13 < n /\ h + 14 < n /\ h + 16 < n
        /\ h + 29 < n
        BY <1>7
  <2>. QED BY <1>1, <1>7, <2>1 DEF Fetching
<1>8. ASSUME NEW n \in Nat, NEW c, NEW to, NEW amount, NEW own, NEW other, NEW sum,
             NEW t1, NEW t2, Paying(h, c, to, amount, own, other, sum, s, t1, t2), h + 28 < n
      PROVE  Underway(n)
  <2>1. /\ h + 17 \in Nat /\ h + 18 \in Nat /\ h + 19 \in Nat /\ h + 20 \in Nat
        /\ h + 21 \in Nat /\ h + 22 \in Nat /\ h + 23 \in Nat /\ h + 24 \in Nat
        /\ h + 25 \in Nat /\ h + 26 \in Nat /\ h + 27 \in Nat /\ h + 28 \in Nat
        /\ h + 17 < n /\ h + 18 < n /\ h + 19 < n /\ h + 20 < n /\ h + 21 < n
        /\ h + 22 < n /\ h + 23 < n /\ h + 24 < n /\ h + 25 < n /\ h + 26 < n
        /\ h + 27 < n /\ h + 28 < n
        BY <1>8
  <2>2. \E p \in Nat : \E t, u, q : At(p, t, u, q) /\ p < n
    <3>1. CASE \/ At(h + 17, <<to, amount, c, own>>, 178, s)
               \/ At(h + 18, <<to, amount, c, own, amount>>, 181, s)
               \/ At(h + 19, <<to, amount, c, amount, own>>, 184, s)
               \/ At(h + 20, <<to, amount, c, own - amount>>, 187, s)
               \/ At(h + 21, <<to, amount, own - amount, c>>, 190, s)
               \/ At(h + 22, <<to, amount>>, 5190, t1)
          BY <2>1, <3>1
    <3>2. CASE \/ At(h + 23, <<to, amount, to>>, 5193, t1)
               \/ At(h + 24, <<to, amount, other>>, 5293, t1)
               \/ At(h + 25, <<to, sum>>, 5296, t1)
               \/ At(h + 26, <<to, sum, to>>, 5299, t1)
               \/ At(h + 27, <<to>>, 10299, t2)
               \/ At(h + 28, <<>>, 10301, t2)
          BY <2>1, <3>2
    <3>. QED BY <1>8, <3>1, <3>2 DEF Paying
  <2>. QED BY <1>1, <2>2
<1>9. 60 \in Nat /\ 179 \in Nat
      OBVIOUS
<1>. QED BY <1>2, <1>3, <1>4, <1>5, <1>6, <1>7, <1>8, <1>9

LEMMA SortingUnderway ==
    ASSUME NEW r, NEW s, NEW n1, NEW d1, NEW n2, NEW d2, Sorting(r, s, n1, d1, n2, d2)
    PROVE  Underway(Handlers)
<1>1. PICK W \in Nat, S \in Nat, h \in Nat :
           W = WordBytes /\ S = SelectorBytes /\ h = Handlers /\ h = W + 2 * S + 23
      BY SmallBytes DEF Byte
<1>2. PICK D, w, x, y1, y2 : Dispatching(W, S, D, w, x, y1, d1, y2, d2, s)
      BY <1>1 DEF Sorting
<1>3. \A p \in Nat : \A t, u : At(p, t, u, s) /\ p < h => Underway(h)
      BY DEF At, Underway
<1>4. /\ 0 \in Nat /\ W + 1 \in Nat /\ W + 3 \in Nat /\ W + 4 \in Nat /\ W + 5 \in Nat
      /\ W + 6 \in Nat /\ W + S + 7 \in Nat /\ W + S + 8 \in Nat /\ W + S + 10 \in Nat
      /\ W + S + 11 \in Nat /\ W + S + 12 \in Nat /\ W + 2 * S + 13 \in Nat
      /\ W + 2 * S + 14 \in Nat /\ W + 2 * S + 16 \in Nat /\ W + 2 * S + 17 \in Nat
      OBVIOUS
<1>5. /\ 0 < h /\ W + 1 < h /\ W + 3 < h /\ W + 4 < h /\ W + 5 < h /\ W + 6 < h
      /\ W + S + 7 < h /\ W + S + 8 < h /\ W + S + 10 < h /\ W + S + 11 < h
      /\ W + S + 12 < h /\ W + 2 * S + 13 < h /\ W + 2 * S + 14 < h
      /\ W + 2 * S + 16 < h /\ W + 2 * S + 17 < h
      BY <1>1
<1>6. Underway(h)
      BY <1>2, <1>3, <1>4, <1>5 DEF Dispatching
<1>. QED BY <1>1, <1>6

(* How a call can end: refused with a reason, or as it was asked for.        *)
Refusable(r, s) ==
    \/ r.op = "unknown" \/ r.gas < Fares[r.op]
    \/ r.op = "transfer" /\ ValueIn(s, r.caller) < r.amount

Settled(r, s) ==
    \/ ~Succeeded /\ Refusable(r, s)
    \/ /\ r.op = "transfer" /\ r.amount <= ValueIn(s, r.caller)
       /\ Gave(<<>>, Credited(r, s))
    \/ r.op = "balanceOf" /\ Gave(to_bytes(ValueIn(s, r.of), WordBytes), s)
    \/ r.op = "increment" /\ Gave(<<>>, Stored(s, 0, Incremented(s)))
    \/ r.op = "getCount" /\ Gave(to_bytes(ValueIn(s, 0), WordBytes), s)

LEMMA CallSettles ==
    ASSUME NEW k \in Names, NEW r \in Asks(k), NEW s,
           code = IF k = "token" THEN TOKEN_RUNTIME_BYTECODE ELSE COUNTER_RUNTIME_BYTECODE,
           context.gas = r.gas, Served(k, r, s), Halted
    PROVE  Settled(r, s)
<1>1. PICK h \in Nat : h = Handlers /\ h - 5 \in Nat
  <2>1. Handlers \in Nat /\ WordBytes \in Nat /\ SelectorBytes \in Nat
        BY SmallBytes DEF Byte
  <2>2. Handlers - 5 \in Nat
        BY <2>1, SmallBytes
  <2>. QED BY <2>1, <2>2
<1>2. /\ r \in TokenRequests \cup CounterRequests
      /\ k = "token" => r.op \in {"transfer", "balanceOf", "unknown"}
      /\ k = "counter" => r.op \in {"increment", "getCount", "unknown"}
      BY AsksType
<1>3. /\ k = "token" => Len(code) = h + 49
      /\ k = "counter" => Len(code) = h + 25
      BY <1>1, TokenParts, CounterParts
<1>4. \A n \in Nat : n <= Len(code) => ~Underway(n)
  <2>1. ASSUME NEW n \in Nat, n <= Len(code), Underway(n) PROVE FALSE
    <3>1. ~(program_counter < Len(code))
          BY <2>1 DEF Halted, Running, Underway
    <3>2. Len(code) \in Nat
          BY <1>3 DEF Names
    <3>. QED BY <2>1, <3>1, <3>2 DEF Underway
  <2>. QED BY <2>1
<1>5. /\ \A j, n \in Nat : Reverting(j, 60, s) /\ j + 4 < n => Underway(n)
      /\ \A j, n \in Nat : Reverting(j, 179, s) /\ j + 4 < n => Underway(n)
      /\ \A j, n \in Nat : \A v, u : Answering(j, v, u, s) /\ j + 7 < n => Underway(n)
      /\ \A n \in Nat : \A S, x, of : Querying(h + 35, S, x, of, s) /\ h + 41 < n => Underway(n)
      /\ \A n \in Nat : \A x, v, sum, t :
            Counting(h, x, v, sum, s, t) /\ h + 11 < n => Underway(n)
      /\ \A n \in Nat : \A x : Recalling(h + 12, x, s) /\ h + 16 < n => Underway(n)
      /\ \A n \in Nat : \A S, W, x, c, to, amount, own :
            Fetching(h, S, W, x, c, to, amount, own, s) /\ h + 29 < n => Underway(n)
      /\ \A n \in Nat : \A c, to, amount, own, other, sum, t1, t2 :
            Paying(h, c, to, amount, own, other, sum, s, t1, t2) /\ h + 28 < n => Underway(n)
      BY FramesUnderway
<1>6. ASSUME NEW n \in Nat, Broke(n), n <= Fares[r.op] \/ r.op = "unknown"
      PROVE  ~Succeeded /\ Refusable(r, s)
  <2>1. ~Succeeded
        BY <1>6 DEF Broke, Succeeded, NoException
  <2>2. r.op # "unknown" => Fares[r.op] \in Nat
        BY <1>2, PromiseAssumption DEF Names
  <2>3. r.gas \in Nat
        BY <1>2, EncodedBytes, WordValues
  <2>4. context.gas < n
        BY <1>6 DEF Broke
  <2>5. CASE r.op = "unknown"
        BY <2>1, <2>5 DEF Refusable
  <2>6. CASE r.op # "unknown"
    <3>1. r.gas < Fares[r.op]
          BY <1>6, <2>2, <2>3, <2>4, <2>6
    <3>. QED BY <2>1, <3>1 DEF Refusable
  <2>. QED BY <2>5, <2>6
<1>7. Reverted => ~Succeeded
      BY DEF Reverted, Succeeded
<1>8. /\ r.op = "transfer" => 60 <= Fares[r.op] /\ 10301 <= Fares[r.op]
      /\ r.op = "balanceOf" => 60 <= Fares[r.op] /\ 179 <= Fares[r.op]
      /\ r.op = "increment" => 60 <= Fares[r.op] /\ 5151 <= Fares[r.op]
      /\ r.op = "getCount" => 60 <= Fares[r.op] /\ 176 <= Fares[r.op]
      BY PromiseAssumption
<1>9. /\ 60 \in Nat /\ 66 \in Nat /\ 10301 \in Nat /\ 179 \in Nat /\ 5151 \in Nat
      /\ 176 \in Nat /\ h \in Nat /\ h + 25 \in Nat /\ h + 49 \in Nat
      OBVIOUS
<1>10. CASE Broke(60)
  <2>1. 60 <= Fares[r.op] \/ r.op = "unknown"
        BY <1>2, <1>8 DEF Names
  <2>. QED BY <1>6, <1>9, <1>10, <2>1 DEF Settled
<1>11. CASE \/ k = "token" /\ Sorting(r, s, "transfer", Handlers, "balanceOf", Handlers + 35)
            \/ k = "counter" /\ Sorting(r, s, "increment", Handlers, "getCount", Handlers + 12)
  <2>1. Underway(h)
        BY <1>1, <1>11, SortingUnderway
  <2>2. h <= Len(code)
        BY <1>3 DEF Names
  <2>. QED BY <1>4, <2>1, <2>2
<1>12. CASE r.op = "transfer" /\ TransferServed(r, s)
  <2>1. k = "token" /\ Len(code) = h + 49
        BY <1>2, <1>3, <1>12 DEF Names
  <2>2. ASSUME Reverting(h + 30, 179, s) PROVE FALSE
    <3>1. h + 30 \in Nat /\ h + 30 + 4 < h + 49 /\ h + 49 <= Len(code)
          BY <2>1
    <3>. QED BY <1>4, <1>9, <2>2, <3>1, <1>5
  <2>3. ASSUME Transferring(h, SelectorBytes, WordBytes, Operation(r), r.caller, r.to, r.amount,
                            ValueIn(s, r.caller), ValueIn(Debited(r, s), r.to), Received(r, s),
                            s, Debited(r, s), Credited(r, s))
        PROVE  FALSE
    <3>1. PICK W, S, x, c, to, amount, own, other, sum, t1, t2 :
               Transferring(h, S, W, x, c, to, amount, own, other, sum, s, t1, t2)
          BY <2>3
    <3>2. h + 29 < h + 49 /\ h + 28 < h + 49 /\ h + 49 <= Len(code)
          BY <2>1
    <3>. QED BY <1>4, <1>9, <3>1, <3>2, <1>5 DEF Transferring
  <2>4. CASE Broke(10301)
        BY <1>6, <1>8, <1>9, <1>12, <2>4 DEF Settled
  <2>5. CASE ValueIn(s, r.caller) < r.amount /\ Reverted
        BY <1>7, <1>12, <2>5 DEF Settled, Refusable
  <2>6. CASE r.amount <= ValueIn(s, r.caller) /\ Gave(<<>>, Credited(r, s))
        BY <1>12, <2>6 DEF Settled
  <2>. QED BY <1>1, <1>12, <2>2, <2>3, <2>4, <2>5, <2>6 DEF TransferServed
<1>13. CASE r.op = "balanceOf" /\ BalanceServed(r, s)
  <2>1. k = "token" /\ Len(code) = h + 49
        BY <1>2, <1>3, <1>13 DEF Names
  <2>2. ASSUME Querying(h + 35, SelectorBytes, Operation(r), r.of, s) PROVE FALSE
    <3>1. h + 41 < h + 49 /\ h + 49 <= Len(code)
          BY <2>1
    <3>. QED BY <1>4, <1>9, <2>2, <3>1, <1>5
  <2>3. ASSUME Answering(h + 41, ValueIn(s, r.of), 167, s) PROVE FALSE
    <3>1. h + 41 \in Nat /\ h + 41 + 7 < h + 49 /\ h + 49 <= Len(code)
          BY <2>1
    <3>. QED BY <1>4, <1>9, <2>3, <3>1, <1>5
  <2>4. CASE Broke(179)
        BY <1>6, <1>8, <1>9, <1>13, <2>4 DEF Settled
  <2>5. CASE Gave(to_bytes(ValueIn(s, r.of), WordBytes), s)
        BY <1>13, <2>5 DEF Settled
  <2>. QED BY <1>1, <1>13, <2>2, <2>3, <2>4, <2>5 DEF BalanceServed, Answered
<1>14. CASE r.op = "increment" /\ IncrementServed(r, s)
  <2>1. k = "counter" /\ Len(code) = h + 25
        BY <1>2, <1>3, <1>14 DEF Names
  <2>2. ASSUME Counting(h, Operation(r), ValueIn(s, 0), Incremented(s), s,
                        Stored(s, 0, Incremented(s)))
        PROVE  FALSE
    <3>1. h + 11 < h + 25 /\ h + 25 <= Len(code)
          BY <2>1
    <3>. QED BY <1>4, <1>9, <2>2, <3>1, <1>5
  <2>3. CASE Broke(5151)
        BY <1>6, <1>8, <1>9, <1>14, <2>3 DEF Settled
  <2>4. CASE Gave(<<>>, Stored(s, 0, Incremented(s)))
        BY <1>14, <2>4 DEF Settled
  <2>. QED BY <1>1, <1>14, <2>2, <2>3, <2>4 DEF IncrementServed
<1>15. CASE r.op = "getCount" /\ CountServed(r, s)
  <2>1. k = "counter" /\ Len(code) = h + 25
        BY <1>2, <1>3, <1>15 DEF Names
  <2>2. ASSUME Recalling(h + 12, Operation(r), s) PROVE FALSE
    <3>1. h + 16 < h + 25 /\ h + 25 <= Len(code)
          BY <2>1
    <3>. QED BY <1>4, <1>9, <2>2, <3>1, <1>5
  <2>3. ASSUME Answering(h + 17, ValueIn(s, 0), 164, s) PROVE FALSE
    <3>1. h + 17 \in Nat /\ h + 17 + 7 < h + 25 /\ h + 25 <= Len(code)
          BY <2>1
    <3>. QED BY <1>4, <1>9, <2>3, <3>1, <1>5
  <2>4. CASE Broke(176)
        BY <1>6, <1>8, <1>9, <1>15, <2>4 DEF Settled
  <2>5. CASE Gave(to_bytes(ValueIn(s, 0), WordBytes), s)
        BY <1>15, <2>5 DEF Settled
  <2>. QED BY <1>1, <1>15, <2>2, <2>3, <2>4, <2>5 DEF CountServed, Answered
<1>16. CASE r.op = "unknown" /\ Refusing(s)
  <2>1. ASSUME Reverting(h - 5, 60, s) PROVE FALSE
    <3>1. h - 5 \in Nat /\ h - 5 + 4 < h /\ h <= Len(code)
          BY <1>1, <1>3 DEF Names
    <3>. QED BY <1>4, <1>9, <2>1, <3>1, <1>5
  <2>2. CASE Broke(66)
        BY <1>6, <1>9, <1>16, <2>2 DEF Settled
  <2>3. CASE Reverted
        BY <1>7, <1>16, <2>3 DEF Settled, Refusable
  <2>. QED BY <1>1, <1>16, <2>1, <2>2, <2>3 DEF Refusing
<1>. QED BY <1>10, <1>11, <1>12, <1>13, <1>14, <1>15, <1>16 DEF Served

-----------------------------------------------------------------------------
(* The invariant *)

(* What a call is about: the request that the client waits for, made of the  *)
(* account's storage as it was when the call came.                           *)
ServingInv ==
    phase = "calling" =>
        \E k \in {kind}, r \in {request}, s \in {contract.storage} :
            /\ r \in Asks(k) /\ Served(k, r, s)
            /\ context.data = encode(r) /\ context.caller = r.caller /\ context.gas = r.gas
            /\ contract.code # <<>> /\ (k = "token" => s # EmptyDict)

WaitingInv ==
    /\ phase # "calling" => request = NoRequest
    /\ contract.code = <<>> => contract.storage = EmptyDict
    /\ phase = "deploying" => contract.code = <<>>

PromiseInv == ContractInv /\ ServingInv /\ WaitingInv

LEMMA SameServed ==
    ASSUME NEW k, NEW r, NEW s, Served(k, r, s), UNCHANGED evm
    PROVE  Served(k, r, s)'
<1>1. UNCHANGED <<context, program_counter, execution_stack, memory, storage, gas_remaining,
                  stopped, reverted, return_data, raised>>
      BY DEF evm, made, ended
<1>. USE <1>1
<1>2. \A p, t, u, q : At(p, t, u, q) => At(p, t, u, q)'
      BY DEF At
<1>3. /\ \A n : Broke(n) => Broke(n)'
      /\ \A v, q : Gave(v, q) => Gave(v, q)'
      /\ Reverted => Reverted'
      BY DEF Broke, Gave, Reverted
<1>4. \A h, u : Reverting(h, u, s) => Reverting(h, u, s)'
  <2>. TAKE h, u
  <2>1. SUFFICES ASSUME Reverting(h, u, s) PROVE Reverting(h, u, s)'
        OBVIOUS
  <2>2. PICK t : \/ At(h, t, u, s) /\ Len(t) <= 4
                 \/ At(h + 2, t, u + 3, s) /\ Len(t) \in 1..5 /\ FromTop(t, 1) = 0
                 \/ At(h + 4, t, u + 6, s) /\ Len(t) \in 2..6 /\ FromTop(t, 1) = 0 /\ FromTop(t, 2) = 0
        BY <2>1 DEF Reverting
  <2>3. \/ At(h, t, u, s)' /\ Len(t) <= 4
        \/ At(h + 2, t, u + 3, s)' /\ Len(t) \in 1..5 /\ FromTop(t, 1) = 0
        \/ At(h + 4, t, u + 6, s)' /\ Len(t) \in 2..6 /\ FromTop(t, 1) = 0 /\ FromTop(t, 2) = 0
        BY <1>2, <2>2
  <2>. QED BY <2>3 DEF Reverting
<1>5. \A h, v, u : Answering(h, v, u, s) => Answering(h, v, u, s)'
      BY <1>2 DEF Answering, Within
<1>6. \A W, S, D, w, x, y1, d1, y2, d2 :
         Dispatching(W, S, D, w, x, y1, d1, y2, d2, s) => Dispatching(W, S, D, w, x, y1, d1, y2, d2, s)'
      BY <1>2 DEF Dispatching
<1>7. /\ \A h, S, x, of : Querying(h, S, x, of, s) => Querying(h, S, x, of, s)'
      /\ \A h, x : Recalling(h, x, s) => Recalling(h, x, s)'
      BY <1>2 DEF Querying, Recalling
<1>8. \A h, x, v, sum, t : Counting(h, x, v, sum, s, t) => Counting(h, x, v, sum, s, t)'
      BY <1>2 DEF Counting
<1>9. \A h, S, W, x, c, to, amount, own :
         Fetching(h, S, W, x, c, to, amount, own, s) => Fetching(h, S, W, x, c, to, amount, own, s)'
      BY <1>2, SMTT(30) DEF Fetching
<1>10. \A h, c, to, amount, own, other, sum, t1, t2 :
          Paying(h, c, to, amount, own, other, sum, s, t1, t2)
              => Paying(h, c, to, amount, own, other, sum, s, t1, t2)'
       BY <1>2 DEF Paying
<1>11. TransferServed(r, s) => TransferServed(r, s)'
       BY <1>3, <1>4, <1>9, <1>10 DEF TransferServed, Transferring
<1>12. BalanceServed(r, s) => BalanceServed(r, s)'
       BY <1>3, <1>5, <1>7 DEF BalanceServed, Answered
<1>13. IncrementServed(r, s) => IncrementServed(r, s)'
       BY <1>3, <1>8 DEF IncrementServed
<1>14. CountServed(r, s) => CountServed(r, s)'
       BY <1>3, <1>5, <1>7 DEF CountServed, Answered
<1>15. Refusing(s) => Refusing(s)'
       BY <1>3, <1>4 DEF Refusing
<1>16. \A n1, d1, n2, d2 : Sorting(r, s, n1, d1, n2, d2) => Sorting(r, s, n1, d1, n2, d2)'
       BY <1>6 DEF Sorting
<1>. QED BY <1>3, <1>11, <1>12, <1>13, <1>14, <1>15, <1>16 DEF Served

LEMMA PromiseInit == InitContracts => PromiseInv
<1>1. InitContracts => ContractInv
      BY InitHolds
<1>2. ASSUME InitContracts PROVE ServingInv /\ WaitingInv
      BY <1>2 DEF InitContracts, ServingInv, WaitingInv
<1>. QED BY <1>1, <1>2 DEF PromiseInv

(* A call begins before the first instruction, with all of its gas.          *)
LEMMA CallServes ==
    ASSUME PromiseInv, NEW q \in Asks(kind), Call(q)
    PROVE  ServingInv' /\ WaitingInv'
<1>1. /\ UNCHANGED <<contract, kind>> /\ phase' = "calling" /\ request' = q
      /\ contract.code # <<>> /\ (kind = "token" => contract.storage # EmptyDict)
      BY DEF Call, Minted
<1>0. PICK k \in Names : k = kind
      BY DEF PromiseInv, ContractInv
<1>2. PICK c, s, data : c = contract.code /\ s = contract.storage /\ data = encode(q)
      OBVIOUS
<1>3. Frame(c, q.caller, data, q.gas, s)
      BY <1>2 DEF Call
<1>4. q \in Asks(k) /\ q \in TokenRequests \cup CounterRequests
      BY <1>0, AsksType
<1>5. q.gas \in Nat
      BY <1>4, EncodedBytes, WordValues
<1>6. At(0, <<>>, 0, s)'
  <2>1. q.gas - 0 = q.gas
        BY <1>5
  <2>. QED BY <1>3, <2>1 DEF Frame, At
<1>7. \A n1, d1, n2, d2 : Sorting(q, s, n1, d1, n2, d2)'
      BY <1>6 DEF Sorting, Dispatching
<1>8. Served(k, q, s)'
      BY <1>0, <1>7 DEF Served, Names
<1>9. context'.data = data /\ context'.caller = q.caller /\ context'.gas = q.gas
      BY <1>3 DEF Frame
<1>10. ServingInv'
       BY <1>0, <1>1, <1>2, <1>4, <1>8, <1>9 DEF ServingInv
<1>. QED BY <1>1, <1>10 DEF WaitingInv, PromiseInv

LEMMA ExecutingServes ==
    ASSUME PromiseInv, Executing
    PROVE  ServingInv' /\ WaitingInv'
<1>1. UNCHANGED <<contract, kind, phase, request>> /\ Stepping
      BY DEF Executing, client, Stepping, PromiseInv, ContractInv
<1>2. WaitingInv'
      BY <1>1 DEF PromiseInv, WaitingInv
<1>3. ASSUME phase = "calling" PROVE ServingInv'
  <2>1. PICK k \in {kind}, r \in {request}, s \in {contract.storage} :
            /\ r \in Asks(k) /\ Served(k, r, s)
            /\ context.data = encode(r) /\ context.caller = r.caller /\ context.gas = r.gas
            /\ contract.code # <<>> /\ (k = "token" => s # EmptyDict)
        BY <1>3 DEF PromiseInv, ServingInv
  <2>2. /\ k \in Names /\ IsBook(s)
        /\ code = IF k = "token" THEN TOKEN_RUNTIME_BYTECODE ELSE COUNTER_RUNTIME_BYTECODE
        BY <1>3 DEF PromiseInv, ContractInv, AccountInv, CallInv, runtime
  <2>3. Served(k, r, s)'
        BY <1>1, <2>1, <2>2, ServedStep
  <2>4. context' = context
        BY <1>1, FrameStays
  <2>. QED BY <1>1, <2>1, <2>3, <2>4 DEF ServingInv
<1>4. ASSUME phase # "calling" PROVE ServingInv'
      BY <1>1, <1>4 DEF ServingInv
<1>. QED BY <1>2, <1>3, <1>4

LEMMA NothingServes ==
    ASSUME PromiseInv, UNCHANGED <<evm, client>>
    PROVE  ServingInv' /\ WaitingInv'
<1>1. UNCHANGED <<contract, kind, phase, request, context>> /\ UNCHANGED evm
      BY DEF client, evm, made
<1>2. WaitingInv'
      BY <1>1 DEF PromiseInv, WaitingInv
<1>3. ASSUME phase = "calling" PROVE ServingInv'
  <2>1. PICK k \in {kind}, r \in {request}, s \in {contract.storage} :
            /\ r \in Asks(k) /\ Served(k, r, s)
            /\ context.data = encode(r) /\ context.caller = r.caller /\ context.gas = r.gas
            /\ contract.code # <<>> /\ (k = "token" => s # EmptyDict)
        BY <1>3 DEF PromiseInv, ServingInv
  <2>2. Served(k, r, s)'
        BY <1>1, <2>1, SameServed
  <2>. QED BY <1>1, <2>1, <2>2 DEF ServingInv
<1>4. ASSUME phase # "calling" PROVE ServingInv'
      BY <1>1, <1>4 DEF ServingInv
<1>. QED BY <1>2, <1>3, <1>4

LEMMA PromiseInvStep == PromiseInv /\ [NextContracts]_<<evm, client>> => PromiseInv'
<1>. SUFFICES ASSUME PromiseInv, [NextContracts]_<<evm, client>> PROVE PromiseInv'
     OBVIOUS
<1>1. ContractInv'
      BY ContractInvStep DEF PromiseInv
<1>2. contract = [code |-> contract.code, storage |-> contract.storage]
      BY DEF PromiseInv, ContractInv, AccountInv
<1>3. CASE \E gas \in GasLimits : Deploy(gas)
  <2>1. /\ UNCHANGED <<contract, request>> /\ phase = "idle" /\ phase' = "deploying"
        /\ contract.code = <<>>
        BY <1>3 DEF Deploy
  <2>. QED BY <1>1, <2>1 DEF PromiseInv, ServingInv, WaitingInv
<1>4. CASE Deployed
  <2>1. /\ phase = "deploying" /\ phase' = "idle" /\ UNCHANGED request
        /\ contract' = IF Succeeded THEN [code |-> return_data, storage |-> storage] ELSE contract
        BY <1>4 DEF Deployed
  <2>2. storage = EmptyDict
        BY <2>1 DEF PromiseInv, ContractInv, DeployInv
  <2>. QED BY <1>1, <2>1, <2>2 DEF PromiseInv, ServingInv, WaitingInv
<1>5. CASE SetSupply
  <2>1. /\ phase = "idle" /\ UNCHANGED <<phase, request>> /\ contract.code # <<>>
        /\ contract' = [contract EXCEPT !.storage = [k \in {Deployer} |-> INITIAL_SUPPLY]]
        BY <1>5 DEF SetSupply
  <2>2. contract'.code # <<>>
        BY <1>2, <2>1
  <2>. QED BY <1>1, <2>1, <2>2 DEF PromiseInv, ServingInv, WaitingInv
<1>6. CASE \E r \in IF kind = "token" THEN TokenRequests ELSE CounterRequests : Call(r)
  <2>1. PICK q \in Asks(kind) : Call(q)
        BY <1>6 DEF Asks
  <2>. QED BY <1>1, <2>1, CallServes DEF PromiseInv
<1>7. CASE Returned
  <2>1. /\ phase = "calling" /\ phase' = "idle" /\ request' = NoRequest
        /\ contract' = [contract EXCEPT !.storage = Persisted(storage)]
        BY <1>7 DEF Returned
  <2>2. contract.code # <<>>
        BY <2>1 DEF PromiseInv, ServingInv
  <2>3. contract'.code # <<>>
        BY <1>2, <2>1, <2>2
  <2>. QED BY <1>1, <2>1, <2>3 DEF PromiseInv, ServingInv, WaitingInv
<1>8. CASE Executing
      BY <1>1, <1>8, ExecutingServes DEF PromiseInv
<1>9. CASE UNCHANGED <<evm, client>>
      BY <1>1, <1>9, NothingServes DEF PromiseInv
<1>. QED BY <1>3, <1>4, <1>5, <1>6, <1>7, <1>8, <1>9 DEF NextContracts

-----------------------------------------------------------------------------
(* The refinement *)

SlotKeys == Clients \cup Recipients \cup {0}

(* The slots that the specification of the contracts speaks of.              *)
SlotsOf(s) == [k \in SlotKeys |-> IF k \in DOMAIN s THEN s[k] ELSE 0]

LEMMA SlotsHeld ==
    ASSUME NEW s
    PROVE  \A k \in SlotKeys : SlotsOf(s)[k] = ValueIn(s, k)
BY DEF SlotsOf, ValueIn

LEMMA SlotsStored ==
    ASSUME NEW s, NEW key, NEW v
    PROVE  SlotsOf(Stored(s, key, v)) = [SlotsOf(s) EXCEPT ![key] = v]
BY DEF SlotsOf, Stored

(* Whoever asks, and about whom, has a slot.                                 *)
LEMMA Parties ==
    ASSUME NEW r \in TokenRequests \cup CounterRequests
    PROVE  /\ r.caller \in SlotKeys /\ r.caller \in Word /\ 0 \in SlotKeys
           /\ r.op = "transfer" => r.to \in SlotKeys /\ r.to \in Word /\ r.amount \in Word
           /\ r.op = "balanceOf" => r.of \in SlotKeys
<1>1. /\ r.caller \in Clients
      /\ r.op = "transfer" => r.to \in Recipients /\ r.amount \in Amounts
      /\ r.op = "balanceOf" => r.of \in Recipients
      BY DEF TokenRequests, CounterRequests, Asked
<1>. QED BY <1>1, ClientAssumption DEF SlotKeys

(* t is s with v in the slot key.                                            *)
Resummed(s, key, v, t) ==
    /\ IsBook(t)
    /\ key \in DOMAIN s => SumFunction(t) = SumFunction(s) - s[key] + v
    /\ key \notin DOMAIN s => SumFunction(t) = SumFunction(s) + v

LEMMA SumStored ==
    ASSUME NEW s, IsBook(s), NEW key \in Word, NEW v \in Word, NEW t, t = Stored(s, key, v)
    PROVE  Resummed(s, key, v, t)
<1>1. LET q == Stored(s, key, v) IN
      /\ IsBook(q)
      /\ key \in DOMAIN s => SumFunction(q) = SumFunction(s) - s[key] + v
      /\ key \notin DOMAIN s => SumFunction(q) = SumFunction(s) + v
      BY StoreSum
<1>. QED BY <1>1 DEF Resummed

(* No balance grows beyond a word: there are only so many tokens.            *)
LEMMA NoWrap ==
    ASSUME NEW s, IsBook(s), SumFunction(s) = INITIAL_SUPPLY,
           NEW r \in TokenRequests \cup CounterRequests, r.op = "transfer",
           r.amount <= ValueIn(s, r.caller)
    PROVE  Received(r, s) = ValueIn(Debited(r, s), r.to) + r.amount
<1>1. PICK c \in Word, to \in Word, amount \in Word : c = r.caller /\ to = r.to /\ amount = r.amount
      BY Parties
<1>2. PICK own \in Word : own = ValueIn(s, c)
      BY SlotWord
<1>3. /\ own \in Nat /\ amount \in Nat /\ amount <= own /\ own \in 0..(MOD_VALUE - 1)
      /\ MOD_VALUE \in Nat
      BY <1>1, <1>2, WordValues DEF Word
<1>4. PICK v \in Word : v = own - amount
      BY <1>3 DEF Word
<1>5. PICK t : t = Stored(s, c, v)
      OBVIOUS
<1>6. /\ IsBook(t)
      /\ c \in DOMAIN s => SumFunction(t) = SumFunction(s) - s[c] + v
      /\ c \notin DOMAIN s => SumFunction(t) = SumFunction(s) + v
  <2>1. Resummed(s, c, v, t)
        BY <1>5, SumStored
  <2>. QED BY <2>1 DEF Resummed
<1>7. PICK sum \in Nat, all \in Nat : /\ sum = SumFunction(s) /\ all = SumFunction(t)
      BY <1>6, SlotWithinSum
<1>8. /\ c \in DOMAIN s => s[c] = own
      /\ c \notin DOMAIN s => own = 0
      BY <1>2 DEF ValueIn
<1>9. all = sum - amount
  <2>1. CASE c \in DOMAIN s
        BY <1>3, <1>4, <1>6, <1>7, <1>8, <2>1
  <2>2. CASE c \notin DOMAIN s
        BY <1>3, <1>4, <1>6, <1>7, <1>8, <2>2
  <2>. QED BY <2>1, <2>2
<1>10. PICK other \in Nat : other = ValueIn(t, to) /\ other <= all
  <2>1. \A k \in DOMAIN t : t[k] \in Nat /\ t[k] <= SumFunction(t)
        BY <1>6, SlotWithinSum
  <2>. QED BY <1>7, <2>1 DEF ValueIn
<1>11. sum \in 0..(MOD_VALUE - 1)
       BY <1>7, ClientAssumption DEF Word
<1>12. (other + amount) % MOD_VALUE = other + amount
  <2>1. PICK m \in Nat : m = MOD_VALUE
        BY <1>3
  <2>2. other + amount \in 0..(m - 1) /\ m > 0
        BY <1>3, <1>9, <1>10, <1>11, <2>1
  <2>3. (other + amount) % m = other + amount
        BY <2>2
  <2>. QED BY <2>1, <2>3
<1>13. Debited(r, s) = t
       BY <1>1, <1>2, <1>4, <1>5 DEF Debited
<1>. QED BY <1>1, <1>10, <1>12, <1>13 DEF Received

LEMMA NothingDecoded == decode_uint256(<<>>) = 0
<1>1. <<>> \in Seq(Byte) /\ Len(<<>>) = 0
      OBVIOUS
<1>2. Least(WordBytes, Len(<<>>)) = 0
      BY <1>1, WordValues DEF Least
<1>3. SubSeq(<<>>, 1, 0) = <<>>
      OBVIOUS
<1>4. PICK f : Reads(<<>>, f)
      BY <1>1, Readable
<1>5. from_bytes(<<>>) = 0
      BY <1>1, <1>4 DEF Reads
<1>. QED BY <1>2, <1>3, <1>5 DEF decode_uint256

LEMMA WordDecoded ==
    ASSUME NEW v \in Word
    PROVE  decode_uint256(to_bytes(v, WordBytes)) = v
<1>1. PICK w \in Nat : w = WordBytes
      BY WordValues
<1>2. PICK b \in Seq(Byte) : b = to_bytes(v, WordBytes) /\ Len(b) = w
      BY <1>1, ToBytes, WordValues
<1>3. Least(WordBytes, Len(b)) = Len(b)
      BY <1>1, <1>2 DEF Least
<1>4. SubSeq(b, 1, Len(b)) = b
      BY <1>2
<1>. QED BY <1>2, <1>3, <1>4, WordBack DEF decode_uint256

(* An answer as the specification of the contracts gives it: f and g are the *)
(* slots before and after.                                                   *)
Answers(r, f, g, success, value) ==
    \/ /\ r.op = "transfer" /\ r.amount <= f[r.caller] /\ success = TRUE /\ value = 0
       /\ LET paid == [f EXCEPT ![r.caller] = @ - r.amount]
          IN  g = [paid EXCEPT ![r.to] = @ + r.amount]
    \/ r.op = "balanceOf" /\ success = TRUE /\ value = f[r.of] /\ g = f
    \/ /\ r.op = "increment" /\ success = TRUE /\ value = 0
       /\ g = [f EXCEPT ![0] = (@ + 1) % MOD_VALUE]
    \/ r.op = "getCount" /\ success = TRUE /\ value = f[0] /\ g = f
    \/ /\ \/ r.op = "unknown"
          \/ r.op # "none" /\ r.gas < Fares[r.op]
          \/ r.op = "transfer" /\ ~(r.amount <= f[r.caller])
       /\ success = FALSE /\ value = 0 /\ g = f

LEMMA SettledAnswers ==
    ASSUME NEW k \in Names, NEW r \in Asks(k), NEW s, IsBook(s),
           r.op = "transfer" => SumFunction(s) = INITIAL_SUPPLY, Settled(r, s)
    PROVE  Answers(r, SlotsOf(s), SlotsOf(IF Succeeded THEN storage ELSE s), Succeeded,
                   IF Succeeded THEN decode_uint256(return_data) ELSE 0)
<1>1. r \in TokenRequests \cup CounterRequests /\ r.op # "none"
      BY AsksType DEF Names
<1>2. PICK f : f = SlotsOf(s) /\ \A j \in SlotKeys : f[j] = ValueIn(s, j)
      BY SlotsHeld
<1>3. /\ r.caller \in SlotKeys /\ r.caller \in Word /\ 0 \in SlotKeys
      /\ r.op = "transfer" => r.to \in SlotKeys /\ r.to \in Word /\ r.amount \in Word
      /\ r.op = "balanceOf" => r.of \in SlotKeys
      BY <1>1, Parties
<1>4. \A j : ValueIn(s, j) \in Word
      BY SlotWord
<1>5. \A v, t : Gave(v, t) => Succeeded /\ storage = t /\ return_data = v
      BY DEF Gave, Succeeded
<1>6. Succeeded \in BOOLEAN
      BY DEF Succeeded
<1>7. CASE ~Succeeded /\ Refusable(r, s)
  <2>1. ASSUME r.op = "transfer", ValueIn(s, r.caller) < r.amount
        PROVE  ~(r.amount <= f[r.caller])
    <3>1. f[r.caller] = ValueIn(s, r.caller) /\ ValueIn(s, r.caller) \in Word /\ r.amount \in Word
          BY <1>2, <1>3, <1>4, <2>1
    <3>2. f[r.caller] \in Nat /\ r.amount \in Nat /\ f[r.caller] < r.amount
          BY <2>1, <3>1, WordValues
    <3>. QED BY <3>2
  <2>. QED BY <1>1, <1>2, <1>7, <2>1 DEF Answers, Refusable
<1>8. CASE r.op = "transfer" /\ r.amount <= ValueIn(s, r.caller) /\ Gave(<<>>, Credited(r, s))
  <2>1. PICK c, to, amount : c = r.caller /\ to = r.to /\ amount = r.amount
        OBVIOUS
  <2>2. PICK t, own, other : /\ own = ValueIn(s, c) /\ t = Stored(s, c, own - amount)
                             /\ other = ValueIn(t, to)
        OBVIOUS
  <2>3. Debited(r, s) = t /\ Credited(r, s) = Stored(t, to, other + amount)
        BY <1>1, <1>8, <2>1, <2>2, NoWrap DEF Debited, Credited
  <2>4. PICK p : p = SlotsOf(t) /\ p = [f EXCEPT ![c] = own - amount] /\ p[to] = other
        BY <1>2, <1>3, <1>8, <2>1, <2>2, SlotsStored, SlotsHeld
  <2>5. SlotsOf(Credited(r, s)) = [p EXCEPT ![to] = other + amount]
    <3>1. PICK q : q = other + amount
          OBVIOUS
    <3>2. SlotsOf(Stored(t, to, q)) = [SlotsOf(t) EXCEPT ![to] = q]
          BY SlotsStored
    <3>. QED BY <2>3, <2>4, <3>1, <3>2
  <2>6. f[c] = own
        BY <1>2, <1>3, <2>1, <2>2
  <2>7. SlotsOf(Credited(r, s)) = [[f EXCEPT ![c] = @ - amount] EXCEPT ![to] = @ + amount]
        BY <2>4, <2>5, <2>6
  <2>8. Succeeded /\ storage = Credited(r, s) /\ decode_uint256(return_data) = 0
        BY <1>5, <1>8, NothingDecoded
  <2>9. r.amount <= f[r.caller]
        BY <1>8, <2>1, <2>2, <2>6
  <2>. QED BY <1>2, <1>6, <1>8, <2>1, <2>7, <2>8, <2>9 DEF Answers
<1>9. CASE r.op = "balanceOf" /\ Gave(to_bytes(ValueIn(s, r.of), WordBytes), s)
  <2>1. Succeeded /\ storage = s /\ return_data = to_bytes(ValueIn(s, r.of), WordBytes)
        BY <1>5, <1>9
  <2>2. decode_uint256(return_data) = ValueIn(s, r.of)
        BY <1>4, <2>1, WordDecoded
  <2>3. f[r.of] = ValueIn(s, r.of)
        BY <1>2, <1>3, <1>9
  <2>. QED BY <1>2, <1>6, <1>9, <2>1, <2>2, <2>3 DEF Answers
<1>10. CASE r.op = "increment" /\ Gave(<<>>, Stored(s, 0, Incremented(s)))
  <2>1. Succeeded /\ storage = Stored(s, 0, Incremented(s)) /\ decode_uint256(return_data) = 0
        BY <1>5, <1>10, NothingDecoded
  <2>2. f[0] = ValueIn(s, 0) /\ f[0] \in Nat
        BY <1>2, <1>3, <1>4, WordValues
  <2>3. 1 + f[0] = f[0] + 1
        BY <2>2
  <2>4. Incremented(s) = (f[0] + 1) % MOD_VALUE
        BY <2>2, <2>3 DEF Incremented
  <2>5. SlotsOf(storage) = [f EXCEPT ![0] = (@ + 1) % MOD_VALUE]
        BY <1>2, <2>1, <2>4, SlotsStored
  <2>. QED BY <1>2, <1>6, <1>10, <2>1, <2>5 DEF Answers
<1>11. CASE r.op = "getCount" /\ Gave(to_bytes(ValueIn(s, 0), WordBytes), s)
  <2>1. Succeeded /\ storage = s /\ return_data = to_bytes(ValueIn(s, 0), WordBytes)
        BY <1>5, <1>11
  <2>2. decode_uint256(return_data) = ValueIn(s, 0)
        BY <1>4, <2>1, WordDecoded
  <2>3. f[0] = ValueIn(s, 0)
        BY <1>2, <1>3
  <2>. QED BY <1>2, <1>6, <1>11, <2>1, <2>2, <2>3 DEF Answers
<1>. QED BY <1>7, <1>8, <1>9, <1>10, <1>11 DEF Settled

LEMMA ReturnedAnswers ==
    ASSUME PromiseInv, Returned
    PROVE  Promise!Next
<1>1. PICK k \in {kind}, r \in {request}, s \in {contract.storage} :
          /\ r \in Asks(k) /\ Served(k, r, s) /\ context.gas = r.gas
          /\ contract.code # <<>> /\ (k = "token" => s # EmptyDict)
      BY DEF Returned, PromiseInv, ServingInv
<1>2. /\ k \in Names /\ IsBook(s)
      /\ code = IF k = "token" THEN TOKEN_RUNTIME_BYTECODE ELSE COUNTER_RUNTIME_BYTECODE
      BY DEF Returned, PromiseInv, ContractInv, AccountInv, CallInv, runtime
<1>3. Settled(r, s)
      BY <1>1, <1>2, CallSettles DEF Returned
<1>4. r.op = "transfer" => SumFunction(s) = INITIAL_SUPPLY
  <2>1. r.op = "transfer" => k = "token"
        BY <1>1, <1>2, AsksType DEF Names
  <2>. QED BY <1>1, <2>1 DEF PromiseInv, ContractInv, TokensConserved
<1>5. PICK f, g, success, value : /\ f = SlotsOf(s)
                                  /\ g = SlotsOf(IF Succeeded THEN storage ELSE s)
                                  /\ success = Succeeded
                                  /\ value = IF Succeeded THEN decode_uint256(return_data) ELSE 0
                                  /\ Answers(r, f, g, success, value)
      BY <1>1, <1>2, <1>3, <1>4, SettledAnswers
<1>6. contract'.storage = IF Succeeded THEN storage ELSE s
      BY DEF Returned, Persisted, PromiseInv, ContractInv, AccountInv
<1>7. /\ f = [j \in Clients \cup Recipients \cup {0} |->
                 IF j \in DOMAIN contract.storage THEN contract.storage[j] ELSE 0]
      /\ g = [j \in Clients \cup Recipients \cup {0} |->
                 IF j \in DOMAIN contract'.storage THEN contract'.storage[j] ELSE 0]
      BY <1>5, <1>6 DEF SlotsOf, SlotKeys
<1>8. answer' = [success |-> success, value |-> value] /\ request' = [op |-> "none"] /\ r = request
      BY <1>1, <1>5 DEF Returned, NoRequest
<1>9. CASE /\ r.op = "transfer" /\ r.amount <= f[r.caller] /\ success = TRUE /\ value = 0
           /\ g = [[f EXCEPT ![r.caller] = @ - r.amount] EXCEPT ![r.to] = @ + r.amount]
  <2>1. Promise!Transfer
        BY <1>7, <1>8, <1>9 DEF Promise!Transfer, Promise!Funded, Promise!Reply, Promise!NoRequest
  <2>. QED BY <2>1 DEF Promise!Next
<1>10. CASE r.op = "balanceOf" /\ success = TRUE /\ value = f[r.of] /\ g = f
  <2>1. Promise!BalanceOf
        BY <1>7, <1>8, <1>10 DEF Promise!BalanceOf, Promise!Reply, Promise!NoRequest
  <2>. QED BY <2>1 DEF Promise!Next
<1>11. CASE /\ r.op = "increment" /\ success = TRUE /\ value = 0
            /\ g = [f EXCEPT ![0] = (@ + 1) % MOD_VALUE]
  <2>1. Promise!Increment
        BY <1>7, <1>8, <1>11 DEF Promise!Increment, Promise!Reply, Promise!NoRequest
  <2>. QED BY <2>1 DEF Promise!Next
<1>12. CASE r.op = "getCount" /\ success = TRUE /\ value = f[0] /\ g = f
  <2>1. Promise!GetCount
        BY <1>7, <1>8, <1>12 DEF Promise!GetCount, Promise!Reply, Promise!NoRequest
  <2>. QED BY <2>1 DEF Promise!Next
<1>13. CASE /\ \/ r.op = "unknown"
               \/ r.op # "none" /\ r.gas < Fares[r.op]
               \/ r.op = "transfer" /\ ~(r.amount <= f[r.caller])
            /\ success = FALSE /\ value = 0 /\ g = f
  <2>1. Promise!Refuse
        BY <1>7, <1>8, <1>13 DEF Promise!Refuse, Promise!Funded, Promise!Reply, Promise!NoRequest
  <2>. QED BY <2>1 DEF Promise!Next
<1>. QED BY <1>5, <1>9, <1>10, <1>11, <1>12, <1>13 DEF Answers

(* What the specification of the contracts does not see.                     *)
Unseen ==
    UNCHANGED <<[k \in Clients \cup Recipients \cup {0} |->
                   IF k \in DOMAIN contract.storage THEN contract.storage[k] ELSE 0],
                request, answer>>

LEMMA StorageUnseen ==
    ASSUME contract'.storage = contract.storage, UNCHANGED <<request, answer>>
    PROVE  Unseen
BY DEF Unseen

LEMMA DeployedUnseen ==
    ASSUME PromiseInv, Deployed
    PROVE  Unseen
<1>1. /\ phase = "deploying" /\ UNCHANGED <<request, answer>>
      /\ contract' = IF Succeeded THEN [code |-> return_data, storage |-> storage] ELSE contract
      BY DEF Deployed
<1>2. storage = EmptyDict /\ contract.storage = EmptyDict
      BY <1>1 DEF PromiseInv, WaitingInv, ContractInv, DeployInv
<1>3. contract'.storage = contract.storage
      BY <1>1, <1>2
<1>. QED BY <1>1, <1>3, StorageUnseen

LEMMA SupplyGiven ==
    ASSUME PromiseInv, SetSupply
    PROVE  Promise!SetSupply
<1>1. /\ phase = "idle" /\ UNCHANGED <<request, answer>> /\ contract.storage = EmptyDict
      /\ contract' = [contract EXCEPT !.storage = [k \in {Deployer} |-> INITIAL_SUPPLY]]
      BY DEF SetSupply
<1>2. request = [op |-> "none"]
      BY <1>1 DEF PromiseInv, WaitingInv, NoRequest
<1>3. contract'.storage = [k \in {Deployer} |-> INITIAL_SUPPLY]
      BY <1>1 DEF PromiseInv, ContractInv, AccountInv
<1>4. Deployer \in Clients
      BY ClientAssumption
<1>5. PICK f, g : /\ f = [k \in Clients \cup Recipients \cup {0} |->
                             IF k \in DOMAIN contract.storage THEN contract.storage[k] ELSE 0]
                  /\ g = [k \in Clients \cup Recipients \cup {0} |->
                             IF k \in DOMAIN contract'.storage THEN contract'.storage[k] ELSE 0]
      OBVIOUS
<1>6. \A k \in Clients \cup Recipients \cup {0} : f[k] = 0
      BY <1>1, <1>5 DEF EmptyDict
<1>7. g = [f EXCEPT ![Deployer] = INITIAL_SUPPLY]
      BY <1>3, <1>5, <1>6
<1>. QED BY <1>1, <1>2, <1>4, <1>5, <1>6, <1>7 DEF Promise!SetSupply, Promise!Idle, Promise!NoRequest

LEMMA CallAsked ==
    ASSUME PromiseInv, NEW q \in Asks(kind), Call(q)
    PROVE  Promise!Ask
<1>1. phase = "idle" /\ request' = q /\ UNCHANGED <<contract, answer>>
      BY DEF Call
<1>2. request = [op |-> "none"]
      BY <1>1 DEF PromiseInv, WaitingInv, NoRequest
<1>3. q \in TokenRequests \cup CounterRequests
      BY DEF Asks
<1>. QED BY <1>1, <1>2, <1>3 DEF Promise!Ask, Promise!Idle, Promise!NoRequest

LEMMA PromiseStep ==
    ASSUME PromiseInv, [NextContracts]_<<evm, client>>
    PROVE  Promise!Next \/ Unseen
<1>1. CASE \E gas \in GasLimits : Deploy(gas)
      BY <1>1, StorageUnseen DEF Deploy
<1>2. CASE Deployed
      BY <1>2, DeployedUnseen
<1>3. CASE SetSupply
      BY <1>3, SupplyGiven DEF Promise!Next
<1>4. CASE \E r \in IF kind = "token" THEN TokenRequests ELSE CounterRequests : Call(r)
  <2>1. PICK q \in Asks(kind) : Call(q)
        BY <1>4 DEF Asks
  <2>. QED BY <2>1, CallAsked DEF Promise!Next
<1>5. CASE Returned
      BY <1>5, ReturnedAnswers
<1>6. CASE Executing
      BY <1>6, StorageUnseen DEF Executing, client
<1>7. CASE UNCHANGED <<evm, client>>
      BY <1>7, StorageUnseen DEF client
<1>. QED BY <1>1, <1>2, <1>3, <1>4, <1>5, <1>6, <1>7 DEF NextContracts

LEMMA PromiseInvHolds == SpecContracts => []PromiseInv
<1>. QED BY PromiseInit, PromiseInvStep, PTL DEF SpecContracts

(* Whatever is asked of the contracts, with whatever gas, is answered as     *)
(* Token says, by the bytecode, instruction by instruction: a transfer moves *)
(* the amount when the caller has it, to another or to itself; a query gives *)
(* the slot; a failed call changes nothing; and no call is refused that had  *)
(* the gas and, for a transfer, the tokens.                                  *)
THEOREM PromiseIsKept == SpecContracts => PromiseKept
<1>1. InitContracts => Promise!Init
  <2>1. SUFFICES ASSUME InitContracts PROVE Promise!Init
        OBVIOUS
  <2>2. /\ contract = [code |-> <<>>, storage |-> EmptyDict] /\ request = NoRequest
        /\ answer = [success |-> FALSE, value |-> 0]
        BY <2>1 DEF InitContracts
  <2>. QED BY <2>2 DEF Promise!Init, Promise!NoRequest, NoRequest, EmptyDict
<1>2. PromiseInv /\ [NextContracts]_<<evm, client>>
          => [Promise!Next]_<<[k \in Clients \cup Recipients \cup {0} |->
                                 IF k \in DOMAIN contract.storage THEN contract.storage[k] ELSE 0],
                              request, answer>>
      BY PromiseStep DEF Unseen
<1>. QED BY <1>1, <1>2, PromiseInvHolds, PTL DEF SpecContracts, PromiseKept, Promise!Spec
=============================================================================
