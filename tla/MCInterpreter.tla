---------------------------- MODULE MCInterpreter ----------------------------
(* Words of two bytes; a stack of seven; memories of up to twelve bytes.     *)
EXTENDS Interpreter

MCWordBytes == 2

MCMaxStackDepth == 7

MCMaxMemory == 12

MCDigests == {2, MOD_VALUE - 1}

MCGasUsed == {0, 1, 60}

MCReturnData == {<<>>, <<5, 6, 7>>}

MCCreated == {9}

Context(value, gas) ==
    [caller |-> 4, address |-> 5, value |-> value, data |-> <<1, 2, 3>>, gas |-> gas]

Sequences(S, n) == UNION {[1..k -> S] : k \in 0..n}

(* Jumps over pushes, pushed jumpdests and pushes cut off by the end.        *)
Jumping ==
    [code : Sequences({96, 97, OP.JUMPDEST, OP.JUMP, 3, 4}, 5),
     context : {Context(0, 40)}, world : {FALSE}]

(* Every opcode, with three operands of every interesting size.              *)
Operands == {0, 1, 3, 255}

Single ==
    [code : {<<96, x, 96, y, 96, z, op>> : x \in Operands, y \in Operands, z \in {0, 3, 255},
                                           op \in 0..255},
     context : {Context(0, gas) : gas \in {10, 9 + GAS_SSTORE, 50000}}, world : {FALSE}]

PushAll(s) == [i \in 1..(2 * Len(s)) |-> IF i % 2 = 1 THEN 96 ELSE s[i \div 2]]

(* CALL and CREATE with a world state, conditional jumps, a full stack, a    *)
(* loop, two writes to storage and, last, a value that is no word.           *)
Samples ==
    {[code |-> PushAll(<<length, 6, 2, 1, value, 8, gas>>) \o <<OP.CALL, OP.MSIZE>>,
      context |-> Context(0, 200), world |-> w] :
        length \in {0, 1, 4, 200}, value \in {0, 1}, gas \in {0, 50, 255}, w \in BOOLEAN} \cup
    {[code |-> PushAll(<<0, 0, 2, offset, 0, 8, 40>>) \o <<OP.CALL, OP.MSIZE>>,
      context |-> Context(0, 200), world |-> TRUE] : offset \in {0, 3, 255}} \cup
    {[code |-> PushAll(<<size, 3, value>>) \o <<OP.CREATE>>,
      context |-> Context(0, gas), world |-> w] :
        size \in {0, 2, 255}, value \in {0, 1}, gas \in {GAS_CREATE + 20, 50000}, w \in BOOLEAN} \cup
    {[code |-> <<96, c, 96, d, OP.JUMPI, OP.STOP, op, OP.STOP>>,
      context |-> Context(0, 40), world |-> FALSE] : c \in {0, 2}, d \in {5, 6}, op \in {91, 96}} \cup
    {[code |-> PushAll(<<1, 2, 3, 4, 5, 6, 7>>) \o <<op>>,
      context |-> Context(0, 100), world |-> FALSE] : op \in {48, 96, 128, 134, 135, 144, 149, 150}} \cup
    {[code |-> <<OP.JUMPDEST, 96, 0, OP.MLOAD, 96, 1, OP.ADD, 96, 0, OP.MSTORE, 96, 0, OP.JUMP>>,
      context |-> Context(0, 300), world |-> FALSE],
     [code |-> <<OP.JUMPDEST, OP.GAS, OP.CALLER, OP.SSTORE, 96, 1, 96, 2, OP.SSTORE, 96, 0, OP.JUMP>>,
      context |-> Context(0, 4 * GAS_SSTORE), world |-> FALSE],
     [code |-> <<OP.CALLVALUE, 96, 0, OP.MSTORE>>,
      context |-> Context(MOD_VALUE, 40), world |-> FALSE]}

MCStarts == Jumping \cup Single \cup Samples
=============================================================================
