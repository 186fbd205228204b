--------------------------- MODULE ContractsProofs ---------------------------
(* Theorems about the deployed contracts, for every width of words, every    *)
(* supply, every set of clients, amounts and gas limits: what is deployed is *)
(* the runtime code, and transfers conserve the tokens.                      *)
EXTENDS Contracts, InterpreterProofs

-----------------------------------------------------------------------------
(* The stack, read from its top *)
FromTop(s, i) == s[Len(s) - i + 1]

OnTop(s, values) == Len(values) <= Len(s) /\ \A i \in 1..Len(values) : FromTop(s, i) = values[i]

(* What is found in a sequence from an offset on.                            *)
Within(c, k, s) == k + Len(s) <= Len(c) /\ \A i \in 1..Len(s) : c[k + i] = s[i]

-----------------------------------------------------------------------------
(* The invariant *)
Names == {"token", "counter"}

IsBook(s) == DOMAIN s \subseteq Word /\ s \in [DOMAIN s -> Word]

AccountInv ==
    /\ contract = [code |-> contract.code, storage |-> contract.storage]
    /\ IsBook(contract.storage)

(* The init code, for the runtime code r: what each instruction of its header *)
(* finds on the stack.                                                       *)
Has(values) == OnTop(execution_stack, values)

Header(r) ==
    /\ program_counter \in {0, 2, 4, 6, 7, 9, 11}
    /\ program_counter = 2 => Has(<<Len(r)>>)
    /\ program_counter = 4 => Has(<<12, Len(r)>>)
    /\ program_counter = 6 => Has(<<0, 12, Len(r)>>)
    /\ program_counter = 9 => Has(<<Len(r)>>)
    /\ program_counter = 11 => Has(<<0, Len(r)>>)
    /\ program_counter \in {7, 9, 11} => Within(memory, 0, r)

DeployInv ==
    phase = "deploying" =>
        \E r \in {runtime} :
            /\ code = build_init_code(r) /\ storage = EmptyDict
            /\ stopped => return_data = r
            /\ ~stopped => Header(r)

(* The transfer handler: c is the caller.                                    *)
Slot(k) == IF k \in DOMAIN storage THEN storage[k] ELSE 0

TransferStack(at, c, amount, to) ==
    /\ at = 9 => Has(<<c>>)
    /\ at = 10 => Has(<<c, c>>)
    /\ at = 11 => Has(<<Slot(c), c>>)
    /\ at = 12 => Has(<<amount, Slot(c), c, amount>>)
    /\ at = 13 => Has(<<Slot(c), amount, Slot(c), c, amount>>)
    /\ at = 14 => Has(<<Flag(Slot(c) < amount), Slot(c), c, amount>>)
    /\ at = 16 => \E d : Has(<<d, Flag(Slot(c) < amount), Slot(c), c, amount>>)
    /\ at = 17 => Has(<<Slot(c), c, amount>>)
    /\ at = 18 => Has(<<amount, Slot(c), c, amount>>)
    /\ at = 19 => Has(<<Slot(c), amount, c, amount>>)
    /\ at = 20 => Has(<<Slot(c) - amount, c, amount>>)
    /\ at = 21 => Has(<<c, Slot(c) - amount, amount>>)
    /\ at = 22 => Has(<<amount>>)
    /\ at = 23 => Has(<<to, amount, to>>)
    /\ at = 24 => Has(<<Slot(to), amount, to>>)
    /\ at = 25 => Has(<<Slot(to) + amount, to>>)
    /\ at = 26 => Has(<<to, Slot(to) + amount, to>>)

(* Between its two writes, the amount is in no account.                      *)
Pending(at, amount) == IF at \in 22..26 THEN amount ELSE 0

Balanced(at, c, amount, to) ==
    /\ TransferStack(at, c, amount, to)
    /\ at \in 17..21 => amount <= Slot(c)
    /\ SumFunction(storage) + Pending(at, amount) = INITIAL_SUPPLY

(* Where a token's frame is, and what it has on the stack there.             *)
TokenInv ==
    \E at \in {program_counter - Handlers}, c \in {context.caller}, amount, to \in Word :
        /\ Balanced(at, c, amount, to)
        /\ stopped => at \notin 9..26

CallInv ==
    phase = "calling" =>
        /\ code = runtime /\ IsBook(storage)
        /\ kind = "token" => TokenInv

ContractInv ==
    /\ kind \in Names /\ AccountInv
    /\ phase # "idle" => IInv /\ context.value = 0
    /\ DeployInv /\ CallInv
    /\ DeployedVerbatim /\ TokensConserved

-----------------------------------------------------------------------------
(* Sequences *)

(* What is found of a concatenation is found of its parts.                   *)
LEMMA SplitWithin ==
    ASSUME NEW c \in Seq(Byte), NEW k \in Nat, NEW s \in Seq(Byte), NEW t \in Seq(Byte),
           Within(c, k, s \o t)
    PROVE  Within(c, k, s) /\ Within(c, k + Len(s), t)
<1>1. Len(s) \in Nat /\ Len(t) \in Nat /\ Len(s \o t) = Len(s) + Len(t)
      OBVIOUS
<1>2. \A i \in 1..Len(s) : (s \o t)[i] = s[i] /\ i \in 1..Len(s \o t)
      BY <1>1
<1>3. \A i \in 1..Len(t) : (s \o t)[Len(s) + i] = t[i] /\ Len(s) + i \in 1..Len(s \o t)
      BY <1>1
<1>4. Within(c, k, s)
      BY <1>1, <1>2 DEF Within
<1>5. \A i \in 1..Len(t) : c[(k + Len(s)) + i] = t[i]
  <2>. TAKE i \in 1..Len(t)
  <2>1. c[k + (Len(s) + i)] = t[i]
        BY <1>3 DEF Within
  <2>. QED BY <1>1, <2>1
<1>. QED BY <1>1, <1>4, <1>5 DEF Within

LEMMA WithinSelf == ASSUME NEW c \in Seq(Byte) PROVE Within(c, 0, c)
BY DEF Within

(* What the first instruction of a piece of code is, and where the next is.  *)
LEMMA WithinFirst ==
    ASSUME NEW c \in Seq(Byte), NEW k \in Nat, NEW s \in Seq(Byte), Within(c, k, s),
           NEW i \in Nat, i < Len(s)
    PROVE  c[k + i + 1] = s[i + 1] /\ k + i < Len(c)
<1>1. i + 1 \in 1..Len(s) /\ k + (i + 1) = k + i + 1 /\ Len(c) \in Nat
      OBVIOUS
<1>. QED BY <1>1 DEF Within

(* A stack whose top n words are gone.                                       *)
LEMMA DroppedTop ==
    ASSUME NEW C, NEW s \in Seq(C), NEW n \in Nat, n <= Len(s),
           NEW t, t = SubSeq(s, 1, Len(s) - n) \o <<>>
    PROVE  /\ Len(t) = Len(s) - n
           /\ \A j \in 1..(Len(s) - n) : FromTop(t, j) = FromTop(s, j + n)
<1>. DEFINE kept == SubSeq(s, 1, Len(s) - n)
<1>1. Len(s) \in Nat /\ Len(s) - n \in Nat
      OBVIOUS
<1>2. kept \in Seq(C) /\ Len(kept) = Len(s) - n /\ \A i \in 1..(Len(s) - n) : kept[i] = s[i]
  <2>1. \A i \in 1..(Len(s) - n) : s[i] \in C
        BY <1>1, ElementOfSeq
  <2>2. kept = [i \in 1..(Len(s) - n) |-> s[i]]
        BY <1>1
  <2>. QED BY <1>1, <2>1, <2>2
<1>. HIDE DEF kept
<1>3. t = kept
      BY <1>2, ConcatEmptySeq DEF kept
<1>4. ASSUME NEW j \in 1..(Len(s) - n)
      PROVE  FromTop(t, j) = FromTop(s, j + n)
  <2>1. Len(s) - n - j + 1 \in 1..(Len(s) - n)
        BY <1>1
  <2>2. t[Len(s) - n - j + 1] = s[Len(s) - n - j + 1]
        BY <1>2, <1>3, <2>1
  <2>3. Len(t) - j + 1 = Len(s) - n - j + 1 /\ Len(s) - (j + n) + 1 = Len(s) - n - j + 1
        BY <1>1, <1>2, <1>3
  <2>. QED BY <2>2, <2>3 DEF FromTop
<1>. QED BY <1>2, <1>3, <1>4

(* ... or two of which change places.                                        *)
LEMMA ExchangedTop ==
    ASSUME NEW C, NEW s \in Seq(C), 2 <= Len(s)
    PROVE  LET t == [s EXCEPT ![Len(s)] = s[Len(s) - 1], ![Len(s) - 1] = s[Len(s)]]
           IN  /\ Len(t) = Len(s)
               /\ t[Len(s)] = s[Len(s) - 1] /\ t[Len(s) - 1] = s[Len(s)]
               /\ \A i \in 1..(Len(s) - 2) : t[i] = s[i]
<1>1. /\ Len(s) \in 1..Len(s) /\ Len(s) - 1 \in 1..Len(s) /\ Len(s) - 1 # Len(s)
      /\ \A i \in 1..(Len(s) - 2) : i \in 1..Len(s) /\ i # Len(s) /\ i # Len(s) - 1
      OBVIOUS
<1>2. s[Len(s)] \in C /\ s[Len(s) - 1] \in C
      BY <1>1, ElementOfSeq
<1>. DEFINE u == [s EXCEPT ![Len(s)] = s[Len(s) - 1]]
            t == [u EXCEPT ![Len(s) - 1] = s[Len(s)]]
<1>3. /\ u \in Seq(C) /\ Len(u) = Len(s)
      /\ \A i \in 1..Len(s) : u[i] = IF i = Len(s) THEN s[Len(s) - 1] ELSE s[i]
      BY <1>1, <1>2, ExceptSeq
<1>. HIDE DEF u
<1>4. /\ Len(t) = Len(s)
      /\ \A i \in 1..Len(s) : t[i] = IF i = Len(s) - 1 THEN s[Len(s)] ELSE u[i]
  <2>1. Len(s) - 1 \in 1..Len(u) /\ u \in Seq(C) /\ s[Len(s)] \in C
        BY <1>1, <1>2, <1>3
  <2>2. /\ Len(t) = Len(u)
        /\ \A i \in 1..Len(u) : t[i] = IF i = Len(s) - 1 THEN s[Len(s)] ELSE u[i]
        BY <2>1, ExceptSeq
  <2>. QED BY <1>3, <2>2
<1>. HIDE DEF t
<1>5. /\ Len(t) = Len(s)
      /\ t[Len(s)] = s[Len(s) - 1] /\ t[Len(s) - 1] = s[Len(s)]
      /\ \A i \in 1..(Len(s) - 2) : t[i] = s[i]
      BY <1>1, <1>3, <1>4
<1>. QED BY <1>5 DEF t, u

LEMMA SwappedTop ==
    ASSUME NEW C, NEW s \in Seq(C), 2 <= Len(s), NEW t, Len(t) = Len(s),
           t[Len(s)] = s[Len(s) - 1], t[Len(s) - 1] = s[Len(s)],
           \A i \in 1..(Len(s) - 2) : t[i] = s[i]
    PROVE  /\ FromTop(t, 1) = FromTop(s, 2) /\ FromTop(t, 2) = FromTop(s, 1)
           /\ \A j \in 3..Len(s) : FromTop(t, j) = FromTop(s, j)
<1>1. Len(s) \in Nat /\ Len(s) - 1 + 1 = Len(s) /\ Len(s) - 2 + 1 = Len(s) - 1
      OBVIOUS
<1>2. FromTop(t, 1) = FromTop(s, 2) /\ FromTop(t, 2) = FromTop(s, 1)
      BY <1>1 DEF FromTop
<1>3. ASSUME NEW j \in 3..Len(s)
      PROVE  FromTop(t, j) = FromTop(s, j)
  <2>1. Len(s) - j + 1 \in 1..(Len(s) - 2)
        BY <1>1
  <2>. QED BY <2>1 DEF FromTop
<1>. QED BY <1>2, <1>3

(* What it is to have so many words on top.                                  *)
LEMMA TopWords ==
    ASSUME NEW s, Len(s) \in Nat
    PROVE  /\ OnTop(s, <<>>)
           /\ \A a : OnTop(s, <<a>>) <=> Len(s) >= 1 /\ FromTop(s, 1) = a
           /\ \A a, b : OnTop(s, <<a, b>>)
                 <=> Len(s) >= 2 /\ FromTop(s, 1) = a /\ FromTop(s, 2) = b
           /\ \A a, b, c : OnTop(s, <<a, b, c>>)
                 <=> /\ Len(s) >= 3 /\ FromTop(s, 1) = a /\ FromTop(s, 2) = b
                     /\ FromTop(s, 3) = c
           /\ \A a, b, c, d : OnTop(s, <<a, b, c, d>>)
                 <=> /\ Len(s) >= 4 /\ FromTop(s, 1) = a /\ FromTop(s, 2) = b
                     /\ FromTop(s, 3) = c /\ FromTop(s, 4) = d
           /\ \A a, b, c, d, e : OnTop(s, <<a, b, c, d, e>>)
                 <=> /\ Len(s) >= 5 /\ FromTop(s, 1) = a /\ FromTop(s, 2) = b
                     /\ FromTop(s, 3) = c /\ FromTop(s, 4) = d /\ FromTop(s, 5) = e
<1>. USE DEF OnTop
<1>1. OnTop(s, <<>>)
      OBVIOUS
<1>2. ASSUME NEW a
      PROVE  OnTop(s, <<a>>) <=> Len(s) >= 1 /\ FromTop(s, 1) = a
  <2>1. 1..Len(<<a>>) = {1} /\ <<a>>[1] = a /\ Len(<<a>>) = 1
        OBVIOUS
  <2>. QED BY <2>1
<1>3. ASSUME NEW a, NEW b
      PROVE  OnTop(s, <<a, b>>) <=> Len(s) >= 2 /\ FromTop(s, 1) = a /\ FromTop(s, 2) = b
  <2>1. /\ 1..Len(<<a, b>>) = {1, 2} /\ Len(<<a, b>>) = 2
        /\ <<a, b>>[1] = a /\ <<a, b>>[2] = b
        OBVIOUS
  <2>. QED BY <2>1
<1>4. ASSUME NEW a, NEW b, NEW c
      PROVE  OnTop(s, <<a, b, c>>)
                <=> Len(s) >= 3 /\ FromTop(s, 1) = a /\ FromTop(s, 2) = b /\ FromTop(s, 3) = c
  <2>1. /\ 1..Len(<<a, b, c>>) = {1, 2, 3} /\ Len(<<a, b, c>>) = 3
        /\ <<a, b, c>>[1] = a /\ <<a, b, c>>[2] = b /\ <<a, b, c>>[3] = c
        OBVIOUS
  <2>. QED BY <2>1
<1>5. ASSUME NEW a, NEW b, NEW c, NEW d
      PROVE  OnTop(s, <<a, b, c, d>>)
                <=> /\ Len(s) >= 4 /\ FromTop(s, 1) = a /\ FromTop(s, 2) = b
                    /\ FromTop(s, 3) = c /\ FromTop(s, 4) = d
  <2>. DEFINE v == <<a, b, c, d>>
  <2>1. /\ 1..Len(v) = {1, 2, 3, 4} /\ Len(v) = 4
        /\ v[1] = a /\ v[2] = b /\ v[3] = c /\ v[4] = d
        OBVIOUS
  <2>. QED BY <2>1
<1>6. ASSUME NEW a, NEW b, NEW c, NEW d, NEW e
      PROVE  OnTop(s, <<a, b, c, d, e>>)
                <=> /\ Len(s) >= 5 /\ FromTop(s, 1) = a /\ FromTop(s, 2) = b
                    /\ FromTop(s, 3) = c /\ FromTop(s, 4) = d /\ FromTop(s, 5) = e
  <2>. DEFINE v == <<a, b, c, d, e>>
  <2>1. /\ 1..Len(v) = {1, 2, 3, 4, 5} /\ Len(v) = 5
        /\ v[1] = a /\ v[2] = b /\ v[3] = c /\ v[4] = d /\ v[5] = e
        OBVIOUS
  <2>. QED BY <2>1
<1>. QED BY <1>1, <1>2, <1>3, <1>4, <1>5, <1>6

-----------------------------------------------------------------------------
(* What a step does, by its opcode *)

(* An exception changes nothing that outlives the frame.                     *)
Throws ==
    /\ raised' # NoException
    /\ UNCHANGED <<made, program_counter, execution_stack, Data, stopped, return_data>>

(* The handlers of the opcodes that the proofs follow.                       *)
Handled ==
    /\ opcode \in Binary => Arithmetic
    /\ opcode = OP.CALLER => Environment
    /\ opcode = OP.CODECOPY => Copy
    /\ opcode \in PUSH => op_push
    /\ opcode \in DUP => op_dup
    /\ opcode \in SWAP => op_swap
    /\ opcode = OP.SLOAD => op_sload
    /\ opcode = OP.SSTORE => op_sstore
    /\ opcode = OP.JUMPI => op_jump
    /\ opcode = OP.RETURN => Answer

LEMMA StepThrows ==
    InvalidOpcode \/ OutOfGas \/ StackUnderflow \/ StackOverflow \/ InvalidJumpDestination
        \/ MemoryError \/ OverflowError \/ CalleeRaises => Throws
BY DEF InvalidOpcode, OutOfGas, StackUnderflow, StackOverflow, InvalidJumpDestination,
       MemoryError, OverflowError, CalleeRaises, HandlerRaises, Raise, Throws, NoException

(* The opcodes of one group are none of another.                             *)
LEMMA Groups ==
    /\ \A op \in Binary : op \in 1..23 /\ op # 21
    /\ \A op \in PUSH : op \in 96..127
    /\ \A op \in DUP : op \in 128..143
    /\ \A op \in SWAP : op \in 144..159
    /\ \A op \in Pushes0 : op \in 48..52 \/ op \in {54, 56, 89, 90}
<1>1. \A op \in Binary : op \in 1..23 /\ op # 21
      BY Opcodes DEF Binary
<1>2. \A op \in PUSH : op \in 96..127
      BY Opcodes, WidthAssumption DEF PUSH
<1>3. \A op \in DUP : op \in 128..143
      BY Opcodes DEF DUP
<1>4. \A op \in SWAP : op \in 144..159
      BY Opcodes DEF SWAP
<1>5. \A op \in Pushes0 : op \in 48..52 \/ op \in {54, 56, 89, 90}
      BY Opcodes DEF Pushes0
<1>. QED BY <1>1, <1>2, <1>3, <1>4, <1>5

LEMMA StepHandles ==
    ASSUME Arithmetic \/ Unary \/ Environment \/ Sizes \/ op_gas \/ op_calldataload \/ Copy
           \/ op_pop \/ op_push \/ op_dup \/ op_swap
           \/ op_mload \/ op_sha3 \/ MemoryWrite \/ op_sload \/ op_sstore
           \/ op_jump \/ op_jumpdest
           \/ op_stop \/ Answer \/ Invalid
           \/ Unanswered \/ op_create \/ CallRunsNothing \/ CallFails \/ CallSucceeds
    PROVE  Handled
<1>. DEFINE Followed == {51, 57, 84, 85, 87, 243} \cup Binary \cup PUSH \cup DUP \cup SWAP
<1>1. Arithmetic => opcode \in Binary
      BY DEF Arithmetic, Executes
<1>2. op_push => opcode \in PUSH
      BY DEF op_push, Executes
<1>3. op_dup => opcode \in DUP
      BY DEF op_dup, Executes
<1>4. op_swap => opcode \in SWAP
      BY DEF op_swap, Executes
<1>5. Environment => opcode \in {48, 51, 52}
      BY Opcodes DEF Environment
<1>6. Copy => opcode \in {55, 57}
      BY Opcodes DEF Copy, Executes
<1>7. op_sload => opcode = 84
      BY Opcodes DEF op_sload, Executes
<1>8. op_sstore => opcode = 85
      BY Opcodes DEF op_sstore, Executes
<1>9. op_jump => opcode \in {86, 87}
      BY Opcodes DEF op_jump, Executes
<1>10. Answer => opcode \in {243, 253}
       BY Opcodes DEF Answer, Executes
<1>11. Unary \/ Sizes \/ op_gas \/ op_calldataload \/ op_pop \/ op_mload \/ op_sha3 \/ MemoryWrite
          => opcode \in {21, 25, 54, 56, 89, 90, 53, 80, 81, 32, 82, 83}
       BY Opcodes DEF Unary, Sizes, op_gas, op_calldataload, op_pop, op_mload, op_sha3,
                      MemoryWrite, Executes
<1>12. op_jumpdest \/ op_stop \/ Invalid \/ Unanswered \/ op_create
          \/ CallRunsNothing \/ CallFails \/ CallSucceeds
          => opcode \in {91, 0, 254, 240, 241}
       BY Opcodes DEF op_jumpdest, op_stop, Invalid, Unanswered, op_create, CallRunsNothing,
                      CallFails, CallSucceeds, Calls, Executes
<1>13. {21, 25, 54, 56, 89, 90, 53, 80, 81, 32, 82, 83} \cap Followed = {}
       BY Groups
<1>14. {91, 0, 254, 240, 241} \cap Followed = {}
       BY Groups
<1>. DEFINE Which ==
        \/ Arithmetic /\ opcode \in Binary
        \/ Environment /\ opcode \in {48, 51, 52}
        \/ Copy /\ opcode \in {55, 57}
        \/ op_push /\ opcode \in PUSH
        \/ op_dup /\ opcode \in DUP
        \/ op_swap /\ opcode \in SWAP
        \/ op_sload /\ opcode = 84
        \/ op_sstore /\ opcode = 85
        \/ op_jump /\ opcode \in {86, 87}
        \/ Answer /\ opcode \in {243, 253}
        \/ opcode \notin Followed
<1>15. Which
  <2>. HIDE DEF Followed
  <2>. QED BY <1>1, <1>2, <1>3, <1>4, <1>5, <1>6, <1>7, <1>8, <1>9, <1>10, <1>11, <1>12, <1>13,
              <1>14
<1>. DEFINE op == opcode
<1>16. /\ op \in Binary => op \notin {48, 51, 52, 55, 57, 84, 85, 86, 87, 243, 253} \cup PUSH \cup DUP \cup SWAP
       /\ op \in PUSH => op \notin {48, 51, 52, 55, 57, 84, 85, 86, 87, 243, 253} \cup Binary \cup DUP \cup SWAP
       /\ op \in DUP => op \notin {48, 51, 52, 55, 57, 84, 85, 86, 87, 243, 253} \cup Binary \cup PUSH \cup SWAP
       /\ op \in SWAP => op \notin {48, 51, 52, 55, 57, 84, 85, 86, 87, 243, 253} \cup Binary \cup PUSH \cup DUP
       BY Groups
<1>. HIDE DEF op
<1>17. /\ OP.CALLER = 51 /\ OP.CODECOPY = 57 /\ OP.SLOAD = 84 /\ OP.SSTORE = 85
       /\ OP.JUMPI = 87 /\ OP.RETURN = 243
       BY Opcodes
<1>. QED BY <1>15, <1>16, <1>17 DEF Handled, op

LEMMA Outcome == Step => Throws \/ (Handled /\ UNCHANGED made)
<1>. SUFFICES ASSUME Step PROVE Throws \/ (Handled /\ UNCHANGED made)
     OBVIOUS
<1>1. CASE InvalidOpcode \/ OutOfGas \/ StackUnderflow \/ StackOverflow
           \/ InvalidJumpDestination \/ MemoryError \/ OverflowError \/ CalleeRaises
      BY <1>1, StepThrows
<1>. DEFINE Rest ==
           Arithmetic \/ Unary \/ Environment \/ Sizes \/ op_gas \/ op_calldataload \/ Copy
           \/ op_pop \/ op_push \/ op_dup \/ op_swap
           \/ op_mload \/ op_sha3 \/ MemoryWrite \/ op_sload \/ op_sstore
           \/ op_jump \/ op_jumpdest
           \/ op_stop \/ Answer \/ Invalid
           \/ Unanswered \/ op_create \/ CallRunsNothing \/ CallFails \/ CallSucceeds
<1>2. CASE Rest
  <2>1. Handled
        BY <1>2, StepHandles
  <2>2. UNCHANGED made
        BY <1>2 DEF Executes, Calls, Arithmetic, Unary, Environment, Sizes, op_gas,
           op_calldataload, Copy, op_pop, op_push, op_dup, op_swap, op_mload, op_sha3,
           MemoryWrite, op_sload, op_sstore, op_jump, op_jumpdest, op_stop, Answer, Invalid,
           Unanswered, op_create, CallRunsNothing, CallFails, CallSucceeds
  <2>. QED BY <2>1, <2>2
<1>. QED BY <1>1, <1>2 DEF Step

(* Where a step goes, and what stores and stops.                             *)
Moved ==
    /\ \/ program_counter' = After(code)[program_counter]
       \/ opcode \in {OP.JUMP, OP.JUMPI} /\ program_counter' \in valid_jumpdests
       \/ opcode = OP.INVALID /\ program_counter' = program_counter
    /\ opcode # OP.SSTORE => UNCHANGED storage
    /\ stopped' => opcode \in Free

LEMMA NextInstruction ==
    ASSUME program_counter \in Nat
    PROVE  /\ After(code)[program_counter] = program_counter + 1 + push_size(opcode)
           /\ opcode \notin PUSH => After(code)[program_counter] = program_counter + 1
<1>1. After(code)[program_counter] = program_counter + 1 + push_size(opcode)
      BY AfterType DEF opcode
<1>2. opcode \notin PUSH => push_size(opcode) = 0
      BY DEF push_size
<1>. QED BY <1>1, <1>2

LEMMA StepMoves == IInv /\ Step => Throws \/ Moved
<1>. SUFFICES ASSUME IInv, Step PROVE Throws \/ Moved
     OBVIOUS
<1>1. CASE InvalidOpcode \/ OutOfGas \/ StackUnderflow \/ StackOverflow
           \/ InvalidJumpDestination \/ MemoryError \/ OverflowError \/ CalleeRaises
      BY <1>1, StepThrows
<1>. DEFINE goes == \/ program_counter' = After(code)[program_counter]
                    \/ opcode \in {OP.JUMP, OP.JUMPI} /\ program_counter' \in valid_jumpdests
                    \/ opcode = OP.INVALID /\ program_counter' = program_counter
<1>2. program_counter \in Nat
      BY DEF IInv, PositionInv
<1>3. opcode \notin PUSH /\ Next1 => goes
      BY <1>2, NextInstruction DEF Next1, Goto
<1>4. UNCHANGED ended /\ Running => ~stopped'
      BY DEF ended, Running
<1>. HIDE DEF goes
<1>5. CASE op_push
  <2>1. goes
        BY <1>2, <1>5, NextInstruction DEF op_push, Goto, goes
  <2>2. UNCHANGED storage /\ ~stopped'
        BY <1>4, <1>5 DEF op_push, Data, Executes
  <2>. QED BY <2>1, <2>2 DEF Moved, goes
<1>6. CASE op_sstore
  <2>1. opcode = OP.SSTORE /\ opcode \notin PUSH
        BY <1>6, OthersNoPush DEF op_sstore, Executes, Takes2
  <2>2. goes /\ ~stopped'
        BY <1>3, <1>4, <1>6, <2>1 DEF op_sstore, Executes
  <2>. QED BY <2>1, <2>2 DEF Moved, goes
<1>7. CASE op_jump
  <2>1. opcode \in {OP.JUMP, OP.JUMPI} /\ opcode \notin PUSH
        BY <1>7, OthersNoPush DEF op_jump, Executes, Takes1, Takes2
  <2>2. goes
    <3>1. CASE Next1
          BY <1>3, <2>1, <3>1
    <3>2. CASE Operand(1) \in valid_jumpdests /\ Goto(Operand(1))
          BY <2>1, <3>2 DEF Goto, goes
    <3>. QED BY <1>7, <3>1, <3>2 DEF op_jump
  <2>3. UNCHANGED storage /\ ~stopped'
        BY <1>4, <1>7 DEF op_jump, Data, Executes
  <2>. QED BY <2>2, <2>3 DEF Moved, goes
<1>8. CASE Invalid
  <2>1. opcode = OP.INVALID
        BY <1>8 DEF Invalid, Executes
  <2>2. UNCHANGED <<program_counter, storage>>
        BY <1>8 DEF Invalid, Data
  <2>. QED BY <2>1, <2>2 DEF Moved, Free
<1>9. CASE op_stop \/ Answer
  <2>1. opcode \in {OP.STOP, OP.RETURN, OP.REVERT} /\ opcode \notin PUSH
        BY <1>9, OthersNoPush DEF op_stop, Answer, Executes, Takes2
  <2>2. goes /\ UNCHANGED storage
        BY <1>3, <1>9, <2>1 DEF op_stop, Answer, Data
  <2>. QED BY <2>1, <2>2 DEF Moved, goes, Free
<1>10. CASE Arithmetic \/ Unary \/ Environment \/ Sizes \/ op_gas \/ op_calldataload \/ Copy
            \/ op_pop \/ op_dup \/ op_swap
  <2>1. opcode \in Binary \cup Takes1 \cup Pushes0 \cup Takes3 \cup DUP \cup SWAP
        BY <1>10 DEF Arithmetic, Unary, Environment, Sizes, op_gas, op_calldataload, Copy,
           op_pop, op_dup, op_swap, Executes, Takes1, Pushes0, Takes3
  <2>2. opcode \notin PUSH
        BY <2>1, OthersNoPush DEF Takes2
  <2>3. goes
        BY <1>3, <1>10, <2>2 DEF Arithmetic, Unary, Environment, Sizes, op_gas,
           op_calldataload, Copy, op_pop, op_dup, op_swap
  <2>4. UNCHANGED storage /\ ~stopped'
        BY <1>4, <1>10 DEF Arithmetic, Unary, Environment, Sizes, op_gas, op_calldataload,
           Copy, op_pop, op_dup, op_swap, Data, Executes
  <2>. QED BY <2>3, <2>4 DEF Moved, goes
<1>11. CASE op_mload \/ op_sha3 \/ MemoryWrite \/ op_sload \/ op_jumpdest
            \/ Unanswered \/ op_create \/ CallRunsNothing \/ CallFails \/ CallSucceeds
  <2>1. opcode \in Takes1 \cup Takes2 \cup Takes3 \cup {OP.JUMPDEST, OP.CALL}
        BY <1>11 DEF op_mload, op_sha3, MemoryWrite, op_sload, op_jumpdest, Unanswered,
           op_create, CallRunsNothing, CallFails, CallSucceeds, Calls, Executes,
           Takes1, Takes2, Takes3
  <2>2. opcode \notin PUSH
        BY <2>1, OthersNoPush
  <2>3. goes
        BY <1>3, <1>11, <2>2 DEF op_mload, op_sha3, MemoryWrite, op_sload, op_jumpdest,
           Unanswered, op_create, CallRunsNothing, CallFails, CallSucceeds
  <2>4. UNCHANGED storage /\ ~stopped'
        BY <1>4, <1>11 DEF op_mload, op_sha3, MemoryWrite, op_sload, op_jumpdest, Unanswered,
           op_create, CallRunsNothing, CallFails, CallSucceeds, Calls, Data, Executes
  <2>. QED BY <2>3, <2>4 DEF Moved, goes
<1>. QED BY <1>1, <1>5, <1>6, <1>7, <1>8, <1>9, <1>10, <1>11 DEF Step

(* The stack after a push, in place of n words or none, and after a pop.     *)
LEMMA StackPushed ==
    ASSUME IInv, NEW n \in Nat, n <= Len(execution_stack), NEW v, Replace(n, <<v>>)
    PROVE  LET s == execution_stack
               t == execution_stack'
           IN  /\ Len(t) = Len(s) - n + 1 /\ FromTop(t, 1) = v
               /\ \A j \in 2..(Len(s) - n + 1) : FromTop(t, j) = FromTop(s, j - 1 + n)
<1>. DEFINE C == Cell
            s == execution_stack
            t == execution_stack'
            kept == SubSeq(s, 1, Len(s) - n)
            D == C \cup {v}
<1>1. s \in Seq(C) /\ Len(s) \in Nat /\ Len(s) - n \in Nat
      BY DEF IInv, StackInv
<1>. HIDE DEF C, s
<1>2. kept \in Seq(D) /\ Len(kept) = Len(s) - n /\ \A i \in 1..(Len(s) - n) : kept[i] = s[i]
  <2>1. \A i \in 1..(Len(s) - n) : s[i] \in D
        BY <1>1, ElementOfSeq
  <2>2. kept = [i \in 1..(Len(s) - n) |-> s[i]]
        BY <1>1
  <2>. HIDE DEF D
  <2>. QED BY <1>1, <2>1, <2>2
<1>3. t = kept \o <<v>>
      BY DEF Replace, Depth, s
<1>. HIDE DEF kept, t
<1>4. <<v>> \in Seq(D) /\ Len(<<v>>) = 1 /\ <<v>>[1] = v
      OBVIOUS
<1>5. /\ Len(t) = Len(s) - n + 1
      /\ t[Len(s) - n + 1] = v
      /\ \A i \in 1..(Len(s) - n) : t[i] = s[i]
      BY <1>1, <1>2, <1>3, <1>4
<1>6. FromTop(t, 1) = v
      BY <1>1, <1>5 DEF FromTop
<1>7. ASSUME NEW j \in 2..(Len(s) - n + 1)
      PROVE  FromTop(t, j) = FromTop(s, j - 1 + n)
  <2>1. Len(s) - n - j + 2 \in 1..(Len(s) - n)
        BY <1>1
  <2>2. t[Len(s) - n - j + 2] = s[Len(s) - n - j + 2]
        BY <1>5, <2>1
  <2>3. Len(t) - j + 1 = Len(s) - n - j + 2 /\ Len(s) - (j - 1 + n) + 1 = Len(s) - n - j + 2
        BY <1>1, <1>5
  <2>. QED BY <2>2, <2>3 DEF FromTop
<1>. QED BY <1>5, <1>6, <1>7 DEF s, t

LEMMA StackPopped ==
    ASSUME IInv, NEW n \in Nat, n <= Len(execution_stack), Replace(n, <<>>)
    PROVE  LET s == execution_stack
               t == execution_stack'
           IN  /\ Len(t) = Len(s) - n
               /\ \A j \in 1..(Len(s) - n) : FromTop(t, j) = FromTop(s, j + n)
<1>. DEFINE C == Cell
            s == execution_stack
            t == execution_stack'
<1>1. s \in Seq(C)
      BY DEF IInv, StackInv
<1>2. t = SubSeq(s, 1, Len(s) - n) \o <<>> /\ n <= Len(s)
      BY DEF Replace, Depth
<1>. HIDE DEF C, s, t
<1>3. /\ Len(t) = Len(s) - n
      /\ \A j \in 1..(Len(s) - n) : FromTop(t, j) = FromTop(s, j + n)
      BY <1>1, <1>2, DroppedTop
<1>. QED BY <1>3 DEF s, t

LEMMA StackWords ==
    ASSUME IInv, context.value = 0
    PROVE  /\ Len(execution_stack) \in Nat
           /\ \A i \in 1..Len(execution_stack) : /\ FromTop(execution_stack, i) \in Word
                                                 /\ FromTop(execution_stack, i) = Operand(i)
           /\ \A k \in DOMAIN storage : k \in Word /\ storage[k] \in Word
<1>. DEFINE s == execution_stack
<1>1. Cell = Word
      BY WordValues DEF Cell
<1>2. s \in Seq(Word) /\ Len(s) \in Nat
      BY <1>1 DEF IInv, StackInv
<1>3. ASSUME NEW i \in 1..Len(s)
      PROVE  FromTop(s, i) \in Word /\ FromTop(s, i) = Operand(i)
  <2>1. Len(s) - i + 1 \in 1..Len(s)
        BY <1>2
  <2>2. s[Len(s) - i + 1] \in Word
        BY <1>2, <2>1, ElementOfSeq
  <2>. QED BY <2>2 DEF FromTop, Operand, Depth
<1>4. \A k \in DOMAIN storage : k \in Word /\ storage[k] \in Word
      BY <1>1 DEF IInv, StorageInv
<1>. QED BY <1>2, <1>3, <1>4

-----------------------------------------------------------------------------
(* What the bytecode has where *)

LEMMA Widths == WordBytes \in Int /\ SelectorBytes \in Int /\ WordBytes >= 1 /\ SelectorBytes >= 1
BY WidthAssumption, SelectorAssumption

LEMMA OpcodeType == \A name \in DOMAIN OP : OP[name] \in Byte
BY DEF OP, Byte

(* A piece of code, of so many bytes, and what is put behind it.             *)
IsCode(s, n) == s \in Seq(Byte) /\ Len(s) = n /\ n \in Nat

LEMMA Joined ==
    ASSUME NEW m, NEW n, NEW s, NEW t, IsCode(s, m), IsCode(t, n)
    PROVE  /\ IsCode(s \o t, m + n)
           /\ \A c \in Seq(Byte), k \in Nat :
                 Within(c, k, s \o t) => Within(c, k, s) /\ Within(c, k + m, t)
<1>1. s \in Seq(Byte) /\ t \in Seq(Byte) /\ Len(s) = m /\ Len(t) = n /\ m \in Nat /\ n \in Nat
      BY DEF IsCode
<1>2. s \o t \in Seq(Byte) /\ Len(s \o t) = Len(s) + Len(t)
      BY <1>1, ConcatProperties
<1>3. IsCode(s \o t, m + n)
      BY <1>1, <1>2 DEF IsCode
<1>. QED BY <1>1, <1>3, SplitWithin

LEMMA PushType == \A byte \in Byte : IsCode(PUSH1(byte), 2)
<1>1. OP.PUSH1 \in Byte
      BY Opcodes DEF Byte
<1>. QED BY <1>1 DEF PUSH1, IsCode

LEMMA DupType == \A n \in 1..16 : DUPn(n) = 127 + n /\ DUPn(n) \in Byte
<1>1. OP.DUP1 = 128
      BY Opcodes
<1>. QED BY <1>1 DEF DUPn, Byte

LEMMA PushedBytes ==
    ASSUME NEW bytes \in Seq(Byte), Len(bytes) \in 1..WordBytes
    PROVE  /\ PUSHn(bytes) \in Seq(Byte) /\ Len(PUSHn(bytes)) = Len(bytes) + 1
           /\ PUSHn(bytes)[1] = 95 + Len(bytes)
<1>1. OP.PUSH1 = 96 /\ WordBytes \in 1..32
      BY Opcodes, WidthAssumption
<1>. DEFINE op == OP.PUSH1 + Len(bytes) - 1
            length == Len(bytes)
<1>2. op = 95 + Len(bytes) /\ op \in Byte
  <2>1. length \in 1..32
    <3>1. WordBytes \in Int /\ WordBytes <= 32 /\ length \in 1..WordBytes
          BY <1>1
    <3>. HIDE DEF length
    <3>. QED BY <3>1
  <2>2. op = 96 + length - 1
        BY <1>1
  <2>. HIDE DEF length, op
  <2>3. op = 95 + length /\ op \in 0..255
        BY <2>1, <2>2
  <2>. QED BY <2>3 DEF Byte, length
<1>. HIDE DEF op
<1>3. <<op>> \in Seq(Byte) /\ Len(<<op>>) = 1 /\ <<op>>[1] = op
      BY <1>2
<1>4. /\ <<op>> \o bytes \in Seq(Byte) /\ Len(<<op>> \o bytes) = 1 + Len(bytes)
      /\ (<<op>> \o bytes)[1] = op
      BY <1>3
<1>5. PUSHn(bytes) = <<op>> \o bytes
      BY DEF PUSHn, op
<1>. QED BY <1>2, <1>4, <1>5

(* How far a push of so many bytes goes.                                     *)
LEMMA PushSize ==
    /\ \A n \in 1..WordBytes : push_size(95 + n) = n
    /\ \A op \in Byte : op \notin 96..127 => push_size(op) = 0
<1>1. OP.PUSH1 = 96 /\ WordBytes \in 1..32
      BY Opcodes, WidthAssumption
<1>2. \A n \in 1..WordBytes : 95 + n \in PUSH
      BY <1>1 DEF PUSH
<1>3. \A op \in Byte : op \notin 96..127 => op \notin PUSH
      BY <1>1 DEF PUSH
<1>. QED BY <1>1, <1>2, <1>3 DEF push_size

LEMMA PushedWithin ==
    ASSUME NEW bytes \in Seq(Byte), Len(bytes) \in 1..WordBytes,
           NEW c \in Seq(Byte), NEW k \in Nat, Within(c, k, PUSHn(bytes))
    PROVE  c[k + 1] = 95 + Len(bytes)
<1>1. 1 \in 1..Len(PUSHn(bytes)) /\ PUSHn(bytes)[1] = 95 + Len(bytes)
      BY PushedBytes
<1>. QED BY <1>1 DEF Within

LEMMA BytesPushed ==
    ASSUME NEW bytes \in Seq(Byte), Len(bytes) \in 1..WordBytes
    PROVE  /\ IsCode(PUSHn(bytes), Len(bytes) + 1)
           /\ \A c \in Seq(Byte), k \in Nat :
                 Within(c, k, PUSHn(bytes)) => c[k + 1] = 95 + Len(bytes)
<1>1. PUSHn(bytes) \in Seq(Byte) /\ Len(PUSHn(bytes)) = Len(bytes) + 1 /\ Len(bytes) + 1 \in Nat
      BY PushedBytes
<1>. QED BY <1>1, PushedWithin DEF IsCode

LEMMA NameBytes ==
    ASSUME NEW name \in DOMAIN Selector
    PROVE  /\ IsCode(PUSHn(Selector[name]), SelectorBytes + 1)
           /\ \A c \in Seq(Byte), k \in Nat :
                 Within(c, k, PUSHn(Selector[name])) => c[k + 1] = 95 + SelectorBytes
<1>. DEFINE bytes == Selector[name]
<1>1. bytes \in Seq(Byte) /\ Len(bytes) = SelectorBytes /\ Len(bytes) \in 1..WordBytes
      BY SelectorAssumption
<1>. HIDE DEF bytes
<1>2. /\ IsCode(PUSHn(bytes), SelectorBytes + 1)
      /\ \A c \in Seq(Byte), k \in Nat : Within(c, k, PUSHn(bytes)) => c[k + 1] = 95 + SelectorBytes
      BY <1>1, BytesPushed
<1>. QED BY <1>2 DEF bytes

LEMMA DivisorBytes ==
    /\ IsCode(PUSHn(Divisor), WordBytes + 1)
    /\ \A c \in Seq(Byte), k \in Nat : Within(c, k, PUSHn(Divisor)) => c[k + 1] = 95 + WordBytes
<1>. DEFINE bytes == Divisor
<1>1. bytes \in Seq(Byte) /\ Len(bytes) = WordBytes /\ Len(bytes) \in 1..WordBytes
      BY WidthAssumption DEF Divisor, Byte
<1>. HIDE DEF bytes
<1>2. /\ IsCode(PUSHn(bytes), WordBytes + 1)
      /\ \A c \in Seq(Byte), k \in Nat : Within(c, k, PUSHn(bytes)) => c[k + 1] = 95 + WordBytes
      BY <1>1, BytesPushed
<1>. QED BY <1>2 DEF bytes

(* Bytes that are small enough for a PUSH1.                                  *)
LEMMA SmallBytes ==
    /\ 0 \in Byte /\ 1 \in Byte /\ 12 \in Byte
    /\ WordBytes \in Byte /\ SelectorBytes \in Byte /\ SelectorBytes + WordBytes \in Byte
    /\ Handlers \in Byte /\ Handlers + 29 \in Byte /\ Handlers + 35 \in Byte /\ Handlers + 12 \in Byte
    /\ Handlers = WordBytes + 2 * SelectorBytes + 23
<1>1. /\ WordBytes \in Int /\ WordBytes <= 32 /\ WordBytes >= 1
      /\ SelectorBytes \in Int /\ SelectorBytes >= 1 /\ SelectorBytes <= WordBytes
      BY WidthAssumption, SelectorAssumption
<1>. QED BY <1>1 DEF Byte, Handlers

(* A comparison of the dispatcher.                                           *)
LEMMA CompareCode ==
    ASSUME NEW name \in DOMAIN Selector, NEW destination \in Byte
    PROVE  /\ IsCode(Compare(name, destination), SelectorBytes + 6)
           /\ \A c \in Seq(Byte), k \in Nat : Within(c, k, Compare(name, destination)) =>
                 /\ c[k + 1] = DUPn(1) /\ c[k + 2] = 95 + SelectorBytes
                 /\ c[k + SelectorBytes + 3] = OP.EQ
                 /\ c[k + SelectorBytes + 4] = OP.PUSH1
                 /\ c[k + SelectorBytes + 6] = OP.JUMPI
                 /\ Within(c, k + 1, PUSHn(Selector[name]))
                 /\ Within(c, k + SelectorBytes + 3, PUSH1(destination))
<1>. DEFINE q1 == <<DUPn(1)>>
            q2 == PUSHn(Selector[name])
            q3 == <<OP.EQ>>
            q4 == PUSH1(destination)
            q5 == <<OP.JUMPI>>
            p1 == q1
            p2 == p1 \o q2
            p3 == p2 \o q3
            p4 == p3 \o q4
            p5 == p4 \o q5
            W == WordBytes
            S == SelectorBytes
<1>1. W \in Int /\ S \in Int /\ W >= 1 /\ S >= 1
      BY Widths
<1>2. IsCode(q1, 1)
      BY Opcodes, DupType DEF Byte, IsCode
<1>3. IsCode(q2, S + 1)
      BY NameBytes
<1>4. IsCode(q3, 1)
      BY Opcodes DEF Byte, IsCode
<1>5. IsCode(q4, 2)
      BY PushType
<1>6. IsCode(q5, 1)
      BY Opcodes DEF Byte, IsCode
<1>7. Compare(name, destination) = p5
      BY DEF Compare
<1>8. ASSUME NEW c \in Seq(Byte), NEW k \in Nat, Within(c, k, q1)
      PROVE  c[k + 1] = DUPn(1)
      BY <1>8 DEF Within
<1>9. ASSUME NEW c \in Seq(Byte), NEW k \in Nat, Within(c, k, q2)
      PROVE  c[k + 1] = 95 + S
      BY <1>9, NameBytes
<1>10. ASSUME NEW c \in Seq(Byte), NEW k \in Nat, Within(c, k, q3)
       PROVE  c[k + 1] = OP.EQ
       BY <1>10 DEF Within
<1>11. ASSUME NEW c \in Seq(Byte), NEW k \in Nat, Within(c, k, q4)
       PROVE  c[k + 1] = OP.PUSH1
       BY <1>11 DEF PUSH1, Within
<1>12. ASSUME NEW c \in Seq(Byte), NEW k \in Nat, Within(c, k, q5)
       PROVE  c[k + 1] = OP.JUMPI
       BY <1>12 DEF Within
<1>. HIDE DEF W, S, q1, q2, q3, q4, q5
<1>. HIDE DEF p1, p2, p3, p4, p5
<1>13. /\ IsCode(p2, S + 2)
       /\ \A c \in Seq(Byte), k \in Nat : Within(c, k, p2) =>
             Within(c, k, p1) /\ Within(c, k + 1, q2)
  <2>1. IsCode(p1, 1) /\ IsCode(q2, S + 1)
        BY <1>2, <1>3 DEF p1
  <2>2. /\ IsCode(p2, 1 + (S + 1))
        /\ \A c \in Seq(Byte), k \in Nat : Within(c, k, p2) =>
              Within(c, k, p1) /\ Within(c, k + 1, q2)
        BY <2>1, Joined DEF p2
  <2>. QED BY <1>1, <2>2
<1>14. /\ IsCode(p3, S + 3)
       /\ \A c \in Seq(Byte), k \in Nat : Within(c, k, p3) =>
             Within(c, k, p2) /\ Within(c, k + S + 2, q3)
  <2>1. IsCode(p2, S + 2) /\ IsCode(q3, 1)
        BY <1>13, <1>4
  <2>2. /\ IsCode(p3, (S + 2) + 1)
        /\ \A c \in Seq(Byte), k \in Nat : Within(c, k, p3) =>
              Within(c, k, p2) /\ Within(c, k + (S + 2), q3)
        BY <2>1, Joined DEF p3
  <2>. QED BY <1>1, <2>2
<1>15. /\ IsCode(p4, S + 5)
       /\ \A c \in Seq(Byte), k \in Nat : Within(c, k, p4) =>
             Within(c, k, p3) /\ Within(c, k + S + 3, q4)
  <2>1. IsCode(p3, S + 3) /\ IsCode(q4, 2)
        BY <1>14, <1>5
  <2>2. /\ IsCode(p4, (S + 3) + 2)
        /\ \A c \in Seq(Byte), k \in Nat : Within(c, k, p4) =>
              Within(c, k, p3) /\ Within(c, k + (S + 3), q4)
        BY <2>1, Joined DEF p4
  <2>. QED BY <1>1, <2>2
<1>16. /\ IsCode(p5, S + 6)
       /\ \A c \in Seq(Byte), k \in Nat : Within(c, k, p5) =>
             Within(c, k, p4) /\ Within(c, k + S + 5, q5)
  <2>1. IsCode(p4, S + 5) /\ IsCode(q5, 1)
        BY <1>15, <1>6
  <2>2. /\ IsCode(p5, (S + 5) + 1)
        /\ \A c \in Seq(Byte), k \in Nat : Within(c, k, p5) =>
              Within(c, k, p4) /\ Within(c, k + (S + 5), q5)
        BY <2>1, Joined DEF p5
  <2>. QED BY <1>1, <2>2
<1>17. ASSUME NEW c \in Seq(Byte), NEW k \in Nat, Within(c, k, p5)
       PROVE  /\ Within(c, k, q1)
              /\ Within(c, k + 1, q2)
              /\ Within(c, k + S + 2, q3)
              /\ Within(c, k + S + 3, q4)
              /\ Within(c, k + S + 5, q5)
       BY <1>17, <1>13, <1>14, <1>15, <1>16 DEF p1
<1>18. ASSUME NEW c \in Seq(Byte), NEW k \in Nat, Within(c, k, p5)
       PROVE  /\ c[k + 1] = DUPn(1) /\ c[k + 2] = 95 + S /\ c[k + S + 3] = OP.EQ
              /\ c[k + S + 4] = OP.PUSH1 /\ c[k + S + 6] = OP.JUMPI
              /\ Within(c, k + 1, q2) /\ Within(c, k + S + 3, q4)
  <2>1. c[k + 2] = 95 + S
    <3>1. k + 1 \in Nat
          BY <1>1
    <3>2. c[(k + 1) + 1] = 95 + S
          BY <1>17, <1>18, <1>9, <3>1
    <3>. QED BY <1>1, <3>2
  <2>2. c[k + S + 3] = OP.EQ
    <3>1. k + S + 2 \in Nat
          BY <1>1
    <3>2. c[(k + S + 2) + 1] = OP.EQ
          BY <1>17, <1>18, <1>10, <3>1
    <3>. QED BY <1>1, <3>2
  <2>3. c[k + S + 4] = OP.PUSH1
    <3>1. k + S + 3 \in Nat
          BY <1>1
    <3>2. c[(k + S + 3) + 1] = OP.PUSH1
          BY <1>17, <1>18, <1>11, <3>1
    <3>. QED BY <1>1, <3>2
  <2>4. c[k + S + 6] = OP.JUMPI
    <3>1. k + S + 5 \in Nat
          BY <1>1
    <3>2. c[(k + S + 5) + 1] = OP.JUMPI
          BY <1>17, <1>18, <1>12, <3>1
    <3>. QED BY <1>1, <3>2
  <2>. QED BY <1>17, <1>18, <1>8, <2>1, <2>2, <2>3, <2>4
<1>. QED BY <1>7, <1>16, <1>18 DEF W, S, q2, q4

(* How a contract refuses, and how it answers.                               *)
LEMMA RevertCode ==
    /\ IsCode(REVERT0, 5)
    /\ \A c \in Seq(Byte), k \in Nat : Within(c, k, REVERT0) =>
          /\ c[k + 1] = OP.PUSH1 /\ c[k + 3] = OP.PUSH1 /\ c[k + 5] = OP.REVERT
          /\ Within(c, k, PUSH1(0)) /\ Within(c, k + 2, PUSH1(0))
<1>. DEFINE q1 == PUSH1(0)
            q2 == PUSH1(0)
            q3 == <<OP.REVERT>>
            p1 == q1
            p2 == p1 \o q2
            p3 == p2 \o q3
            W == WordBytes
            S == SelectorBytes
<1>1. W \in Int /\ S \in Int /\ W >= 1 /\ S >= 1
      BY Widths
<1>2. IsCode(q1, 2)
      BY PushType, SmallBytes
<1>3. IsCode(q2, 2)
      BY PushType, SmallBytes
<1>4. IsCode(q3, 1)
      BY Opcodes DEF Byte, IsCode
<1>5. REVERT0 = p3
      BY DEF REVERT0
<1>6. ASSUME NEW c \in Seq(Byte), NEW k \in Nat, Within(c, k, q1)
      PROVE  c[k + 1] = OP.PUSH1
      BY <1>6 DEF PUSH1, Within
<1>7. ASSUME NEW c \in Seq(Byte), NEW k \in Nat, Within(c, k, q2)
      PROVE  c[k + 1] = OP.PUSH1
      BY <1>7 DEF PUSH1, Within
<1>8. ASSUME NEW c \in Seq(Byte), NEW k \in Nat, Within(c, k, q3)
      PROVE  c[k + 1] = OP.REVERT
      BY <1>8 DEF Within
<1>. HIDE DEF W, S, q1, q2, q3
<1>. HIDE DEF p1, p2, p3
<1>9. /\ IsCode(p2, 4)
      /\ \A c \in Seq(Byte), k \in Nat : Within(c, k, p2) =>
            Within(c, k, p1) /\ Within(c, k + 2, q2)
  <2>1. IsCode(p1, 2) /\ IsCode(q2, 2)
        BY <1>2, <1>3 DEF p1
  <2>2. /\ IsCode(p2, 2 + 2)
        /\ \A c \in Seq(Byte), k \in Nat : Within(c, k, p2) =>
              Within(c, k, p1) /\ Within(c, k + 2, q2)
        BY <2>1, Joined DEF p2
  <2>. QED BY <1>1, <2>2
<1>10. /\ IsCode(p3, 5)
       /\ \A c \in Seq(Byte), k \in Nat : Within(c, k, p3) =>
             Within(c, k, p2) /\ Within(c, k + 4, q3)
  <2>1. IsCode(p2, 4) /\ IsCode(q3, 1)
        BY <1>9, <1>4
  <2>2. /\ IsCode(p3, 4 + 1)
        /\ \A c \in Seq(Byte), k \in Nat : Within(c, k, p3) =>
              Within(c, k, p2) /\ Within(c, k + 4, q3)
        BY <2>1, Joined DEF p3
  <2>. QED BY <1>1, <2>2
<1>11. ASSUME NEW c \in Seq(Byte), NEW k \in Nat, Within(c, k, p3)
       PROVE  /\ Within(c, k, q1)
              /\ Within(c, k + 2, q2)
              /\ Within(c, k + 4, q3)
       BY <1>11, <1>9, <1>10 DEF p1
<1>12. ASSUME NEW c \in Seq(Byte), NEW k \in Nat, Within(c, k, p3)
       PROVE  /\ c[k + 1] = OP.PUSH1 /\ c[k + 3] = OP.PUSH1 /\ c[k + 5] = OP.REVERT
              /\ Within(c, k, q1) /\ Within(c, k + 2, q2)
  <2>1. c[k + 3] = OP.PUSH1
    <3>1. k + 2 \in Nat
          BY <1>1
    <3>2. c[(k + 2) + 1] = OP.PUSH1
          BY <1>11, <1>12, <1>7, <3>1
    <3>. QED BY <1>1, <3>2
  <2>2. c[k + 5] = OP.REVERT
    <3>1. k + 4 \in Nat
          BY <1>1
    <3>2. c[(k + 4) + 1] = OP.REVERT
          BY <1>11, <1>12, <1>8, <3>1
    <3>. QED BY <1>1, <3>2
  <2>. QED BY <1>11, <1>12, <1>6, <2>1, <2>2
<1>. QED BY <1>5, <1>10, <1>12 DEF W, S, q1, q2

LEMMA ReturnCode ==
    /\ IsCode(RETURN1, 8)
    /\ \A c \in Seq(Byte), k \in Nat : Within(c, k, RETURN1) =>
          /\ c[k + 1] = OP.PUSH1 /\ c[k + 3] = OP.MSTORE /\ c[k + 4] = OP.PUSH1
          /\ c[k + 6] = OP.PUSH1 /\ c[k + 8] = OP.RETURN
          /\ Within(c, k, PUSH1(0)) /\ Within(c, k + 3, PUSH1(WordBytes))
          /\ Within(c, k + 5, PUSH1(0))
<1>. DEFINE q1 == PUSH1(0)
            q2 == <<OP.MSTORE>>
            q3 == PUSH1(WordBytes)
            q4 == PUSH1(0)
            q5 == <<OP.RETURN>>
            p1 == q1
            p2 == p1 \o q2
            p3 == p2 \o q3
            p4 == p3 \o q4
            p5 == p4 \o q5
            W == WordBytes
            S == SelectorBytes
<1>1. W \in Int /\ S \in Int /\ W >= 1 /\ S >= 1
      BY Widths
<1>2. IsCode(q1, 2)
      BY PushType, SmallBytes
<1>3. IsCode(q2, 1)
      BY Opcodes DEF Byte, IsCode
<1>4. IsCode(q3, 2)
      BY PushType, SmallBytes
<1>5. IsCode(q4, 2)
      BY PushType, SmallBytes
<1>6. IsCode(q5, 1)
      BY Opcodes DEF Byte, IsCode
<1>7. RETURN1 = p5
      BY DEF RETURN1
<1>8. ASSUME NEW c \in Seq(Byte), NEW k \in Nat, Within(c, k, q1)
      PROVE  c[k + 1] = OP.PUSH1
      BY <1>8 DEF PUSH1, Within
<1>9. ASSUME NEW c \in Seq(Byte), NEW k \in Nat, Within(c, k, q2)
      PROVE  c[k + 1] = OP.MSTORE
      BY <1>9 DEF Within
<1>10. ASSUME NEW c \in Seq(Byte), NEW k \in Nat, Within(c, k, q3)
       PROVE  c[k + 1] = OP.PUSH1
       BY <1>10 DEF PUSH1, Within
<1>11. ASSUME NEW c \in Seq(Byte), NEW k \in Nat, Within(c, k, q4)
       PROVE  c[k + 1] = OP.PUSH1
       BY <1>11 DEF PUSH1, Within
<1>12. ASSUME NEW c \in Seq(Byte), NEW k \in Nat, Within(c, k, q5)
       PROVE  c[k + 1] = OP.RETURN
       BY <1>12 DEF Within
<1>. HIDE DEF W, S, q1, q2, q3, q4, q5
<1>. HIDE DEF p1, p2, p3, p4, p5
<1>13. /\ IsCode(p2, 3)
       /\ \A c \in Seq(Byte), k \in Nat : Within(c, k, p2) =>
             Within(c, k, p1) /\ Within(c, k + 2, q2)
  <2>1. IsCode(p1, 2) /\ IsCode(q2, 1)
        BY <1>2, <1>3 DEF p1
  <2>2. /\ IsCode(p2, 2 + 1)
        /\ \A c \in Seq(Byte), k \in Nat : Within(c, k, p2) =>
              Within(c, k, p1) /\ Within(c, k + 2, q2)
        BY <2>1, Joined DEF p2
  <2>. QED BY <1>1, <2>2
<1>14. /\ IsCode(p3, 5)
       /\ \A c \in Seq(Byte), k \in Nat : Within(c, k, p3) =>
             Within(c, k, p2) /\ Within(c, k + 3, q3)
  <2>1. IsCode(p2, 3) /\ IsCode(q3, 2)
        BY <1>13, <1>4
  <2>2. /\ IsCode(p3, 3 + 2)
        /\ \A c \in Seq(Byte), k \in Nat : Within(c, k, p3) =>
              Within(c, k, p2) /\ Within(c, k + 3, q3)
        BY <2>1, Joined DEF p3
  <2>. QED BY <1>1, <2>2
<1>15. /\ IsCode(p4, 7)
       /\ \A c \in Seq(Byte), k \in Nat : Within(c, k, p4) =>
             Within(c, k, p3) /\ Within(c, k + 5, q4)
  <2>1. IsCode(p3, 5) /\ IsCode(q4, 2)
        BY <1>14, <1>5
  <2>2. /\ IsCode(p4, 5 + 2)
        /\ \A c \in Seq(Byte), k \in Nat : Within(c, k, p4) =>
              Within(c, k, p3) /\ Within(c, k + 5, q4)
        BY <2>1, Joined DEF p4
  <2>. QED BY <1>1, <2>2
<1>16. /\ IsCode(p5, 8)
       /\ \A c \in Seq(Byte), k \in Nat : Within(c, k, p5) =>
             Within(c, k, p4) /\ Within(c, k + 7, q5)
  <2>1. IsCode(p4, 7) /\ IsCode(q5, 1)
        BY <1>15, <1>6
  <2>2. /\ IsCode(p5, 7 + 1)
        /\ \A c \in Seq(Byte), k \in Nat : Within(c, k, p5) =>
              Within(c, k, p4) /\ Within(c, k + 7, q5)
        BY <2>1, Joined DEF p5
  <2>. QED BY <1>1, <2>2
<1>17. ASSUME NEW c \in Seq(Byte), NEW k \in Nat, Within(c, k, p5)
       PROVE  /\ Within(c, k, q1)
              /\ Within(c, k + 2, q2)
              /\ Within(c, k + 3, q3)
              /\ Within(c, k + 5, q4)
              /\ Within(c, k + 7, q5)
       BY <1>17, <1>13, <1>14, <1>15, <1>16 DEF p1
<1>18. ASSUME NEW c \in Seq(Byte), NEW k \in Nat, Within(c, k, p5)
       PROVE  /\ c[k + 1] = OP.PUSH1 /\ c[k + 3] = OP.MSTORE /\ c[k + 4] = OP.PUSH1
              /\ c[k + 6] = OP.PUSH1 /\ c[k + 8] = OP.RETURN
              /\ Within(c, k, q1) /\ Within(c, k + 3, q3) /\ Within(c, k + 5, q4)
  <2>1. c[k + 3] = OP.MSTORE
    <3>1. k + 2 \in Nat
          BY <1>1
    <3>2. c[(k + 2) + 1] = OP.MSTORE
          BY <1>17, <1>18, <1>9, <3>1
    <3>. QED BY <1>1, <3>2
  <2>2. c[k + 4] = OP.PUSH1
    <3>1. k + 3 \in Nat
          BY <1>1
    <3>2. c[(k + 3) + 1] = OP.PUSH1
          BY <1>17, <1>18, <1>10, <3>1
    <3>. QED BY <1>1, <3>2
  <2>3. c[k + 6] = OP.PUSH1
    <3>1. k + 5 \in Nat
          BY <1>1
    <3>2. c[(k + 5) + 1] = OP.PUSH1
          BY <1>17, <1>18, <1>11, <3>1
    <3>. QED BY <1>1, <3>2
  <2>4. c[k + 8] = OP.RETURN
    <3>1. k + 7 \in Nat
          BY <1>1
    <3>2. c[(k + 7) + 1] = OP.RETURN
          BY <1>17, <1>18, <1>12, <3>1
    <3>. QED BY <1>1, <3>2
  <2>. QED BY <1>17, <1>18, <1>8, <2>1, <2>2, <2>3, <2>4
<1>. QED BY <1>7, <1>16, <1>18 DEF W, S, q1, q3, q4

(* The dispatcher.                                                           *)
LEMMA DispatcherCode ==
    ASSUME NEW n1 \in DOMAIN Selector, NEW d1 \in Byte,
           NEW n2 \in DOMAIN Selector, NEW d2 \in Byte
    PROVE  /\ IsCode(Dispatcher(n1, d1, n2, d2), WordBytes + 2 * SelectorBytes + 23)
           /\ \A c \in Seq(Byte), k \in Nat : Within(c, k, Dispatcher(n1, d1, n2, d2)) =>
                 /\ c[k + 1] = 95 + WordBytes /\ c[k + WordBytes + 2] = OP.PUSH1
                 /\ c[k + WordBytes + 4] = OP.CALLDATALOAD
                 /\ c[k + WordBytes + 5] = OP.DIV /\ c[k + WordBytes + 6] = DUPn(1)
                 /\ c[k + WordBytes + 7] = 95 + SelectorBytes
                 /\ c[k + WordBytes + SelectorBytes + 8] = OP.EQ
                 /\ c[k + WordBytes + SelectorBytes + 9] = OP.PUSH1
                 /\ c[k + WordBytes + SelectorBytes + 11] = OP.JUMPI
                 /\ c[k + WordBytes + SelectorBytes + 12] = DUPn(1)
                 /\ c[k + WordBytes + SelectorBytes + 13] = 95 + SelectorBytes
                 /\ c[k + WordBytes + 2 * SelectorBytes + 14] = OP.EQ
                 /\ c[k + WordBytes + 2 * SelectorBytes + 15] = OP.PUSH1
                 /\ c[k + WordBytes + 2 * SelectorBytes + 17] = OP.JUMPI
                 /\ c[k + WordBytes + 2 * SelectorBytes + 18] = OP.POP
                 /\ c[k + WordBytes + 2 * SelectorBytes + 19] = OP.PUSH1
                 /\ c[k + WordBytes + 2 * SelectorBytes + 21] = OP.PUSH1
                 /\ c[k + WordBytes + 2 * SelectorBytes + 23] = OP.REVERT
                 /\ Within(c, k, PUSHn(Divisor)) /\ Within(c, k + WordBytes + 1, PUSH1(0))
                 /\ Within(c, k + WordBytes + 5, Compare(n1, d1))
                 /\ Within(c, k + WordBytes + SelectorBytes + 11, Compare(n2, d2))
                 /\ Within(c, k + WordBytes + 2 * SelectorBytes + 18, REVERT0)
<1>. DEFINE q1 == PUSHn(Divisor)
            q2 == PUSH1(0)
            q3 == <<OP.CALLDATALOAD, OP.DIV>>
            q4 == Compare(n1, d1)
            q5 == Compare(n2, d2)
            q6 == <<OP.POP>>
            q7 == REVERT0
            p1 == q1
            p2 == p1 \o q2
            p3 == p2 \o q3
            p4 == p3 \o q4
            p5 == p4 \o q5
            p6 == p5 \o q6
            p7 == p6 \o q7
            W == WordBytes
            S == SelectorBytes
<1>1. W \in Int /\ S \in Int /\ W >= 1 /\ S >= 1
      BY Widths
<1>2. IsCode(q1, W + 1)
      BY DivisorBytes
<1>3. IsCode(q2, 2)
      BY PushType, SmallBytes
<1>4. IsCode(q3, 2)
      BY Opcodes DEF Byte, IsCode
<1>5. IsCode(q4, S + 6)
      BY CompareCode
<1>6. IsCode(q5, S + 6)
      BY CompareCode
<1>7. IsCode(q6, 1)
      BY Opcodes DEF Byte, IsCode
<1>8. IsCode(q7, 5)
      BY RevertCode
<1>9. Dispatcher(n1, d1, n2, d2) = p7
      BY DEF Dispatcher
<1>10. ASSUME NEW c \in Seq(Byte), NEW k \in Nat, Within(c, k, q1)
       PROVE  c[k + 1] = 95 + W
       BY <1>10, DivisorBytes
<1>11. ASSUME NEW c \in Seq(Byte), NEW k \in Nat, Within(c, k, q2)
       PROVE  c[k + 1] = OP.PUSH1
       BY <1>11 DEF PUSH1, Within
<1>12. ASSUME NEW c \in Seq(Byte), NEW k \in Nat, Within(c, k, q3)
       PROVE  /\ c[k + 1] = OP.CALLDATALOAD /\ c[k + 2] = OP.DIV
       BY <1>12 DEF Within
<1>13. ASSUME NEW c \in Seq(Byte), NEW k \in Nat, Within(c, k, q4)
       PROVE  /\ c[k + 1] = DUPn(1) /\ c[k + 2] = 95 + S /\ c[k + S + 3] = OP.EQ
              /\ c[k + S + 4] = OP.PUSH1 /\ c[k + S + 6] = OP.JUMPI
       BY <1>13, CompareCode DEF S
<1>14. ASSUME NEW c \in Seq(Byte), NEW k \in Nat, Within(c, k, q5)
       PROVE  /\ c[k + 1] = DUPn(1) /\ c[k + 2] = 95 + S /\ c[k + S + 3] = OP.EQ
              /\ c[k + S + 4] = OP.PUSH1 /\ c[k + S + 6] = OP.JUMPI
       BY <1>14, CompareCode DEF S
<1>15. ASSUME NEW c \in Seq(Byte), NEW k \in Nat, Within(c, k, q6)
       PROVE  c[k + 1] = OP.POP
       BY <1>15 DEF Within
<1>16. ASSUME NEW c \in Seq(Byte), NEW k \in Nat, Within(c, k, q7)
       PROVE  /\ c[k + 1] = OP.PUSH1 /\ c[k + 3] = OP.PUSH1 /\ c[k + 5] = OP.REVERT
       BY <1>16, RevertCode
<1>. HIDE DEF W, S, q1, q2, q3, q4, q5, q6, q7
<1>. HIDE DEF p1, p2, p3, p4, p5, p6, p7
<1>17. /\ IsCode(p2, W + 3)
       /\ \A c \in Seq(Byte), k \in Nat : Within(c, k, p2) =>
             Within(c, k, p1) /\ Within(c, k + W + 1, q2)
  <2>1. IsCode(p1, W + 1) /\ IsCode(q2, 2)
        BY <1>2, <1>3 DEF p1
  <2>2. /\ IsCode(p2, (W + 1) + 2)
        /\ \A c \in Seq(Byte), k \in Nat : Within(c, k, p2) =>
              Within(c, k, p1) /\ Within(c, k + (W + 1), q2)
        BY <2>1, Joined DEF p2
  <2>. QED BY <1>1, <2>2
<1>18. /\ IsCode(p3, W + 5)
       /\ \A c \in Seq(Byte), k \in Nat : Within(c, k, p3) =>
             Within(c, k, p2) /\ Within(c, k + W + 3, q3)
  <2>1. IsCode(p2, W + 3) /\ IsCode(q3, 2)
        BY <1>17, <1>4
  <2>2. /\ IsCode(p3, (W + 3) + 2)
        /\ \A c \in Seq(Byte), k \in Nat : Within(c, k, p3) =>
              Within(c, k, p2) /\ Within(c, k + (W + 3), q3)
        BY <2>1, Joined DEF p3
  <2>. QED BY <1>1, <2>2
<1>19. /\ IsCode(p4, W + S + 11)
       /\ \A c \in Seq(Byte), k \in Nat : Within(c, k, p4) =>
             Within(c, k, p3) /\ Within(c, k + W + 5, q4)
  <2>1. IsCode(p3, W + 5) /\ IsCode(q4, S + 6)
        BY <1>18, <1>5
  <2>2. /\ IsCode(p4, (W + 5) + (S + 6))
        /\ \A c \in Seq(Byte), k \in Nat : Within(c, k, p4) =>
              Within(c, k, p3) /\ Within(c, k + (W + 5), q4)
        BY <2>1, Joined DEF p4
  <2>. QED BY <1>1, <2>2
<1>20. /\ IsCode(p5, W + 2 * S + 17)
       /\ \A c \in Seq(Byte), k \in Nat : Within(c, k, p5) =>
             Within(c, k, p4) /\ Within(c, k + W + S + 11, q5)
  <2>1. IsCode(p4, W + S + 11) /\ IsCode(q5, S + 6)
        BY <1>19, <1>6
  <2>2. /\ IsCode(p5, (W + S + 11) + (S + 6))
        /\ \A c \in Seq(Byte), k \in Nat : Within(c, k, p5) =>
              Within(c, k, p4) /\ Within(c, k + (W + S + 11), q5)
        BY <2>1, Joined DEF p5
  <2>. QED BY <1>1, <2>2
<1>21. /\ IsCode(p6, W + 2 * S + 18)
       /\ \A c \in Seq(Byte), k \in Nat : Within(c, k, p6) =>
             Within(c, k, p5) /\ Within(c, k + W + 2 * S + 17, q6)
  <2>1. IsCode(p5, W + 2 * S + 17) /\ IsCode(q6, 1)
        BY <1>20, <1>7
  <2>2. /\ IsCode(p6, (W + 2 * S + 17) + 1)
        /\ \A c \in Seq(Byte), k \in Nat : Within(c, k, p6) =>
              Within(c, k, p5) /\ Within(c, k + (W + 2 * S + 17), q6)
        BY <2>1, Joined DEF p6
  <2>. QED BY <1>1, <2>2
<1>22. /\ IsCode(p7, W + 2 * S + 23)
       /\ \A c \in Seq(Byte), k \in Nat : Within(c, k, p7) =>
             Within(c, k, p6) /\ Within(c, k + W + 2 * S + 18, q7)
  <2>1. IsCode(p6, W + 2 * S + 18) /\ IsCode(q7, 5)
        BY <1>21, <1>8
  <2>2. /\ IsCode(p7, (W + 2 * S + 18) + 5)
        /\ \A c \in Seq(Byte), k \in Nat : Within(c, k, p7) =>
              Within(c, k, p6) /\ Within(c, k + (W + 2 * S + 18), q7)
        BY <2>1, Joined DEF p7
  <2>. QED BY <1>1, <2>2
<1>23. ASSUME NEW c \in Seq(Byte), NEW k \in Nat, Within(c, k, p7)
       PROVE  /\ Within(c, k, q1)
              /\ Within(c, k + W + 1, q2)
              /\ Within(c, k + W + 3, q3)
              /\ Within(c, k + W + 5, q4)
              /\ Within(c, k + W + S + 11, q5)
              /\ Within(c, k + W + 2 * S + 17, q6)
              /\ Within(c, k + W + 2 * S + 18, q7)
       BY <1>23, <1>17, <1>18, <1>19, <1>20, <1>21, <1>22 DEF p1
<1>24. ASSUME NEW c \in Seq(Byte), NEW k \in Nat, Within(c, k, p7)
       PROVE  /\ c[k + 1] = 95 + W /\ c[k + W + 2] = OP.PUSH1
              /\ c[k + W + 4] = OP.CALLDATALOAD /\ c[k + W + 5] = OP.DIV
              /\ c[k + W + 6] = DUPn(1) /\ c[k + W + 7] = 95 + S
              /\ c[k + W + S + 8] = OP.EQ /\ c[k + W + S + 9] = OP.PUSH1
              /\ c[k + W + S + 11] = OP.JUMPI /\ c[k + W + S + 12] = DUPn(1)
              /\ c[k + W + S + 13] = 95 + S /\ c[k + W + 2 * S + 14] = OP.EQ
              /\ c[k + W + 2 * S + 15] = OP.PUSH1 /\ c[k + W + 2 * S + 17] = OP.JUMPI
              /\ c[k + W + 2 * S + 18] = OP.POP /\ c[k + W + 2 * S + 19] = OP.PUSH1
              /\ c[k + W + 2 * S + 21] = OP.PUSH1 /\ c[k + W + 2 * S + 23] = OP.REVERT
              /\ Within(c, k, q1) /\ Within(c, k + W + 1, q2) /\ Within(c, k + W + 5, q4)
              /\ Within(c, k + W + S + 11, q5) /\ Within(c, k + W + 2 * S + 18, q7)
  <2>1. c[k + W + 2] = OP.PUSH1
    <3>1. k + W + 1 \in Nat
          BY <1>1
    <3>2. c[(k + W + 1) + 1] = OP.PUSH1
          BY <1>23, <1>24, <1>11, <3>1
    <3>. QED BY <1>1, <3>2
  <2>2. /\ c[k + W + 4] = OP.CALLDATALOAD /\ c[k + W + 5] = OP.DIV
    <3>1. k + W + 3 \in Nat
          BY <1>1
    <3>2. /\ c[(k + W + 3) + 1] = OP.CALLDATALOAD /\ c[(k + W + 3) + 2] = OP.DIV
          BY <1>23, <1>24, <1>12, <3>1
    <3>. QED BY <1>1, <3>2
  <2>3. /\ c[k + W + 6] = DUPn(1) /\ c[k + W + 7] = 95 + S /\ c[k + W + S + 8] = OP.EQ
        /\ c[k + W + S + 9] = OP.PUSH1 /\ c[k + W + S + 11] = OP.JUMPI
    <3>1. k + W + 5 \in Nat
          BY <1>1
    <3>2. /\ c[(k + W + 5) + 1] = DUPn(1) /\ c[(k + W + 5) + 2] = 95 + S
          /\ c[(k + W + 5) + S + 3] = OP.EQ /\ c[(k + W + 5) + S + 4] = OP.PUSH1
          /\ c[(k + W + 5) + S + 6] = OP.JUMPI
          BY <1>23, <1>24, <1>13, <3>1
    <3>3. /\ (k + W + 5) + 1 = k + W + 6 /\ (k + W + 5) + 2 = k + W + 7
          /\ (k + W + 5) + S + 3 = k + W + S + 8 /\ (k + W + 5) + S + 4 = k + W + S + 9
          /\ (k + W + 5) + S + 6 = k + W + S + 11
          BY <1>1
    <3>. QED BY <3>2, <3>3
  <2>4. /\ c[k + W + S + 12] = DUPn(1) /\ c[k + W + S + 13] = 95 + S
        /\ c[k + W + 2 * S + 14] = OP.EQ /\ c[k + W + 2 * S + 15] = OP.PUSH1
        /\ c[k + W + 2 * S + 17] = OP.JUMPI
    <3>1. k + W + S + 11 \in Nat
          BY <1>1
    <3>2. /\ c[(k + W + S + 11) + 1] = DUPn(1) /\ c[(k + W + S + 11) + 2] = 95 + S
          /\ c[(k + W + S + 11) + S + 3] = OP.EQ
          /\ c[(k + W + S + 11) + S + 4] = OP.PUSH1
          /\ c[(k + W + S + 11) + S + 6] = OP.JUMPI
          BY <1>23, <1>24, <1>14, <3>1
    <3>3. /\ (k + W + S + 11) + 1 = k + W + S + 12
          /\ (k + W + S + 11) + 2 = k + W + S + 13
          /\ (k + W + S + 11) + S + 3 = k + W + 2 * S + 14
          /\ (k + W + S + 11) + S + 4 = k + W + 2 * S + 15
          /\ (k + W + S + 11) + S + 6 = k + W + 2 * S + 17
          BY <1>1
    <3>. QED BY <3>2, <3>3
  <2>5. c[k + W + 2 * S + 18] = OP.POP
    <3>1. k + W + 2 * S + 17 \in Nat
          BY <1>1
    <3>2. c[(k + W + 2 * S + 17) + 1] = OP.POP
          BY <1>23, <1>24, <1>15, <3>1
    <3>. QED BY <1>1, <3>2
  <2>6. /\ c[k + W + 2 * S + 19] = OP.PUSH1 /\ c[k + W + 2 * S + 21] = OP.PUSH1
        /\ c[k + W + 2 * S + 23] = OP.REVERT
    <3>1. k + W + 2 * S + 18 \in Nat
          BY <1>1
    <3>2. /\ c[(k + W + 2 * S + 18) + 1] = OP.PUSH1
          /\ c[(k + W + 2 * S + 18) + 3] = OP.PUSH1
          /\ c[(k + W + 2 * S + 18) + 5] = OP.REVERT
          BY <1>23, <1>24, <1>16, <3>1
    <3>. QED BY <1>1, <3>2
  <2>. QED BY <1>23, <1>24, <1>10, <2>1, <2>2, <2>3, <2>4, <2>5, <2>6
<1>. QED BY <1>9, <1>22, <1>24 DEF W, S, q1, q2, q4, q5, q7

(* transfer()                                                                *)
LEMMA TransferCode ==
    /\ IsCode(TransferHandler, 29)
    /\ \A c \in Seq(Byte), k \in Nat : Within(c, k, TransferHandler) =>
          /\ c[k + 1] = OP.JUMPDEST /\ c[k + 2] = OP.POP /\ c[k + 3] = OP.PUSH1
          /\ c[k + 5] = OP.CALLDATALOAD /\ c[k + 6] = OP.PUSH1
          /\ c[k + 8] = OP.CALLDATALOAD /\ c[k + 9] = OP.CALLER /\ c[k + 10] = DUPn(1)
          /\ c[k + 11] = OP.SLOAD /\ c[k + 12] = DUPn(3) /\ c[k + 13] = DUPn(2)
          /\ c[k + 14] = OP.LT /\ c[k + 15] = OP.PUSH1 /\ c[k + 17] = OP.JUMPI
          /\ c[k + 18] = DUPn(3) /\ c[k + 19] = OP.SWAP1 /\ c[k + 20] = OP.SUB
          /\ c[k + 21] = OP.SWAP1 /\ c[k + 22] = OP.SSTORE /\ c[k + 23] = DUPn(2)
          /\ c[k + 24] = OP.SLOAD /\ c[k + 25] = OP.ADD /\ c[k + 26] = DUPn(2)
          /\ c[k + 27] = OP.SSTORE /\ c[k + 28] = OP.POP /\ c[k + 29] = OP.STOP
          /\ Within(c, k + 2, PUSH1(SelectorBytes))
          /\ Within(c, k + 5, PUSH1(SelectorBytes + WordBytes))
          /\ Within(c, k + 14, PUSH1(Handlers + 29))
<1>. DEFINE q1 == <<OP.JUMPDEST, OP.POP>>
            q2 == PUSH1(SelectorBytes)
            q3 == <<OP.CALLDATALOAD>>
            q4 == PUSH1(SelectorBytes + WordBytes)
            q5 == <<OP.CALLDATALOAD>>
            q6 == <<OP.CALLER, DUPn(1), OP.SLOAD, DUPn(3), DUPn(2), OP.LT>>
            q7 == PUSH1(Handlers + 29)
            q8 == <<OP.JUMPI>>
            q9 == <<DUPn(3), OP.SWAP1, OP.SUB, OP.SWAP1, OP.SSTORE>>
            q10 == <<DUPn(2), OP.SLOAD, OP.ADD, DUPn(2), OP.SSTORE, OP.POP, OP.STOP>>
            p1 == q1
            p2 == p1 \o q2
            p3 == p2 \o q3
            p4 == p3 \o q4
            p5 == p4 \o q5
            p6 == p5 \o q6
            p7 == p6 \o q7
            p8 == p7 \o q8
            p9 == p8 \o q9
            p10 == p9 \o q10
            W == WordBytes
            S == SelectorBytes
<1>1. W \in Int /\ S \in Int /\ W >= 1 /\ S >= 1
      BY Widths
<1>2. IsCode(q1, 2)
      BY Opcodes DEF Byte, IsCode
<1>3. IsCode(q2, 2)
      BY PushType, SmallBytes
<1>4. IsCode(q3, 1)
      BY Opcodes DEF Byte, IsCode
<1>5. IsCode(q4, 2)
      BY PushType, SmallBytes
<1>6. IsCode(q5, 1)
      BY Opcodes DEF Byte, IsCode
<1>7. IsCode(q6, 6)
      BY Opcodes, DupType DEF Byte, IsCode
<1>8. IsCode(q7, 2)
      BY PushType, SmallBytes
<1>9. IsCode(q8, 1)
      BY Opcodes DEF Byte, IsCode
<1>10. IsCode(q9, 5)
       BY Opcodes, DupType DEF Byte, IsCode
<1>11. IsCode(q10, 7)
       BY Opcodes, DupType DEF Byte, IsCode
<1>12. TransferHandler = p10
       BY DEF TransferHandler
<1>13. ASSUME NEW c \in Seq(Byte), NEW k \in Nat, Within(c, k, q1)
       PROVE  /\ c[k + 1] = OP.JUMPDEST /\ c[k + 2] = OP.POP
       BY <1>13 DEF Within
<1>14. ASSUME NEW c \in Seq(Byte), NEW k \in Nat, Within(c, k, q2)
       PROVE  c[k + 1] = OP.PUSH1
       BY <1>14 DEF PUSH1, Within
<1>15. ASSUME NEW c \in Seq(Byte), NEW k \in Nat, Within(c, k, q3)
       PROVE  c[k + 1] = OP.CALLDATALOAD
       BY <1>15 DEF Within
<1>16. ASSUME NEW c \in Seq(Byte), NEW k \in Nat, Within(c, k, q4)
       PROVE  c[k + 1] = OP.PUSH1
       BY <1>16 DEF PUSH1, Within
<1>17. ASSUME NEW c \in Seq(Byte), NEW k \in Nat, Within(c, k, q5)
       PROVE  c[k + 1] = OP.CALLDATALOAD
       BY <1>17 DEF Within
<1>18. ASSUME NEW c \in Seq(Byte), NEW k \in Nat, Within(c, k, q6)
       PROVE  /\ c[k + 1] = OP.CALLER /\ c[k + 2] = DUPn(1) /\ c[k + 3] = OP.SLOAD
              /\ c[k + 4] = DUPn(3) /\ c[k + 5] = DUPn(2) /\ c[k + 6] = OP.LT
       BY <1>18 DEF Within
<1>19. ASSUME NEW c \in Seq(Byte), NEW k \in Nat, Within(c, k, q7)
       PROVE  c[k + 1] = OP.PUSH1
       BY <1>19 DEF PUSH1, Within
<1>20. ASSUME NEW c \in Seq(Byte), NEW k \in Nat, Within(c, k, q8)
       PROVE  c[k + 1] = OP.JUMPI
       BY <1>20 DEF Within
<1>21. ASSUME NEW c \in Seq(Byte), NEW k \in Nat, Within(c, k, q9)
       PROVE  /\ c[k + 1] = DUPn(3) /\ c[k + 2] = OP.SWAP1 /\ c[k + 3] = OP.SUB
              /\ c[k + 4] = OP.SWAP1 /\ c[k + 5] = OP.SSTORE
       BY <1>21 DEF Within
<1>22. ASSUME NEW c \in Seq(Byte), NEW k \in Nat, Within(c, k, q10)
       PROVE  /\ c[k + 1] = DUPn(2) /\ c[k + 2] = OP.SLOAD /\ c[k + 3] = OP.ADD
              /\ c[k + 4] = DUPn(2) /\ c[k + 5] = OP.SSTORE /\ c[k + 6] = OP.POP
              /\ c[k + 7] = OP.STOP
       BY <1>22 DEF Within
<1>. HIDE DEF W, S, q1, q2, q3, q4, q5, q6, q7, q8, q9, q10
<1>. HIDE DEF p1, p2, p3, p4, p5, p6, p7, p8, p9, p10
<1>23. /\ IsCode(p2, 4)
       /\ \A c \in Seq(Byte), k \in Nat : Within(c, k, p2) =>
             Within(c, k, p1) /\ Within(c, k + 2, q2)
  <2>1. IsCode(p1, 2) /\ IsCode(q2, 2)
        BY <1>2, <1>3 DEF p1
  <2>2. /\ IsCode(p2, 2 + 2)
        /\ \A c \in Seq(Byte), k \in Nat : Within(c, k, p2) =>
              Within(c, k, p1) /\ Within(c, k + 2, q2)
        BY <2>1, Joined DEF p2
  <2>. QED BY <1>1, <2>2
<1>24. /\ IsCode(p3, 5)
       /\ \A c \in Seq(Byte), k \in Nat : Within(c, k, p3) =>
             Within(c, k, p2) /\ Within(c, k + 4, q3)
  <2>1. IsCode(p2, 4) /\ IsCode(q3, 1)
        BY <1>23, <1>4
  <2>2. /\ IsCode(p3, 4 + 1)
        /\ \A c \in Seq(Byte), k \in Nat : Within(c, k, p3) =>
              Within(c, k, p2) /\ Within(c, k + 4, q3)
        BY <2>1, Joined DEF p3
  <2>. QED BY <1>1, <2>2
<1>25. /\ IsCode(p4, 7)
       /\ \A c \in Seq(Byte), k \in Nat : Within(c, k, p4) =>
             Within(c, k, p3) /\ Within(c, k + 5, q4)
  <2>1. IsCode(p3, 5) /\ IsCode(q4, 2)
        BY <1>24, <1>5
  <2>2. /\ IsCode(p4, 5 + 2)
        /\ \A c \in Seq(Byte), k \in Nat : Within(c, k, p4) =>
              Within(c, k, p3) /\ Within(c, k + 5, q4)
        BY <2>1, Joined DEF p4
  <2>. QED BY <1>1, <2>2
<1>26. /\ IsCode(p5, 8)
       /\ \A c \in Seq(Byte), k \in Nat : Within(c, k, p5) =>
             Within(c, k, p4) /\ Within(c, k + 7, q5)
  <2>1. IsCode(p4, 7) /\ IsCode(q5, 1)
        BY <1>25, <1>6
  <2>2. /\ IsCode(p5, 7 + 1)
        /\ \A c \in Seq(Byte), k \in Nat : Within(c, k, p5) =>
              Within(c, k, p4) /\ Within(c, k + 7, q5)
        BY <2>1, Joined DEF p5
  <2>. QED BY <1>1, <2>2
<1>27. /\ IsCode(p6, 14)
       /\ \A c \in Seq(Byte), k \in Nat : Within(c, k, p6) =>
             Within(c, k, p5) /\ Within(c, k + 8, q6)
  <2>1. IsCode(p5, 8) /\ IsCode(q6, 6)
        BY <1>26, <1>7
  <2>2. /\ IsCode(p6, 8 + 6)
        /\ \A c \in Seq(Byte), k \in Nat : Within(c, k, p6) =>
              Within(c, k, p5) /\ Within(c, k + 8, q6)
        BY <2>1, Joined DEF p6
  <2>. QED BY <1>1, <2>2
<1>28. /\ IsCode(p7, 16)
       /\ \A c \in Seq(Byte), k \in Nat : Within(c, k, p7) =>
             Within(c, k, p6) /\ Within(c, k + 14, q7)
  <2>1. IsCode(p6, 14) /\ IsCode(q7, 2)
        BY <1>27, <1>8
  <2>2. /\ IsCode(p7, 14 + 2)
        /\ \A c \in Seq(Byte), k \in Nat : Within(c, k, p7) =>
              Within(c, k, p6) /\ Within(c, k + 14, q7)
        BY <2>1, Joined DEF p7
  <2>. QED BY <1>1, <2>2
<1>29. /\ IsCode(p8, 17)
       /\ \A c \in Seq(Byte), k \in Nat : Within(c, k, p8) =>
             Within(c, k, p7) /\ Within(c, k + 16, q8)
  <2>1. IsCode(p7, 16) /\ IsCode(q8, 1)
        BY <1>28, <1>9
  <2>2. /\ IsCode(p8, 16 + 1)
        /\ \A c \in Seq(Byte), k \in Nat : Within(c, k, p8) =>
              Within(c, k, p7) /\ Within(c, k + 16, q8)
        BY <2>1, Joined DEF p8
  <2>. QED BY <1>1, <2>2
<1>30. /\ IsCode(p9, 22)
       /\ \A c \in Seq(Byte), k \in Nat : Within(c, k, p9) =>
             Within(c, k, p8) /\ Within(c, k + 17, q9)
  <2>1. IsCode(p8, 17) /\ IsCode(q9, 5)
        BY <1>29, <1>10
  <2>2. /\ IsCode(p9, 17 + 5)
        /\ \A c \in Seq(Byte), k \in Nat : Within(c, k, p9) =>
              Within(c, k, p8) /\ Within(c, k + 17, q9)
        BY <2>1, Joined DEF p9
  <2>. QED BY <1>1, <2>2
<1>31. /\ IsCode(p10, 29)
       /\ \A c \in Seq(Byte), k \in Nat : Within(c, k, p10) =>
             Within(c, k, p9) /\ Within(c, k + 22, q10)
  <2>1. IsCode(p9, 22) /\ IsCode(q10, 7)
        BY <1>30, <1>11
  <2>2. /\ IsCode(p10, 22 + 7)
        /\ \A c \in Seq(Byte), k \in Nat : Within(c, k, p10) =>
              Within(c, k, p9) /\ Within(c, k + 22, q10)
        BY <2>1, Joined DEF p10
  <2>. QED BY <1>1, <2>2
<1>32. ASSUME NEW c \in Seq(Byte), NEW k \in Nat, Within(c, k, p10)
       PROVE  /\ Within(c, k, q1)
              /\ Within(c, k + 2, q2)
              /\ Within(c, k + 4, q3)
              /\ Within(c, k + 5, q4)
              /\ Within(c, k + 7, q5)
              /\ Within(c, k + 8, q6)
              /\ Within(c, k + 14, q7)
              /\ Within(c, k + 16, q8)
              /\ Within(c, k + 17, q9)
              /\ Within(c, k + 22, q10)
       BY <1>32, <1>23, <1>24, <1>25, <1>26, <1>27, <1>28, <1>29, <1>30, <1>31 DEF p1
<1>33. ASSUME NEW c \in Seq(Byte), NEW k \in Nat, Within(c, k, p10)
       PROVE  /\ c[k + 1] = OP.JUMPDEST /\ c[k + 2] = OP.POP /\ c[k + 3] = OP.PUSH1
              /\ c[k + 5] = OP.CALLDATALOAD /\ c[k + 6] = OP.PUSH1
              /\ c[k + 8] = OP.CALLDATALOAD /\ c[k + 9] = OP.CALLER
              /\ c[k + 10] = DUPn(1) /\ c[k + 11] = OP.SLOAD /\ c[k + 12] = DUPn(3)
              /\ c[k + 13] = DUPn(2) /\ c[k + 14] = OP.LT /\ c[k + 15] = OP.PUSH1
              /\ c[k + 17] = OP.JUMPI /\ c[k + 18] = DUPn(3) /\ c[k + 19] = OP.SWAP1
              /\ c[k + 20] = OP.SUB /\ c[k + 21] = OP.SWAP1 /\ c[k + 22] = OP.SSTORE
              /\ c[k + 23] = DUPn(2) /\ c[k + 24] = OP.SLOAD /\ c[k + 25] = OP.ADD
              /\ c[k + 26] = DUPn(2) /\ c[k + 27] = OP.SSTORE /\ c[k + 28] = OP.POP
              /\ c[k + 29] = OP.STOP
              /\ Within(c, k + 2, q2) /\ Within(c, k + 5, q4) /\ Within(c, k + 14, q7)
  <2>1. c[k + 3] = OP.PUSH1
    <3>1. k + 2 \in Nat
          BY <1>1
    <3>2. c[(k + 2) + 1] = OP.PUSH1
          BY <1>32, <1>33, <1>14, <3>1
    <3>. QED BY <1>1, <3>2
  <2>2. c[k + 5] = OP.CALLDATALOAD
    <3>1. k + 4 \in Nat
          BY <1>1
    <3>2. c[(k + 4) + 1] = OP.CALLDATALOAD
          BY <1>32, <1>33, <1>15, <3>1
    <3>. QED BY <1>1, <3>2
  <2>3. c[k + 6] = OP.PUSH1
    <3>1. k + 5 \in Nat
          BY <1>1
    <3>2. c[(k + 5) + 1] = OP.PUSH1
          BY <1>32, <1>33, <1>16, <3>1
    <3>. QED BY <1>1, <3>2
  <2>4. c[k + 8] = OP.CALLDATALOAD
    <3>1. k + 7 \in Nat
          BY <1>1
    <3>2. c[(k + 7) + 1] = OP.CALLDATALOAD
          BY <1>32, <1>33, <1>17, <3>1
    <3>. QED BY <1>1, <3>2
  <2>5. /\ c[k + 9] = OP.CALLER /\ c[k + 10] = DUPn(1) /\ c[k + 11] = OP.SLOAD
        /\ c[k + 12] = DUPn(3) /\ c[k + 13] = DUPn(2) /\ c[k + 14] = OP.LT
    <3>1. k + 8 \in Nat
          BY <1>1
    <3>2. /\ c[(k + 8) + 1] = OP.CALLER /\ c[(k + 8) + 2] = DUPn(1)
          /\ c[(k + 8) + 3] = OP.SLOAD /\ c[(k + 8) + 4] = DUPn(3)
          /\ c[(k + 8) + 5] = DUPn(2) /\ c[(k + 8) + 6] = OP.LT
          BY <1>32, <1>33, <1>18, <3>1
    <3>3. /\ (k + 8) + 1 = k + 9 /\ (k + 8) + 2 = k + 10 /\ (k + 8) + 3 = k + 11
          /\ (k + 8) + 4 = k + 12 /\ (k + 8) + 5 = k + 13 /\ (k + 8) + 6 = k + 14
          BY <1>1
    <3>. QED BY <3>2, <3>3
  <2>6. c[k + 15] = OP.PUSH1
    <3>1. k + 14 \in Nat
          BY <1>1
    <3>2. c[(k + 14) + 1] = OP.PUSH1
          BY <1>32, <1>33, <1>19, <3>1
    <3>. QED BY <1>1, <3>2
  <2>7. c[k + 17] = OP.JUMPI
    <3>1. k + 16 \in Nat
          BY <1>1
    <3>2. c[(k + 16) + 1] = OP.JUMPI
          BY <1>32, <1>33, <1>20, <3>1
    <3>. QED BY <1>1, <3>2
  <2>8. /\ c[k + 18] = DUPn(3) /\ c[k + 19] = OP.SWAP1 /\ c[k + 20] = OP.SUB
        /\ c[k + 21] = OP.SWAP1 /\ c[k + 22] = OP.SSTORE
    <3>1. k + 17 \in Nat
          BY <1>1
    <3>2. /\ c[(k + 17) + 1] = DUPn(3) /\ c[(k + 17) + 2] = OP.SWAP1
          /\ c[(k + 17) + 3] = OP.SUB /\ c[(k + 17) + 4] = OP.SWAP1
          /\ c[(k + 17) + 5] = OP.SSTORE
          BY <1>32, <1>33, <1>21, <3>1
    <3>3. /\ (k + 17) + 1 = k + 18 /\ (k + 17) + 2 = k + 19 /\ (k + 17) + 3 = k + 20
          /\ (k + 17) + 4 = k + 21 /\ (k + 17) + 5 = k + 22
          BY <1>1
    <3>. QED BY <3>2, <3>3
  <2>9. /\ c[k + 23] = DUPn(2) /\ c[k + 24] = OP.SLOAD /\ c[k + 25] = OP.ADD
        /\ c[k + 26] = DUPn(2) /\ c[k + 27] = OP.SSTORE /\ c[k + 28] = OP.POP
        /\ c[k + 29] = OP.STOP
    <3>1. k + 22 \in Nat
          BY <1>1
    <3>2. /\ c[(k + 22) + 1] = DUPn(2) /\ c[(k + 22) + 2] = OP.SLOAD
          /\ c[(k + 22) + 3] = OP.ADD /\ c[(k + 22) + 4] = DUPn(2)
          /\ c[(k + 22) + 5] = OP.SSTORE /\ c[(k + 22) + 6] = OP.POP
          /\ c[(k + 22) + 7] = OP.STOP
          BY <1>32, <1>33, <1>22, <3>1
    <3>3. /\ (k + 22) + 1 = k + 23 /\ (k + 22) + 2 = k + 24 /\ (k + 22) + 3 = k + 25
          /\ (k + 22) + 4 = k + 26 /\ (k + 22) + 5 = k + 27 /\ (k + 22) + 6 = k + 28
          /\ (k + 22) + 7 = k + 29
          BY <1>1
    <3>. QED BY <3>2, <3>3
  <2>. QED BY <1>32, <1>33, <1>13, <2>1, <2>2, <2>3, <2>4, <2>5, <2>6, <2>7, <2>8, <2>9
<1>. QED BY <1>12, <1>31, <1>33 DEF W, S, q2, q4, q7

(* The two contracts.                                                        *)
LEMMA TokenCode ==
    /\ IsCode(TOKEN_RUNTIME_BYTECODE, WordBytes + 2 * SelectorBytes + 72)
    /\ \A c \in Seq(Byte), k \in Nat : Within(c, k, TOKEN_RUNTIME_BYTECODE) =>
          /\ Within(c, k, Dispatcher("transfer", Handlers, "balanceOf", Handlers + 35))
          /\ Within(c, k + WordBytes + 2 * SelectorBytes + 23, TransferHandler)
          /\ Within(c, k + WordBytes + 2 * SelectorBytes + 52, <<OP.JUMPDEST>>)
          /\ Within(c, k + WordBytes + 2 * SelectorBytes + 53, REVERT0)
          /\ Within(c, k + WordBytes + 2 * SelectorBytes + 58, <<OP.JUMPDEST, OP.POP>>)
          /\ Within(c, k + WordBytes + 2 * SelectorBytes + 60, PUSH1(SelectorBytes))
          /\ Within(c, k + WordBytes + 2 * SelectorBytes + 62, <<OP.CALLDATALOAD, OP.SLOAD>>)
          /\ Within(c, k + WordBytes + 2 * SelectorBytes + 64, RETURN1)
<1>. DEFINE q1 == Dispatcher("transfer", Handlers, "balanceOf", Handlers + 35)
            q2 == TransferHandler
            q3 == <<OP.JUMPDEST>>
            q4 == REVERT0
            q5 == <<OP.JUMPDEST, OP.POP>>
            q6 == PUSH1(SelectorBytes)
            q7 == <<OP.CALLDATALOAD, OP.SLOAD>>
            q8 == RETURN1
            p1 == q1
            p2 == p1 \o q2
            p3 == p2 \o q3
            p4 == p3 \o q4
            p5 == p4 \o q5
            p6 == p5 \o q6
            p7 == p6 \o q7
            p8 == p7 \o q8
            W == WordBytes
            S == SelectorBytes
<1>1. W \in Int /\ S \in Int /\ W >= 1 /\ S >= 1
      BY Widths
<1>2. IsCode(q1, W + 2 * S + 23)
      BY DispatcherCode, SmallBytes, SelectorAssumption
<1>3. IsCode(q2, 29)
      BY TransferCode
<1>4. IsCode(q3, 1)
      BY Opcodes DEF Byte, IsCode
<1>5. IsCode(q4, 5)
      BY RevertCode
<1>6. IsCode(q5, 2)
      BY Opcodes DEF Byte, IsCode
<1>7. IsCode(q6, 2)
      BY PushType, SmallBytes
<1>8. IsCode(q7, 2)
      BY Opcodes DEF Byte, IsCode
<1>9. IsCode(q8, 8)
      BY ReturnCode
<1>10. TOKEN_RUNTIME_BYTECODE = p8
       BY DEF TOKEN_RUNTIME_BYTECODE
<1>. HIDE DEF W, S, q1, q2, q3, q4, q5, q6, q7, q8
<1>. HIDE DEF p1, p2, p3, p4, p5, p6, p7, p8
<1>11. /\ IsCode(p2, W + 2 * S + 52)
       /\ \A c \in Seq(Byte), k \in Nat : Within(c, k, p2) =>
             Within(c, k, p1) /\ Within(c, k + W + 2 * S + 23, q2)
  <2>1. IsCode(p1, W + 2 * S + 23) /\ IsCode(q2, 29)
        BY <1>2, <1>3 DEF p1
  <2>2. /\ IsCode(p2, (W + 2 * S + 23) + 29)
        /\ \A c \in Seq(Byte), k \in Nat : Within(c, k, p2) =>
              Within(c, k, p1) /\ Within(c, k + (W + 2 * S + 23), q2)
        BY <2>1, Joined DEF p2
  <2>. QED BY <1>1, <2>2
<1>12. /\ IsCode(p3, W + 2 * S + 53)
       /\ \A c \in Seq(Byte), k \in Nat : Within(c, k, p3) =>
             Within(c, k, p2) /\ Within(c, k + W + 2 * S + 52, q3)
  <2>1. IsCode(p2, W + 2 * S + 52) /\ IsCode(q3, 1)
        BY <1>11, <1>4
  <2>2. /\ IsCode(p3, (W + 2 * S + 52) + 1)
        /\ \A c \in Seq(Byte), k \in Nat : Within(c, k, p3) =>
              Within(c, k, p2) /\ Within(c, k + (W + 2 * S + 52), q3)
        BY <2>1, Joined DEF p3
  <2>. QED BY <1>1, <2>2
<1>13. /\ IsCode(p4, W + 2 * S + 58)
       /\ \A c \in Seq(Byte), k \in Nat : Within(c, k, p4) =>
             Within(c, k, p3) /\ Within(c, k + W + 2 * S + 53, q4)
  <2>1. IsCode(p3, W + 2 * S + 53) /\ IsCode(q4, 5)
        BY <1>12, <1>5
  <2>2. /\ IsCode(p4, (W + 2 * S + 53) + 5)
        /\ \A c \in Seq(Byte), k \in Nat : Within(c, k, p4) =>
              Within(c, k, p3) /\ Within(c, k + (W + 2 * S + 53), q4)
        BY <2>1, Joined DEF p4
  <2>. QED BY <1>1, <2>2
<1>14. /\ IsCode(p5, W + 2 * S + 60)
       /\ \A c \in Seq(Byte), k \in Nat : Within(c, k, p5) =>
             Within(c, k, p4) /\ Within(c, k + W + 2 * S + 58, q5)
  <2>1. IsCode(p4, W + 2 * S + 58) /\ IsCode(q5, 2)
        BY <1>13, <1>6
  <2>2. /\ IsCode(p5, (W + 2 * S + 58) + 2)
        /\ \A c \in Seq(Byte), k \in Nat : Within(c, k, p5) =>
              Within(c, k, p4) /\ Within(c, k + (W + 2 * S + 58), q5)
        BY <2>1, Joined DEF p5
  <2>. QED BY <1>1, <2>2
<1>15. /\ IsCode(p6, W + 2 * S + 62)
       /\ \A c \in Seq(Byte), k \in Nat : Within(c, k, p6) =>
             Within(c, k, p5) /\ Within(c, k + W + 2 * S + 60, q6)
  <2>1. IsCode(p5, W + 2 * S + 60) /\ IsCode(q6, 2)
        BY <1>14, <1>7
  <2>2. /\ IsCode(p6, (W + 2 * S + 60) + 2)
        /\ \A c \in Seq(Byte), k \in Nat : Within(c, k, p6) =>
              Within(c, k, p5) /\ Within(c, k + (W + 2 * S + 60), q6)
        BY <2>1, Joined DEF p6
  <2>. QED BY <1>1, <2>2
<1>16. /\ IsCode(p7, W + 2 * S + 64)
       /\ \A c \in Seq(Byte), k \in Nat : Within(c, k, p7) =>
             Within(c, k, p6) /\ Within(c, k + W + 2 * S + 62, q7)
  <2>1. IsCode(p6, W + 2 * S + 62) /\ IsCode(q7, 2)
        BY <1>15, <1>8
  <2>2. /\ IsCode(p7, (W + 2 * S + 62) + 2)
        /\ \A c \in Seq(Byte), k \in Nat : Within(c, k, p7) =>
              Within(c, k, p6) /\ Within(c, k + (W + 2 * S + 62), q7)
        BY <2>1, Joined DEF p7
  <2>. QED BY <1>1, <2>2
<1>17. /\ IsCode(p8, W + 2 * S + 72)
       /\ \A c \in Seq(Byte), k \in Nat : Within(c, k, p8) =>
             Within(c, k, p7) /\ Within(c, k + W + 2 * S + 64, q8)
  <2>1. IsCode(p7, W + 2 * S + 64) /\ IsCode(q8, 8)
        BY <1>16, <1>9
  <2>2. /\ IsCode(p8, (W + 2 * S + 64) + 8)
        /\ \A c \in Seq(Byte), k \in Nat : Within(c, k, p8) =>
              Within(c, k, p7) /\ Within(c, k + (W + 2 * S + 64), q8)
        BY <2>1, Joined DEF p8
  <2>. QED BY <1>1, <2>2
<1>18. ASSUME NEW c \in Seq(Byte), NEW k \in Nat, Within(c, k, p8)
       PROVE  /\ Within(c, k, q1)
              /\ Within(c, k + W + 2 * S + 23, q2)
              /\ Within(c, k + W + 2 * S + 52, q3)
              /\ Within(c, k + W + 2 * S + 53, q4)
              /\ Within(c, k + W + 2 * S + 58, q5)
              /\ Within(c, k + W + 2 * S + 60, q6)
              /\ Within(c, k + W + 2 * S + 62, q7)
              /\ Within(c, k + W + 2 * S + 64, q8)
       BY <1>18, <1>11, <1>12, <1>13, <1>14, <1>15, <1>16, <1>17 DEF p1
<1>. QED BY <1>10, <1>17, <1>18 DEF W, S, q1, q2, q3, q4, q5, q6, q7, q8

LEMMA CounterCode ==
    /\ IsCode(COUNTER_RUNTIME_BYTECODE, WordBytes + 2 * SelectorBytes + 48)
    /\ \A c \in Seq(Byte), k \in Nat : Within(c, k, COUNTER_RUNTIME_BYTECODE) =>
          /\ Within(c, k, Dispatcher("increment", Handlers, "getCount", Handlers + 12))
          /\ Within(c, k + WordBytes + 2 * SelectorBytes + 23, <<OP.JUMPDEST, OP.POP>>)
          /\ Within(c, k + WordBytes + 2 * SelectorBytes + 25, PUSH1(0))
          /\ Within(c, k + WordBytes + 2 * SelectorBytes + 27, <<OP.SLOAD>>)
          /\ Within(c, k + WordBytes + 2 * SelectorBytes + 28, PUSH1(1))
          /\ Within(c, k + WordBytes + 2 * SelectorBytes + 30, <<OP.ADD>>)
          /\ Within(c, k + WordBytes + 2 * SelectorBytes + 31, PUSH1(0))
          /\ Within(c, k + WordBytes + 2 * SelectorBytes + 33, <<OP.SSTORE, OP.STOP>>)
          /\ Within(c, k + WordBytes + 2 * SelectorBytes + 35, <<OP.JUMPDEST, OP.POP>>)
          /\ Within(c, k + WordBytes + 2 * SelectorBytes + 37, PUSH1(0))
          /\ Within(c, k + WordBytes + 2 * SelectorBytes + 39, <<OP.SLOAD>>)
          /\ Within(c, k + WordBytes + 2 * SelectorBytes + 40, RETURN1)
<1>. DEFINE q1 == Dispatcher("increment", Handlers, "getCount", Handlers + 12)
            q2 == <<OP.JUMPDEST, OP.POP>>
            q3 == PUSH1(0)
            q4 == <<OP.SLOAD>>
            q5 == PUSH1(1)
            q6 == <<OP.ADD>>
            q7 == PUSH1(0)
            q8 == <<OP.SSTORE, OP.STOP>>
            q9 == <<OP.JUMPDEST, OP.POP>>
            q10 == PUSH1(0)
            q11 == <<OP.SLOAD>>
            q12 == RETURN1
            p1 == q1
            p2 == p1 \o q2
            p3 == p2 \o q3
            p4 == p3 \o q4
            p5 == p4 \o q5
            p6 == p5 \o q6
            p7 == p6 \o q7
            p8 == p7 \o q8
            p9 == p8 \o q9
            p10 == p9 \o q10
            p11 == p10 \o q11
            p12 == p11 \o q12
            W == WordBytes
            S == SelectorBytes
<1>1. W \in Int /\ S \in Int /\ W >= 1 /\ S >= 1
      BY Widths
<1>2. IsCode(q1, W + 2 * S + 23)
      BY DispatcherCode, SmallBytes, SelectorAssumption
<1>3. IsCode(q2, 2)
      BY Opcodes DEF Byte, IsCode
<1>4. IsCode(q3, 2)
      BY PushType, SmallBytes
<1>5. IsCode(q4, 1)
      BY Opcodes DEF Byte, IsCode
<1>6. IsCode(q5, 2)
      BY PushType, SmallBytes
<1>7. IsCode(q6, 1)
      BY Opcodes DEF Byte, IsCode
<1>8. IsCode(q7, 2)
      BY PushType, SmallBytes
<1>9. IsCode(q8, 2)
      BY Opcodes DEF Byte, IsCode
<1>10. IsCode(q9, 2)
       BY Opcodes DEF Byte, IsCode
<1>11. IsCode(q10, 2)
       BY PushType, SmallBytes
<1>12. IsCode(q11, 1)
       BY Opcodes DEF Byte, IsCode
<1>13. IsCode(q12, 8)
       BY ReturnCode
<1>14. COUNTER_RUNTIME_BYTECODE = p12
       BY DEF COUNTER_RUNTIME_BYTECODE
<1>. HIDE DEF W, S, q1, q2, q3, q4, q5, q6, q7, q8, q9, q10, q11, q12
<1>. HIDE DEF p1, p2, p3, p4, p5, p6, p7, p8, p9, p10, p11, p12
<1>15. /\ IsCode(p2, W + 2 * S + 25)
       /\ \A c \in Seq(Byte), k \in Nat : Within(c, k, p2) =>
             Within(c, k, p1) /\ Within(c, k + W + 2 * S + 23, q2)
  <2>1. IsCode(p1, W + 2 * S + 23) /\ IsCode(q2, 2)
        BY <1>2, <1>3 DEF p1
  <2>2. /\ IsCode(p2, (W + 2 * S + 23) + 2)
        /\ \A c \in Seq(Byte), k \in Nat : Within(c, k, p2) =>
              Within(c, k, p1) /\ Within(c, k + (W + 2 * S + 23), q2)
        BY <2>1, Joined DEF p2
  <2>. QED BY <1>1, <2>2
<1>16. /\ IsCode(p3, W + 2 * S + 27)
       /\ \A c \in Seq(Byte), k \in Nat : Within(c, k, p3) =>
             Within(c, k, p2) /\ Within(c, k + W + 2 * S + 25, q3)
  <2>1. IsCode(p2, W + 2 * S + 25) /\ IsCode(q3, 2)
        BY <1>15, <1>4
  <2>2. /\ IsCode(p3, (W + 2 * S + 25) + 2)
        /\ \A c \in Seq(Byte), k \in Nat : Within(c, k, p3) =>
              Within(c, k, p2) /\ Within(c, k + (W + 2 * S + 25), q3)
        BY <2>1, Joined DEF p3
  <2>. QED BY <1>1, <2>2
<1>17. /\ IsCode(p4, W + 2 * S + 28)
       /\ \A c \in Seq(Byte), k \in Nat : Within(c, k, p4) =>
             Within(c, k, p3) /\ Within(c, k + W + 2 * S + 27, q4)
  <2>1. IsCode(p3, W + 2 * S + 27) /\ IsCode(q4, 1)
        BY <1>16, <1>5
  <2>2. /\ IsCode(p4, (W + 2 * S + 27) + 1)
        /\ \A c \in Seq(Byte), k \in Nat : Within(c, k, p4) =>
              Within(c, k, p3) /\ Within(c, k + (W + 2 * S + 27), q4)
        BY <2>1, Joined DEF p4
  <2>. QED BY <1>1, <2>2
<1>18. /\ IsCode(p5, W + 2 * S + 30)
       /\ \A c \in Seq(Byte), k \in Nat : Within(c, k, p5) =>
             Within(c, k, p4) /\ Within(c, k + W + 2 * S + 28, q5)
  <2>1. IsCode(p4, W + 2 * S + 28) /\ IsCode(q5, 2)
        BY <1>17, <1>6
  <2>2. /\ IsCode(p5, (W + 2 * S + 28) + 2)
        /\ \A c \in Seq(Byte), k \in Nat : Within(c, k, p5) =>
              Within(c, k, p4) /\ Within(c, k + (W + 2 * S + 28), q5)
        BY <2>1, Joined DEF p5
  <2>. QED BY <1>1, <2>2
<1>19. /\ IsCode(p6, W + 2 * S + 31)
       /\ \A c \in Seq(Byte), k \in Nat : Within(c, k, p6) =>
             Within(c, k, p5) /\ Within(c, k + W + 2 * S + 30, q6)
  <2>1. IsCode(p5, W + 2 * S + 30) /\ IsCode(q6, 1)
        BY <1>18, <1>7
  <2>2. /\ IsCode(p6, (W + 2 * S + 30) + 1)
        /\ \A c \in Seq(Byte), k \in Nat : Within(c, k, p6) =>
              Within(c, k, p5) /\ Within(c, k + (W + 2 * S + 30), q6)
        BY <2>1, Joined DEF p6
  <2>. QED BY <1>1, <2>2
<1>20. /\ IsCode(p7, W + 2 * S + 33)
       /\ \A c \in Seq(Byte), k \in Nat : Within(c, k, p7) =>
             Within(c, k, p6) /\ Within(c, k + W + 2 * S + 31, q7)
  <2>1. IsCode(p6, W + 2 * S + 31) /\ IsCode(q7, 2)
        BY <1>19, <1>8
  <2>2. /\ IsCode(p7, (W + 2 * S + 31) + 2)
        /\ \A c \in Seq(Byte), k \in Nat : Within(c, k, p7) =>
              Within(c, k, p6) /\ Within(c, k + (W + 2 * S + 31), q7)
        BY <2>1, Joined DEF p7
  <2>. QED BY <1>1, <2>2
<1>21. /\ IsCode(p8, W + 2 * S + 35)
       /\ \A c \in Seq(Byte), k \in Nat : Within(c, k, p8) =>
             Within(c, k, p7) /\ Within(c, k + W + 2 * S + 33, q8)
  <2>1. IsCode(p7, W + 2 * S + 33) /\ IsCode(q8, 2)
        BY <1>20, <1>9
  <2>2. /\ IsCode(p8, (W + 2 * S + 33) + 2)
        /\ \A c \in Seq(Byte), k \in Nat : Within(c, k, p8) =>
              Within(c, k, p7) /\ Within(c, k + (W + 2 * S + 33), q8)
        BY <2>1, Joined DEF p8
  <2>. QED BY <1>1, <2>2
<1>22. /\ IsCode(p9, W + 2 * S + 37)
       /\ \A c \in Seq(Byte), k \in Nat : Within(c, k, p9) =>
             Within(c, k, p8) /\ Within(c, k + W + 2 * S + 35, q9)
  <2>1. IsCode(p8, W + 2 * S + 35) /\ IsCode(q9, 2)
        BY <1>21, <1>10
  <2>2. /\ IsCode(p9, (W + 2 * S + 35) + 2)
        /\ \A c \in Seq(Byte), k \in Nat : Within(c, k, p9) =>
              Within(c, k, p8) /\ Within(c, k + (W + 2 * S + 35), q9)
        BY <2>1, Joined DEF p9
  <2>. QED BY <1>1, <2>2
<1>23. /\ IsCode(p10, W + 2 * S + 39)
       /\ \A c \in Seq(Byte), k \in Nat : Within(c, k, p10) =>
             Within(c, k, p9) /\ Within(c, k + W + 2 * S + 37, q10)
  <2>1. IsCode(p9, W + 2 * S + 37) /\ IsCode(q10, 2)
        BY <1>22, <1>11
  <2>2. /\ IsCode(p10, (W + 2 * S + 37) + 2)
        /\ \A c \in Seq(Byte), k \in Nat : Within(c, k, p10) =>
              Within(c, k, p9) /\ Within(c, k + (W + 2 * S + 37), q10)
        BY <2>1, Joined DEF p10
  <2>. QED BY <1>1, <2>2
<1>24. /\ IsCode(p11, W + 2 * S + 40)
       /\ \A c \in Seq(Byte), k \in Nat : Within(c, k, p11) =>
             Within(c, k, p10) /\ Within(c, k + W + 2 * S + 39, q11)
  <2>1. IsCode(p10, W + 2 * S + 39) /\ IsCode(q11, 1)
        BY <1>23, <1>12
  <2>2. /\ IsCode(p11, (W + 2 * S + 39) + 1)
        /\ \A c \in Seq(Byte), k \in Nat : Within(c, k, p11) =>
              Within(c, k, p10) /\ Within(c, k + (W + 2 * S + 39), q11)
        BY <2>1, Joined DEF p11
  <2>. QED BY <1>1, <2>2
<1>25. /\ IsCode(p12, W + 2 * S + 48)
       /\ \A c \in Seq(Byte), k \in Nat : Within(c, k, p12) =>
             Within(c, k, p11) /\ Within(c, k + W + 2 * S + 40, q12)
  <2>1. IsCode(p11, W + 2 * S + 40) /\ IsCode(q12, 8)
        BY <1>24, <1>13
  <2>2. /\ IsCode(p12, (W + 2 * S + 40) + 8)
        /\ \A c \in Seq(Byte), k \in Nat : Within(c, k, p12) =>
              Within(c, k, p11) /\ Within(c, k + (W + 2 * S + 40), q12)
        BY <2>1, Joined DEF p12
  <2>. QED BY <1>1, <2>2
<1>26. ASSUME NEW c \in Seq(Byte), NEW k \in Nat, Within(c, k, p12)
       PROVE  /\ Within(c, k, q1)
              /\ Within(c, k + W + 2 * S + 23, q2)
              /\ Within(c, k + W + 2 * S + 25, q3)
              /\ Within(c, k + W + 2 * S + 27, q4)
              /\ Within(c, k + W + 2 * S + 28, q5)
              /\ Within(c, k + W + 2 * S + 30, q6)
              /\ Within(c, k + W + 2 * S + 31, q7)
              /\ Within(c, k + W + 2 * S + 33, q8)
              /\ Within(c, k + W + 2 * S + 35, q9)
              /\ Within(c, k + W + 2 * S + 37, q10)
              /\ Within(c, k + W + 2 * S + 39, q11)
              /\ Within(c, k + W + 2 * S + 40, q12)
       BY <1>26, <1>15, <1>16, <1>17, <1>18, <1>19, <1>20, <1>21, <1>22, <1>23, <1>24, <1>25 DEF p1
<1>. QED BY <1>14, <1>25, <1>26 DEF W, S, q1, q2, q3, q4, q5, q6, q7, q8, q9, q10, q11, q12

(* The init code: a header, then what it deploys.                            *)
LEMMA InitCode ==
    ASSUME NEW r \in Seq(Byte), Len(r) \in Byte
    PROVE  /\ IsCode(build_init_code(r), Len(r) + 12)
           /\ \A c \in Seq(Byte), k \in Nat : Within(c, k, build_init_code(r)) =>
                 /\ Within(c, k, PUSH1(Len(r))) /\ Within(c, k + 2, PUSH1(12))
                 /\ Within(c, k + 4, PUSH1(0)) /\ Within(c, k + 6, <<OP.CODECOPY>>)
                 /\ Within(c, k + 7, PUSH1(Len(r))) /\ Within(c, k + 9, PUSH1(0))
                 /\ Within(c, k + 11, <<OP.RETURN>>) /\ Within(c, k + 12, r)
<1>. DEFINE q1 == PUSH1(Len(r))
            q2 == PUSH1(12)
            q3 == PUSH1(0)
            q4 == <<OP.CODECOPY>>
            q5 == PUSH1(Len(r))
            q6 == PUSH1(0)
            q7 == <<OP.RETURN>>
            q8 == r
            p1 == q1
            p2 == p1 \o q2
            p3 == p2 \o q3
            p4 == p3 \o q4
            p5 == p4 \o q5
            p6 == p5 \o q6
            p7 == p6 \o q7
            p8 == p7 \o q8
            R == Len(r)
<1>1. R \in Int /\ R >= 0
      BY DEF Byte
<1>2. IsCode(q1, 2)
      BY PushType
<1>3. IsCode(q2, 2)
      BY PushType, SmallBytes
<1>4. IsCode(q3, 2)
      BY PushType, SmallBytes
<1>5. IsCode(q4, 1)
      BY Opcodes DEF Byte, IsCode
<1>6. IsCode(q5, 2)
      BY PushType
<1>7. IsCode(q6, 2)
      BY PushType, SmallBytes
<1>8. IsCode(q7, 1)
      BY Opcodes DEF Byte, IsCode
<1>9. IsCode(q8, R)
      BY DEF IsCode
<1>10. build_init_code(r) = p8
       BY DEF build_init_code
<1>. HIDE DEF R, q1, q2, q3, q4, q5, q6, q7, q8
<1>. HIDE DEF p1, p2, p3, p4, p5, p6, p7, p8
<1>11. /\ IsCode(p2, 4)
       /\ \A c \in Seq(Byte), k \in Nat : Within(c, k, p2) =>
             Within(c, k, p1) /\ Within(c, k + 2, q2)
  <2>1. IsCode(p1, 2) /\ IsCode(q2, 2)
        BY <1>2, <1>3 DEF p1
  <2>2. /\ IsCode(p2, 2 + 2)
        /\ \A c \in Seq(Byte), k \in Nat : Within(c, k, p2) =>
              Within(c, k, p1) /\ Within(c, k + 2, q2)
        BY <2>1, Joined DEF p2
  <2>. QED BY <1>1, <2>2
<1>12. /\ IsCode(p3, 6)
       /\ \A c \in Seq(Byte), k \in Nat : Within(c, k, p3) =>
             Within(c, k, p2) /\ Within(c, k + 4, q3)
  <2>1. IsCode(p2, 4) /\ IsCode(q3, 2)
        BY <1>11, <1>4
  <2>2. /\ IsCode(p3, 4 + 2)
        /\ \A c \in Seq(Byte), k \in Nat : Within(c, k, p3) =>
              Within(c, k, p2) /\ Within(c, k + 4, q3)
        BY <2>1, Joined DEF p3
  <2>. QED BY <1>1, <2>2
<1>13. /\ IsCode(p4, 7)
       /\ \A c \in Seq(Byte), k \in Nat : Within(c, k, p4) =>
             Within(c, k, p3) /\ Within(c, k + 6, q4)
  <2>1. IsCode(p3, 6) /\ IsCode(q4, 1)
        BY <1>12, <1>5
  <2>2. /\ IsCode(p4, 6 + 1)
        /\ \A c \in Seq(Byte), k \in Nat : Within(c, k, p4) =>
              Within(c, k, p3) /\ Within(c, k + 6, q4)
        BY <2>1, Joined DEF p4
  <2>. QED BY <1>1, <2>2
<1>14. /\ IsCode(p5, 9)
       /\ \A c \in Seq(Byte), k \in Nat : Within(c, k, p5) =>
             Within(c, k, p4) /\ Within(c, k + 7, q5)
  <2>1. IsCode(p4, 7) /\ IsCode(q5, 2)
        BY <1>13, <1>6
  <2>2. /\ IsCode(p5, 7 + 2)
        /\ \A c \in Seq(Byte), k \in Nat : Within(c, k, p5) =>
              Within(c, k, p4) /\ Within(c, k + 7, q5)
        BY <2>1, Joined DEF p5
  <2>. QED BY <1>1, <2>2
<1>15. /\ IsCode(p6, 11)
       /\ \A c \in Seq(Byte), k \in Nat : Within(c, k, p6) =>
             Within(c, k, p5) /\ Within(c, k + 9, q6)
  <2>1. IsCode(p5, 9) /\ IsCode(q6, 2)
        BY <1>14, <1>7
  <2>2. /\ IsCode(p6, 9 + 2)
        /\ \A c \in Seq(Byte), k \in Nat : Within(c, k, p6) =>
              Within(c, k, p5) /\ Within(c, k + 9, q6)
        BY <2>1, Joined DEF p6
  <2>. QED BY <1>1, <2>2
<1>16. /\ IsCode(p7, 12)
       /\ \A c \in Seq(Byte), k \in Nat : Within(c, k, p7) =>
             Within(c, k, p6) /\ Within(c, k + 11, q7)
  <2>1. IsCode(p6, 11) /\ IsCode(q7, 1)
        BY <1>15, <1>8
  <2>2. /\ IsCode(p7, 11 + 1)
        /\ \A c \in Seq(Byte), k \in Nat : Within(c, k, p7) =>
              Within(c, k, p6) /\ Within(c, k + 11, q7)
        BY <2>1, Joined DEF p7
  <2>. QED BY <1>1, <2>2
<1>17. /\ IsCode(p8, R + 12)
       /\ \A c \in Seq(Byte), k \in Nat : Within(c, k, p8) =>
             Within(c, k, p7) /\ Within(c, k + 12, q8)
  <2>1. IsCode(p7, 12) /\ IsCode(q8, R)
        BY <1>16, <1>9
  <2>2. /\ IsCode(p8, 12 + R)
        /\ \A c \in Seq(Byte), k \in Nat : Within(c, k, p8) =>
              Within(c, k, p7) /\ Within(c, k + 12, q8)
        BY <2>1, Joined DEF p8
  <2>. QED BY <1>1, <2>2
<1>18. ASSUME NEW c \in Seq(Byte), NEW k \in Nat, Within(c, k, p8)
       PROVE  /\ Within(c, k, q1)
              /\ Within(c, k + 2, q2)
              /\ Within(c, k + 4, q3)
              /\ Within(c, k + 6, q4)
              /\ Within(c, k + 7, q5)
              /\ Within(c, k + 9, q6)
              /\ Within(c, k + 11, q7)
              /\ Within(c, k + 12, q8)
       BY <1>18, <1>11, <1>12, <1>13, <1>14, <1>15, <1>16, <1>17 DEF p1
<1>. QED BY <1>10, <1>17, <1>18 DEF R, q1, q2, q3, q4, q5, q6, q7, q8

-----------------------------------------------------------------------------
(* What an opcode leaves on the stack *)

(* So many words are gone, and one is on top of the rest, or none.           *)
Pushes(n, v) ==
    LET s == execution_stack
        t == execution_stack'
    IN  /\ n <= Len(s) /\ Len(t) = Len(s) - n + 1 /\ FromTop(t, 1) = v
        /\ \A j \in 2..(Len(s) - n + 1) : FromTop(t, j) = FromTop(s, j - 1 + n)

Pops(n) ==
    LET s == execution_stack
        t == execution_stack'
    IN  /\ n <= Len(s) /\ Len(t) = Len(s) - n
        /\ \A j \in 1..(Len(s) - n) : FromTop(t, j) = FromTop(s, j + n)

(* The i-th word from the top, and the position of the next instruction.     *)
Top(i) == FromTop(execution_stack, i)

Steps(n) == program_counter' = program_counter + n /\ UNCHANGED <<storage, stopped>>

LEMMA NeedsMet ==
    ASSUME IInv, context.value = 0, NEW ops, Executes(ops)
    PROVE  /\ Needs(opcode) \in Nat /\ Needs(opcode) <= Len(execution_stack)
           /\ Len(execution_stack) \in Nat
           /\ \A i \in 1..Needs(opcode) : Operand(i) = Top(i) /\ Top(i) \in Word
<1>1. Needs(opcode) \in Nat /\ Needs(opcode) <= Depth
      BY Operands
<1>2. /\ Len(execution_stack) \in Nat
      /\ \A i \in 1..Len(execution_stack) : Operand(i) = Top(i) /\ Top(i) \in Word
      BY StackWords DEF Top
<1>. QED BY <1>1, <1>2 DEF Depth

LEMMA DoesDup ==
    ASSUME IInv, context.value = 0, Handled, NEW n \in 1..16, opcode = DUPn(n)
    PROVE  n <= Len(execution_stack) /\ Pushes(0, Top(n)) /\ Steps(1)
<1>1. opcode \in DUP /\ Needs(opcode) = n
  <2>1. OP.DUP1 = 128 /\ opcode = 127 + n
        BY DupType, Opcodes
  <2>2. opcode \in DUP
        BY <2>1 DEF DUP
  <2>. QED BY <2>1, <2>2, Arity
<1>2. op_dup
      BY <1>1 DEF Handled
<1>3. Executes(DUP) /\ Replace(0, <<Operand(n)>>)
      BY <1>1, <1>2 DEF op_dup
<1>4. n <= Len(execution_stack) /\ Operand(n) = Top(n) /\ Len(execution_stack) \in Nat
      BY <1>1, <1>3, NeedsMet
<1>5. Pushes(0, Top(n))
      BY <1>3, <1>4, StackPushed DEF Pushes
<1>6. Steps(1)
      BY <1>2 DEF op_dup, Next1, Goto, Data, ended, Steps
<1>. QED BY <1>4, <1>5, <1>6

LEMMA DoesBinary ==
    ASSUME IInv, context.value = 0, Handled, opcode \in Binary
    PROVE  /\ 2 <= Len(execution_stack) /\ Pushes(2, Result(opcode, Top(1), Top(2)))
           /\ Steps(1)
<1>1. Needs(opcode) = 2
      BY Arity DEF Takes2
<1>2. Arithmetic
      BY DEF Handled
<1>3. Executes(Binary) /\ Replace(2, <<Result(opcode, Operand(1), Operand(2))>>)
      BY <1>2 DEF Arithmetic
<1>4. 2 <= Len(execution_stack) /\ Operand(1) = Top(1) /\ Operand(2) = Top(2)
      BY <1>1, <1>3, NeedsMet
<1>5. Pushes(2, Result(opcode, Top(1), Top(2)))
      BY <1>3, <1>4, StackPushed DEF Pushes
<1>6. Steps(1)
      BY <1>2 DEF Arithmetic, Next1, Goto, Data, ended, Steps
<1>. QED BY <1>4, <1>5, <1>6

LEMMA DoesCaller ==
    ASSUME IInv, context.value = 0, Handled, opcode = OP.CALLER
    PROVE  Pushes(0, context.caller) /\ Steps(1)
<1>1. Environment
      BY DEF Handled
<1>2. Replace(0, <<context.caller>>)
      BY <1>1, Opcodes DEF Environment
<1>3. 0 <= Len(execution_stack)
      BY StackWords
<1>4. Pushes(0, context.caller)
      BY <1>2, <1>3, StackPushed DEF Pushes
<1>5. Steps(1)
      BY <1>1 DEF Environment, Next1, Goto, Data, ended, Steps
<1>. QED BY <1>4, <1>5

LEMMA DoesSload ==
    ASSUME IInv, context.value = 0, Handled, opcode = OP.SLOAD
    PROVE  1 <= Len(execution_stack) /\ Pushes(1, Slot(Top(1))) /\ Steps(1)
<1>1. Needs(opcode) = 1
      BY Arity DEF Takes1
<1>2. op_sload
      BY DEF Handled
<1>3. Executes({OP.SLOAD}) /\ Replace(1, <<Slot(Operand(1))>>)
      BY <1>2 DEF op_sload, Slot
<1>4. 1 <= Len(execution_stack) /\ Operand(1) = Top(1)
      BY <1>1, <1>3, NeedsMet
<1>5. Pushes(1, Slot(Top(1)))
      BY <1>3, <1>4, StackPushed DEF Pushes
<1>6. Steps(1)
      BY <1>2 DEF op_sload, Next1, Goto, Data, ended, Steps
<1>. QED BY <1>4, <1>5, <1>6

(* One slot of a book is written.                                            *)
Stored(s, key, value) == [k \in DOMAIN s \cup {key} |-> IF k = key THEN value ELSE s[k]]

LEMMA DoesSstore ==
    ASSUME IInv, context.value = 0, Handled, opcode = OP.SSTORE
    PROVE  /\ 2 <= Len(execution_stack) /\ Pops(2)
           /\ program_counter' = program_counter + 1 /\ UNCHANGED stopped
           /\ Top(1) \in Word /\ Top(2) \in Word
           /\ storage' = Stored(storage, Top(1), Top(2))
<1>1. Needs(opcode) = 2
      BY Arity DEF Takes2
<1>2. op_sstore
      BY DEF Handled
<1>3. Executes({OP.SSTORE}) /\ Replace(2, <<>>) /\ storage' = Stored(storage, Operand(1), Operand(2))
      BY <1>2 DEF op_sstore, Stored
<1>4. /\ 2 <= Len(execution_stack) /\ Operand(1) = Top(1) /\ Operand(2) = Top(2)
      /\ Top(1) \in Word /\ Top(2) \in Word
      BY <1>1, <1>3, NeedsMet
<1>5. Pops(2)
      BY <1>3, <1>4, StackPopped DEF Pops
<1>6. program_counter' = program_counter + 1 /\ UNCHANGED stopped
      BY <1>2 DEF op_sstore, Next1, Goto, ended
<1>. QED BY <1>3, <1>4, <1>5, <1>6

LEMMA DoesJumpi ==
    ASSUME IInv, context.value = 0, Handled, opcode = OP.JUMPI
    PROVE  /\ 2 <= Len(execution_stack) /\ Pops(2) /\ UNCHANGED <<storage, stopped>>
           /\ \/ Top(2) # 0 /\ program_counter' \in valid_jumpdests
              \/ Top(2) = 0 /\ program_counter' = program_counter + 1
<1>1. Needs(opcode) = 2
      BY Arity DEF Takes2
<1>2. op_jump
      BY DEF Handled
<1>3. Executes({OP.JUMP, OP.JUMPI}) /\ Replace(2, <<>>)
      BY <1>1, <1>2 DEF op_jump
<1>4. 2 <= Len(execution_stack) /\ Operand(2) = Top(2)
      BY <1>1, <1>3, NeedsMet
<1>5. Pops(2)
      BY <1>3, <1>4, StackPopped DEF Pops
<1>6. \/ Top(2) # 0 /\ program_counter' \in valid_jumpdests
      \/ Top(2) = 0 /\ program_counter' = program_counter + 1
      BY <1>2, <1>4 DEF op_jump, Jumps, Next1, Goto
<1>7. UNCHANGED <<storage, stopped>>
      BY <1>2 DEF op_jump, Data, ended
<1>. QED BY <1>4, <1>5, <1>6, <1>7

LEMMA DoesSwap ==
    ASSUME IInv, context.value = 0, Handled, opcode = OP.SWAP1
    PROVE  LET s == execution_stack
               t == execution_stack'
           IN  /\ 2 <= Len(s) /\ Len(t) = Len(s)
               /\ FromTop(t, 1) = FromTop(s, 2) /\ FromTop(t, 2) = FromTop(s, 1)
               /\ \A j \in 3..Len(s) : FromTop(t, j) = FromTop(s, j)
               /\ Steps(1)
<1>1. opcode \in SWAP /\ Needs(opcode) = 2
  <2>1. OP.SWAP1 = 144
        BY Opcodes
  <2>2. opcode \in SWAP
        BY <2>1 DEF SWAP
  <2>. QED BY <2>1, <2>2, Arity
<1>2. op_swap
      BY <1>1 DEF Handled
<1>. DEFINE C == Word
            s == execution_stack
            t == execution_stack'
<1>3. /\ Executes(SWAP)
      /\ t = [s EXCEPT ![Depth] = Operand(2), ![Depth - 2 + 1] = Operand(1)]
      BY <1>1, <1>2 DEF op_swap
<1>4. 2 <= Len(s) /\ Len(s) \in Nat
      BY <1>1, <1>3, NeedsMet
<1>5. s \in Seq(C)
  <2>1. Cell = Word
        BY WordValues DEF Cell
  <2>. QED BY <2>1 DEF IInv, StackInv
<1>6. t = [s EXCEPT ![Len(s)] = s[Len(s) - 1], ![Len(s) - 1] = s[Len(s)]]
  <2>1. Len(s) - 2 + 1 = Len(s) - 1 /\ Len(s) - 1 + 1 = Len(s)
        BY <1>4
  <2>. QED BY <1>3, <2>1 DEF Operand, Depth
<1>7. Steps(1)
      BY <1>2 DEF op_swap, Next1, Goto, Data, ended, Steps
<1>. HIDE DEF C, s, t
<1>8. /\ Len(t) = Len(s)
      /\ t[Len(s)] = s[Len(s) - 1] /\ t[Len(s) - 1] = s[Len(s)]
      /\ \A i \in 1..(Len(s) - 2) : t[i] = s[i]
      BY <1>4, <1>5, <1>6, ExchangedTop
<1>9. /\ FromTop(t, 1) = FromTop(s, 2) /\ FromTop(t, 2) = FromTop(s, 1)
      /\ \A j \in 3..Len(s) : FromTop(t, j) = FromTop(s, j)
      BY <1>4, <1>5, <1>8, SwappedTop
<1>. QED BY <1>4, <1>7, <1>8, <1>9 DEF s, t

LEMMA DoesPush ==
    ASSUME IInv, context.value = 0, Handled, opcode = OP.PUSH1
    PROVE  /\ Pushes(0, from_bytes(Slice(code, program_counter + 1, 1)))
           /\ Steps(2) /\ UNCHANGED memory
<1>1. opcode \in PUSH /\ push_size(opcode) = 1
  <2>1. OP.PUSH1 = 96 /\ WordBytes \in Int /\ WordBytes >= 1
        BY Opcodes, WidthAssumption
  <2>2. opcode \in PUSH
        BY <2>1 DEF PUSH
  <2>. QED BY <2>1, <2>2 DEF push_size
<1>2. op_push
      BY <1>1 DEF Handled
<1>3. Replace(0, <<from_bytes(Slice(code, program_counter + 1, 1))>>)
      BY <1>1, <1>2 DEF op_push
<1>4. 0 <= Len(execution_stack)
      BY StackWords
<1>. DEFINE v == from_bytes(Slice(code, program_counter + 1, 1))
<1>. HIDE DEF v
<1>5. Pushes(0, v)
  <2>1. Replace(0, <<v>>)
        BY <1>3 DEF v
  <2>. QED BY <1>4, <2>1, StackPushed DEF Pushes
<1>6. Steps(2) /\ UNCHANGED memory
  <2>1. program_counter \in Nat
        BY DEF IInv, PositionInv
  <2>2. program_counter' = program_counter + 1 + 1
        BY <1>1, <1>2 DEF op_push, Goto
  <2>3. UNCHANGED <<storage, stopped, memory>>
        BY <1>2 DEF op_push, Data, ended
  <2>. QED BY <2>1, <2>2, <2>3 DEF Steps
<1>. QED BY <1>5, <1>6 DEF v

LEMMA DoesCopy ==
    ASSUME IInv, context.value = 0, Handled, opcode = OP.CODECOPY
    PROVE  /\ 3 <= Len(execution_stack) /\ Pops(3) /\ Steps(1)
           /\ \A i \in 1..3 : Top(i) \in Word
           /\ memory' = write_range(memory, Top(1), Slice(code, Top(2), Top(3)))
<1>1. Needs(opcode) = 3
      BY Arity DEF Takes3
<1>2. Copy
      BY DEF Handled
<1>3. /\ Executes({OP.CALLDATACOPY, OP.CODECOPY}) /\ Replace(3, <<>>)
      /\ memory' = write_range(memory, Operand(1), Slice(code, Operand(2), Operand(3)))
      BY <1>2 DEF Copy, Write
<1>4. /\ 3 <= Len(execution_stack)
      /\ \A i \in 1..3 : Operand(i) = Top(i) /\ Top(i) \in Word
      BY <1>1, <1>3, NeedsMet
<1>5. Pops(3)
      BY <1>3, <1>4, StackPopped DEF Pops
<1>6. Steps(1)
      BY <1>2 DEF Copy, Next1, Goto, ended, Steps
<1>7. 1 \in 1..3 /\ 2 \in 1..3 /\ 3 \in 1..3
      OBVIOUS
<1>. QED BY <1>3, <1>4, <1>5, <1>6, <1>7

LEMMA DoesReturn ==
    ASSUME IInv, context.value = 0, Handled, opcode = OP.RETURN
    PROVE  /\ 2 <= Len(execution_stack) /\ Top(1) \in Word /\ Top(2) \in Word
           /\ return_data' = Slice(memory, Top(1), Top(2)) /\ stopped'
           /\ UNCHANGED storage
<1>1. Needs(opcode) = 2
      BY Arity DEF Takes2
<1>2. Answer
      BY DEF Handled
<1>3. Executes({OP.RETURN, OP.REVERT})
      BY <1>2 DEF Answer
<1>4. /\ 2 <= Len(execution_stack)
      /\ Operand(1) = Top(1) /\ Operand(2) = Top(2) /\ Top(1) \in Word /\ Top(2) \in Word
      BY <1>1, <1>3, NeedsMet
<1>5. /\ return_data' = Slice(memory, Operand(1), Operand(2)) /\ stopped' = TRUE
      /\ UNCHANGED storage
      BY <1>2 DEF Answer
<1>. QED BY <1>4, <1>5

-----------------------------------------------------------------------------
(* ... read from the top *)

LEMMA PushedOnTop ==
    ASSUME Len(execution_stack) \in Nat, NEW v, Pushes(0, v)
    PROVE  LET s == execution_stack
               t == execution_stack'
           IN  /\ OnTop(t, <<v>>)
               /\ \A a : OnTop(s, <<a>>) => OnTop(t, <<v, a>>)
               /\ \A a, b : OnTop(s, <<a, b>>) => OnTop(t, <<v, a, b>>)
               /\ \A a, b, c : OnTop(s, <<a, b, c>>) => OnTop(t, <<v, a, b, c>>)
               /\ \A a, b, c, d : OnTop(s, <<a, b, c, d>>) => OnTop(t, <<v, a, b, c, d>>)
<1>. DEFINE s == execution_stack
            t == execution_stack'
<1>1. /\ Len(t) = Len(s) + 1 /\ FromTop(t, 1) = v /\ Len(t) \in Nat
      /\ \A j \in 2..(Len(s) + 1) : FromTop(t, j) = FromTop(s, j - 1)
      BY DEF Pushes
<1>. HIDE DEF s, t
<1>2. /\ Len(s) >= 1 => FromTop(t, 2) = FromTop(s, 1)
      /\ Len(s) >= 2 => FromTop(t, 3) = FromTop(s, 2)
      /\ Len(s) >= 3 => FromTop(t, 4) = FromTop(s, 3)
      /\ Len(s) >= 4 => FromTop(t, 5) = FromTop(s, 4)
  <2>1. Len(s) \in Nat
        BY DEF s
  <2>. QED BY <1>1, <2>1
<1>3. Len(s) \in Nat
      BY DEF s
<1>4. OnTop(t, <<v>>)
      BY <1>1, <1>3, TopWords
<1>5. \A a : OnTop(s, <<a>>) => OnTop(t, <<v, a>>)
      BY <1>1, <1>2, <1>3, TopWords
<1>6. \A a, b : OnTop(s, <<a, b>>) => OnTop(t, <<v, a, b>>)
      BY <1>1, <1>2, <1>3, TopWords
<1>7. \A a, b, c : OnTop(s, <<a, b, c>>) => OnTop(t, <<v, a, b, c>>)
      BY <1>1, <1>2, <1>3, TopWords
<1>8. \A a, b, c, d : OnTop(s, <<a, b, c, d>>) => OnTop(t, <<v, a, b, c, d>>)
      BY <1>1, <1>2, <1>3, TopWords
<1>. QED BY <1>4, <1>5, <1>6, <1>7, <1>8 DEF s, t

LEMMA ReplacedOnTop ==
    ASSUME Len(execution_stack) \in Nat, NEW v
    PROVE  LET s == execution_stack
               t == execution_stack'
           IN  /\ \A a, b : Pushes(1, v) /\ OnTop(s, <<a, b>>) => OnTop(t, <<v, b>>)
               /\ \A a, b, c : Pushes(1, v) /\ OnTop(s, <<a, b, c>>) => OnTop(t, <<v, b, c>>)
               /\ \A a, b, c : Pushes(2, v) /\ OnTop(s, <<a, b, c>>) => OnTop(t, <<v, c>>)
               /\ \A a, b, c, d :
                     Pushes(2, v) /\ OnTop(s, <<a, b, c, d>>) => OnTop(t, <<v, c, d>>)
               /\ \A a, b, c, d, e :
                     Pushes(2, v) /\ OnTop(s, <<a, b, c, d, e>>) => OnTop(t, <<v, c, d, e>>)
<1>. DEFINE s == execution_stack
            t == execution_stack'
<1>1. Len(s) \in Nat
      OBVIOUS
<1>2. ASSUME Pushes(1, v), Len(s) >= 2
      PROVE  /\ Len(t) = Len(s) /\ FromTop(t, 1) = v /\ FromTop(t, 2) = FromTop(s, 2)
             /\ Len(s) >= 3 => FromTop(t, 3) = FromTop(s, 3)
      BY <1>1, <1>2 DEF Pushes
<1>3. ASSUME Pushes(2, v), Len(s) >= 3
      PROVE  /\ Len(t) = Len(s) - 1 /\ FromTop(t, 1) = v /\ FromTop(t, 2) = FromTop(s, 3)
             /\ Len(s) >= 4 => FromTop(t, 3) = FromTop(s, 4)
             /\ Len(s) >= 5 => FromTop(t, 4) = FromTop(s, 5)
      BY <1>1, <1>3 DEF Pushes
<1>. HIDE DEF s, t
<1>4. /\ \A a, b : Pushes(1, v) /\ OnTop(s, <<a, b>>) => OnTop(t, <<v, b>>)
      /\ \A a, b, c : Pushes(1, v) /\ OnTop(s, <<a, b, c>>) => OnTop(t, <<v, b, c>>)
      BY <1>1, <1>2, TopWords
<1>5. /\ \A a, b, c : Pushes(2, v) /\ OnTop(s, <<a, b, c>>) => OnTop(t, <<v, c>>)
      /\ \A a, b, c, d : Pushes(2, v) /\ OnTop(s, <<a, b, c, d>>) => OnTop(t, <<v, c, d>>)
      /\ \A a, b, c, d, e :
            Pushes(2, v) /\ OnTop(s, <<a, b, c, d, e>>) => OnTop(t, <<v, c, d, e>>)
      BY <1>1, <1>3, TopWords
<1>. QED BY <1>4, <1>5 DEF s, t

LEMMA PoppedOnTop ==
    ASSUME Len(execution_stack) \in Nat
    PROVE  LET s == execution_stack
               t == execution_stack'
           IN  /\ \A a, b, c : Pops(2) /\ OnTop(s, <<a, b, c>>) => OnTop(t, <<c>>)
               /\ \A a, b, c, d, e : Pops(2) /\ OnTop(s, <<a, b, c, d, e>>) => OnTop(t, <<c, d, e>>)
<1>. DEFINE s == execution_stack
            t == execution_stack'
<1>1. Len(s) \in Nat
      OBVIOUS
<1>2. ASSUME Pops(2), Len(s) >= 3
      PROVE  /\ Len(t) = Len(s) - 2 /\ FromTop(t, 1) = FromTop(s, 3)
             /\ Len(s) >= 4 => FromTop(t, 2) = FromTop(s, 4)
             /\ Len(s) >= 5 => FromTop(t, 3) = FromTop(s, 5)
      BY <1>1, <1>2 DEF Pops
<1>. HIDE DEF s, t
<1>3. /\ \A a, b, c : Pops(2) /\ OnTop(s, <<a, b, c>>) => OnTop(t, <<c>>)
      /\ \A a, b, c, d, e : Pops(2) /\ OnTop(s, <<a, b, c, d, e>>) => OnTop(t, <<c, d, e>>)
      BY <1>1, <1>2, TopWords
<1>. QED BY <1>3 DEF s, t

LEMMA SwappedOnTop ==
    ASSUME NEW s, NEW t, Len(s) \in Nat, Len(t) = Len(s),
           FromTop(t, 1) = FromTop(s, 2), FromTop(t, 2) = FromTop(s, 1),
           \A j \in 3..Len(s) : FromTop(t, j) = FromTop(s, j)
    PROVE  /\ \A a, b, c : OnTop(s, <<a, b, c>>) => OnTop(t, <<b, a, c>>)
           /\ \A a, b, c, d : OnTop(s, <<a, b, c, d>>) => OnTop(t, <<b, a, c, d>>)
<1>1. /\ Len(s) >= 3 => FromTop(t, 3) = FromTop(s, 3)
      /\ Len(s) >= 4 => FromTop(t, 4) = FromTop(s, 4)
      OBVIOUS
<1>. QED BY <1>1, TopWords

-----------------------------------------------------------------------------
(* The sum of a book *)

LEMMA BookFinite ==
    ASSUME NEW s, IsBook(s)
    PROVE  IsFiniteSet(DOMAIN s) /\ \A k \in DOMAIN s : s[k] \in Nat
<1>1. MOD_VALUE \in Nat /\ Word \subseteq Nat
      BY WordValues
<1>2. IsFiniteSet(Word)
  <2>1. 0 \in Int /\ MOD_VALUE - 1 \in Int
        BY <1>1
  <2>. QED BY <2>1, FS_Interval DEF Word
<1>3. DOMAIN s \subseteq Word /\ \A k \in DOMAIN s : s[k] \in Word
      BY DEF IsBook
<1>. QED BY <1>1, <1>2, <1>3, FS_Subset

LEMMA SumNatural ==
    ASSUME NEW S, IsFiniteSet(S), NEW f, \A x \in S : f[x] \in Nat
    PROVE  \A T \in SUBSET S : SumFunctionOnSet(f, T) \in Nat
<1>. DEFINE P == {T \in SUBSET S : SumFunctionOnSet(f, T) \in Nat}
<1>1. \A x \in S : f[x] \in Int
      OBVIOUS
<1>2. {} \in P
      BY <1>1, SumIsSum
<1>3. ASSUME NEW T \in SUBSET S, T # {}, \A x \in T : T \ {x} \in P
      PROVE  T \in P
  <2>1. PICK a \in T : TRUE
        BY <1>3
  <2>2. IsFiniteSet(T) /\ \A x \in T : f[x] \in Int
        BY <1>1, FS_Subset
  <2>3. SumFunctionOnSet(f, T) = f[a] + SumFunctionOnSet(f, T \ {a})
        BY <2>1, <2>2, SumElement
  <2>4. SumFunctionOnSet(f, T \ {a}) \in Nat /\ f[a] \in Nat
        BY <1>3, <2>1
  <2>. QED BY <2>3, <2>4
<1>. HIDE DEF P
<1>4. \A T \in SUBSET S : T \in P
      BY <1>2, <1>3, SubsetInduction
<1>. QED BY <1>4 DEF P

(* No slot holds more than all do.                                           *)
LEMMA SlotWithinSum ==
    ASSUME NEW s, IsBook(s)
    PROVE  /\ SumFunction(s) \in Nat
           /\ \A k \in DOMAIN s : s[k] \in Nat /\ s[k] <= SumFunction(s)
<1>. DEFINE D == DOMAIN s
            Sum(T) == SumFunctionOnSet(s, T)
<1>1. IsFiniteSet(D) /\ \A k \in D : s[k] \in Nat
      BY BookFinite
<1>2. \A k \in D : s[k] \in Int
      BY <1>1
<1>3. \A T \in SUBSET D : Sum(T) \in Nat
      BY <1>1, SumNatural
<1>4. ASSUME NEW k \in D
      PROVE  s[k] <= Sum(D)
  <2>1. Sum(D) = s[k] + Sum(D \ {k})
        BY <1>1, <1>2, SumElement
  <2>2. Sum(D \ {k}) \in Nat /\ s[k] \in Nat
        BY <1>1, <1>3
  <2>. HIDE DEF Sum
  <2>. QED BY <2>1, <2>2
<1>. QED BY <1>1, <1>3, <1>4 DEF SumFunction

(* What writing a slot makes of the sum.                                     *)
LEMMA StoreSum ==
    ASSUME NEW s, IsBook(s), NEW key \in Word, NEW value \in Word
    PROVE  LET t == Stored(s, key, value) IN
           /\ IsBook(t)
           /\ key \in DOMAIN s => SumFunction(t) = SumFunction(s) - s[key] + value
           /\ key \notin DOMAIN s => SumFunction(t) = SumFunction(s) + value
           /\ t[key] = value
           /\ \A k \in Word : k # key => /\ k \in DOMAIN t <=> k \in DOMAIN s
                                         /\ k \in DOMAIN s => t[k] = s[k]
<1>. DEFINE t == Stored(s, key, value)
            D == DOMAIN s
            Rest == D \ {key}
            Sum(f, T) == SumFunctionOnSet(f, T)
<1>1. /\ DOMAIN t = D \cup {key} /\ t[key] = value
      /\ \A k \in D \ {key} : t[k] = s[k]
      BY DEF Stored
<1>2. IsBook(t)
  <2>1. \A k \in D : s[k] \in Word
        BY DEF IsBook
  <2>2. t \in [D \cup {key} -> Word]
        BY <2>1 DEF Stored
  <2>. QED BY <1>1, <2>2 DEF IsBook
<1>. HIDE DEF t
<1>3. /\ IsFiniteSet(D) /\ \A k \in D : s[k] \in Int
      /\ IsFiniteSet(DOMAIN t) /\ \A k \in DOMAIN t : t[k] \in Int
      BY <1>2, BookFinite
<1>4. Sum(t, Rest) = Sum(s, Rest)
  <2>1. IsFiniteSet(Rest) /\ \A x \in Rest : s[x] \in Int /\ t[x] = s[x]
        BY <1>1, <1>3, FS_Subset
  <2>. QED BY <2>1, SumAgrees
<1>5. Sum(t, DOMAIN t) = value + Sum(t, Rest)
  <2>1. key \in DOMAIN t /\ DOMAIN t \ {key} = Rest
        BY <1>1
  <2>2. Sum(t, DOMAIN t) = t[key] + Sum(t, DOMAIN t \ {key})
        BY <1>3, <2>1, SumElement
  <2>. QED BY <1>1, <2>1, <2>2
<1>6. key \in D => Sum(s, D) = s[key] + Sum(s, Rest)
      BY <1>3, SumElement
<1>7. key \notin D => Rest = D
      OBVIOUS
<1>8. Sum(s, Rest) \in Int
  <2>1. IsFiniteSet(Rest) /\ \A x \in Rest : s[x] \in Int
        BY <1>3, FS_Subset
  <2>. QED BY <2>1, SumElement
<1>9. value \in Int /\ (key \in D => s[key] \in Int)
      BY <1>3, WordValues
<1>. DEFINE all == Sum(t, DOMAIN t)
            before == Sum(s, D)
            rest == Sum(s, Rest)
<1>10. all = value + rest /\ (key \in D => before = s[key] + rest) /\ (key \notin D => before = rest)
       BY <1>4, <1>5, <1>6, <1>7
<1>11. rest \in Int
       BY <1>8
<1>. HIDE DEF all, before, rest
<1>12. /\ key \in D => all = before - s[key] + value
       /\ key \notin D => all = before + value
       BY <1>9, <1>10, <1>11
<1>13. SumFunction(t) = all /\ SumFunction(s) = before
       BY DEF SumFunction, all, before
<1>14. \A k \in Word : k # key => /\ k \in DOMAIN t <=> k \in D
                                  /\ k \in D => t[k] = s[k]
       BY <1>1
<1>. QED BY <1>1, <1>2, <1>12, <1>13, <1>14 DEF t

-----------------------------------------------------------------------------
(* The transfer handler *)

(* What Balanced says of the next position, if nothing is stored.            *)
LEMMA StillBalanced ==
    ASSUME NEW at \in Nat, NEW c, NEW amount, NEW to, Balanced(at, c, amount, to),
           UNCHANGED storage,
           NEW n \in Nat, NEW a, NEW r,
           n \in 17..21 => a <= Slot(c),
           Pending(n, a) = Pending(at, amount),
           TransferStack(n, c, a, r)'
    PROVE  Balanced(n, c, a, r)'
<1>1. Slot(c)' = Slot(c)
      BY DEF Slot
<1>2. SumFunction(storage)' + Pending(n, a) = INITIAL_SUPPLY
      BY DEF Balanced
<1>3. Pending(n, a)' = Pending(n, a)
      BY DEF Pending
<1>. QED BY <1>1, <1>2, <1>3 DEF Balanced

(* What TransferStack says of it.                                            *)
LEMMA StackAt ==
    ASSUME NEW c, NEW a, NEW r, UNCHANGED storage
    PROVE  LET has(values) == OnTop(execution_stack', values) IN
           /\ has(<<c>>) => TransferStack(9, c, a, r)'
           /\ has(<<c, c>>) => TransferStack(10, c, a, r)'
           /\ has(<<Slot(c), c>>) => TransferStack(11, c, a, r)'
           /\ has(<<a, Slot(c), c, a>>) => TransferStack(12, c, a, r)' /\ TransferStack(18, c, a, r)'
           /\ has(<<Slot(c), a, Slot(c), c, a>>) => TransferStack(13, c, a, r)'
           /\ has(<<Flag(Slot(c) < a), Slot(c), c, a>>) => TransferStack(14, c, a, r)'
           /\ \A d : has(<<d, Flag(Slot(c) < a), Slot(c), c, a>>) => TransferStack(16, c, a, r)'
           /\ has(<<Slot(c), c, a>>) => TransferStack(17, c, a, r)'
           /\ has(<<Slot(c), a, c, a>>) => TransferStack(19, c, a, r)'
           /\ has(<<Slot(c) - a, c, a>>) => TransferStack(20, c, a, r)'
           /\ has(<<c, Slot(c) - a, a>>) => TransferStack(21, c, a, r)'
           /\ has(<<r, a, r>>) => TransferStack(23, c, a, r)'
           /\ has(<<Slot(r), a, r>>) => TransferStack(24, c, a, r)'
           /\ has(<<Slot(r) + a, r>>) => TransferStack(25, c, a, r)'
           /\ has(<<r, Slot(r) + a, r>>) => TransferStack(26, c, a, r)'
<1>1. Slot(c)' = Slot(c) /\ Slot(r)' = Slot(r)
      BY DEF Slot
<1>. DEFINE has(values) == OnTop(execution_stack', values)
<1>2. has(<<c>>) => TransferStack(9, c, a, r)'
      BY <1>1 DEF TransferStack, Has
<1>3. has(<<c, c>>) => TransferStack(10, c, a, r)'
      BY <1>1 DEF TransferStack, Has
<1>4. has(<<Slot(c), c>>) => TransferStack(11, c, a, r)'
      BY <1>1 DEF TransferStack, Has
<1>5. has(<<a, Slot(c), c, a>>) => TransferStack(12, c, a, r)'
      BY <1>1 DEF TransferStack, Has
<1>6. has(<<Slot(c), a, Slot(c), c, a>>) => TransferStack(13, c, a, r)'
      BY <1>1 DEF TransferStack, Has
<1>7. has(<<Flag(Slot(c) < a), Slot(c), c, a>>) => TransferStack(14, c, a, r)'
      BY <1>1 DEF TransferStack, Has
<1>8. ASSUME NEW d, has(<<d, Flag(Slot(c) < a), Slot(c), c, a>>)
      PROVE  TransferStack(16, c, a, r)'
  <2>1. \E e : OnTop(execution_stack', <<e, Flag(Slot(c)' < a), Slot(c)', c, a>>)
        BY <1>1, <1>8
  <2>. QED BY <2>1 DEF TransferStack, Has
<1>9. has(<<Slot(c), c, a>>) => TransferStack(17, c, a, r)'
      BY <1>1 DEF TransferStack, Has
<1>10. has(<<a, Slot(c), c, a>>) => TransferStack(18, c, a, r)'
      BY <1>1 DEF TransferStack, Has
<1>11. has(<<Slot(c), a, c, a>>) => TransferStack(19, c, a, r)'
      BY <1>1 DEF TransferStack, Has
<1>12. has(<<Slot(c) - a, c, a>>) => TransferStack(20, c, a, r)'
      BY <1>1 DEF TransferStack, Has
<1>13. has(<<c, Slot(c) - a, a>>) => TransferStack(21, c, a, r)'
      BY <1>1 DEF TransferStack, Has
<1>14. has(<<r, a, r>>) => TransferStack(23, c, a, r)'
      BY <1>1 DEF TransferStack, Has
<1>15. has(<<Slot(r), a, r>>) => TransferStack(24, c, a, r)'
      BY <1>1 DEF TransferStack, Has
<1>16. has(<<Slot(r) + a, r>>) => TransferStack(25, c, a, r)'
      BY <1>1 DEF TransferStack, Has
<1>17. has(<<r, Slot(r) + a, r>>) => TransferStack(26, c, a, r)'
      BY <1>1 DEF TransferStack, Has
<1>. QED BY <1>2, <1>3, <1>4, <1>5, <1>6, <1>7, <1>8, <1>9, <1>10, <1>11, <1>12, <1>13, <1>14,
            <1>15, <1>16, <1>17

LEMMA Results ==
    /\ OP.LT \in Binary /\ OP.SUB \in Binary /\ OP.ADD \in Binary
    /\ \A x, y : Result(OP.LT, x, y) = Flag(x < y)
    /\ \A x, y \in Word : y <= x => Result(OP.SUB, x, y) = x - y
    /\ \A x, y, z \in Word : x + y <= z => Result(OP.ADD, x, y) = x + y
<1>1. OP.LT \in Binary /\ OP.SUB \in Binary /\ OP.ADD \in Binary
      BY DEF Binary
<1>2. \A x, y : /\ Result(OP.LT, x, y) = Flag(x < y)
                /\ Result(OP.SUB, x, y) = (x - y) % MOD_VALUE
                /\ Result(OP.ADD, x, y) = (x + y) % MOD_VALUE
      BY Opcodes DEF Result, ResultOf
<1>3. MOD_VALUE \in Nat /\ MOD_VALUE >= 1
      BY WordValues
<1>4. ASSUME NEW n \in Nat, n < MOD_VALUE
      PROVE  n % MOD_VALUE = n
      BY <1>3, <1>4
<1>5. ASSUME NEW x \in Word, NEW y \in Word, y <= x
      PROVE  Result(OP.SUB, x, y) = x - y
  <2>1. x - y \in Nat /\ x - y < MOD_VALUE
        BY <1>3, <1>5 DEF Word
  <2>. QED BY <1>2, <1>4, <2>1
<1>6. ASSUME NEW x \in Word, NEW y \in Word, NEW z \in Word, x + y <= z
      PROVE  Result(OP.ADD, x, y) = x + y
  <2>1. x + y \in Nat /\ x + y < MOD_VALUE
        BY <1>3, <1>6 DEF Word
  <2>. QED BY <1>2, <1>4, <2>1
<1>. QED BY <1>1, <1>2, <1>5, <1>6

(* What the recipient gets fits into a word: it is part of the supply.       *)
LEMMA Affords ==
    ASSUME IsBook(storage), NEW at \in Nat, at \in 22..26, NEW c, NEW amount \in Word, NEW to \in Word,
           Balanced(at, c, amount, to)
    PROVE  Slot(to) + amount <= INITIAL_SUPPLY
<1>1. SumFunction(storage) + amount = INITIAL_SUPPLY
  <2>1. Pending(at, amount) = amount
        BY DEF Pending
  <2>. QED BY <2>1 DEF Balanced
<1>2. SumFunction(storage) \in Nat /\ Slot(to) \in Nat /\ Slot(to) <= SumFunction(storage)
      BY SlotWithinSum DEF Slot
<1>3. amount \in Nat
      BY WordValues
<1>. DEFINE sum == SumFunction(storage)
            slot == Slot(to)
<1>. HIDE DEF sum, slot
<1>4. slot + amount <= INITIAL_SUPPLY
  <2>1. sum + amount = INITIAL_SUPPLY /\ sum \in Nat /\ slot \in Nat /\ slot <= sum
        BY <1>1, <1>2 DEF sum, slot
  <2>. QED BY <1>3, <2>1
<1>. QED BY <1>4 DEF slot

(* What SSTORE makes of the sum.                                             *)
LEMMA SlotStored ==
    ASSUME IsBook(storage), NEW k \in Word, NEW v \in Word, storage' = Stored(storage, k, v)
    PROVE  IsBook(storage') /\ SumFunction(storage)' = SumFunction(storage) - Slot(k) + v
<1>1. LET t == Stored(storage, k, v) IN
      /\ IsBook(t)
      /\ k \in DOMAIN storage => SumFunction(t) = SumFunction(storage) - storage[k] + v
      /\ k \notin DOMAIN storage => SumFunction(t) = SumFunction(storage) + v
      BY StoreSum
<1>2. /\ k \in DOMAIN storage => Slot(k) = storage[k]
      /\ k \notin DOMAIN storage => Slot(k) = 0
      BY DEF Slot
<1>3. SumFunction(storage) \in Nat
      BY SlotWithinSum
<1>. DEFINE sum == SumFunction(storage)
<1>. HIDE DEF sum
<1>4. k \notin DOMAIN storage => sum + v = sum - Slot(k) + v
      BY <1>2, <1>3, WordValues DEF sum
<1>. QED BY <1>1, <1>2, <1>4 DEF sum

(* One step of the handler.                                                  *)
LEMMA TransferStep ==
    ASSUME IInv, context.value = 0, Handled, IsBook(storage),
           NEW at \in Nat, at \in 8..26, at # 15, program_counter = Handlers + at,
           Within(code, Handlers, TransferHandler),
           NEW c \in Word, c = context.caller, NEW amount \in Word, NEW to \in Word,
           Balanced(at, c, amount, to)
    PROVE  \/ /\ at = 16 /\ program_counter' \in valid_jumpdests
              /\ UNCHANGED <<storage, stopped>>
           \/ \E n \in 9..27, a \in Word, r \in Word :
                 /\ program_counter' = Handlers + n /\ UNCHANGED stopped
                 /\ Balanced(n, c, a, r)'
<1>. DEFINE s == execution_stack
            b == Slot(c)
            has(values) == OnTop(execution_stack, values)
            leaves(values) == OnTop(execution_stack', values)
            Goal == \E n \in 9..27, a \in Word, r \in Word :
                       /\ program_counter' = Handlers + n /\ UNCHANGED stopped
                       /\ Balanced(n, c, a, r)'
<1>1. /\ at = 8 => opcode = OP.CALLER
      /\ at = 9 => opcode = DUPn(1)
      /\ at = 10 => opcode = OP.SLOAD
      /\ at = 11 => opcode = DUPn(3)
      /\ at = 12 => opcode = DUPn(2)
      /\ at = 13 => opcode = OP.LT
      /\ at = 14 => opcode = OP.PUSH1
      /\ at = 16 => opcode = OP.JUMPI
      /\ at = 17 => opcode = DUPn(3)
      /\ at = 18 => opcode = OP.SWAP1
      /\ at = 19 => opcode = OP.SUB
      /\ at = 20 => opcode = OP.SWAP1
      /\ at = 21 => opcode = OP.SSTORE
      /\ at = 22 => opcode = DUPn(2)
      /\ at = 23 => opcode = OP.SLOAD
      /\ at = 24 => opcode = OP.ADD
      /\ at = 25 => opcode = DUPn(2)
      /\ at = 26 => opcode = OP.SSTORE
  <2>1. Handlers \in Nat /\ code \in Seq(Byte)
        BY SmallBytes DEF Byte, IInv, MadeInv
  <2>2. opcode = code[Handlers + at + 1]
        BY DEF opcode
  <2>3. /\ code[Handlers + 9] = OP.CALLER
        /\ code[Handlers + 10] = DUPn(1)
        /\ code[Handlers + 11] = OP.SLOAD
        /\ code[Handlers + 12] = DUPn(3)
        /\ code[Handlers + 13] = DUPn(2)
        /\ code[Handlers + 14] = OP.LT
        /\ code[Handlers + 15] = OP.PUSH1
        /\ code[Handlers + 17] = OP.JUMPI
        /\ code[Handlers + 18] = DUPn(3)
        /\ code[Handlers + 19] = OP.SWAP1
        /\ code[Handlers + 20] = OP.SUB
        /\ code[Handlers + 21] = OP.SWAP1
        /\ code[Handlers + 22] = OP.SSTORE
        /\ code[Handlers + 23] = DUPn(2)
        /\ code[Handlers + 24] = OP.SLOAD
        /\ code[Handlers + 25] = OP.ADD
        /\ code[Handlers + 26] = DUPn(2)
        /\ code[Handlers + 27] = OP.SSTORE
        BY <2>1, TransferCode
  <2>4. ASSUME NEW n \in Nat, at = n PROVE opcode = code[Handlers + (n + 1)]
    <3>1. Handlers + at + 1 = Handlers + (n + 1)
          BY <2>1, <2>4
    <3>. QED BY <2>2, <3>1
  <2>. QED BY <2>3, <2>4
<1>2. Len(s) \in Nat /\ \A i \in 1..Len(s) : Top(i) \in Word
      BY StackWords DEF Top
<1>3. Slot(c) \in Word /\ Slot(to) \in Word
      BY WordValues DEF Slot, IsBook
<1>4. Word = 0..(MOD_VALUE - 1) /\ MOD_VALUE \in Nat /\ INITIAL_SUPPLY \in Word
      BY WordValues, ClientAssumption DEF Word
<1>5. ASSUME NEW n \in 9..27, NEW a \in Word, NEW r \in Word,
             n = at + 1, Steps(1),
             TransferStack(n, c, a, r)', n \in 17..21 => a <= Slot(c),
             Pending(n, a) = Pending(at, amount)
      PROVE  Goal
  <2>1. Balanced(n, c, a, r)'
        BY <1>5, StillBalanced DEF Steps
  <2>2. program_counter' = Handlers + n /\ UNCHANGED stopped
    <3>1. Handlers \in Nat
          BY SmallBytes DEF Byte
    <3>. QED BY <1>5, <3>1 DEF Steps
  <2>. QED BY <2>1, <2>2
<1>. HIDE DEF Goal
<1>6. ASSUME at = 8 PROVE Goal
  <2>1. Pushes(0, c) /\ Steps(1)
        BY <1>1, <1>6, DoesCaller
  <2>2. leaves(<<c>>)
        BY <1>2, <2>1, PushedOnTop
  <2>3. TransferStack(9, c, amount, to)'
        BY <2>1, <2>2, StackAt DEF Steps
  <2>4. Pending(9, amount) = Pending(at, amount)
        BY <1>6 DEF Pending
  <2>. QED BY <1>5, <1>6, <2>1, <2>2, <2>3, <2>4
<1>7. ASSUME at = 9 PROVE Goal
  <2>1. has(<<c>>)
        BY <1>7 DEF Balanced, TransferStack, Has
  <2>2. 1 <= Len(s) /\ Pushes(0, Top(1)) /\ Steps(1)
        BY <1>1, <1>7, DoesDup
  <2>3. Top(1) = c
        BY <1>2, <2>1, TopWords DEF Top
  <2>4. leaves(<<c, c>>)
        BY <1>2, <2>1, <2>2, <2>3, PushedOnTop
  <2>5. TransferStack(10, c, amount, to)'
        BY <2>1, <2>2, <2>3, <2>4, StackAt DEF Steps
  <2>6. Pending(10, amount) = Pending(at, amount)
        BY <1>7 DEF Pending
  <2>. QED BY <1>5, <1>7, <2>1, <2>2, <2>3, <2>4, <2>5, <2>6
<1>8. ASSUME at = 10 PROVE Goal
  <2>1. has(<<c, c>>)
        BY <1>8 DEF Balanced, TransferStack, Has
  <2>2. Pushes(1, Slot(Top(1))) /\ Steps(1)
        BY <1>1, <1>8, DoesSload
  <2>3. Top(1) = c
        BY <1>2, <2>1, TopWords DEF Top
  <2>4. leaves(<<Slot(c), c>>)
        BY <1>2, <2>1, <2>2, <2>3, ReplacedOnTop
  <2>5. TransferStack(11, c, amount, to)'
        BY <2>1, <2>2, <2>3, <2>4, StackAt DEF Steps
  <2>6. Pending(11, amount) = Pending(at, amount)
        BY <1>8 DEF Pending
  <2>. QED BY <1>5, <1>8, <2>1, <2>2, <2>3, <2>4, <2>5, <2>6
<1>9. ASSUME at = 11 PROVE Goal
  <2>1. has(<<Slot(c), c>>)
        BY <1>9 DEF Balanced, TransferStack, Has
  <2>2. 3 <= Len(s) /\ Pushes(0, Top(3)) /\ Steps(1)
        BY <1>1, <1>9, DoesDup
  <2>3. PICK a \in Word : a = Top(3)
        BY <1>2, <2>2
  <2>4. has(<<Slot(c), c, a>>)
        BY <1>2, <2>1, <2>2, <2>3, TopWords DEF Top
  <2>5. leaves(<<a, Slot(c), c, a>>)
        BY <1>2, <2>2, <2>3, <2>4, PushedOnTop
  <2>6. TransferStack(12, c, a, to)'
        BY <2>2, <2>5, StackAt DEF Steps
  <2>7. Pending(12, a) = Pending(at, amount)
        BY <1>9 DEF Pending
  <2>. QED BY <1>5, <1>9, <2>2, <2>3, <2>6, <2>7
<1>10. ASSUME at = 12 PROVE Goal
  <2>1. has(<<amount, Slot(c), c, amount>>)
        BY <1>10 DEF Balanced, TransferStack, Has
  <2>2. 2 <= Len(s) /\ Pushes(0, Top(2)) /\ Steps(1)
        BY <1>1, <1>10, DoesDup
  <2>3. Top(2) = Slot(c)
        BY <1>2, <2>1, TopWords DEF Top
  <2>4. leaves(<<Slot(c), amount, Slot(c), c, amount>>)
        BY <1>2, <2>1, <2>2, <2>3, PushedOnTop
  <2>5. TransferStack(13, c, amount, to)'
        BY <2>1, <2>2, <2>3, <2>4, StackAt DEF Steps
  <2>6. Pending(13, amount) = Pending(at, amount)
        BY <1>10 DEF Pending
  <2>. QED BY <1>5, <1>10, <2>1, <2>2, <2>3, <2>4, <2>5, <2>6
<1>11. ASSUME at = 13 PROVE Goal
  <2>1. has(<<Slot(c), amount, Slot(c), c, amount>>)
        BY <1>11 DEF Balanced, TransferStack, Has
  <2>2. Pushes(2, Result(OP.LT, Top(1), Top(2))) /\ Steps(1)
        BY <1>1, <1>11, DoesBinary, Results
  <2>3. Result(OP.LT, Top(1), Top(2)) = Flag(Slot(c) < amount)
        BY <1>2, <2>1, TopWords, Results DEF Top
  <2>4. leaves(<<Flag(Slot(c) < amount), Slot(c), c, amount>>)
        BY <1>2, <2>1, <2>2, <2>3, ReplacedOnTop
  <2>5. TransferStack(14, c, amount, to)'
        BY <2>1, <2>2, <2>3, <2>4, StackAt DEF Steps
  <2>6. Pending(14, amount) = Pending(at, amount)
        BY <1>11 DEF Pending
  <2>. QED BY <1>5, <1>11, <2>1, <2>2, <2>3, <2>4, <2>5, <2>6
<1>12. ASSUME at = 14 PROVE Goal
  <2>. DEFINE d == from_bytes(Slice(code, program_counter + 1, 1))
  <2>1. has(<<Flag(Slot(c) < amount), Slot(c), c, amount>>)
        BY <1>12 DEF Balanced, TransferStack, Has
  <2>2. Pushes(0, d) /\ Steps(2)
        BY <1>1, <1>12, DoesPush
  <2>. HIDE DEF d
  <2>3. leaves(<<d, Flag(Slot(c) < amount), Slot(c), c, amount>>)
        BY <1>2, <2>1, <2>2, PushedOnTop
  <2>4. TransferStack(16, c, amount, to)'
        BY <2>2, <2>3, StackAt DEF Steps
  <2>5. Pending(16, amount) = Pending(at, amount)
        BY <1>12 DEF Pending
  <2>6. Balanced(16, c, amount, to)'
        BY <2>2, <2>4, <2>5, StillBalanced DEF Steps
  <2>7. program_counter' = Handlers + 16 /\ UNCHANGED stopped
    <3>1. Handlers \in Nat
          BY SmallBytes DEF Byte
    <3>. QED BY <1>12, <2>2, <3>1 DEF Steps
  <2>. QED BY <2>6, <2>7 DEF Goal
<1>13. ASSUME at = 16 PROVE Goal \/ (program_counter' \in valid_jumpdests /\ UNCHANGED <<storage, stopped>>)
  <2>1. PICK d : has(<<d, Flag(Slot(c) < amount), Slot(c), c, amount>>)
        BY <1>13 DEF Balanced, TransferStack, Has
  <2>2. /\ Pops(2) /\ UNCHANGED <<storage, stopped>>
        /\ \/ Top(2) # 0 /\ program_counter' \in valid_jumpdests
           \/ Top(2) = 0 /\ program_counter' = program_counter + 1
        BY <1>1, <1>13, DoesJumpi
  <2>3. leaves(<<Slot(c), c, amount>>)
        BY <1>2, <2>1, <2>2, PoppedOnTop
  <2>4. Top(2) = Flag(Slot(c) < amount)
        BY <1>2, <2>1, TopWords DEF Top
  <2>5. CASE Top(2) # 0
        BY <1>13, <2>2, <2>5
  <2>6. CASE Top(2) = 0
    <3>1. amount <= Slot(c)
          BY <1>3, <1>4, <2>4, <2>6 DEF Flag
    <3>2. TransferStack(17, c, amount, to)'
          BY <2>2, <2>3, StackAt
    <3>3. Pending(17, amount) = Pending(at, amount)
          BY <1>13 DEF Pending
    <3>4. Steps(1)
          BY <2>2, <2>6 DEF Steps
    <3>5. Goal
          BY <1>5, <1>13, <3>1, <3>2, <3>3, <3>4
    <3>. QED BY <3>5
  <2>. QED BY <2>5, <2>6
<1>14. ASSUME at = 17 PROVE Goal
  <2>1. has(<<Slot(c), c, amount>>)
        BY <1>14 DEF Balanced, TransferStack, Has
  <2>2. 3 <= Len(s) /\ Pushes(0, Top(3)) /\ Steps(1)
        BY <1>1, <1>14, DoesDup
  <2>3. Top(3) = amount
        BY <1>2, <2>1, TopWords DEF Top
  <2>4. leaves(<<amount, Slot(c), c, amount>>)
        BY <1>2, <2>1, <2>2, <2>3, PushedOnTop
  <2>5. TransferStack(18, c, amount, to)'
        BY <2>1, <2>2, <2>3, <2>4, StackAt DEF Steps
  <2>6. Pending(18, amount) = Pending(at, amount)
        BY <1>14 DEF Pending
  <2>7. amount <= Slot(c)
        BY <1>14 DEF Balanced
  <2>. QED BY <1>5, <1>14, <2>1, <2>2, <2>3, <2>4, <2>5, <2>6, <2>7
<1>15. ASSUME at = 18 PROVE Goal
  <2>1. has(<<amount, Slot(c), c, amount>>)
        BY <1>15 DEF Balanced, TransferStack, Has
  <2>2. /\ Len(execution_stack') = Len(s) /\ Steps(1)
        /\ FromTop(execution_stack', 1) = FromTop(s, 2) /\ FromTop(execution_stack', 2) = FromTop(s, 1)
        /\ \A j \in 3..Len(s) : FromTop(execution_stack', j) = FromTop(s, j)
        BY <1>1, <1>15, DoesSwap
  <2>3. leaves(<<Slot(c), amount, c, amount>>)
        BY <1>2, <2>1, <2>2, SwappedOnTop
  <2>4. TransferStack(19, c, amount, to)'
        BY <2>1, <2>2, <2>3, StackAt DEF Steps
  <2>5. Pending(19, amount) = Pending(at, amount)
        BY <1>15 DEF Pending
  <2>6. amount <= Slot(c)
        BY <1>15 DEF Balanced
  <2>. QED BY <1>5, <1>15, <2>1, <2>2, <2>3, <2>4, <2>5, <2>6
<1>16. ASSUME at = 19 PROVE Goal
  <2>1. has(<<Slot(c), amount, c, amount>>)
        BY <1>16 DEF Balanced, TransferStack, Has
  <2>2. Pushes(2, Result(OP.SUB, Top(1), Top(2))) /\ Steps(1)
        BY <1>1, <1>16, DoesBinary, Results
  <2>3. Top(1) = Slot(c) /\ Top(2) = amount
        BY <1>2, <2>1, TopWords DEF Top
  <2>4. amount <= Slot(c)
        BY <1>16 DEF Balanced
  <2>5. Result(OP.SUB, Top(1), Top(2)) = Slot(c) - amount
        BY <1>3, <2>3, <2>4, Results
  <2>6. leaves(<<Slot(c) - amount, c, amount>>)
        BY <1>2, <2>1, <2>2, <2>5, ReplacedOnTop
  <2>7. TransferStack(20, c, amount, to)'
        BY <2>1, <2>2, <2>3, <2>4, <2>5, <2>6, StackAt DEF Steps
  <2>8. Pending(20, amount) = Pending(at, amount)
        BY <1>16 DEF Pending
  <2>9. amount <= Slot(c)
        BY <1>16 DEF Balanced
  <2>. QED BY <1>5, <1>16, <2>1, <2>2, <2>3, <2>4, <2>5, <2>6, <2>7, <2>8, <2>9
<1>17. ASSUME at = 20 PROVE Goal
  <2>1. has(<<Slot(c) - amount, c, amount>>)
        BY <1>17 DEF Balanced, TransferStack, Has
  <2>2. /\ Len(execution_stack') = Len(s) /\ Steps(1)
        /\ FromTop(execution_stack', 1) = FromTop(s, 2) /\ FromTop(execution_stack', 2) = FromTop(s, 1)
        /\ \A j \in 3..Len(s) : FromTop(execution_stack', j) = FromTop(s, j)
        BY <1>1, <1>17, DoesSwap
  <2>3. leaves(<<c, Slot(c) - amount, amount>>)
        BY <1>2, <2>1, <2>2, SwappedOnTop
  <2>4. TransferStack(21, c, amount, to)'
        BY <2>1, <2>2, <2>3, StackAt DEF Steps
  <2>5. Pending(21, amount) = Pending(at, amount)
        BY <1>17 DEF Pending
  <2>6. amount <= Slot(c)
        BY <1>17 DEF Balanced
  <2>. QED BY <1>5, <1>17, <2>1, <2>2, <2>3, <2>4, <2>5, <2>6
<1>18. ASSUME at = 21 PROVE Goal
  <2>1. has(<<c, Slot(c) - amount, amount>>) /\ amount <= Slot(c)
        BY <1>18 DEF Balanced, TransferStack, Has
  <2>2. /\ Pops(2) /\ program_counter' = program_counter + 1 /\ UNCHANGED stopped
        /\ Top(1) \in Word /\ Top(2) \in Word
        /\ storage' = Stored(storage, Top(1), Top(2))
        BY <1>1, <1>18, DoesSstore
  <2>3. Top(1) = c /\ Top(2) = Slot(c) - amount
        BY <1>2, <2>1, TopWords DEF Top
  <2>4. leaves(<<amount>>)
        BY <1>2, <2>1, <2>2, PoppedOnTop
  <2>5. SumFunction(storage)' = SumFunction(storage) - amount
    <3>. DEFINE sum == SumFunction(storage)
                slot == Slot(c)
    <3>1. SumFunction(storage)' = sum - slot + (slot - amount)
          BY <2>2, <2>3, SlotStored
    <3>2. sum \in Nat /\ slot \in Nat /\ amount \in Nat
          BY <1>3, <1>4, SlotWithinSum
    <3>. HIDE DEF sum, slot
    <3>3. SumFunction(storage)' = sum - amount
          BY <3>1, <3>2
    <3>. QED BY <3>3 DEF sum
  <2>6. Balanced(22, c, amount, to)'
    <3>1. TransferStack(22, c, amount, to)'
          BY <2>4 DEF TransferStack, Has
    <3>2. SumFunction(storage) = INITIAL_SUPPLY
      <4>1. Pending(at, amount) = 0 /\ SumFunction(storage) \in Nat
            BY <1>18, SlotWithinSum DEF Pending
      <4>. QED BY <4>1 DEF Balanced
    <3>3. SumFunction(storage)' + Pending(22, amount) = INITIAL_SUPPLY
      <4>1. Pending(22, amount) = amount /\ SumFunction(storage) \in Nat /\ amount \in Nat
            BY <1>4, SlotWithinSum DEF Pending
      <4>. QED BY <2>5, <3>2, <4>1
    <3>4. Pending(22, amount)' = Pending(22, amount)
          BY DEF Pending
    <3>. QED BY <3>1, <3>3, <3>4 DEF Balanced
  <2>7. program_counter' = Handlers + 22
    <3>1. Handlers \in Nat
          BY SmallBytes DEF Byte
    <3>. QED BY <1>18, <2>2, <3>1
  <2>. QED BY <2>2, <2>6, <2>7 DEF Goal
<1>19. ASSUME at = 22 PROVE Goal
  <2>1. has(<<amount>>)
        BY <1>19 DEF Balanced, TransferStack, Has
  <2>2. 2 <= Len(s) /\ Pushes(0, Top(2)) /\ Steps(1)
        BY <1>1, <1>19, DoesDup
  <2>3. PICK r \in Word : r = Top(2)
        BY <1>2, <2>2
  <2>4. has(<<amount, r>>)
        BY <1>2, <2>1, <2>2, <2>3, TopWords DEF Top
  <2>5. leaves(<<r, amount, r>>)
        BY <1>2, <2>2, <2>3, <2>4, PushedOnTop
  <2>6. TransferStack(23, c, amount, r)'
        BY <2>2, <2>5, StackAt DEF Steps
  <2>7. Pending(23, amount) = Pending(at, amount)
        BY <1>19 DEF Pending
  <2>. QED BY <1>5, <1>19, <2>2, <2>3, <2>6, <2>7
<1>20. ASSUME at = 23 PROVE Goal
  <2>1. has(<<to, amount, to>>)
        BY <1>20 DEF Balanced, TransferStack, Has
  <2>2. Pushes(1, Slot(Top(1))) /\ Steps(1)
        BY <1>1, <1>20, DoesSload
  <2>3. Top(1) = to
        BY <1>2, <2>1, TopWords DEF Top
  <2>4. leaves(<<Slot(to), amount, to>>)
        BY <1>2, <2>1, <2>2, <2>3, ReplacedOnTop
  <2>5. TransferStack(24, c, amount, to)'
        BY <2>1, <2>2, <2>3, <2>4, StackAt DEF Steps
  <2>6. Pending(24, amount) = Pending(at, amount)
        BY <1>20 DEF Pending
  <2>. QED BY <1>5, <1>20, <2>1, <2>2, <2>3, <2>4, <2>5, <2>6
<1>21. ASSUME at = 24 PROVE Goal
  <2>1. has(<<Slot(to), amount, to>>)
        BY <1>21 DEF Balanced, TransferStack, Has
  <2>2. Pushes(2, Result(OP.ADD, Top(1), Top(2))) /\ Steps(1)
        BY <1>1, <1>21, DoesBinary, Results
  <2>3. Top(1) = Slot(to) /\ Top(2) = amount
        BY <1>2, <2>1, TopWords DEF Top
  <2>4. Slot(to) + amount <= INITIAL_SUPPLY
        BY <1>21, Affords
  <2>5. Result(OP.ADD, Top(1), Top(2)) = Slot(to) + amount
        BY <1>3, <1>4, <2>3, <2>4, Results
  <2>6. leaves(<<Slot(to) + amount, to>>)
        BY <1>2, <2>1, <2>2, <2>5, ReplacedOnTop
  <2>7. TransferStack(25, c, amount, to)'
        BY <2>1, <2>2, <2>3, <2>4, <2>5, <2>6, StackAt DEF Steps
  <2>8. Pending(25, amount) = Pending(at, amount)
        BY <1>21 DEF Pending
  <2>. QED BY <1>5, <1>21, <2>1, <2>2, <2>3, <2>4, <2>5, <2>6, <2>7, <2>8
<1>22. ASSUME at = 25 PROVE Goal
  <2>1. has(<<Slot(to) + amount, to>>)
        BY <1>22 DEF Balanced, TransferStack, Has
  <2>2. 2 <= Len(s) /\ Pushes(0, Top(2)) /\ Steps(1)
        BY <1>1, <1>22, DoesDup
  <2>3. Top(2) = to
        BY <1>2, <2>1, TopWords DEF Top
  <2>4. leaves(<<to, Slot(to) + amount, to>>)
        BY <1>2, <2>1, <2>2, <2>3, PushedOnTop
  <2>5. TransferStack(26, c, amount, to)'
        BY <2>1, <2>2, <2>3, <2>4, StackAt DEF Steps
  <2>6. Pending(26, amount) = Pending(at, amount)
        BY <1>22 DEF Pending
  <2>. QED BY <1>5, <1>22, <2>1, <2>2, <2>3, <2>4, <2>5, <2>6
<1>23. ASSUME at = 26 PROVE Goal
  <2>1. has(<<to, Slot(to) + amount, to>>)
        BY <1>23 DEF Balanced, TransferStack, Has
  <2>2. /\ program_counter' = program_counter + 1 /\ UNCHANGED stopped
        /\ Top(1) \in Word /\ Top(2) \in Word
        /\ storage' = Stored(storage, Top(1), Top(2))
        BY <1>1, <1>23, DoesSstore
  <2>3. Top(1) = to /\ Top(2) = Slot(to) + amount
        BY <1>2, <2>1, TopWords DEF Top
  <2>4. SumFunction(storage)' = SumFunction(storage) + amount
    <3>. DEFINE sum == SumFunction(storage)
                slot == Slot(to)
    <3>1. SumFunction(storage)' = sum - slot + (slot + amount)
          BY <2>2, <2>3, SlotStored
    <3>2. sum \in Nat /\ slot \in Nat /\ amount \in Nat
          BY <1>3, <1>4, SlotWithinSum
    <3>. HIDE DEF sum, slot
    <3>3. SumFunction(storage)' = sum + amount
          BY <3>1, <3>2
    <3>. QED BY <3>3 DEF sum
  <2>5. Balanced(27, c, amount, to)'
    <3>1. TransferStack(27, c, amount, to)'
          BY DEF TransferStack
    <3>2. SumFunction(storage) + amount = INITIAL_SUPPLY
      <4>1. Pending(at, amount) = amount
            BY <1>23 DEF Pending
      <4>. QED BY <4>1 DEF Balanced
    <3>3. SumFunction(storage)' + Pending(27, amount) = INITIAL_SUPPLY
      <4>1. Pending(27, amount) = 0 /\ SumFunction(storage) \in Nat /\ amount \in Nat
            BY <1>4, SlotWithinSum DEF Pending
      <4>. QED BY <2>4, <3>2, <4>1
    <3>4. Pending(27, amount)' = Pending(27, amount)
          BY DEF Pending
    <3>. QED BY <3>1, <3>3, <3>4 DEF Balanced
  <2>6. program_counter' = Handlers + 27
    <3>1. Handlers \in Nat
          BY SmallBytes DEF Byte
    <3>. QED BY <1>23, <2>2, <3>1
  <2>. QED BY <2>2, <2>5, <2>6 DEF Goal
<1>. QED BY <1>6, <1>7, <1>8, <1>9, <1>10, <1>11, <1>12, <1>13, <1>14, <1>15, <1>16, <1>17, <1>18,
            <1>19, <1>20, <1>21, <1>22, <1>23 DEF Goal

-----------------------------------------------------------------------------
(* Where the token's instructions begin *)

LEMMA TokenParts ==
    ASSUME NEW c, c = TOKEN_RUNTIME_BYTECODE
    PROVE  /\ c \in Seq(Byte) /\ Len(c) = Handlers + 49 /\ Handlers \in Nat
           /\ Within(c, 0, Dispatcher("transfer", Handlers, "balanceOf", Handlers + 35))
           /\ Within(c, Handlers, TransferHandler)
           /\ Within(c, Handlers + 29, <<OP.JUMPDEST>>) /\ Within(c, Handlers + 30, REVERT0)
           /\ Within(c, Handlers + 35, <<OP.JUMPDEST, OP.POP>>)
           /\ Within(c, Handlers + 37, PUSH1(SelectorBytes))
           /\ Within(c, Handlers + 39, <<OP.CALLDATALOAD, OP.SLOAD>>)
           /\ Within(c, Handlers + 41, RETURN1)
<1>. DEFINE W == WordBytes
            S == SelectorBytes
<1>1. c \in Seq(Byte) /\ Len(c) = W + 2 * S + 72
      BY TokenCode DEF IsCode
<1>2. Within(c, 0, c)
      BY <1>1, WithinSelf
<1>3. 0 \in Nat
      OBVIOUS
<1>4. /\ Within(c, 0, Dispatcher("transfer", Handlers, "balanceOf", Handlers + 35))
      /\ Within(c, 0 + W + 2 * S + 23, TransferHandler)
      /\ Within(c, 0 + W + 2 * S + 52, <<OP.JUMPDEST>>) /\ Within(c, 0 + W + 2 * S + 53, REVERT0)
      /\ Within(c, 0 + W + 2 * S + 58, <<OP.JUMPDEST, OP.POP>>)
      /\ Within(c, 0 + W + 2 * S + 60, PUSH1(SelectorBytes))
      /\ Within(c, 0 + W + 2 * S + 62, <<OP.CALLDATALOAD, OP.SLOAD>>)
      /\ Within(c, 0 + W + 2 * S + 64, RETURN1)
      BY <1>1, <1>2, <1>3, TokenCode
<1>5. W \in Int /\ S \in Int
      BY Widths
<1>6. Handlers = W + 2 * S + 23 /\ Handlers \in Nat
      BY SmallBytes DEF Byte
<1>. HIDE DEF W, S
<1>7. /\ 0 + W + 2 * S + 23 = Handlers /\ 0 + W + 2 * S + 52 = Handlers + 29
      /\ 0 + W + 2 * S + 53 = Handlers + 30 /\ 0 + W + 2 * S + 58 = Handlers + 35
      /\ 0 + W + 2 * S + 60 = Handlers + 37 /\ 0 + W + 2 * S + 62 = Handlers + 39
      /\ 0 + W + 2 * S + 64 = Handlers + 41 /\ W + 2 * S + 72 = Handlers + 49
      BY <1>5, <1>6
<1>. QED BY <1>1, <1>4, <1>6, <1>7

(* The instruction after one, by its opcode.                                 *)
LEMMA Walk ==
    ASSUME NEW c, NEW q \in Nat
    PROVE  /\ c[q + 1] \in Byte /\ c[q + 1] \notin 96..127 => After(c)[q] = q + 1
           /\ c[q + 1] = OP.PUSH1 => After(c)[q] = q + 2
           /\ c[q + 1] = 95 + WordBytes => After(c)[q] = q + 1 + WordBytes
           /\ c[q + 1] = 95 + SelectorBytes => After(c)[q] = q + 1 + SelectorBytes
<1>1. After(c)[q] = q + 1 + push_size(c[q + 1])
      BY AfterType
<1>2. /\ WordBytes \in 1..WordBytes /\ SelectorBytes \in 1..WordBytes /\ 1 \in 1..WordBytes
      /\ WordBytes \in Int /\ SelectorBytes \in Int
      BY WidthAssumption, SelectorAssumption
<1>3. OP.PUSH1 = 95 + 1
      BY Opcodes
<1>4. /\ push_size(95 + 1) = 1 /\ push_size(95 + WordBytes) = WordBytes
      /\ push_size(95 + SelectorBytes) = SelectorBytes
      BY <1>2, PushSize
<1>5. c[q + 1] \in Byte /\ c[q + 1] \notin 96..127 => push_size(c[q + 1]) = 0
      BY PushSize
<1>. QED BY <1>1, <1>2, <1>3, <1>4, <1>5

DispatcherAt ==
    LET W == WordBytes
        S == SelectorBytes
    IN  {0, W + 1, W + 3, W + 4, W + 5, W + 6, W + S + 7, W + S + 8, W + S + 10,
         W + S + 11, W + S + 12, W + 2 * S + 13, W + 2 * S + 14, W + 2 * S + 16,
         W + 2 * S + 17, W + 2 * S + 18, W + 2 * S + 20, W + 2 * S + 22}

(* The dispatcher stores nothing, and its last instruction ends where the    *)
(* first handler begins.                                                     *)
LEMMA DispatcherPath ==
    ASSUME NEW c \in Seq(Byte), NEW n1 \in DOMAIN Selector, NEW d1 \in Byte,
           NEW n2 \in DOMAIN Selector, NEW d2 \in Byte, Within(c, 0, Dispatcher(n1, d1, n2, d2))
    PROVE  \A q \in DispatcherAt :
              /\ q \in 0..(Handlers - 1) /\ c[q + 1] \notin {OP.SSTORE, OP.JUMPDEST}
              /\ After(c)[q] \in DispatcherAt \cup {Handlers}
<1>. DEFINE W == WordBytes
            S == SelectorBytes
<1>1. /\ W \in Int /\ S \in Int /\ W >= 1 /\ S >= 1 /\ W <= 32 /\ S <= 32
      /\ Handlers = W + 2 * S + 23
      BY WidthAssumption, SelectorAssumption, SmallBytes
<1>2. 0 \in Nat
      OBVIOUS
<1>3. /\ c[0 + 1] = 95 + W /\ c[0 + W + 2] = OP.PUSH1 /\ c[0 + W + 4] = OP.CALLDATALOAD
      /\ c[0 + W + 5] = OP.DIV /\ c[0 + W + 6] = DUPn(1) /\ c[0 + W + 7] = 95 + S
      /\ c[0 + W + S + 8] = OP.EQ /\ c[0 + W + S + 9] = OP.PUSH1
      /\ c[0 + W + S + 11] = OP.JUMPI /\ c[0 + W + S + 12] = DUPn(1)
      /\ c[0 + W + S + 13] = 95 + S /\ c[0 + W + 2 * S + 14] = OP.EQ
      /\ c[0 + W + 2 * S + 15] = OP.PUSH1 /\ c[0 + W + 2 * S + 17] = OP.JUMPI
      /\ c[0 + W + 2 * S + 18] = OP.POP /\ c[0 + W + 2 * S + 19] = OP.PUSH1
      /\ c[0 + W + 2 * S + 21] = OP.PUSH1 /\ c[0 + W + 2 * S + 23] = OP.REVERT
      BY <1>2, DispatcherCode
<1>4. /\ 0 \in DispatcherAt /\ W + 1 \in DispatcherAt /\ W + 3 \in DispatcherAt
      /\ W + 4 \in DispatcherAt /\ W + 5 \in DispatcherAt /\ W + 6 \in DispatcherAt
      /\ W + S + 7 \in DispatcherAt /\ W + S + 8 \in DispatcherAt
      /\ W + S + 10 \in DispatcherAt /\ W + S + 11 \in DispatcherAt
      /\ W + S + 12 \in DispatcherAt /\ W + 2 * S + 13 \in DispatcherAt
      /\ W + 2 * S + 14 \in DispatcherAt /\ W + 2 * S + 16 \in DispatcherAt
      /\ W + 2 * S + 17 \in DispatcherAt /\ W + 2 * S + 18 \in DispatcherAt
      /\ W + 2 * S + 20 \in DispatcherAt /\ W + 2 * S + 22 \in DispatcherAt
      BY DEF DispatcherAt
<1>5. \A q \in DispatcherAt : \/ q = 0 \/ q = W + 1 \/ q = W + 3 \/ q = W + 4 \/ q = W + 5
                              \/ q = W + 6 \/ q = W + S + 7 \/ q = W + S + 8
                              \/ q = W + S + 10 \/ q = W + S + 11 \/ q = W + S + 12
                              \/ q = W + 2 * S + 13 \/ q = W + 2 * S + 14
                              \/ q = W + 2 * S + 16 \/ q = W + 2 * S + 17
                              \/ q = W + 2 * S + 18 \/ q = W + 2 * S + 20
                              \/ q = W + 2 * S + 22
      BY DEF DispatcherAt
<1>6. /\ OP.CALLDATALOAD = 53 /\ OP.DIV = 4 /\ OP.EQ = 20 /\ OP.JUMPI = 87 /\ OP.POP = 80
      /\ OP.REVERT = 253 /\ OP.PUSH1 = 96 /\ OP.SSTORE = 85 /\ OP.JUMPDEST = 91
      BY Opcodes
<1>7. \A q \in Nat :
         /\ c[q + 1] \in Byte /\ c[q + 1] \notin 96..127 => After(c)[q] = q + 1
         /\ c[q + 1] = 96 => After(c)[q] = q + 2
         /\ c[q + 1] = 95 + W => After(c)[q] = q + 1 + W
         /\ c[q + 1] = 95 + S => After(c)[q] = q + 1 + S
      BY <1>6, Walk
<1>8. DUPn(1) = 128
  <2>1. 1 \in 1..16
        OBVIOUS
  <2>. QED BY <2>1, DupType
<1>. DEFINE Fine(q) == /\ q \in 0..(Handlers - 1) /\ c[q + 1] \notin {OP.SSTORE, OP.JUMPDEST}
                       /\ After(c)[q] \in DispatcherAt \cup {Handlers}
<1>. HIDE DEF W, S
<1>9. ASSUME NEW q \in Nat, q = 0 PROVE Fine(q)
  <2>1. c[q + 1] = 95 + W
        BY <1>1, <1>3, <1>9
  <2>2. c[q + 1] \in Int /\ c[q + 1] >= 96 /\ After(c)[q] = q + 1 + W
        BY <1>1, <1>7, <2>1
  <2>3. After(c)[q] = W + 1
        BY <1>1, <1>9, <2>2
  <2>5. q \in 0..(Handlers - 1)
        BY <1>1, <1>9
  <2>6. c[q + 1] \notin {OP.SSTORE, OP.JUMPDEST}
        BY <1>6, <2>2
  <2>. QED BY <1>4, <2>3, <2>5, <2>6
<1>10. ASSUME NEW q \in Nat, q = W + 1 PROVE Fine(q)
  <2>1. c[q + 1] = OP.PUSH1
        BY <1>1, <1>3, <1>10
  <2>2. c[q + 1] = 96 /\ After(c)[q] = q + 2
        BY <1>7, <1>6, <2>1
  <2>3. After(c)[q] = W + 3
        BY <1>1, <1>10, <2>2
  <2>5. q \in 0..(Handlers - 1)
        BY <1>1, <1>10
  <2>6. c[q + 1] \notin {OP.SSTORE, OP.JUMPDEST}
        BY <1>6, <2>2
  <2>. QED BY <1>4, <2>3, <2>5, <2>6
<1>11. ASSUME NEW q \in Nat, q = W + 3 PROVE Fine(q)
  <2>1. c[q + 1] = OP.CALLDATALOAD
        BY <1>1, <1>3, <1>11
  <2>2. c[q + 1] \in Byte /\ c[q + 1] \notin 96..127 /\ c[q + 1] \notin {85, 91}
        BY <1>6, <2>1 DEF Byte
  <2>4. After(c)[q] = q + 1
        BY <1>7, <2>2
  <2>3. After(c)[q] = W + 4
        BY <1>1, <1>11, <2>2, <2>4
  <2>5. q \in 0..(Handlers - 1)
        BY <1>1, <1>11
  <2>6. c[q + 1] \notin {OP.SSTORE, OP.JUMPDEST}
        BY <1>6, <2>2
  <2>. QED BY <1>4, <2>3, <2>5, <2>6
<1>12. ASSUME NEW q \in Nat, q = W + 4 PROVE Fine(q)
  <2>1. c[q + 1] = OP.DIV
        BY <1>1, <1>3, <1>12
  <2>2. c[q + 1] \in Byte /\ c[q + 1] \notin 96..127 /\ c[q + 1] \notin {85, 91}
        BY <1>6, <2>1 DEF Byte
  <2>4. After(c)[q] = q + 1
        BY <1>7, <2>2
  <2>3. After(c)[q] = W + 5
        BY <1>1, <1>12, <2>2, <2>4
  <2>5. q \in 0..(Handlers - 1)
        BY <1>1, <1>12
  <2>6. c[q + 1] \notin {OP.SSTORE, OP.JUMPDEST}
        BY <1>6, <2>2
  <2>. QED BY <1>4, <2>3, <2>5, <2>6
<1>13. ASSUME NEW q \in Nat, q = W + 5 PROVE Fine(q)
  <2>1. c[q + 1] = DUPn(1)
        BY <1>1, <1>3, <1>13
  <2>7. c[q + 1] = 128
        BY <1>8, <2>1
  <2>2. c[q + 1] \in Byte /\ c[q + 1] \notin 96..127 /\ c[q + 1] \notin {85, 91}
        BY <2>7 DEF Byte
  <2>4. After(c)[q] = q + 1
        BY <1>7, <2>2
  <2>3. After(c)[q] = W + 6
        BY <1>1, <1>13, <2>2, <2>4
  <2>5. q \in 0..(Handlers - 1)
        BY <1>1, <1>13
  <2>6. c[q + 1] \notin {OP.SSTORE, OP.JUMPDEST}
        BY <1>6, <2>2
  <2>. QED BY <1>4, <2>3, <2>5, <2>6
<1>14. ASSUME NEW q \in Nat, q = W + 6 PROVE Fine(q)
  <2>1. c[q + 1] = 95 + S
        BY <1>1, <1>3, <1>14
  <2>2. c[q + 1] \in Int /\ c[q + 1] >= 96 /\ After(c)[q] = q + 1 + S
        BY <1>1, <1>7, <2>1
  <2>3. After(c)[q] = W + S + 7
        BY <1>1, <1>14, <2>2
  <2>5. q \in 0..(Handlers - 1)
        BY <1>1, <1>14
  <2>6. c[q + 1] \notin {OP.SSTORE, OP.JUMPDEST}
        BY <1>6, <2>2
  <2>. QED BY <1>4, <2>3, <2>5, <2>6
<1>15. ASSUME NEW q \in Nat, q = W + S + 7 PROVE Fine(q)
  <2>1. c[q + 1] = OP.EQ
        BY <1>1, <1>3, <1>15
  <2>2. c[q + 1] \in Byte /\ c[q + 1] \notin 96..127 /\ c[q + 1] \notin {85, 91}
        BY <1>6, <2>1 DEF Byte
  <2>4. After(c)[q] = q + 1
        BY <1>7, <2>2
  <2>3. After(c)[q] = W + S + 8
        BY <1>1, <1>15, <2>2, <2>4
  <2>5. q \in 0..(Handlers - 1)
        BY <1>1, <1>15
  <2>6. c[q + 1] \notin {OP.SSTORE, OP.JUMPDEST}
        BY <1>6, <2>2
  <2>. QED BY <1>4, <2>3, <2>5, <2>6
<1>16. ASSUME NEW q \in Nat, q = W + S + 8 PROVE Fine(q)
  <2>1. c[q + 1] = OP.PUSH1
        BY <1>1, <1>3, <1>16
  <2>2. c[q + 1] = 96 /\ After(c)[q] = q + 2
        BY <1>7, <1>6, <2>1
  <2>3. After(c)[q] = W + S + 10
        BY <1>1, <1>16, <2>2
  <2>5. q \in 0..(Handlers - 1)
        BY <1>1, <1>16
  <2>6. c[q + 1] \notin {OP.SSTORE, OP.JUMPDEST}
        BY <1>6, <2>2
  <2>. QED BY <1>4, <2>3, <2>5, <2>6
<1>17. ASSUME NEW q \in Nat, q = W + S + 10 PROVE Fine(q)
  <2>1. c[q + 1] = OP.JUMPI
        BY <1>1, <1>3, <1>17
  <2>2. c[q + 1] \in Byte /\ c[q + 1] \notin 96..127 /\ c[q + 1] \notin {85, 91}
        BY <1>6, <2>1 DEF Byte
  <2>4. After(c)[q] = q + 1
        BY <1>7, <2>2
  <2>3. After(c)[q] = W + S + 11
        BY <1>1, <1>17, <2>2, <2>4
  <2>5. q \in 0..(Handlers - 1)
        BY <1>1, <1>17
  <2>6. c[q + 1] \notin {OP.SSTORE, OP.JUMPDEST}
        BY <1>6, <2>2
  <2>. QED BY <1>4, <2>3, <2>5, <2>6
<1>18. ASSUME NEW q \in Nat, q = W + S + 11 PROVE Fine(q)
  <2>1. c[q + 1] = DUPn(1)
        BY <1>1, <1>3, <1>18
  <2>7. c[q + 1] = 128
        BY <1>8, <2>1
  <2>2. c[q + 1] \in Byte /\ c[q + 1] \notin 96..127 /\ c[q + 1] \notin {85, 91}
        BY <2>7 DEF Byte
  <2>4. After(c)[q] = q + 1
        BY <1>7, <2>2
  <2>3. After(c)[q] = W + S + 12
        BY <1>1, <1>18, <2>2, <2>4
  <2>5. q \in 0..(Handlers - 1)
        BY <1>1, <1>18
  <2>6. c[q + 1] \notin {OP.SSTORE, OP.JUMPDEST}
        BY <1>6, <2>2
  <2>. QED BY <1>4, <2>3, <2>5, <2>6
<1>19. ASSUME NEW q \in Nat, q = W + S + 12 PROVE Fine(q)
  <2>1. c[q + 1] = 95 + S
        BY <1>1, <1>3, <1>19
  <2>2. c[q + 1] \in Int /\ c[q + 1] >= 96 /\ After(c)[q] = q + 1 + S
        BY <1>1, <1>7, <2>1
  <2>3. After(c)[q] = W + 2 * S + 13
        BY <1>1, <1>19, <2>2
  <2>5. q \in 0..(Handlers - 1)
        BY <1>1, <1>19
  <2>6. c[q + 1] \notin {OP.SSTORE, OP.JUMPDEST}
        BY <1>6, <2>2
  <2>. QED BY <1>4, <2>3, <2>5, <2>6
<1>20. ASSUME NEW q \in Nat, q = W + 2 * S + 13 PROVE Fine(q)
  <2>1. c[q + 1] = OP.EQ
        BY <1>1, <1>3, <1>20
  <2>2. c[q + 1] \in Byte /\ c[q + 1] \notin 96..127 /\ c[q + 1] \notin {85, 91}
        BY <1>6, <2>1 DEF Byte
  <2>4. After(c)[q] = q + 1
        BY <1>7, <2>2
  <2>3. After(c)[q] = W + 2 * S + 14
        BY <1>1, <1>20, <2>2, <2>4
  <2>5. q \in 0..(Handlers - 1)
        BY <1>1, <1>20
  <2>6. c[q + 1] \notin {OP.SSTORE, OP.JUMPDEST}
        BY <1>6, <2>2
  <2>. QED BY <1>4, <2>3, <2>5, <2>6
<1>21. ASSUME NEW q \in Nat, q = W + 2 * S + 14 PROVE Fine(q)
  <2>1. c[q + 1] = OP.PUSH1
        BY <1>1, <1>3, <1>21
  <2>2. c[q + 1] = 96 /\ After(c)[q] = q + 2
        BY <1>7, <1>6, <2>1
  <2>3. After(c)[q] = W + 2 * S + 16
        BY <1>1, <1>21, <2>2
  <2>5. q \in 0..(Handlers - 1)
        BY <1>1, <1>21
  <2>6. c[q + 1] \notin {OP.SSTORE, OP.JUMPDEST}
        BY <1>6, <2>2
  <2>. QED BY <1>4, <2>3, <2>5, <2>6
<1>22. ASSUME NEW q \in Nat, q = W + 2 * S + 16 PROVE Fine(q)
  <2>1. c[q + 1] = OP.JUMPI
        BY <1>1, <1>3, <1>22
  <2>2. c[q + 1] \in Byte /\ c[q + 1] \notin 96..127 /\ c[q + 1] \notin {85, 91}
        BY <1>6, <2>1 DEF Byte
  <2>4. After(c)[q] = q + 1
        BY <1>7, <2>2
  <2>3. After(c)[q] = W + 2 * S + 17
        BY <1>1, <1>22, <2>2, <2>4
  <2>5. q \in 0..(Handlers - 1)
        BY <1>1, <1>22
  <2>6. c[q + 1] \notin {OP.SSTORE, OP.JUMPDEST}
        BY <1>6, <2>2
  <2>. QED BY <1>4, <2>3, <2>5, <2>6
<1>23. ASSUME NEW q \in Nat, q = W + 2 * S + 17 PROVE Fine(q)
  <2>1. c[q + 1] = OP.POP
        BY <1>1, <1>3, <1>23
  <2>2. c[q + 1] \in Byte /\ c[q + 1] \notin 96..127 /\ c[q + 1] \notin {85, 91}
        BY <1>6, <2>1 DEF Byte
  <2>4. After(c)[q] = q + 1
        BY <1>7, <2>2
  <2>3. After(c)[q] = W + 2 * S + 18
        BY <1>1, <1>23, <2>2, <2>4
  <2>5. q \in 0..(Handlers - 1)
        BY <1>1, <1>23
  <2>6. c[q + 1] \notin {OP.SSTORE, OP.JUMPDEST}
        BY <1>6, <2>2
  <2>. QED BY <1>4, <2>3, <2>5, <2>6
<1>24. ASSUME NEW q \in Nat, q = W + 2 * S + 18 PROVE Fine(q)
  <2>1. c[q + 1] = OP.PUSH1
        BY <1>1, <1>3, <1>24
  <2>2. c[q + 1] = 96 /\ After(c)[q] = q + 2
        BY <1>7, <1>6, <2>1
  <2>3. After(c)[q] = W + 2 * S + 20
        BY <1>1, <1>24, <2>2
  <2>5. q \in 0..(Handlers - 1)
        BY <1>1, <1>24
  <2>6. c[q + 1] \notin {OP.SSTORE, OP.JUMPDEST}
        BY <1>6, <2>2
  <2>. QED BY <1>4, <2>3, <2>5, <2>6
<1>25. ASSUME NEW q \in Nat, q = W + 2 * S + 20 PROVE Fine(q)
  <2>1. c[q + 1] = OP.PUSH1
        BY <1>1, <1>3, <1>25
  <2>2. c[q + 1] = 96 /\ After(c)[q] = q + 2
        BY <1>7, <1>6, <2>1
  <2>3. After(c)[q] = W + 2 * S + 22
        BY <1>1, <1>25, <2>2
  <2>5. q \in 0..(Handlers - 1)
        BY <1>1, <1>25
  <2>6. c[q + 1] \notin {OP.SSTORE, OP.JUMPDEST}
        BY <1>6, <2>2
  <2>. QED BY <1>4, <2>3, <2>5, <2>6
<1>26. ASSUME NEW q \in Nat, q = W + 2 * S + 22 PROVE Fine(q)
  <2>1. c[q + 1] = OP.REVERT
        BY <1>1, <1>3, <1>26
  <2>2. c[q + 1] \in Byte /\ c[q + 1] \notin 96..127 /\ c[q + 1] \notin {85, 91}
        BY <1>6, <2>1 DEF Byte
  <2>4. After(c)[q] = q + 1
        BY <1>7, <2>2
  <2>3. After(c)[q] = Handlers
        BY <1>1, <1>26, <2>2, <2>4
  <2>5. q \in 0..(Handlers - 1)
        BY <1>1, <1>26
  <2>6. c[q + 1] \notin {OP.SSTORE, OP.JUMPDEST}
        BY <1>6, <2>2
  <2>. QED BY <1>4, <2>3, <2>5, <2>6
<1>. HIDE DEF Fine
<1>27. \A q \in DispatcherAt : q \in Nat
      BY <1>1, <1>5
<1>28. \A q \in DispatcherAt : Fine(q)
      BY <1>5, <1>27, <1>9, <1>10, <1>11, <1>12, <1>13, <1>14, <1>15, <1>16, <1>17, <1>18, <1>19,
         <1>20, <1>21, <1>22, <1>23, <1>24, <1>25, <1>26
<1>. QED BY <1>28 DEF Fine

(* Where the instructions of the handlers are, from the first handler on.    *)
HandlerPushes == {2, 5, 14, 30, 32, 37, 41, 44, 46}

HandlerOthers ==
    {0, 1, 4, 7} \cup (8..13) \cup (16..29) \cup {34, 35, 36, 39, 40, 43, 48}

HandlerAt == HandlerPushes \cup HandlerOthers

LEMMA HandlerBytes ==
    ASSUME NEW c, c = TOKEN_RUNTIME_BYTECODE, NEW h \in Nat, h = Handlers
    PROVE  /\ c[h + 1] = 91 /\ c[h + 2] = 80 /\ c[h + 3] = 96 /\ c[h + 5] = 53
           /\ c[h + 6] = 96 /\ c[h + 8] = 53 /\ c[h + 9] = 51 /\ c[h + 10] = 128
           /\ c[h + 11] = 84 /\ c[h + 12] = 130 /\ c[h + 13] = 129 /\ c[h + 14] = 16
           /\ c[h + 15] = 96 /\ c[h + 17] = 87 /\ c[h + 18] = 130 /\ c[h + 19] = 144
           /\ c[h + 20] = 3 /\ c[h + 21] = 144 /\ c[h + 22] = 85 /\ c[h + 23] = 129
           /\ c[h + 24] = 84 /\ c[h + 25] = 1 /\ c[h + 26] = 129 /\ c[h + 27] = 85
           /\ c[h + 28] = 80 /\ c[h + 29] = 0 /\ c[h + 30] = 91 /\ c[h + 31] = 96
           /\ c[h + 33] = 96 /\ c[h + 35] = 253 /\ c[h + 36] = 91 /\ c[h + 37] = 80
           /\ c[h + 38] = 96 /\ c[h + 40] = 53 /\ c[h + 41] = 84 /\ c[h + 42] = 96
           /\ c[h + 44] = 82 /\ c[h + 45] = 96 /\ c[h + 47] = 96 /\ c[h + 49] = 243
<1>1. c \in Seq(Byte) /\ h + 30 \in Nat /\ h + 41 \in Nat
  <2>1. c \in Seq(Byte)
        BY TokenParts
  <2>2. h + 30 \in Nat /\ h + 41 \in Nat
        OBVIOUS
  <2>. QED BY <2>1, <2>2
<1>2. /\ OP.JUMPDEST = 91 /\ OP.POP = 80 /\ OP.PUSH1 = 96 /\ OP.CALLDATALOAD = 53
      /\ OP.CALLER = 51 /\ OP.SLOAD = 84 /\ OP.LT = 16 /\ OP.JUMPI = 87 /\ OP.SWAP1 = 144
      /\ OP.SUB = 3 /\ OP.SSTORE = 85 /\ OP.ADD = 1 /\ OP.STOP = 0 /\ OP.REVERT = 253
      /\ OP.MSTORE = 82 /\ OP.RETURN = 243
      BY Opcodes
<1>3. DUPn(1) = 128 /\ DUPn(2) = 129 /\ DUPn(3) = 130
  <2>1. 1 \in 1..16 /\ 2 \in 1..16 /\ 3 \in 1..16
        OBVIOUS
  <2>. QED BY <2>1, DupType
<1>4. /\ c[h + 1] = OP.JUMPDEST /\ c[h + 2] = OP.POP /\ c[h + 3] = OP.PUSH1
      /\ c[h + 5] = OP.CALLDATALOAD /\ c[h + 6] = OP.PUSH1 /\ c[h + 8] = OP.CALLDATALOAD
      /\ c[h + 9] = OP.CALLER /\ c[h + 10] = DUPn(1) /\ c[h + 11] = OP.SLOAD
      /\ c[h + 12] = DUPn(3) /\ c[h + 13] = DUPn(2) /\ c[h + 14] = OP.LT
      /\ c[h + 15] = OP.PUSH1 /\ c[h + 17] = OP.JUMPI /\ c[h + 18] = DUPn(3)
      /\ c[h + 19] = OP.SWAP1 /\ c[h + 20] = OP.SUB /\ c[h + 21] = OP.SWAP1
      /\ c[h + 22] = OP.SSTORE /\ c[h + 23] = DUPn(2) /\ c[h + 24] = OP.SLOAD
      /\ c[h + 25] = OP.ADD /\ c[h + 26] = DUPn(2) /\ c[h + 27] = OP.SSTORE
      /\ c[h + 28] = OP.POP /\ c[h + 29] = OP.STOP
  <2>1. Within(c, h, TransferHandler)
        BY TokenParts
  <2>. QED BY <1>1, <2>1, TransferCode
<1>5. /\ c[h + 30 + 1] = OP.PUSH1 /\ c[h + 30 + 3] = OP.PUSH1
      /\ c[h + 30 + 5] = OP.REVERT
  <2>1. Within(c, h + 30, REVERT0)
        BY TokenParts
  <2>. QED BY <1>1, <2>1, RevertCode
<1>6. /\ c[h + 41 + 1] = OP.PUSH1 /\ c[h + 41 + 3] = OP.MSTORE
      /\ c[h + 41 + 4] = OP.PUSH1 /\ c[h + 41 + 6] = OP.PUSH1
      /\ c[h + 41 + 8] = OP.RETURN
  <2>1. Within(c, h + 41, RETURN1)
        BY TokenParts
  <2>. QED BY <1>1, <2>1, ReturnCode
<1>7. c[h + 29 + 1] = OP.JUMPDEST
  <2>1. Within(c, h + 29, <<OP.JUMPDEST>>)
        BY TokenParts
  <2>. QED BY <2>1 DEF Within
<1>8. c[h + 35 + 1] = OP.JUMPDEST /\ c[h + 35 + 2] = OP.POP
  <2>1. Within(c, h + 35, <<OP.JUMPDEST, OP.POP>>)
        BY TokenParts
  <2>. QED BY <2>1 DEF Within
<1>9. c[h + 37 + 1] = OP.PUSH1
  <2>1. Within(c, h + 37, <<OP.PUSH1, SelectorBytes>>)
        BY TokenParts DEF PUSH1
  <2>. QED BY <2>1 DEF Within
<1>10. c[h + 39 + 1] = OP.CALLDATALOAD /\ c[h + 39 + 2] = OP.SLOAD
  <2>1. Within(c, h + 39, <<OP.CALLDATALOAD, OP.SLOAD>>)
        BY TokenParts
  <2>. QED BY <2>1 DEF Within
<1>11. /\ c[h + 1] = 91 /\ c[h + 2] = 80 /\ c[h + 3] = 96 /\ c[h + 5] = 53
       /\ c[h + 6] = 96 /\ c[h + 8] = 53 /\ c[h + 9] = 51 /\ c[h + 10] = 128
       /\ c[h + 11] = 84 /\ c[h + 12] = 130 /\ c[h + 13] = 129 /\ c[h + 14] = 16
       /\ c[h + 15] = 96 /\ c[h + 17] = 87 /\ c[h + 18] = 130 /\ c[h + 19] = 144
       /\ c[h + 20] = 3 /\ c[h + 21] = 144 /\ c[h + 22] = 85 /\ c[h + 23] = 129
       /\ c[h + 24] = 84 /\ c[h + 25] = 1 /\ c[h + 26] = 129 /\ c[h + 27] = 85
       /\ c[h + 28] = 80 /\ c[h + 29] = 0
       BY <1>2, <1>3, <1>4
<1>12. /\ c[h + 31] = 96 /\ c[h + 33] = 96 /\ c[h + 35] = 253
       BY <1>2, <1>5
<1>13. /\ c[h + 42] = 96 /\ c[h + 44] = 82 /\ c[h + 45] = 96 /\ c[h + 47] = 96
       /\ c[h + 49] = 243
       BY <1>2, <1>6
<1>14. /\ c[h + 30] = 91 /\ c[h + 36] = 91 /\ c[h + 37] = 80 /\ c[h + 38] = 96
       /\ c[h + 40] = 53 /\ c[h + 41] = 84
       BY <1>2, <1>7, <1>8, <1>9, <1>10
<1>. QED BY <1>11, <1>12, <1>13, <1>14

(* The handlers store in two places, and are entered at three.               *)
LEMMA HandlerPath ==
    ASSUME NEW c, c = TOKEN_RUNTIME_BYTECODE, NEW h \in Nat, h = Handlers, NEW d \in HandlerAt
    PROVE  /\ c[h + d + 1] = OP.SSTORE => d \in {21, 26}
           /\ c[h + d + 1] = OP.JUMPDEST => d \in {0, 29, 35}
           /\ d \in HandlerPushes => After(c)[h + d] = h + d + 2
           /\ d \in HandlerOthers => After(c)[h + d] = h + d + 1
<1>. DEFINE byte == c[h + d + 1]
<1>1. /\ d \in Nat /\ h + d \in Nat
      /\ d \in HandlerPushes => byte = 96
      /\ d \in HandlerOthers => byte \in Byte /\ byte \notin 96..127
      /\ byte = 85 => d \in {21, 26}
      /\ byte = 91 => d \in {0, 29, 35}
  <2>1. ASSUME d \in HandlerPushes PROVE byte = 96
    <3>1. \/ d = 2 \/ d = 5 \/ d = 14 \/ d = 30 \/ d = 32 \/ d = 37 \/ d = 41 \/ d = 44 \/ d = 46
          BY <2>1 DEF HandlerPushes
    <3>. QED BY <3>1, HandlerBytes
  <2>2. ASSUME d \in HandlerOthers
        PROVE  /\ byte \in Byte /\ byte \notin 96..127
               /\ byte = 85 => d \in {21, 26}
               /\ byte = 91 => d \in {0, 29, 35}
    <3>1. \/ d = 0 \/ d = 1 \/ d = 4 \/ d = 7 \/ d = 8 \/ d = 9 \/ d = 10 \/ d = 11
          \/ d = 12 \/ d = 13 \/ d = 16 \/ d = 17 \/ d = 18 \/ d = 19 \/ d = 20
          \/ d = 21 \/ d = 22 \/ d = 23 \/ d = 24 \/ d = 25 \/ d = 26 \/ d = 27
          \/ d = 28 \/ d = 29 \/ d = 34 \/ d = 35 \/ d = 36 \/ d = 39 \/ d = 40
          \/ d = 43 \/ d = 48
          BY <2>2 DEF HandlerOthers
    <3>. QED BY <3>1, HandlerBytes DEF Byte
  <2>3. d \in Nat
        BY DEF HandlerAt, HandlerPushes, HandlerOthers
  <2>. QED BY <2>1, <2>2, <2>3 DEF HandlerAt
<1>. HIDE DEF byte
<1>2. OP.SSTORE = 85 /\ OP.JUMPDEST = 91 /\ OP.PUSH1 = 96
      BY Opcodes
<1>3. /\ byte \in Byte /\ byte \notin 96..127 => After(c)[h + d] = h + d + 1
      /\ byte = OP.PUSH1 => After(c)[h + d] = h + d + 2
      BY <1>1, Walk DEF byte
<1>. QED BY <1>1, <1>2, <1>3 DEF byte

-----------------------------------------------------------------------------
(* What can be reached of the token's code *)

TokenReach(h) ==
    DispatcherAt \cup {h + d : d \in HandlerAt} \cup {q \in Nat : q >= h + 49}

LEMMA HandlerOffsets ==
    /\ 0 \in HandlerAt /\ \A d \in HandlerAt : d \in 0..48 /\ d # 15
    /\ \A d \in HandlerPushes : d + 2 \in HandlerAt \cup {49}
    /\ \A d \in HandlerOthers : d + 1 \in HandlerAt \cup {49}
    /\ \A d \in HandlerAt : d < 8 /\ d \in HandlerPushes => d + 2 < 9
<1>. USE DEF HandlerAt, HandlerPushes, HandlerOthers
<1>1. 0 \in HandlerAt /\ \A d \in HandlerAt : d \in 0..48 /\ d # 15
      OBVIOUS
<1>2. \A d \in HandlerPushes : d + 2 \in HandlerAt \cup {49}
      OBVIOUS
<1>3. \A d \in HandlerOthers : d + 1 \in HandlerAt \cup {49}
      OBVIOUS
<1>4. \A d \in HandlerAt : d < 8 /\ d \in HandlerPushes => d + 2 < 9
      OBVIOUS
<1>. QED BY <1>1, <1>2, <1>3, <1>4

LEMMA TokenDispatcher ==
    ASSUME NEW c, c = TOKEN_RUNTIME_BYTECODE
    PROVE  \A q \in DispatcherAt :
              /\ q \in 0..(Handlers - 1) /\ c[q + 1] \notin {OP.SSTORE, OP.JUMPDEST}
              /\ After(c)[q] \in DispatcherAt \cup {Handlers}
<1>1. "transfer" \in DOMAIN Selector /\ "balanceOf" \in DOMAIN Selector
      BY SelectorAssumption
<1>2. Handlers \in Byte /\ Handlers + 35 \in Byte
      BY SmallBytes
<1>3. c \in Seq(Byte) /\ Within(c, 0, Dispatcher("transfer", Handlers, "balanceOf", Handlers + 35))
      BY TokenParts
<1>. QED BY <1>1, <1>2, <1>3, DispatcherPath

LEMMA TokenReached ==
    ASSUME NEW c, c = TOKEN_RUNTIME_BYTECODE, NEW h \in Nat, h = Handlers
    PROVE  ReachedFrom(After(c), 0) \subseteq TokenReach(h)
<1>. DEFINE T == TokenReach(h)
<1>1. After(c) \in [Nat -> Nat] /\ \A q \in Nat : After(c)[q] > q
      BY AfterType
<1>2. T \in SUBSET Nat
  <2>1. DispatcherAt \subseteq Nat
        BY TokenDispatcher
  <2>2. \A d \in HandlerAt : h + d \in Nat
        BY HandlerOffsets
  <2>. QED BY <2>1, <2>2 DEF TokenReach
<1>3. 0 \in T
      BY DEF TokenReach, DispatcherAt
<1>4. ASSUME NEW q \in T PROVE After(c)[q] \in T
  <2>1. CASE q \in DispatcherAt
    <3>1. After(c)[q] \in DispatcherAt \cup {h}
          BY <2>1, TokenDispatcher
    <3>2. h + 0 = h /\ 0 \in HandlerAt
          BY HandlerOffsets
    <3>. QED BY <3>1, <3>2 DEF TokenReach
  <2>2. ASSUME NEW d \in HandlerAt, q = h + d PROVE After(c)[q] \in T
    <3>1. /\ d \in HandlerPushes => After(c)[q] = h + d + 2
          /\ d \in HandlerOthers => After(c)[q] = h + d + 1
          BY <2>2, HandlerPath
    <3>2. d \in HandlerPushes \/ d \in HandlerOthers
          BY DEF HandlerAt
    <3>3. PICK e \in HandlerAt \cup {49} : After(c)[q] = h + e
      <4>1. d \in Nat
            BY HandlerOffsets
      <4>2. h + d + 2 = h + (d + 2) /\ h + d + 1 = h + (d + 1)
            BY <4>1
      <4>3. CASE d \in HandlerPushes
            BY <3>1, <4>2, <4>3, HandlerOffsets
      <4>4. CASE d \in HandlerOthers
            BY <3>1, <4>2, <4>4, HandlerOffsets
      <4>. QED BY <3>2, <4>3, <4>4
    <3>4. CASE e = 49
          BY <3>3, <3>4 DEF TokenReach
    <3>5. CASE e \in HandlerAt
          BY <3>3, <3>5 DEF TokenReach
    <3>. QED BY <3>3, <3>4, <3>5
  <2>3. CASE q \in Nat /\ q >= h + 49
    <3>1. After(c)[q] \in Nat /\ After(c)[q] > q
          BY <1>1, <2>3
    <3>2. After(c)[q] >= h + 49
          BY <2>3, <3>1
    <3>. QED BY <3>1, <3>2 DEF TokenReach
  <2>. QED BY <2>1, <2>2, <2>3 DEF TokenReach
<1>. HIDE DEF T
<1>5. 0 \in Nat /\ Closed(After(c), T)
      BY <1>4 DEF Closed
<1>6. ReachedFrom(After(c), 0) \subseteq T
      BY <1>1, <1>2, <1>3, <1>5, ReachClosed
<1>. QED BY <1>6 DEF T

(* What an instruction of it is, and where the next one: the writes are two, *)
(* and what is between the caller and the second is entered from nowhere     *)
(* else.                                                                     *)
LEMMA TokenInstruction ==
    ASSUME NEW c, c = TOKEN_RUNTIME_BYTECODE, NEW h \in Nat, h = Handlers,
           NEW q \in ReachedFrom(After(c), 0), q < Len(c)
    PROVE  /\ q \in Nat /\ q # h + 15
           /\ c[q + 1] = OP.SSTORE => q \in {h + 21, h + 26}
           /\ c[q + 1] = OP.JUMPDEST => q - h \notin 9..26
           /\ q - h \notin 8..26 => After(c)[q] - h \notin 9..26
<1>1. Len(c) = h + 49
      BY TokenParts
<1>2. q \in TokenReach(h)
      BY TokenReached
<1>3. CASE q \in DispatcherAt
  <2>1. /\ q \in 0..(h - 1) /\ c[q + 1] \notin {OP.SSTORE, OP.JUMPDEST}
        /\ After(c)[q] \in DispatcherAt \cup {h}
        BY <1>3, TokenDispatcher
  <2>2. After(c)[q] \in Int /\ After(c)[q] <= h
    <3>1. \A p \in DispatcherAt : p \in 0..(h - 1)
          BY TokenDispatcher
    <3>. QED BY <2>1, <3>1
  <2>3. After(c)[q] - h \notin 9..26
    <3>. DEFINE after == After(c)[q]
    <3>1. after \in Int /\ after <= h
          BY <2>2
    <3>. HIDE DEF after
    <3>2. after - h \in Int /\ after - h <= 0
          BY <3>1
    <3>3. after - h \notin 9..26
          BY <3>2
    <3>. QED BY <3>3 DEF after
  <2>4. q \in Nat /\ q # h + 15
        BY <2>1
  <2>. QED BY <2>1, <2>3, <2>4
<1>4. ASSUME NEW d \in HandlerAt, q = h + d
      PROVE  /\ q \in Nat /\ q # h + 15
             /\ c[q + 1] = OP.SSTORE => q \in {h + 21, h + 26}
             /\ c[q + 1] = OP.JUMPDEST => q - h \notin 9..26
             /\ q - h \notin 8..26 => After(c)[q] - h \notin 9..26
  <2>1. d \in 0..48 /\ d # 15
        BY HandlerOffsets
  <2>2. /\ c[q + 1] = OP.SSTORE => d \in {21, 26}
        /\ c[q + 1] = OP.JUMPDEST => d \in {0, 29, 35}
        /\ d \in HandlerPushes => After(c)[q] = h + d + 2
        /\ d \in HandlerOthers => After(c)[q] = h + d + 1
        BY <1>4, HandlerPath
  <2>3. d < 8 /\ d \in HandlerPushes => d + 2 < 9
        BY HandlerOffsets
  <2>4. q \in Nat /\ q # h + 15 /\ q - h = d
        BY <1>4, <2>1
  <2>5. After(c)[q] = h + d + 1 \/ (d \in HandlerPushes /\ After(c)[q] = h + d + 2)
        BY <2>2 DEF HandlerAt
  <2>. DEFINE after == After(c)[q]
  <2>6. d \notin 8..26 => after - h \notin 9..26
    <3>1. d < 8 /\ d \in HandlerPushes => d + 2 < 9
          BY <2>3
    <3>2. after = h + d + 1 \/ (d \in HandlerPushes /\ after = h + d + 2)
          BY <2>5
    <3>. HIDE DEF after
    <3>3. after - h = d + 1 \/ (d \in HandlerPushes /\ after - h = d + 2)
          BY <2>1, <3>2
    <3>4. ASSUME d \notin 8..26 PROVE after - h < 9 \/ after - h > 26
      <4>1. d <= 7 \/ d >= 27
            BY <2>1, <3>4
      <4>2. CASE d <= 7
            BY <2>1, <3>1, <3>3, <4>2
      <4>3. CASE d >= 27
            BY <2>1, <3>3, <4>3
      <4>. QED BY <4>1, <4>2, <4>3
    <3>5. after - h < 9 \/ after - h > 26 => after - h \notin 9..26
          OBVIOUS
    <3>. QED BY <3>4, <3>5
  <2>7. c[q + 1] = OP.JUMPDEST => d \notin 9..26
        BY <2>2
  <2>8. c[q + 1] = OP.SSTORE => q \in {h + 21, h + 26}
        BY <1>4, <2>2
  <2>. QED BY <2>4, <2>6, <2>7, <2>8
<1>5. CASE q \in Nat /\ q >= h + 49
      BY <1>1, <1>5
<1>. QED BY <1>2, <1>3, <1>4, <1>5 DEF TokenReach

LEMMA TokenJumpdests ==
    ASSUME NEW c, c = TOKEN_RUNTIME_BYTECODE, NEW j \in find_jumpdests(c)
    PROVE  j \in Nat /\ j - Handlers \notin 9..26
<1>1. Len(c) \in Nat /\ Handlers \in Nat
      BY TokenParts
<1>2. PICK h \in Nat : h = Handlers
      BY <1>1
<1>3. j \in ReachedFrom(After(c), 0) /\ j < Len(c) /\ c[j + 1] = OP.JUMPDEST
      BY <1>1, JumpdestsReached
<1>. QED BY <1>2, <1>3, TokenInstruction

-----------------------------------------------------------------------------
(* A step of the token *)

LEMMA StepRuns == Step => Running
BY DEF Step, Running, Executes, Calls, Arithmetic, Unary, Environment, Sizes, op_gas,
   op_calldataload, Copy, op_pop, op_push, op_dup, op_swap, op_mload, op_sha3,
   MemoryWrite, op_sload, op_sstore, op_jump, op_jumpdest, op_stop, Answer, Invalid,
   Unanswered, op_create, CallRunsNothing, CallFails, CallSucceeds,
   InvalidOpcode, OutOfGas, StackUnderflow, StackOverflow, InvalidJumpDestination,
   MemoryError, OverflowError, CalleeRaises, HandlerRaises, Raise

(* Storage stays a book.                                                     *)
LEMMA BookKept ==
    ASSUME IInv, context.value = 0, IsBook(storage), Step
    PROVE  IsBook(storage')
<1>1. CASE Throws
      BY <1>1 DEF Throws, Data
<1>2. CASE Handled /\ opcode = OP.SSTORE
  <2>1. PICK k \in Word, v \in Word : storage' = Stored(storage, k, v)
        BY <1>2, DoesSstore
  <2>. QED BY <2>1, SlotStored
<1>3. CASE Moved /\ opcode # OP.SSTORE
      BY <1>3 DEF Moved
<1>. QED BY <1>1, <1>2, <1>3, Outcome, StepMoves

(* Outside of the transfer nothing need be said of the stack.                *)
LEMMA OutsideStays ==
    ASSUME NEW at, NEW c, NEW amount \in Word, NEW to \in Word, at \notin 22..26,
           Balanced(at, c, amount, to), UNCHANGED storage,
           NEW n \in Int, n \notin 9..26, NEW d
    PROVE  Balanced(n, d, amount, to)'
<1>1. TransferStack(n, d, amount, to)'
      BY DEF TransferStack
<1>2. n \notin 17..21 /\ n \notin 22..26
      OBVIOUS
<1>3. Pending(n, amount)' = 0 /\ Pending(at, amount) = 0
      BY <1>2 DEF Pending
<1>. QED BY <1>1, <1>2, <1>3 DEF Balanced

(* Nothing changes where an exception is raised, or no step is taken.        *)
LEMMA SameBalanced ==
    ASSUME NEW at, NEW c, NEW amount, NEW to, Balanced(at, c, amount, to),
           UNCHANGED <<execution_stack, storage>>
    PROVE  Balanced(at, c, amount, to)'
<1>1. UNCHANGED <<execution_stack, storage>>
      OBVIOUS
<1>2. \A k : Slot(k)' = Slot(k)
      BY <1>1 DEF Slot
<1>3. Slot(c)' = Slot(c) /\ Slot(to)' = Slot(to)
      BY <1>2
<1>4. /\ at = 9 => OnTop(execution_stack, <<c>>)
      /\ at = 10 => OnTop(execution_stack, <<c, c>>)
      /\ at = 11 => OnTop(execution_stack, <<Slot(c), c>>)
      /\ at = 12 => OnTop(execution_stack, <<amount, Slot(c), c, amount>>)
      /\ at = 13 => OnTop(execution_stack, <<Slot(c), amount, Slot(c), c, amount>>)
      /\ at = 14 => OnTop(execution_stack, <<Flag(Slot(c) < amount), Slot(c), c, amount>>)
      /\ at = 16 => \E d : OnTop(execution_stack, <<d, Flag(Slot(c) < amount), Slot(c), c, amount>>)
      /\ at = 17 => OnTop(execution_stack, <<Slot(c), c, amount>>)
      /\ at = 18 => OnTop(execution_stack, <<amount, Slot(c), c, amount>>)
      /\ at = 19 => OnTop(execution_stack, <<Slot(c), amount, c, amount>>)
      /\ at = 20 => OnTop(execution_stack, <<Slot(c) - amount, c, amount>>)
      /\ at = 21 => OnTop(execution_stack, <<c, Slot(c) - amount, amount>>)
      /\ at = 22 => OnTop(execution_stack, <<amount>>)
      /\ at = 23 => OnTop(execution_stack, <<to, amount, to>>)
      /\ at = 24 => OnTop(execution_stack, <<Slot(to), amount, to>>)
      /\ at = 25 => OnTop(execution_stack, <<Slot(to) + amount, to>>)
      /\ at = 26 => OnTop(execution_stack, <<to, Slot(to) + amount, to>>)
      BY DEF Balanced, TransferStack, Has
<1>5. /\ at = 9 => OnTop(execution_stack', <<c>>)
      /\ at = 10 => OnTop(execution_stack', <<c, c>>)
      /\ at = 11 => OnTop(execution_stack', <<Slot(c)', c>>)
      /\ at = 12 => OnTop(execution_stack', <<amount, Slot(c)', c, amount>>)
      /\ at = 13 => OnTop(execution_stack', <<Slot(c)', amount, Slot(c)', c, amount>>)
      /\ at = 14 => OnTop(execution_stack', <<Flag(Slot(c)' < amount), Slot(c)', c, amount>>)
      /\ at = 16 => \E d : OnTop(execution_stack', <<d, Flag(Slot(c)' < amount), Slot(c)', c, amount>>)
      /\ at = 17 => OnTop(execution_stack', <<Slot(c)', c, amount>>)
      /\ at = 18 => OnTop(execution_stack', <<amount, Slot(c)', c, amount>>)
      /\ at = 19 => OnTop(execution_stack', <<Slot(c)', amount, c, amount>>)
      /\ at = 20 => OnTop(execution_stack', <<Slot(c)' - amount, c, amount>>)
      /\ at = 21 => OnTop(execution_stack', <<c, Slot(c)' - amount, amount>>)
      /\ at = 22 => OnTop(execution_stack', <<amount>>)
      /\ at = 23 => OnTop(execution_stack', <<to, amount, to>>)
      /\ at = 24 => OnTop(execution_stack', <<Slot(to)', amount, to>>)
      /\ at = 25 => OnTop(execution_stack', <<Slot(to)' + amount, to>>)
      /\ at = 26 => OnTop(execution_stack', <<to, Slot(to)' + amount, to>>)
  <2>1. at = 9 => OnTop(execution_stack', <<c>>)
        BY <1>1, <1>3, <1>4
  <2>2. at = 10 => OnTop(execution_stack', <<c, c>>)
        BY <1>1, <1>3, <1>4
  <2>3. at = 11 => OnTop(execution_stack', <<Slot(c)', c>>)
        BY <1>1, <1>3, <1>4
  <2>4. at = 12 => OnTop(execution_stack', <<amount, Slot(c)', c, amount>>)
        BY <1>1, <1>3, <1>4
  <2>5. at = 13 => OnTop(execution_stack', <<Slot(c)', amount, Slot(c)', c, amount>>)
        BY <1>1, <1>3, <1>4
  <2>6. at = 14 => OnTop(execution_stack', <<Flag(Slot(c)' < amount), Slot(c)', c, amount>>)
        BY <1>1, <1>3, <1>4
  <2>7. at = 16 => \E d : OnTop(execution_stack', <<d, Flag(Slot(c)' < amount), Slot(c)', c, amount>>)
        BY <1>1, <1>3, <1>4
  <2>8. at = 17 => OnTop(execution_stack', <<Slot(c)', c, amount>>)
        BY <1>1, <1>3, <1>4
  <2>9. at = 18 => OnTop(execution_stack', <<amount, Slot(c)', c, amount>>)
        BY <1>1, <1>3, <1>4
  <2>10. at = 19 => OnTop(execution_stack', <<Slot(c)', amount, c, amount>>)
         BY <1>1, <1>3, <1>4
  <2>11. at = 20 => OnTop(execution_stack', <<Slot(c)' - amount, c, amount>>)
         BY <1>1, <1>3, <1>4
  <2>12. at = 21 => OnTop(execution_stack', <<c, Slot(c)' - amount, amount>>)
         BY <1>1, <1>3, <1>4
  <2>13. at = 22 => OnTop(execution_stack', <<amount>>)
         BY <1>1, <1>3, <1>4
  <2>14. at = 23 => OnTop(execution_stack', <<to, amount, to>>)
         BY <1>1, <1>3, <1>4
  <2>15. at = 24 => OnTop(execution_stack', <<Slot(to)', amount, to>>)
         BY <1>1, <1>3, <1>4
  <2>16. at = 25 => OnTop(execution_stack', <<Slot(to)' + amount, to>>)
         BY <1>1, <1>3, <1>4
  <2>17. at = 26 => OnTop(execution_stack', <<to, Slot(to)' + amount, to>>)
         BY <1>1, <1>3, <1>4
  <2>. QED BY <2>1, <2>2, <2>3, <2>4, <2>5, <2>6, <2>7, <2>8, <2>9, <2>10, <2>11, <2>12, <2>13,
              <2>14, <2>15, <2>16, <2>17
<1>6. TransferStack(at, c, amount, to)'
      BY <1>5 DEF TransferStack, Has
<1>7. Pending(at, amount)' = Pending(at, amount)
      BY DEF Pending
<1>. QED BY <1>1, <1>3, <1>6, <1>7 DEF Balanced

LEMMA TokenStep ==
    ASSUME IInv, context.value = 0, IsBook(storage), code = TOKEN_RUNTIME_BYTECODE,
           Step, TokenInv
    PROVE  TokenInv'
<1>1. PICK at \in {program_counter - Handlers}, c \in {context.caller},
           amount \in Word, to \in Word : Balanced(at, c, amount, to)
      BY DEF TokenInv
<1>2. at = program_counter - Handlers /\ c = context.caller /\ Balanced(at, c, amount, to)
      BY <1>1
<1>3. Handlers \in Nat /\ Within(code, Handlers, TransferHandler)
      BY TokenParts
<1>4. PICK h \in Nat : h = Handlers
      BY <1>3
<1>5. PICK p \in Nat : p = program_counter
      BY DEF IInv, PositionInv
<1>6. at \in Int /\ p = h + at /\ at = p - h
      BY <1>2, <1>4, <1>5
<1>7. Running /\ stopped = FALSE /\ p < Len(code) /\ IsInstruction(code, p)
      BY <1>5, StepRuns, AtWork
<1>8. p \in ReachedFrom(After(code), 0)
      BY <1>7, InstructionReached
<1>9. /\ p # h + 15
      /\ code[p + 1] = OP.SSTORE => p \in {h + 21, h + 26}
      /\ p - h \notin 8..26 => After(code)[p] - h \notin 9..26
      BY <1>4, <1>7, <1>8, TokenInstruction
<1>10. c \in Word
      BY <1>2 DEF IInv, MadeInv
<1>. DEFINE Goal(n, d, a, r) == /\ n = program_counter' - Handlers /\ d = context.caller'
                                /\ a \in Word /\ r \in Word
                                /\ Balanced(n, d, a, r)' /\ (stopped' => n \notin 9..26)
<1>11. ASSUME NEW n, NEW d, NEW a, NEW r, Goal(n, d, a, r)
       PROVE  TokenInv'
       BY <1>11 DEF TokenInv
<1>. HIDE DEF Goal
<1>12. CASE Throws
  <2>1. /\ program_counter' = program_counter /\ stopped' = stopped
        /\ context' = context /\ UNCHANGED <<execution_stack, storage>>
        BY <1>12 DEF Throws, made, Data
  <2>2. Balanced(at, c, amount, to)'
        BY <1>2, <2>1, SameBalanced
  <2>3. Goal(at, c, amount, to)
        BY <1>2, <1>7, <2>1, <2>2 DEF Goal
  <2>. QED BY <1>11, <2>3
<1>13. CASE Handled /\ UNCHANGED made /\ Moved
  <2>1. context' = context
        BY <1>13 DEF made
  <2>2. CASE at \in 8..26
    <3>1. at \in Nat /\ at # 15 /\ program_counter = Handlers + at
          BY <1>4, <1>5, <1>6, <1>9, <2>2
    <3>2. \/ /\ at = 16 /\ program_counter' \in valid_jumpdests
             /\ UNCHANGED <<storage, stopped>>
          \/ \E n \in 9..27, a \in Word, r \in Word :
                /\ program_counter' = Handlers + n /\ UNCHANGED stopped
                /\ Balanced(n, c, a, r)'
          BY <1>2, <1>3, <1>10, <1>13, <2>2, <3>1, TransferStep
    <3>3. CASE at = 16 /\ program_counter' \in valid_jumpdests /\ UNCHANGED <<storage, stopped>>
      <4>1. PICK n \in Int : n = program_counter' - Handlers /\ n \notin 9..26
        <5>1. program_counter' \in find_jumpdests(code)
              BY <3>3 DEF IInv, MadeInv
        <5>2. program_counter' \in Nat /\ program_counter' - Handlers \notin 9..26
              BY <5>1, TokenJumpdests
        <5>3. program_counter' - Handlers \in Int
              BY <1>3, <5>2
        <5>. QED BY <5>2, <5>3
      <4>2. Balanced(n, c, amount, to)'
            BY <1>2, <3>3, <4>1, OutsideStays
      <4>3. Goal(n, c, amount, to)
            BY <1>2, <2>1, <4>1, <4>2 DEF Goal
      <4>. QED BY <1>11, <4>3
    <3>4. ASSUME NEW n \in 9..27, NEW a \in Word, NEW r \in Word,
                 program_counter' = Handlers + n, UNCHANGED stopped, Balanced(n, c, a, r)'
          PROVE  TokenInv'
      <4>1. n = program_counter' - Handlers
            BY <1>3, <3>4
      <4>2. Goal(n, c, a, r)
            BY <1>2, <1>7, <2>1, <3>4, <4>1 DEF Goal
      <4>. QED BY <1>11, <4>2
    <3>. QED BY <3>2, <3>3, <3>4
  <2>3. CASE at \notin 8..26
    <3>1. opcode # OP.SSTORE
      <4>1. p \notin {h + 21, h + 26}
            BY <1>6, <2>3
      <4>. QED BY <1>5, <1>9, <4>1 DEF opcode
    <3>2. UNCHANGED storage
          BY <1>13, <3>1 DEF Moved
    <3>3. PICK n \in Int : n = program_counter' - Handlers /\ n \notin 9..26
      <4>1. CASE program_counter' = After(code)[program_counter]
        <5>1. After(code)[p] \in Nat /\ After(code)[p] - h \notin 9..26
              BY <1>6, <1>9, <2>3, AfterType
        <5>2. program_counter' = After(code)[p]
              BY <1>5, <4>1
        <5>3. program_counter' - Handlers \in Int
              BY <1>3, <5>1, <5>2
        <5>. QED BY <1>4, <5>1, <5>2, <5>3
      <4>2. CASE program_counter' \in valid_jumpdests
        <5>1. program_counter' \in find_jumpdests(code)
              BY <4>2 DEF IInv, MadeInv
        <5>2. program_counter' \in Nat /\ program_counter' - Handlers \notin 9..26
              BY <5>1, TokenJumpdests
        <5>3. program_counter' - Handlers \in Int
              BY <1>3, <5>2
        <5>. QED BY <5>2, <5>3
      <4>3. CASE program_counter' = program_counter
        <5>1. at \notin 9..26
              BY <1>6, <2>3
        <5>2. program_counter' - Handlers = at
              BY <1>2, <4>3
        <5>. QED BY <1>6, <5>1, <5>2
      <4>. QED BY <1>13, <4>1, <4>2, <4>3 DEF Moved
    <3>4. at \notin 22..26
          BY <1>6, <2>3
    <3>5. Balanced(n, c, amount, to)'
          BY <1>2, <3>2, <3>3, <3>4, OutsideStays
    <3>6. Goal(n, c, amount, to)
          BY <1>2, <2>1, <3>3, <3>5 DEF Goal
    <3>. QED BY <1>11, <3>6
  <2>. QED BY <2>2, <2>3
<1>. QED BY <1>12, <1>13, Outcome, StepMoves
-----------------------------------------------------------------------------
(* The init code *)

(* What a PUSH1 pushes.                                                      *)
LEMMA OneByte ==
    ASSUME NEW c \in Seq(Byte), NEW q \in Nat, q < Len(c)
    PROVE  from_bytes(Slice(c, q, 1)) = c[q + 1]
<1>. DEFINE s == Slice(c, q, 1)
            digit == [n \in Nat |-> ByteAt(s, n)]
            upto == CHOOSE f : f = [n \in Nat |->
                                      IF n = 0 THEN 0 ELSE f[n - 1] * 256 + ByteAt(s, n - 1)]
<1>1. s \in Seq(Byte) /\ Len(s) = 1 /\ \A n \in Nat : ByteAt(s, n) \in Nat
  <2>1. s \in Seq(Byte) /\ Len(s) = 1 /\ \A n \in Nat : ByteAt(s, n) \in Byte
        BY SliceType
  <2>2. \A b \in Byte : b \in Nat
        BY DEF Byte
  <2>. QED BY <2>1, <2>2
<1>2. ByteAt(s, 0) = c[q + 1]
  <2>1. s[1] = ByteAt(c, q + 1 - 1)
        BY DEF Slice
  <2>2. q + 1 - 1 = q /\ ByteAt(c, q) = c[q + 1]
        BY DEF ByteAt
  <2>3. ByteAt(s, 0) = s[0 + 1]
        BY <1>1 DEF ByteAt
  <2>. QED BY <2>1, <2>2, <2>3
<1>3. c[q + 1] \in Nat
  <2>1. ByteAt(s, 0) \in Nat
        BY <1>1
  <2>. QED BY <1>2, <2>1
<1>4. from_bytes(s) = upto[1]
      BY <1>1 DEF from_bytes
<1>5. digit \in [Nat -> Nat]
      BY <1>1
<1>. HIDE DEF s
<1>6. ASSUME NEW f
      PROVE  Numeral(digit, f)
               <=> f = [n \in Nat |-> IF n = 0 THEN 0 ELSE f[n - 1] * 256 + ByteAt(s, n - 1)]
  <2>1. \A n \in Nat : n # 0 => digit[n - 1] = ByteAt(s, n - 1)
        OBVIOUS
  <2>2. [n \in Nat |-> IF n = 0 THEN 0 ELSE f[n - 1] * 256 + digit[n - 1]]
          = [n \in Nat |-> IF n = 0 THEN 0 ELSE f[n - 1] * 256 + ByteAt(s, n - 1)]
    <3>. HIDE DEF digit
    <3>. QED BY <2>1
  <2>. HIDE DEF digit
  <2>. QED BY <2>2 DEF Numeral
<1>. HIDE DEF digit
<1>7. PICK f : Numeral(digit, f)
      BY <1>5, NumeralExists
<1>8. upto = [n \in Nat |-> IF n = 0 THEN 0 ELSE upto[n - 1] * 256 + ByteAt(s, n - 1)]
      BY <1>6, <1>7
<1>. HIDE DEF upto
<1>9. upto[0] = 0 /\ upto[1] = upto[0] * 256 + ByteAt(s, 0)
  <2>1. 0 \in Nat /\ 1 \in Nat /\ 1 # 0 /\ 1 - 1 = 0
        OBVIOUS
  <2>. QED BY <1>8, <2>1
<1>10. upto[1] = c[q + 1]
       BY <1>2, <1>3, <1>9
<1>. QED BY <1>4, <1>10 DEF s

LEMMA HeaderCells ==
    ASSUME NEW r \in Seq(Byte), Len(r) \in Byte, NEW c, c = build_init_code(r)
    PROVE  /\ c \in Seq(Byte) /\ Len(c) = Len(r) + 12
           /\ c[1] = OP.PUSH1 /\ c[2] = Len(r) /\ c[3] = OP.PUSH1 /\ c[4] = 12
           /\ c[5] = OP.PUSH1 /\ c[6] = 0 /\ c[7] = OP.CODECOPY
           /\ c[8] = OP.PUSH1 /\ c[9] = Len(r) /\ c[10] = OP.PUSH1 /\ c[11] = 0
           /\ c[12] = OP.RETURN
           /\ \A i \in 1..Len(r) : c[12 + i] = r[i]
<1>1. c \in Seq(Byte) /\ Len(c) = Len(r) + 12
      BY InitCode DEF IsCode
<1>2. Within(c, 0, c) /\ 0 \in Nat
      BY <1>1, WithinSelf
<1>3. /\ Within(c, 0, PUSH1(Len(r))) /\ Within(c, 0 + 2, PUSH1(12))
      /\ Within(c, 0 + 4, PUSH1(0)) /\ Within(c, 0 + 6, <<OP.CODECOPY>>)
      /\ Within(c, 0 + 7, PUSH1(Len(r))) /\ Within(c, 0 + 9, PUSH1(0))
      /\ Within(c, 0 + 11, <<OP.RETURN>>) /\ Within(c, 0 + 12, r)
      BY <1>1, <1>2, InitCode
<1>4. ASSUME NEW k \in Nat, NEW b, Within(c, k, PUSH1(b))
      PROVE  c[k + 1] = OP.PUSH1 /\ c[k + 2] = b
  <2>1. Within(c, k, <<OP.PUSH1, b>>)
        BY <1>4 DEF PUSH1
  <2>. QED BY <2>1 DEF Within
<1>5. c[1] = OP.PUSH1 /\ c[2] = Len(r)
      BY <1>3, <1>4
<1>6. c[3] = OP.PUSH1 /\ c[4] = 12
      BY <1>3, <1>4
<1>7. c[5] = OP.PUSH1 /\ c[6] = 0
      BY <1>3, <1>4
<1>8. c[8] = OP.PUSH1 /\ c[9] = Len(r)
      BY <1>3, <1>4
<1>9. c[10] = OP.PUSH1 /\ c[11] = 0
      BY <1>3, <1>4
<1>10. c[7] = OP.CODECOPY
  <2>1. Within(c, 6, <<OP.CODECOPY>>)
        BY <1>3
  <2>. QED BY <2>1 DEF Within
<1>11. c[12] = OP.RETURN
  <2>1. Within(c, 11, <<OP.RETURN>>)
        BY <1>3
  <2>. QED BY <2>1 DEF Within
<1>12. \A i \in 1..Len(r) : c[12 + i] = r[i]
  <2>1. Within(c, 12, r)
        BY <1>3
  <2>. QED BY <2>1 DEF Within
<1>. QED BY <1>1, <1>5, <1>6, <1>7, <1>8, <1>9, <1>10, <1>11, <1>12

(* What is written from 0 on is there, and read back.                        *)
LEMMA WrittenWithin ==
    ASSUME NEW m \in Seq(Byte), NEW data \in Seq(Byte)
    PROVE  Within(write_range(m, 0, data), 0, data)
<1>. DEFINE n == Len(data)
            g == expand_to(m, 0, n)
            w == [i \in 1..Len(g) |-> IF i - 0 \in 1..n THEN data[i - 0] ELSE g[i]]
<1>1. n \in Nat /\ Len(m) \in Nat
      OBVIOUS
<1>2. Len(g) \in Nat /\ n <= Len(g)
  <2>1. CASE n = 0 \/ 0 + n <= Len(m)
    <3>1. g = m
          BY <2>1 DEF expand_to
    <3>. QED BY <1>1, <2>1, <3>1
  <2>2. CASE ~(n = 0 \/ 0 + n <= Len(m))
    <3>. DEFINE b == WordBoundary(0 + n)
                zeros == [i \in 1..(b - Len(m)) |-> 0]
    <3>1. 0 + n \in Nat
          BY <1>1
    <3>2. b \in Nat /\ 0 + n <= b
          BY <3>1, Rounded
    <3>3. g = m \o zeros
          BY <2>2 DEF expand_to
    <3>. HIDE DEF b, g, n
    <3>4. b - Len(m) \in Nat
          BY <1>1, <2>2, <3>2
    <3>5. zeros \in Seq(Byte) /\ Len(zeros) = b - Len(m)
      <4>1. 0 \in Byte
            BY DEF Byte
      <4>. QED BY <3>4, <4>1
    <3>. HIDE DEF zeros
    <3>6. Len(g) = Len(m) + Len(zeros)
          BY <3>3, <3>5, ConcatProperties
    <3>. QED BY <1>1, <3>2, <3>4, <3>5, <3>6
  <2>. QED BY <2>1, <2>2
<1>3. write_range(m, 0, data) = w
      BY DEF write_range
<1>. HIDE DEF g
<1>4. Len(w) = Len(g)
      BY <1>2
<1>5. \A i \in 1..n : w[0 + i] = data[i]
      BY <1>1, <1>2
<1>. HIDE DEF w
<1>. QED BY <1>1, <1>2, <1>3, <1>4, <1>5 DEF Within

LEMMA ReadBack ==
    ASSUME NEW m, NEW r \in Seq(Byte), Len(m) \in Nat, Within(m, 0, r)
    PROVE  Slice(m, 0, Len(r)) = r
<1>1. Len(r) \in Nat /\ Len(r) <= Len(m) /\ \A i \in 1..Len(r) : m[i] = r[i]
      BY DEF Within
<1>2. \A i \in 1..Len(r) : ByteAt(m, 0 + i - 1) = r[i]
      BY <1>1 DEF ByteAt
<1>3. r = [i \in 1..Len(r) |-> r[i]]
      OBVIOUS
<1>. QED BY <1>2, <1>3 DEF Slice
LEMMA HeaderStep ==
    ASSUME IInv, context.value = 0, NEW r \in Seq(Byte), Len(r) \in Byte,
           code = build_init_code(r), Header(r), Step
    PROVE  /\ UNCHANGED storage
           /\ stopped' => return_data' = r
           /\ ~stopped' => Header(r)'
<1>. DEFINE n == Len(r)
            leaves(values) == OnTop(execution_stack', values)
            Keeps == UNCHANGED <<storage, stopped>>
<1>1. n \in Nat /\ n \in Byte
      BY DEF Byte
<1>2. stopped = FALSE /\ Len(execution_stack) \in Nat /\ memory \in Seq(Byte) /\ Len(memory) \in Nat
  <2>1. stopped = FALSE
        BY StepRuns, AtWork
  <2>. QED BY <2>1, StackWords DEF IInv, MemoryInv, Holds
<1>3. /\ code \in Seq(Byte) /\ Len(code) = n + 12
      /\ code[1] = OP.PUSH1 /\ code[2] = n /\ code[3] = OP.PUSH1 /\ code[4] = 12
      /\ code[5] = OP.PUSH1 /\ code[6] = 0 /\ code[7] = OP.CODECOPY
      /\ code[8] = OP.PUSH1 /\ code[9] = n /\ code[10] = OP.PUSH1 /\ code[11] = 0
      /\ code[12] = OP.RETURN
      /\ \A i \in 1..n : code[12 + i] = r[i]
      BY HeaderCells
<1>. HIDE DEF n
<1>4. ASSUME NEW p \in {0, 2, 4, 7, 9}, program_counter = p, Handled
      PROVE  /\ Pushes(0, code[p + 2]) /\ UNCHANGED memory
             /\ program_counter' = p + 2 /\ Keeps
  <2>1. opcode = OP.PUSH1
        BY <1>3, <1>4 DEF opcode
  <2>2. Pushes(0, from_bytes(Slice(code, p + 1, 1))) /\ Steps(2) /\ UNCHANGED memory
        BY <1>4, <2>1, DoesPush
  <2>3. p + 1 \in Nat /\ p + 1 < Len(code) /\ p + 1 + 1 = p + 2
        BY <1>1, <1>3
  <2>4. from_bytes(Slice(code, p + 1, 1)) = code[p + 1 + 1]
        BY <1>3, <2>3, OneByte
  <2>5. Pushes(0, code[p + 2])
        BY <2>2, <2>3, <2>4
  <2>. QED BY <1>4, <2>2, <2>5 DEF Steps
<1>5. ASSUME NEW v, Pushes(0, v)
      PROVE  /\ leaves(<<v>>)
             /\ \A a : Has(<<a>>) => leaves(<<v, a>>)
             /\ \A a, b : Has(<<a, b>>) => leaves(<<v, a, b>>)
      BY <1>2, <1>5, PushedOnTop DEF Has
<1>6. CASE Throws
  <2>1. UNCHANGED <<program_counter, execution_stack, memory, storage, stopped>>
        BY <1>6 DEF Throws, Data
  <2>2. Header(r)'
        BY <2>1 DEF Header, Has
  <2>. QED BY <1>2, <2>1, <2>2
<1>7. ASSUME Handled, program_counter = 0
      PROVE  Keeps /\ Header(r)'
  <2>1. Pushes(0, n) /\ program_counter' = 2 /\ Keeps
        BY <1>3, <1>4, <1>7
  <2>2. leaves(<<n>>)
        BY <1>5, <2>1
  <2>. QED BY <2>1, <2>2 DEF Header, Has, n
<1>8. ASSUME Handled, program_counter = 2
      PROVE  Keeps /\ Header(r)'
  <2>1. Pushes(0, 12) /\ program_counter' = 4 /\ Keeps
        BY <1>3, <1>4, <1>8
  <2>2. Has(<<n>>)
        BY <1>8 DEF Header, n
  <2>3. leaves(<<12, n>>)
        BY <1>5, <2>1, <2>2
  <2>. QED BY <2>1, <2>3 DEF Header, Has, n
<1>9. ASSUME Handled, program_counter = 4
      PROVE  Keeps /\ Header(r)'
  <2>1. Pushes(0, 0) /\ program_counter' = 6 /\ Keeps
        BY <1>3, <1>4, <1>9
  <2>2. Has(<<12, n>>)
        BY <1>9 DEF Header, n
  <2>3. leaves(<<0, 12, n>>)
        BY <1>5, <2>1, <2>2
  <2>. QED BY <2>1, <2>3 DEF Header, Has, n
<1>10. ASSUME Handled, program_counter = 6
       PROVE  Keeps /\ Header(r)'
  <2>1. opcode = OP.CODECOPY
        BY <1>3, <1>10 DEF opcode
  <2>2. /\ Steps(1) /\ memory' = write_range(memory, Top(1), Slice(code, Top(2), Top(3)))
        BY <1>10, <2>1, DoesCopy
  <2>3. Has(<<0, 12, n>>)
        BY <1>10 DEF Header, n
  <2>4. Top(1) = 0 /\ Top(2) = 12 /\ Top(3) = n
        BY <1>2, <2>3, TopWords DEF Has, Top
  <2>5. Slice(code, 12, n) = r
    <3>1. \A i \in 1..n : ByteAt(code, 12 + i - 1) = r[i]
      <4>. TAKE i \in 1..n
      <4>1. 12 + i - 1 < Len(code) /\ 12 + i - 1 + 1 = 12 + i
            BY <1>1, <1>3
      <4>2. code[12 + i] = r[i]
            BY <1>3
      <4>. QED BY <4>1, <4>2 DEF ByteAt
    <3>2. r = [i \in 1..n |-> r[i]]
          BY DEF n
    <3>. QED BY <3>1, <3>2 DEF Slice
  <2>6. memory' = write_range(memory, 0, r)
        BY <2>2, <2>4, <2>5
  <2>7. Within(memory', 0, r)
        BY <1>2, <2>6, WrittenWithin
  <2>8. program_counter' = 7 /\ Keeps
        BY <1>10, <2>2 DEF Steps
  <2>. QED BY <2>7, <2>8 DEF Header
<1>11. ASSUME Handled, program_counter = 7
       PROVE  Keeps /\ Header(r)'
  <2>1. Pushes(0, n) /\ program_counter' = 9 /\ Keeps /\ UNCHANGED memory
        BY <1>3, <1>4, <1>11
  <2>2. leaves(<<n>>) /\ Within(memory', 0, r)
        BY <1>5, <1>11, <2>1 DEF Header
  <2>. QED BY <2>1, <2>2 DEF Header, Has, n
<1>12. ASSUME Handled, program_counter = 9
       PROVE  Keeps /\ Header(r)'
  <2>1. Pushes(0, 0) /\ program_counter' = 11 /\ Keeps /\ UNCHANGED memory
        BY <1>3, <1>4, <1>12
  <2>2. Has(<<n>>) /\ Within(memory', 0, r)
        BY <1>12, <2>1 DEF Header, n
  <2>3. leaves(<<0, n>>)
        BY <1>5, <2>1, <2>2
  <2>. QED BY <2>1, <2>2, <2>3 DEF Header, Has, n
<1>13. ASSUME Handled, program_counter = 11
       PROVE  return_data' = r /\ stopped' /\ UNCHANGED storage
  <2>1. opcode = OP.RETURN
        BY <1>3, <1>13 DEF opcode
  <2>2. return_data' = Slice(memory, Top(1), Top(2)) /\ stopped' /\ UNCHANGED storage
        BY <1>13, <2>1, DoesReturn
  <2>3. Has(<<0, n>>) /\ Within(memory, 0, r)
        BY <1>13 DEF Header, n
  <2>4. Top(1) = 0 /\ Top(2) = n
        BY <1>2, <2>3, TopWords DEF Has, Top
  <2>5. Slice(memory, 0, n) = r
        BY <1>2, <2>3, ReadBack DEF n
  <2>. QED BY <2>2, <2>4, <2>5
<1>14. program_counter \in {0, 2, 4, 6, 7, 9, 11}
       BY DEF Header
<1>15. CASE Handled
       BY <1>2, <1>7, <1>8, <1>9, <1>10, <1>11, <1>12, <1>13, <1>14, <1>15
<1>. QED BY <1>6, <1>15, Outcome

-----------------------------------------------------------------------------
(* A new frame *)

(* The runtime codes fit behind a header that names their length in a byte.  *)
LEMMA RuntimeBytes ==
    ASSUME kind \in Names
    PROVE  /\ runtime \in Seq(Byte) /\ Len(runtime) \in Byte /\ Len(runtime) + 12 \in Byte
           /\ kind = "token" => runtime = TOKEN_RUNTIME_BYTECODE
<1>1. /\ WordBytes \in Int /\ WordBytes <= 32 /\ WordBytes >= 1
      /\ SelectorBytes \in Int /\ SelectorBytes >= 1 /\ SelectorBytes <= WordBytes
      BY WidthAssumption, SelectorAssumption
<1>2. ASSUME NEW c, NEW n \in {48, 72}, IsCode(c, WordBytes + 2 * SelectorBytes + n)
      PROVE  c \in Seq(Byte) /\ Len(c) \in Byte /\ Len(c) + 12 \in Byte
  <2>1. c \in Seq(Byte) /\ Len(c) = WordBytes + 2 * SelectorBytes + n
        BY <1>2 DEF IsCode
  <2>2. WordBytes + 2 * SelectorBytes + n \in 0..243
        BY <1>1
  <2>3. PICK m \in 0..243 : Len(c) = m
        BY <2>1, <2>2
  <2>4. m \in Byte /\ m + 12 \in Byte
        BY DEF Byte
  <2>. QED BY <2>1, <2>3, <2>4
<1>3. kind = "token" => runtime = TOKEN_RUNTIME_BYTECODE
      BY DEF runtime
<1>4. kind # "token" => runtime = COUNTER_RUNTIME_BYTECODE
      BY DEF runtime
<1>5. /\ IsCode(TOKEN_RUNTIME_BYTECODE, WordBytes + 2 * SelectorBytes + 72)
      /\ IsCode(COUNTER_RUNTIME_BYTECODE, WordBytes + 2 * SelectorBytes + 48)
      BY TokenCode, CounterCode
<1>. QED BY <1>2, <1>3, <1>4, <1>5

(* So does what a client sends.                                              *)
LEMMA EncodedBytes ==
    ASSUME NEW r \in TokenRequests \cup CounterRequests
    PROVE  /\ encode(r) \in Seq(Byte) /\ Len(encode(r)) \in Word
           /\ r.caller \in Word /\ r.gas \in Word
<1>. DEFINE W == WordBytes
            S == SelectorBytes
            words(s, n) == s \in Seq(Byte) /\ Len(s) = n
<1>1. /\ W \in Int /\ W <= 32 /\ W >= 1 /\ S \in Int /\ S >= 1 /\ S <= W
      BY WidthAssumption, SelectorAssumption
<1>2. \A name \in {"transfer", "balanceOf", "increment", "getCount", "unknown"} :
         words(Selector[name], S)
      BY SelectorAssumption
<1>3. ASSUME NEW v \in Word
      PROVE  words(encode_uint256(v), W)
  <2>1. v \in Nat /\ W \in Nat
        BY WordValues
  <2>. QED BY <2>1, ToBytes DEF encode_uint256
<1>4. \A n \in 0..255 : n \in Word
      BY WordValues DEF Byte
<1>5. /\ r.caller \in Clients /\ r.gas \in GasLimits
      /\ r.op \in {"transfer", "balanceOf", "increment", "getCount", "unknown"}
      /\ r.op = "transfer" => r.to \in Recipients /\ r.amount \in Amounts
      /\ r.op = "balanceOf" => r.of \in Recipients
      BY DEF TokenRequests, CounterRequests, Asked
<1>6. r.caller \in Word /\ r.gas \in Word
      BY <1>5, ClientAssumption
<1>. HIDE DEF W, S
<1>7. CASE r.op = "transfer"
  <2>1. encode(r) = Selector.transfer \o encode_uint256(r.to) \o encode_uint256(r.amount)
        BY <1>7 DEF encode
  <2>2. words(encode_uint256(r.to), W) /\ words(encode_uint256(r.amount), W)
        BY <1>3, <1>5, <1>7, ClientAssumption
  <2>3. PICK a, b, d : /\ words(a, S) /\ words(b, W) /\ words(d, W)
                       /\ encode(r) = a \o b \o d
        BY <1>2, <2>1, <2>2
  <2>4. words(a \o b, S + W)
        BY <2>3, ConcatProperties
  <2>5. words(a \o b \o d, S + W + W)
        BY <2>3, <2>4, ConcatProperties
  <2>6. S + W + W \in 0..255
        BY <1>1
  <2>. QED BY <1>4, <1>6, <2>3, <2>5, <2>6
<1>8. CASE r.op = "balanceOf"
  <2>1. encode(r) = Selector.balanceOf \o encode_uint256(r.of)
        BY <1>8 DEF encode
  <2>2. words(encode_uint256(r.of), W)
        BY <1>3, <1>5, <1>8, ClientAssumption
  <2>3. PICK a, b : words(a, S) /\ words(b, W) /\ encode(r) = a \o b
        BY <1>2, <2>1, <2>2
  <2>4. words(a \o b, S + W)
        BY <2>3, ConcatProperties
  <2>5. S + W \in 0..255
        BY <1>1
  <2>. QED BY <1>4, <1>6, <2>3, <2>4, <2>5
<1>9. CASE r.op \in {"increment", "getCount", "unknown"}
  <2>1. encode(r) = Selector[r.op]
        BY <1>9 DEF encode
  <2>2. words(encode(r), S) /\ S \in 0..255
        BY <1>1, <1>2, <1>9, <2>1
  <2>. QED BY <1>4, <1>6, <2>2
<1>. QED BY <1>5, <1>7, <1>8, <1>9

(* A new frame stands on its first instruction, with nothing in memory.      *)
LEMMA FrameStarts ==
    ASSUME NEW c \in Seq(Byte), Len(c) \in Word, NEW caller \in Word,
           NEW data \in Seq(Byte), Len(data) \in Word, NEW gas \in Word,
           NEW s, IsBook(s), Frame(c, caller, data, gas, s)
    PROVE  /\ IInv' /\ context'.value = 0 /\ context'.caller = caller
           /\ code' = c /\ storage' = s /\ program_counter' = 0 /\ stopped' = FALSE
<1>1. /\ code' = c /\ storage' = s /\ program_counter' = 0
      /\ valid_jumpdests' = find_jumpdests(c) /\ execution_stack' = <<>> /\ memory' = <<>>
      /\ gas_remaining' = gas /\ stopped' = FALSE /\ reverted' = FALSE
      /\ return_data' = <<>> /\ raised' = NoException /\ touched' = 0
      BY DEF Frame
<1>2. /\ context'.caller = caller /\ context'.address = ContractAddress
      /\ context'.value = 0 /\ context'.data = data /\ context'.gas = gas
      BY DEF Frame
<1>3. MadeInv'
      BY <1>1, <1>2, ClientAssumption, WordValues DEF MadeInv
<1>4. Cell' = Word
      BY <1>2, WordValues DEF Cell
<1>5. StackInv'
  <2>1. MAX_STACK_DEPTH \in Nat
        BY WidthAssumption
  <2>2. <<>> \in Seq(Word) /\ Len(<<>>) = 0
        OBVIOUS
  <2>. QED BY <1>1, <1>4, <2>1, <2>2 DEF StackInv, Depth
<1>6. StorageInv'
  <2>1. \A k \in DOMAIN s : k \in Word /\ s[k] \in Word
        BY DEF IsBook
  <2>. QED BY <1>1, <1>4, <2>1 DEF StorageInv
<1>7. MemoryInv'
  <2>1. MaxMemory \in Nat /\ WordBytes \in Nat /\ WordBytes >= 1 /\ 0 % WordBytes = 0
        BY WidthAssumption
  <2>2. <<>> \in Seq(Byte) /\ Len(<<>>) = 0
        OBVIOUS
  <2>3. Holds(<<>>, 0)
        BY <2>1, <2>2 DEF Holds
  <2>. QED BY <1>1, <2>3 DEF MemoryInv
<1>8. PositionInv'
  <2>1. After(c) \in [Nat -> Nat]
        BY AfterType
  <2>2. 0 \in ReachedFrom(After(c), 0)
        BY <2>1, ReachClosed
  <2>3. IsInstruction(c, 0)
        BY <2>2, InstructionReached
  <2>. QED BY <1>1, <2>3 DEF PositionInv
<1>9. GasInv'
  <2>1. gas \in 0..gas
        BY WordValues
  <2>. QED BY <1>1, <1>2, <2>1 DEF GasInv
<1>10. EndInv' /\ RefusedInv'
  <2>1. stopped' \in BOOLEAN /\ reverted' \in BOOLEAN
        BY <1>1
  <2>2. return_data' \in Seq(Byte)
        BY <1>1
  <2>3. raised' \in Exceptions /\ raised' # "OverflowError" /\ raised' # "InvalidJumpDestination"
        BY <1>1 DEF Exceptions, NoException
  <2>4. EndInv'
        BY <2>1, <2>2, <2>3 DEF EndInv
  <2>. QED BY <2>3, <2>4 DEF RefusedInv
<1>. QED BY <1>1, <1>2, <1>3, <1>5, <1>6, <1>7, <1>8, <1>9, <1>10 DEF IInv

-----------------------------------------------------------------------------
(* The invariant holds *)

LEMMA EmptyBook == IsBook(EmptyDict)
BY DEF IsBook, EmptyDict

LEMMA InitHolds == InitContracts => ContractInv
<1>. SUFFICES ASSUME InitContracts PROVE ContractInv
     OBVIOUS
<1>1. /\ contract = [code |-> <<>>, storage |-> EmptyDict]
      /\ kind \in {"token", "counter"} /\ phase = "idle"
      BY DEF InitContracts
<1>2. AccountInv
      BY <1>1, EmptyBook DEF AccountInv
<1>3. DeployedVerbatim /\ TokensConserved
      BY <1>1 DEF DeployedVerbatim, TokensConserved
<1>. QED BY <1>1, <1>2, <1>3 DEF ContractInv, Names, DeployInv, CallInv

(* What the account's part of the invariant rests on.                        *)
LEMMA AccountStays ==
    ASSUME ContractInv, UNCHANGED <<contract, kind>>
    PROVE  /\ runtime' = runtime
           /\ (kind \in Names)' /\ AccountInv' /\ DeployedVerbatim' /\ TokensConserved'
<1>1. runtime' = runtime
      BY DEF runtime
<1>. QED BY <1>1 DEF ContractInv, AccountInv, DeployedVerbatim, TokensConserved

LEMMA DeployHolds ==
    ASSUME ContractInv, NEW gas \in GasLimits, Deploy(gas)
    PROVE  ContractInv'
<1>1. PICK r : r = runtime
      OBVIOUS
<1>2. r \in Seq(Byte) /\ Len(r) \in Byte /\ Len(r) + 12 \in Byte
      BY <1>1, RuntimeBytes DEF ContractInv
<1>3. UNCHANGED <<contract, kind>> /\ phase' = "deploying"
      BY DEF Deploy
<1>4. PICK c : c = build_init_code(r)
      OBVIOUS
<1>5. Frame(c, Deployer, <<>>, gas, EmptyDict)
      BY <1>1, <1>4 DEF Deploy
<1>6. c \in Seq(Byte) /\ Len(c) \in Word
      BY <1>2, <1>4, HeaderCells, WordValues
<1>7. /\ Deployer \in Word /\ gas \in Word /\ <<>> \in Seq(Byte) /\ Len(<<>>) = 0 /\ 0 \in Word
      BY ClientAssumption, WordValues
<1>8. /\ IInv' /\ context'.value = 0
      /\ code' = c /\ storage' = EmptyDict /\ program_counter' = 0 /\ stopped' = FALSE
      BY <1>5, <1>6, <1>7, EmptyBook, FrameStarts
<1>9. runtime' = r /\ (kind \in Names)' /\ AccountInv' /\ DeployedVerbatim' /\ TokensConserved'
      BY <1>1, <1>3, AccountStays
<1>10. Header(r)'
       BY <1>8 DEF Header
<1>11. DeployInv'
       BY <1>4, <1>8, <1>9, <1>10 DEF DeployInv
<1>12. CallInv'
       BY <1>3 DEF CallInv
<1>. QED BY <1>8, <1>9, <1>11, <1>12 DEF ContractInv

LEMMA DeployedHolds ==
    ASSUME ContractInv, Deployed
    PROVE  ContractInv'
<1>1. PICK r \in {runtime} : /\ code = build_init_code(r) /\ storage = EmptyDict
                             /\ stopped => return_data = r
                             /\ ~stopped => Header(r)
      BY DEF Deployed, ContractInv, DeployInv
<1>2. r = runtime /\ r \in Seq(Byte) /\ Len(r) \in Byte
      BY <1>1, RuntimeBytes DEF ContractInv
<1>3. UNCHANGED kind /\ phase' = "idle"
      BY DEF Deployed
<1>4. runtime' = runtime
      BY <1>3 DEF runtime
<1>5. CASE Succeeded
  <2>1. contract' = [code |-> return_data, storage |-> storage]
        BY <1>5 DEF Deployed
  <2>2. stopped
    <3>1. SUFFICES ASSUME ~stopped PROVE FALSE
          OBVIOUS
    <3>2. program_counter >= Len(code)
      <4>1. ~(program_counter < Len(code))
            BY <1>5, <3>1 DEF Deployed, Halted, Running, Succeeded
      <4>2. program_counter \in Nat /\ Len(code) \in Nat
            BY DEF Deployed, ContractInv, IInv, PositionInv, MadeInv
      <4>. QED BY <4>1, <4>2
    <3>3. program_counter \in {0, 2, 4, 6, 7, 9, 11}
          BY <1>1, <3>1 DEF Header
    <3>4. Len(code) = Len(r) + 12 /\ Len(r) \in Nat
          BY <1>1, <1>2, HeaderCells
    <3>. QED BY <3>2, <3>3, <3>4
  <2>3. contract' = [code |-> r, storage |-> EmptyDict]
        BY <1>1, <2>1, <2>2
  <2>4. AccountInv'
        BY <2>3, EmptyBook DEF AccountInv
  <2>5. DeployedVerbatim' /\ TokensConserved'
        BY <1>2, <1>4, <2>3 DEF DeployedVerbatim, TokensConserved
  <2>. QED BY <1>3, <2>4, <2>5 DEF ContractInv, DeployInv, CallInv
<1>6. CASE ~Succeeded
  <2>1. UNCHANGED <<contract, kind>>
        BY <1>3, <1>6 DEF Deployed
  <2>. QED BY <1>3, <2>1, AccountStays DEF ContractInv, DeployInv, CallInv
<1>. QED BY <1>5, <1>6

(* The supply is all there is.                                               *)
LEMMA SupplyHolds ==
    ASSUME ContractInv, SetSupply
    PROVE  ContractInv'
<1>. DEFINE s == [k \in {Deployer} |-> INITIAL_SUPPLY]
<1>1. /\ contract' = [contract EXCEPT !.storage = s]
      /\ UNCHANGED <<evm, kind, phase>> /\ phase = "idle"
      BY DEF SetSupply
<1>2. Deployer \in Word /\ INITIAL_SUPPLY \in Word /\ INITIAL_SUPPLY \in Int
      BY ClientAssumption, WordValues
<1>3. DOMAIN s = {Deployer} /\ s[Deployer] = INITIAL_SUPPLY
      OBVIOUS
<1>4. s \in [{Deployer} -> Word]
      BY <1>2
<1>. HIDE DEF s
<1>5. IsBook(s)
      BY <1>2, <1>3, <1>4 DEF IsBook
<1>6. SumFunction(s) = INITIAL_SUPPLY
  <2>1. IsFiniteSet(DOMAIN s) /\ \A k \in DOMAIN s : s[k] \in Int
        BY <1>2, <1>3, <1>5, BookFinite
  <2>2. SumFunctionOnSet(s, DOMAIN s) = s[Deployer] + SumFunctionOnSet(s, DOMAIN s \ {Deployer})
        BY <1>3, <2>1, SumElement
  <2>3. SumFunctionOnSet(s, {}) = 0
        BY <2>1, SumIsSum
  <2>4. DOMAIN s \ {Deployer} = {}
        BY <1>3
  <2>5. SumFunctionOnSet(s, DOMAIN s) = INITIAL_SUPPLY + 0
        BY <1>3, <2>2, <2>3, <2>4
  <2>. QED BY <1>2, <2>5 DEF SumFunction
<1>7. contract' = [code |-> contract.code, storage |-> s]
      BY <1>1 DEF ContractInv, AccountInv
<1>8. runtime' = runtime
      BY <1>1 DEF runtime
<1>9. AccountInv'
      BY <1>5, <1>7 DEF AccountInv
<1>10. DeployedVerbatim' /\ TokensConserved'
       BY <1>6, <1>7, <1>8 DEF ContractInv, DeployedVerbatim, TokensConserved
<1>. QED BY <1>1, <1>9, <1>10 DEF ContractInv, DeployInv, CallInv

(* A call starts before the first handler, with the account's balances.      *)
LEMMA CallHolds ==
    ASSUME ContractInv, NEW q \in TokenRequests \cup CounterRequests, Call(q)
    PROVE  ContractInv'
<1>1. UNCHANGED <<contract, kind>> /\ phase' = "calling"
      BY DEF Call
<1>2. PICK c, s, data : c = contract.code /\ s = contract.storage /\ data = encode(q)
      OBVIOUS
<1>3. Frame(c, q.caller, data, q.gas, s)
      BY <1>2 DEF Call
<1>4. c = runtime
      BY <1>2 DEF Call, ContractInv, DeployedVerbatim
<1>5. c \in Seq(Byte) /\ Len(c) \in Word
      BY <1>4, RuntimeBytes, WordValues DEF ContractInv
<1>6. /\ q.caller \in Word /\ q.gas \in Word
      /\ data \in Seq(Byte) /\ Len(data) \in Word
      BY <1>2, EncodedBytes
<1>7. IsBook(s)
      BY <1>2 DEF ContractInv, AccountInv
<1>8. /\ IInv' /\ context'.value = 0 /\ context'.caller = q.caller
      /\ code' = c /\ storage' = s /\ program_counter' = 0 /\ stopped' = FALSE
      BY <1>3, <1>5, <1>6, <1>7, FrameStarts
<1>9. /\ runtime' = runtime
      /\ (kind \in Names)' /\ AccountInv' /\ DeployedVerbatim' /\ TokensConserved'
      BY <1>1, AccountStays
<1>10. ASSUME kind = "token" PROVE TokenInv'
  <2>1. SumFunction(s) = INITIAL_SUPPLY
        BY <1>2, <1>10 DEF Call, Minted, ContractInv, TokensConserved
  <2>2. Handlers \in Nat /\ Handlers >= 23 /\ INITIAL_SUPPLY \in Int
        BY WidthAssumption, SelectorAssumption, ClientAssumption, WordValues DEF Handlers
  <2>3. PICK at \in Int : at = 0 - Handlers /\ at < 0
        BY <2>2
  <2>4. at \notin 9..26 /\ at \notin 22..26 /\ at \notin 17..21
        BY <2>3
  <2>5. TransferStack(at, q.caller, 0, 0)'
        BY <2>3 DEF TransferStack
  <2>6. SumFunction(storage)' + Pending(at, 0)' = INITIAL_SUPPLY
        BY <1>8, <2>1, <2>2, <2>4 DEF Pending
  <2>7. Balanced(at, q.caller, 0, 0)'
        BY <2>4, <2>5, <2>6 DEF Balanced
  <2>8. at = program_counter' - Handlers /\ 0 \in Word
        BY <1>8, <2>3, WordValues
  <2>. QED BY <1>8, <2>4, <2>7, <2>8 DEF TokenInv
<1>11. CallInv'
       BY <1>1, <1>4, <1>7, <1>8, <1>9, <1>10 DEF CallInv
<1>12. DeployInv'
       BY <1>1 DEF DeployInv
<1>. QED BY <1>8, <1>9, <1>11, <1>12 DEF ContractInv

(* A frame that ends well ends where no amount is between two accounts.      *)
LEMMA ReturnedHolds ==
    ASSUME ContractInv, Returned
    PROVE  ContractInv'
<1>1. UNCHANGED <<evm, kind>> /\ phase' = "idle" /\ phase = "calling"
      BY DEF Returned
<1>2. contract' = [contract EXCEPT !.storage = Persisted(storage)]
      BY DEF Returned
<1>3. contract' = [code |-> contract.code, storage |-> Persisted(storage)]
      BY <1>2 DEF ContractInv, AccountInv
<1>4. runtime' = runtime
      BY <1>1 DEF runtime
<1>5. IsBook(storage) /\ code = runtime /\ (kind = "token" => TokenInv) /\ IInv
      BY <1>1 DEF ContractInv, CallInv
<1>6. CASE ~Succeeded
  <2>1. contract' = contract
        BY <1>3, <1>6 DEF Persisted, ContractInv, AccountInv
  <2>. QED BY <1>1, <2>1, AccountStays DEF ContractInv, DeployInv, CallInv
<1>7. CASE Succeeded
  <2>1. contract' = [code |-> contract.code, storage |-> storage]
        BY <1>3, <1>7 DEF Persisted
  <2>2. AccountInv'
        BY <1>5, <2>1 DEF AccountInv
  <2>3. DeployedVerbatim'
        BY <1>4, <2>1 DEF ContractInv, DeployedVerbatim
  <2>4. ASSUME kind = "token" PROVE SumFunction(storage) = INITIAL_SUPPLY
    <3>1. PICK at \in {program_counter - Handlers}, c \in {context.caller},
               amount \in Word, to \in Word :
             Balanced(at, c, amount, to) /\ (stopped => at \notin 9..26)
          BY <1>5, <2>4 DEF TokenInv
    <3>2. at \notin 22..26
      <4>1. CASE stopped
            BY <3>1, <4>1
      <4>2. CASE ~stopped
        <5>1. ~(program_counter < Len(code))
              BY <1>7, <4>2 DEF Returned, Halted, Running, Succeeded
        <5>2. PICK p \in Nat : p = program_counter
              BY <1>5 DEF IInv, PositionInv
        <5>3. code = TOKEN_RUNTIME_BYTECODE
              BY <1>5, <2>4, RuntimeBytes DEF Names
        <5>4. PICK h \in Nat : h = Handlers /\ Len(code) = h + 49
              BY <5>3, TokenParts
        <5>5. p >= h + 49 /\ at = p - h
              BY <5>1, <5>2, <5>4
        <5>. QED BY <5>5
      <4>. QED BY <4>1, <4>2
    <3>3. Pending(at, amount) = 0
          BY <3>2 DEF Pending
    <3>4. SumFunction(storage) \in Nat
          BY <1>5, SlotWithinSum
    <3>. QED BY <3>1, <3>3, <3>4 DEF Balanced
  <2>5. TokensConserved'
        BY <1>1, <2>1, <2>4 DEF TokensConserved
  <2>. QED BY <1>1, <2>2, <2>3, <2>5 DEF ContractInv, DeployInv, CallInv
<1>. QED BY <1>6, <1>7

LEMMA ExecutingHolds ==
    ASSUME ContractInv, Executing
    PROVE  ContractInv'
<1>1. UNCHANGED <<contract, kind, phase>> /\ Step /\ IInv /\ context.value = 0
      BY DEF Executing, client, ContractInv
<1>2. IInv'
      BY <1>1, IInvStep DEF Next
<1>3. UNCHANGED made
      BY <1>1, Outcome DEF Throws
<1>4. context' = context /\ code' = code
      BY <1>3 DEF made
<1>5. /\ runtime' = runtime
      /\ (kind \in Names)' /\ AccountInv' /\ DeployedVerbatim' /\ TokensConserved'
      BY <1>1, AccountStays
<1>6. DeployInv'
  <2>1. CASE phase = "deploying"
    <3>1. PICK r \in {runtime} : /\ code = build_init_code(r) /\ storage = EmptyDict
                                 /\ ~stopped => Header(r)
          BY <2>1 DEF ContractInv, DeployInv
    <3>2. r = runtime /\ r \in Seq(Byte) /\ Len(r) \in Byte
          BY <3>1, RuntimeBytes DEF ContractInv
    <3>3. ~stopped
          BY <1>1, StepRuns DEF Running
    <3>4. UNCHANGED storage /\ (stopped' => return_data' = r) /\ (~stopped' => Header(r)')
          BY <1>1, <3>1, <3>2, <3>3, HeaderStep
    <3>. QED BY <1>4, <1>5, <3>1, <3>2, <3>4 DEF DeployInv
  <2>2. CASE phase # "deploying"
        BY <1>1, <2>2 DEF DeployInv
  <2>. QED BY <2>1, <2>2
<1>7. CallInv'
  <2>1. CASE phase = "calling"
    <3>1. code = runtime /\ IsBook(storage) /\ (kind = "token" => TokenInv)
          BY <2>1 DEF ContractInv, CallInv
    <3>2. IsBook(storage')
          BY <1>1, <3>1, BookKept
    <3>3. ASSUME kind = "token" PROVE TokenInv'
      <4>1. code = TOKEN_RUNTIME_BYTECODE
            BY <3>1, <3>3, RuntimeBytes DEF Names
      <4>. QED BY <1>1, <3>1, <3>3, <4>1, TokenStep
    <3>. QED BY <1>1, <1>4, <1>5, <3>1, <3>2, <3>3 DEF CallInv
  <2>2. CASE phase # "calling"
        BY <1>1, <2>2 DEF CallInv
  <2>. QED BY <2>1, <2>2
<1>. QED BY <1>1, <1>2, <1>4, <1>5, <1>6, <1>7 DEF ContractInv

LEMMA NothingHolds ==
    ASSUME ContractInv, UNCHANGED <<evm, client>>
    PROVE  ContractInv'
<1>1. UNCHANGED <<contract, kind, phase>>
      BY DEF client
<1>2. /\ UNCHANGED <<code, context, program_counter, execution_stack, memory, storage, stopped,
                     return_data>>
      BY DEF evm, made, ended
<1>3. /\ runtime' = runtime
      /\ (kind \in Names)' /\ AccountInv' /\ DeployedVerbatim' /\ TokensConserved'
      BY <1>1, AccountStays
<1>4. (phase # "idle" => IInv /\ context.value = 0)'
      BY <1>1, <1>2, IInvStep DEF ContractInv, Next
<1>5. DeployInv'
  <2>1. CASE phase = "deploying"
    <3>1. PICK r \in {runtime} : /\ code = build_init_code(r) /\ storage = EmptyDict
                                 /\ stopped => return_data = r
                                 /\ ~stopped => Header(r)
          BY <2>1 DEF ContractInv, DeployInv
    <3>2. Header(r) => Header(r)'
          BY <1>2 DEF Header, Has
    <3>. QED BY <1>2, <1>3, <3>1, <3>2 DEF DeployInv
  <2>2. CASE phase # "deploying"
        BY <1>1, <2>2 DEF DeployInv
  <2>. QED BY <2>1, <2>2
<1>6. CallInv'
  <2>1. ASSUME TokenInv PROVE TokenInv'
    <3>1. PICK at \in {program_counter - Handlers}, c \in {context.caller},
               amount \in Word, to \in Word :
             Balanced(at, c, amount, to) /\ (stopped => at \notin 9..26)
          BY <2>1 DEF TokenInv
    <3>2. Balanced(at, c, amount, to)'
          BY <1>2, <3>1, SameBalanced
    <3>. QED BY <1>2, <3>1, <3>2 DEF TokenInv
  <2>. QED BY <1>1, <1>2, <1>3, <2>1 DEF ContractInv, CallInv
<1>. QED BY <1>3, <1>4, <1>5, <1>6 DEF ContractInv

LEMMA ContractInvStep == ContractInv /\ [NextContracts]_<<evm, client>> => ContractInv'
<1>. SUFFICES ASSUME ContractInv, [NextContracts]_<<evm, client>> PROVE ContractInv'
     OBVIOUS
<1>1. CASE \E gas \in GasLimits : Deploy(gas)
      BY <1>1, DeployHolds
<1>2. CASE Deployed
      BY <1>2, DeployedHolds
<1>3. CASE SetSupply
      BY <1>3, SupplyHolds
<1>4. CASE \E r \in IF kind = "token" THEN TokenRequests ELSE CounterRequests : Call(r)
  <2>1. PICK r \in TokenRequests \cup CounterRequests : Call(r)
        BY <1>4
  <2>. QED BY <2>1, CallHolds
<1>5. CASE Returned
      BY <1>5, ReturnedHolds
<1>6. CASE Executing
      BY <1>6, ExecutingHolds
<1>7. CASE UNCHANGED <<evm, client>>
      BY <1>7, NothingHolds
<1>. QED BY <1>1, <1>2, <1>3, <1>4, <1>5, <1>6, <1>7 DEF NextContracts

THEOREM ContractInvHolds == SpecContracts => []ContractInv
<1>. QED BY InitHolds, ContractInvStep, PTL DEF SpecContracts

(* Whatever gas its deployment and its calls were given, an account holds    *)
(* the runtime code byte for byte, or none.                                  *)
THEOREM CodeIsVerbatim == SpecContracts => []DeployedVerbatim
<1>1. ContractInv => DeployedVerbatim
      BY DEF ContractInv
<1>. QED BY <1>1, ContractInvHolds, PTL

(* No sequence of transfers and queries makes or loses a token, wherever the *)
(* gas runs out, for every supply and every word length up to the code's.    *)
THEOREM TokensAreConserved == SpecContracts => []TokensConserved
<1>1. ContractInv => TokensConserved
      BY DEF ContractInv
<1>. QED BY <1>1, ContractInvHolds, PTL
=============================================================================
