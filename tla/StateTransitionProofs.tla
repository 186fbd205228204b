------------------------ MODULE StateTransitionProofs ------------------------
(* Theorems about StateTransition and Node, for every set of keys, codes,    *)
(* slots and transactions, every genesis and every gas schedule, in four     *)
(* parts: types and gas; what rests on nonces; that a transaction, seen from *)
(* outside, is one step of Ledger; and what a program that keeps a state and *)
(* a chain together can rely on.                                             *)
EXTENDS Node, SequenceTheorems, InductionTheorems

-----------------------------------------------------------------------------
(* The world state. What each of its operations returns: a world, the        *)
(* accounts it has, and what every account holds afterwards. The proofs      *)
(* about transactions use these facts and never expand the operations.       *)

(* A dict of slots stays one when a slot is set.                             *)
LEMMA StoreType ==
    ASSUME NEW storage \in Storage, NEW k \in Slots, NEW v \in Words
    PROVE  Store(storage, k, v) \in Storage
<1>1. PICK D \in SUBSET Slots : storage \in [D -> Words]
      BY DEF Storage
<1>2. Store(storage, k, v) \in [D \cup {k} -> Words]
      BY <1>1 DEF Store
<1>3. D \cup {k} \in SUBSET Slots
      OBVIOUS
<1>. QED BY <1>2, <1>3 DEF Storage

(* ... and when all the slots of another are set.                            *)
LEMMA OverlayType ==
    ASSUME NEW new \in Storage, NEW old \in Storage
    PROVE  Overlay(new, old) \in Storage
<1>1. PICK D \in SUBSET Slots : new \in [D -> Words]
      BY DEF Storage
<1>2. PICK E \in SUBSET Slots : old \in [E -> Words]
      BY DEF Storage
<1>3. Overlay(new, old) \in [D \cup E -> Words]
      BY <1>1, <1>2 DEF Overlay
<1>4. D \cup E \in SUBSET Slots
      OBVIOUS
<1>. QED BY <1>3, <1>4 DEF Storage

(* The sentinel account of account.py is an account.                         *)
LEMMA EmptyAccountType ==
    EmptyStorage \in Storage /\ EMPTY_ACCOUNT \in Account
<1>1. EmptyStorage \in [{} -> Words]
      BY DEF EmptyStorage
<1>2. {} \in SUBSET Slots
      OBVIOUS
<1>3. EmptyStorage \in Storage
      BY <1>1, <1>2 DEF Storage
<1>. QED BY <1>3 DEF EMPTY_ACCOUNT, Account

(* The empty world is a world.                                               *)
LEMMA EmptyWorldType == IsWorld(EmptyWorld) /\ DOMAIN EmptyWorld = {}
BY DEF IsWorld, EmptyWorld

-----------------------------------------------------------------------------
(* get_account always answers with an account.                               *)
LEMMA GetType ==
    ASSUME NEW w, IsWorld(w), NEW a
    PROVE  /\ get_account(w, a) \in Account
           /\ get_account(w, a).nonce \in Nat
           /\ get_account(w, a).balance \in Nat
           /\ get_account(w, a).code \in Codes \cup {NoCode}
           /\ get_account(w, a).storage \in Storage
<1>1. get_account(w, a) \in Account
      BY EmptyAccountType DEF IsWorld, get_account
<1>. QED BY <1>1 DEF Account

(* set_account changes one account and keeps every other.                    *)
LEMMA SetAccount ==
    ASSUME NEW w, IsWorld(w), NEW a, NEW account \in Account
    PROVE  /\ IsWorld(set_account(w, a, account))
           /\ \A x : x \in DOMAIN set_account(w, a, account) <=> x \in DOMAIN w \/ x = a
           /\ get_account(set_account(w, a, account), a) = account
           /\ \A b : b # a => get_account(set_account(w, a, account), b) = get_account(w, b)
BY DEF IsWorld, set_account, get_account

(* add_balance.                                                              *)
LEMMA AddBalance ==
    ASSUME NEW w, IsWorld(w), NEW a, NEW amount \in Nat
    PROVE  /\ IsWorld(add_balance(w, a, amount))
           /\ \A x : x \in DOMAIN add_balance(w, a, amount) <=> x \in DOMAIN w \/ x = a
           /\ get_account(add_balance(w, a, amount), a).balance = get_account(w, a).balance + amount
           /\ \A b : b # a => get_account(add_balance(w, a, amount), b).balance = get_account(w, b).balance
           /\ \A b : get_account(add_balance(w, a, amount), b).nonce = get_account(w, b).nonce
           /\ \A b : get_account(add_balance(w, a, amount), b).code = get_account(w, b).code
           /\ \A b : get_account(add_balance(w, a, amount), b).storage = get_account(w, b).storage
<1>. DEFINE account == [get_account(w, a) EXCEPT !.balance = @ + amount]
<1>1. /\ account \in Account
      /\ account.balance = get_account(w, a).balance + amount
      /\ account.nonce = get_account(w, a).nonce
      /\ account.code = get_account(w, a).code
      /\ account.storage = get_account(w, a).storage
      BY GetType DEF Account, can_deduct
<1>2. add_balance(w, a, amount) = set_account(w, a, account)
      BY DEF add_balance
<1>. HIDE DEF account
<1>3. /\ IsWorld(set_account(w, a, account))
      /\ \A x : x \in DOMAIN set_account(w, a, account) <=> x \in DOMAIN w \/ x = a
      /\ get_account(set_account(w, a, account), a) = account
      /\ \A b : b # a => get_account(set_account(w, a, account), b) = get_account(w, b)
      BY <1>1, SetAccount
<1>. QED BY <1>1, <1>2, <1>3

(* deduct_balance, when it does not raise.                                   *)
LEMMA DeductBalance ==
    ASSUME NEW w, IsWorld(w), NEW a, NEW amount \in Nat, can_deduct(w, a, amount)
    PROVE  /\ IsWorld(deduct_balance(w, a, amount))
           /\ \A x : x \in DOMAIN deduct_balance(w, a, amount) <=> x \in DOMAIN w \/ x = a
           /\ get_account(deduct_balance(w, a, amount), a).balance = get_account(w, a).balance - amount
           /\ \A b : b # a => get_account(deduct_balance(w, a, amount), b).balance = get_account(w, b).balance
           /\ \A b : get_account(deduct_balance(w, a, amount), b).nonce = get_account(w, b).nonce
           /\ \A b : get_account(deduct_balance(w, a, amount), b).code = get_account(w, b).code
           /\ \A b : get_account(deduct_balance(w, a, amount), b).storage = get_account(w, b).storage
<1>. DEFINE account == [get_account(w, a) EXCEPT !.balance = @ - amount]
<1>1. /\ account \in Account
      /\ account.balance = get_account(w, a).balance - amount
      /\ account.nonce = get_account(w, a).nonce
      /\ account.code = get_account(w, a).code
      /\ account.storage = get_account(w, a).storage
      BY GetType DEF Account, can_deduct
<1>2. deduct_balance(w, a, amount) = set_account(w, a, account)
      BY DEF deduct_balance
<1>. HIDE DEF account
<1>3. /\ IsWorld(set_account(w, a, account))
      /\ \A x : x \in DOMAIN set_account(w, a, account) <=> x \in DOMAIN w \/ x = a
      /\ get_account(set_account(w, a, account), a) = account
      /\ \A b : b # a => get_account(set_account(w, a, account), b) = get_account(w, b)
      BY <1>1, SetAccount
<1>. QED BY <1>1, <1>2, <1>3

(* increment_nonce.                                                          *)
LEMMA IncrementNonce ==
    ASSUME NEW w, IsWorld(w), NEW a
    PROVE  /\ IsWorld(increment_nonce(w, a))
           /\ \A x : x \in DOMAIN increment_nonce(w, a) <=> x \in DOMAIN w \/ x = a
           /\ get_account(increment_nonce(w, a), a).nonce = get_account(w, a).nonce + 1
           /\ \A b : b # a => get_account(increment_nonce(w, a), b).nonce = get_account(w, b).nonce
           /\ \A b : get_account(increment_nonce(w, a), b).balance = get_account(w, b).balance
           /\ \A b : get_account(increment_nonce(w, a), b).code = get_account(w, b).code
           /\ \A b : get_account(increment_nonce(w, a), b).storage = get_account(w, b).storage
<1>. DEFINE account == [get_account(w, a) EXCEPT !.nonce = @ + 1]
<1>1. /\ account \in Account
      /\ account.nonce = get_account(w, a).nonce + 1
      /\ account.balance = get_account(w, a).balance
      /\ account.code = get_account(w, a).code
      /\ account.storage = get_account(w, a).storage
      BY GetType DEF Account, can_deduct
<1>2. increment_nonce(w, a) = set_account(w, a, account)
      BY DEF increment_nonce
<1>. HIDE DEF account
<1>3. /\ IsWorld(set_account(w, a, account))
      /\ \A x : x \in DOMAIN set_account(w, a, account) <=> x \in DOMAIN w \/ x = a
      /\ get_account(set_account(w, a, account), a) = account
      /\ \A b : b # a => get_account(set_account(w, a, account), b) = get_account(w, b)
      BY <1>1, SetAccount
<1>. QED BY <1>1, <1>2, <1>3

(* set_code.                                                                 *)
LEMMA SetCode ==
    ASSUME NEW w, IsWorld(w), NEW a, NEW code \in Codes \cup {NoCode}
    PROVE  /\ IsWorld(set_code(w, a, code))
           /\ \A x : x \in DOMAIN set_code(w, a, code) <=> x \in DOMAIN w \/ x = a
           /\ get_account(set_code(w, a, code), a).code = code
           /\ \A b : b # a => get_account(set_code(w, a, code), b).code = get_account(w, b).code
           /\ \A b : get_account(set_code(w, a, code), b).nonce = get_account(w, b).nonce
           /\ \A b : get_account(set_code(w, a, code), b).balance = get_account(w, b).balance
           /\ \A b : get_account(set_code(w, a, code), b).storage = get_account(w, b).storage
<1>. DEFINE account == [get_account(w, a) EXCEPT !.code = code]
<1>1. /\ account \in Account
      /\ account.code = code
      /\ account.nonce = get_account(w, a).nonce
      /\ account.balance = get_account(w, a).balance
      /\ account.storage = get_account(w, a).storage
      BY GetType DEF Account, can_deduct
<1>2. set_code(w, a, code) = set_account(w, a, account)
      BY DEF set_code
<1>. HIDE DEF account
<1>3. /\ IsWorld(set_account(w, a, account))
      /\ \A x : x \in DOMAIN set_account(w, a, account) <=> x \in DOMAIN w \/ x = a
      /\ get_account(set_account(w, a, account), a) = account
      /\ \A b : b # a => get_account(set_account(w, a, account), b) = get_account(w, b)
      BY <1>1, SetAccount
<1>. QED BY <1>1, <1>2, <1>3

(* transfer, when it does not raise: no account but the sender's loses.      *)
LEMMA Transfer ==
    ASSUME NEW w, IsWorld(w), NEW s, NEW r, NEW amount \in Nat, can_deduct(w, s, amount)
    PROVE  /\ IsWorld(transfer(w, s, r, amount))
           /\ \A x : x \in DOMAIN w => x \in DOMAIN transfer(w, s, r, amount)
           /\ get_account(transfer(w, s, r, amount), s).balance
                >= get_account(w, s).balance - amount
           /\ \A b : b # s => get_account(transfer(w, s, r, amount), b).balance
                                >= get_account(w, b).balance
           /\ \A b : get_account(transfer(w, s, r, amount), b).nonce = get_account(w, b).nonce
           /\ \A b : get_account(transfer(w, s, r, amount), b).code = get_account(w, b).code
           /\ \A b : get_account(transfer(w, s, r, amount), b).storage = get_account(w, b).storage
<1>0. \A b : get_account(w, b).balance \in Nat
      BY GetType
<1>1. CASE amount = 0
      BY <1>0, <1>1 DEF transfer
<1>2. CASE amount # 0
  <2>. DEFINE paid == deduct_balance(w, s, amount)
  <2>1. transfer(w, s, r, amount) = add_balance(paid, r, amount)
        BY <1>2 DEF transfer
  <2>2. /\ IsWorld(paid)
        /\ \A x : x \in DOMAIN paid <=> x \in DOMAIN w \/ x = s
        /\ get_account(paid, s).balance = get_account(w, s).balance - amount
        /\ \A b : b # s => get_account(paid, b).balance = get_account(w, b).balance
        /\ \A b : get_account(paid, b).nonce = get_account(w, b).nonce
        /\ \A b : get_account(paid, b).code = get_account(w, b).code
        /\ \A b : get_account(paid, b).storage = get_account(w, b).storage
        BY DeductBalance
  <2>. HIDE DEF paid
  <2>3. \A b : get_account(paid, b).balance \in Nat
        BY <2>2, GetType
  <2>4. /\ IsWorld(add_balance(paid, r, amount))
        /\ \A x : x \in DOMAIN add_balance(paid, r, amount) <=> x \in DOMAIN paid \/ x = r
        /\ get_account(add_balance(paid, r, amount), r).balance
             = get_account(paid, r).balance + amount
        /\ \A b : b # r => get_account(add_balance(paid, r, amount), b).balance
                             = get_account(paid, b).balance
        /\ \A b : get_account(add_balance(paid, r, amount), b).nonce
                     = get_account(paid, b).nonce
        /\ \A b : get_account(add_balance(paid, r, amount), b).code
                     = get_account(paid, b).code
        /\ \A b : get_account(add_balance(paid, r, amount), b).storage
                     = get_account(paid, b).storage
        BY <2>2, AddBalance
  <2>5. \A b : get_account(add_balance(paid, r, amount), b).balance
                 >= get_account(paid, b).balance
        BY <2>3, <2>4
  <2>. QED BY <1>0, <2>1, <2>2, <2>3, <2>4, <2>5
<1>. QED BY <1>1, <1>2

(* The loop of set_storage over the items of a dict.                         *)
LEMMA SetStorageItems ==
    ASSUME NEW w, IsWorld(w), NEW a \in DOMAIN w, NEW items \in Storage
    PROVE  /\ IsWorld(set_storage_items(w, a, items))
           /\ \A x : x \in DOMAIN set_storage_items(w, a, items) <=> x \in DOMAIN w
           /\ \A b : b # a => get_account(set_storage_items(w, a, items), b).storage
                                = get_account(w, b).storage
           /\ \A b : get_account(set_storage_items(w, a, items), b).nonce
                        = get_account(w, b).nonce
           /\ \A b : get_account(set_storage_items(w, a, items), b).balance
                        = get_account(w, b).balance
           /\ \A b : get_account(set_storage_items(w, a, items), b).code
                        = get_account(w, b).code
<1>1. CASE DOMAIN items = {}
      BY <1>1 DEF set_storage_items
<1>2. CASE DOMAIN items # {}
  <2>. DEFINE account == [get_account(w, a) EXCEPT !.storage = Overlay(items, @)]
  <2>1. Overlay(items, get_account(w, a).storage) \in Storage
        BY GetType, OverlayType
  <2>2. /\ account \in Account
        /\ account.nonce = get_account(w, a).nonce
        /\ account.balance = get_account(w, a).balance
        /\ account.code = get_account(w, a).code
        BY <2>1, GetType DEF Account
  <2>3. set_storage_items(w, a, items) = set_account(w, a, account)
        BY <1>2 DEF set_storage_items
  <2>. HIDE DEF account
  <2>4. /\ IsWorld(set_account(w, a, account))
        /\ \A x : x \in DOMAIN set_account(w, a, account) <=> x \in DOMAIN w \/ x = a
        /\ get_account(set_account(w, a, account), a) = account
        /\ \A b : b # a => get_account(set_account(w, a, account), b) = get_account(w, b)
        BY <2>2, SetAccount
  <2>. QED BY <2>2, <2>3, <2>4
<1>. QED BY <1>1, <1>2

-----------------------------------------------------------------------------
(* The call stack. Each lemma says of one stack operation that the frames    *)
(* stay frames, that gas stays covered, and what it leaves alone.            *)

(* Paying for an opcode: the top frame stays a frame, with less gas.         *)
LEMMA SpendFrame ==
    ASSUME NEW w, NEW f \in FrameAt(w), NEW cost \in Nat, f.gas >= cost
    PROVE  LET g == [f EXCEPT !.gas = @ - cost] IN
           /\ g \in FrameAt(w)
           /\ g.gas = f.gas - cost
           /\ g.kind = f.kind /\ g.address = f.address /\ g.limit = f.limit
BY DEF FrameAt

(* SSTORE: the top frame stays a frame, with the same gas.                   *)
LEMMA StoreFrame ==
    ASSUME NEW w, NEW f \in FrameAt(w), NEW k \in Slots, NEW v \in Words
    PROVE  LET g == [f EXCEPT !.storage = Store(@, k, v)] IN
           /\ g \in FrameAt(w)
           /\ g.gas = f.gas
           /\ g.kind = f.kind /\ g.address = f.address /\ g.limit = f.limit
<1>1. Store(f.storage, k, v) \in Storage
      BY StoreType DEF FrameAt
<1>. QED BY <1>1 DEF FrameAt

(* What a stack of frames is, frame by frame.                                *)
LEMMA StackType ==
    ASSUME NEW w, NEW s \in Seq(FrameAt(w)), s # <<>>
    PROVE  /\ Len(s) \in Nat /\ Len(s) >= 1
           /\ \A i \in 1..Len(s) : s[i] \in FrameAt(w) /\ s[i].gas \in Nat /\ s[i].limit \in Nat
<1>1. Len(s) \in Nat /\ Len(s) >= 1
      BY EmptySeq
<1>2. \A i \in 1..Len(s) : s[i] \in FrameAt(w)
      BY ElementOfSeq
<1>3. \A f \in FrameAt(w) : f.gas \in Nat /\ f.limit \in Nat
      BY DEF FrameAt
<1>. QED BY <1>1, <1>2, <1>3

(* Only the topmost frame changes: its gas falls, or stays.                  *)
replace_top(stack, f) == [stack EXCEPT ![Len(stack)] = f]

(* Replacing the top frame leaves a stack of frames.                         *)
LEMMA ChangeTop ==
    ASSUME NEW w, NEW s \in Seq(FrameAt(w)), s # <<>>, StackCovered(s),
           NEW f \in FrameAt(w), f.kind = s[Len(s)].kind, f.address = s[Len(s)].address,
           f.limit = s[Len(s)].limit, f.gas <= s[Len(s)].gas
    PROVE  LET t == replace_top(s, f) IN
           /\ t \in Seq(FrameAt(w))
           /\ Len(t) = Len(s)
           /\ StackCovered(t)
           /\ t[Len(s)] = f
           /\ \A i \in 1..Len(s) : /\ t[i].kind = s[i].kind
                                   /\ t[i].address = s[i].address
                                   /\ t[i].limit = s[i].limit
<1>. DEFINE n == Len(s)
            t == replace_top(s, f)
<1>1. /\ n \in Nat /\ n >= 1
      /\ \A i \in 1..n : s[i].gas \in Nat /\ s[i].limit \in Nat
      BY StackType
<1>2. /\ \A i \in 1..n : s[i].gas <= s[i].limit
      /\ \A i \in 1..(n - 1) : s[i + 1].limit <= s[i].gas
      BY DEF StackCovered
<1>3. n \in 1..n
      BY <1>1
<1>4. /\ t \in Seq(FrameAt(w)) /\ Len(t) = n
      /\ \A j \in 1..n : t[j] = IF j = n THEN f ELSE s[j]
      BY <1>3, ExceptSeq DEF replace_top
<1>5. f.gas \in Nat /\ f.limit \in Nat
      BY DEF FrameAt
<1>6. f.kind = s[n].kind /\ f.address = s[n].address /\ f.limit = s[n].limit /\ f.gas <= s[n].gas
      OBVIOUS
<1>. HIDE DEF n, t
<1>7. \A i \in 1..n : t[i].gas <= t[i].limit
      BY <1>1, <1>2, <1>4, <1>5, <1>6
<1>8. \A i \in 1..(n - 1) : t[i + 1].limit <= t[i].gas
  <2>. SUFFICES ASSUME NEW i \in 1..(n - 1) PROVE t[i + 1].limit <= t[i].gas
       OBVIOUS
  <2>1. i \in 1..n /\ i + 1 \in 1..n /\ i # n
        BY <1>1
  <2>2. t[i] = s[i] /\ t[i + 1].limit = s[i + 1].limit
        BY <1>4, <1>6, <2>1
  <2>. QED BY <1>2, <2>2
<1>9. StackCovered(t)
      BY <1>4, <1>7, <1>8 DEF StackCovered
<1>10. \A i \in 1..n : /\ t[i].kind = s[i].kind
                      /\ t[i].address = s[i].address
                      /\ t[i].limit = s[i].limit
      BY <1>4, <1>6
<1>11. t[n] = f
      BY <1>3, <1>4
<1>. QED BY <1>4, <1>9, <1>10, <1>11 DEF n, t

(* The running frame pays for an opcode.                                     *)
LEMMA SpendStack ==
    ASSUME NEW w, NEW s \in Seq(FrameAt(w)), s # <<>>, StackCovered(s),
           NEW cost \in Nat, s[Len(s)].gas >= cost
    PROVE  LET t == consume_gas(s, cost) IN
           /\ t \in Seq(FrameAt(w))
           /\ Len(t) = Len(s)
           /\ StackCovered(t)
           /\ t[Len(s)].gas = s[Len(s)].gas - cost
           /\ \A i \in 1..Len(s) : /\ t[i].kind = s[i].kind
                                   /\ t[i].address = s[i].address
                                   /\ t[i].limit = s[i].limit
<1>. DEFINE t == consume_gas(s, cost)
            f == [s[Len(s)] EXCEPT !.gas = @ - cost]
<1>1. s[Len(s)] \in FrameAt(w) /\ s[Len(s)].gas \in Nat
      BY StackType
<1>2. /\ f \in FrameAt(w)
      /\ f.gas = s[Len(s)].gas - cost
      /\ f.kind = s[Len(s)].kind /\ f.address = s[Len(s)].address
      /\ f.limit = s[Len(s)].limit
      BY <1>1, SpendFrame
<1>3. f.gas <= s[Len(s)].gas
      BY <1>1, <1>2
<1>4. t = replace_top(s, f)
      BY DEF consume_gas, replace_top
<1>. HIDE DEF t, f
<1>5. /\ t \in Seq(FrameAt(w)) /\ Len(t) = Len(s) /\ StackCovered(t)
      /\ t[Len(s)] = f
      /\ \A i \in 1..Len(s) : /\ t[i].kind = s[i].kind
                              /\ t[i].address = s[i].address
                              /\ t[i].limit = s[i].limit
      BY <1>2, <1>3, <1>4, ChangeTop
<1>. QED BY <1>2, <1>5 DEF t

(* SSTORE changes the running frame's dict.                                  *)
LEMMA StoreStack ==
    ASSUME NEW w, NEW s \in Seq(FrameAt(w)), s # <<>>, StackCovered(s),
           NEW k \in Slots, NEW v \in Words
    PROVE  LET t == store_slot(s, k, v) IN
           /\ t \in Seq(FrameAt(w))
           /\ Len(t) = Len(s)
           /\ StackCovered(t)
           /\ \A i \in 1..Len(s) : /\ t[i].kind = s[i].kind
                                   /\ t[i].address = s[i].address
                                   /\ t[i].limit = s[i].limit
<1>. DEFINE t == store_slot(s, k, v)
            f == [s[Len(s)] EXCEPT !.storage = Store(@, k, v)]
<1>1. s[Len(s)] \in FrameAt(w) /\ s[Len(s)].gas \in Nat
      BY StackType
<1>2. /\ f \in FrameAt(w)
      /\ f.gas = s[Len(s)].gas
      /\ f.kind = s[Len(s)].kind /\ f.address = s[Len(s)].address
      /\ f.limit = s[Len(s)].limit
      BY <1>1, StoreFrame
<1>3. f.gas <= s[Len(s)].gas
      BY <1>1, <1>2
<1>4. t = replace_top(s, f)
      BY DEF store_slot, replace_top
<1>. HIDE DEF t, f
<1>5. /\ t \in Seq(FrameAt(w)) /\ Len(t) = Len(s) /\ StackCovered(t)
      /\ \A i \in 1..Len(s) : /\ t[i].kind = s[i].kind
                              /\ t[i].address = s[i].address
                              /\ t[i].limit = s[i].limit
      BY <1>2, <1>3, <1>4, ChangeTop
<1>. QED BY <1>5 DEF t

(* A new frame gets at most the gas its caller has.                          *)
LEMMA PushStack ==
    ASSUME NEW w, NEW s \in Seq(FrameAt(w)), s # <<>>, StackCovered(s),
           NEW f \in FrameAt(w), f.gas = f.limit, f.limit <= s[Len(s)].gas
    PROVE  LET t == Append(s, f) IN
           /\ t \in Seq(FrameAt(w))
           /\ Len(t) = Len(s) + 1
           /\ StackCovered(t)
           /\ t[Len(s) + 1] = f
           /\ \A i \in 1..Len(s) : t[i] = s[i]
<1>. DEFINE n == Len(s)
            t == Append(s, f)
<1>1. /\ n \in Nat /\ n >= 1
      /\ \A i \in 1..n : s[i].gas \in Nat /\ s[i].limit \in Nat
      BY StackType
<1>2. /\ \A i \in 1..n : s[i].gas <= s[i].limit
      /\ \A i \in 1..(n - 1) : s[i + 1].limit <= s[i].gas
      BY DEF StackCovered
<1>3. /\ t \in Seq(FrameAt(w)) /\ Len(t) = n + 1
      /\ \A i \in 1..n : t[i] = s[i]
      /\ t[n + 1] = f
      BY <1>1
<1>4. f.gas \in Nat /\ f.limit \in Nat /\ f.gas = f.limit /\ f.limit <= s[n].gas
      BY DEF FrameAt
<1>. HIDE DEF n, t
<1>5. \A i \in 1..(n + 1) : t[i].gas <= t[i].limit
  <2>. SUFFICES ASSUME NEW i \in 1..(n + 1) PROVE t[i].gas <= t[i].limit
       OBVIOUS
  <2>1. i \in 1..n \/ i = n + 1
        BY <1>1
  <2>. QED BY <1>2, <1>3, <1>4, <2>1
<1>6. \A i \in 1..n : t[i + 1].limit <= t[i].gas
  <2>. SUFFICES ASSUME NEW i \in 1..n PROVE t[i + 1].limit <= t[i].gas
       OBVIOUS
  <2>1. CASE i = n
        BY <1>1, <1>3, <1>4, <2>1
  <2>2. CASE i # n
    <3>1. i \in 1..(n - 1) /\ i + 1 \in 1..n
          BY <1>1, <2>2
    <3>. QED BY <1>2, <1>3, <3>1
  <2>. QED BY <2>1, <2>2
<1>7. 1..(Len(t) - 1) = 1..n
      BY <1>1, <1>3
<1>8. StackCovered(t)
      BY <1>3, <1>5, <1>6, <1>7 DEF StackCovered
<1>. QED BY <1>3, <1>8 DEF n, t

(* A frame answers: it is gone and its caller has paid at most its limit.    *)
LEMMA PopStack ==
    ASSUME NEW w, NEW s \in Seq(FrameAt(w)), Len(s) > 1, StackCovered(s),
           NEW gas_used \in Nat, gas_used <= s[Len(s)].limit
    PROVE  LET t == consume_gas(SubSeq(s, 1, Len(s) - 1), gas_used) IN
           /\ t \in Seq(FrameAt(w))
           /\ Len(t) = Len(s) - 1
           /\ StackCovered(t)
           /\ \A i \in 1..(Len(s) - 1) : /\ t[i].kind = s[i].kind
                                         /\ t[i].address = s[i].address
                                         /\ t[i].limit = s[i].limit
<1>. DEFINE n == Len(s)
            u == SubSeq(s, 1, n - 1)
            t == consume_gas(u, gas_used)
<1>1. /\ n \in Nat /\ n > 1 /\ s # <<>>
      BY EmptySeq
<1>2. \A i \in 1..n : s[i] \in FrameAt(w) /\ s[i].gas \in Nat /\ s[i].limit \in Nat
      BY <1>1, StackType
<1>3. /\ \A i \in 1..n : s[i].gas <= s[i].limit
      /\ \A i \in 1..(n - 1) : s[i + 1].limit <= s[i].gas
      BY DEF StackCovered
<1>4. gas_used <= s[n].limit
      OBVIOUS
<1>5. /\ u \in Seq(FrameAt(w)) /\ Len(u) = n - 1
      /\ \A i \in 1..(n - 1) : u[i] = s[i]
  <2>. HIDE DEF n
  <2>1. \A i \in 1..(n - 1) : s[i] \in FrameAt(w)
        BY <1>1, <1>2
  <2>2. /\ u \in Seq(FrameAt(w))
        /\ Len(u) = IF 1 <= n - 1 THEN (n - 1) - 1 + 1 ELSE 0
        /\ \A i \in 1..((n - 1) - 1 + 1) : u[i] = s[1 + i - 1]
        BY <1>1, <2>1, SubSeqProperties
  <2>. QED BY <1>1, <2>2
<1>. HIDE DEF n, u, t
<1>6. u # <<>>
      BY <1>1, <1>5, EmptySeq
<1>7. StackCovered(u)
  <2>1. \A i \in 1..(n - 1) : i \in 1..n
        BY <1>1
  <2>2. \A i \in 1..(n - 1 - 1) : i \in 1..(n - 1) /\ i + 1 \in 1..(n - 1)
        BY <1>1
  <2>3. \A i \in 1..(n - 1) : u[i].gas <= u[i].limit
        BY <1>3, <1>5, <2>1
  <2>4. \A i \in 1..(n - 1 - 1) : u[i + 1].limit <= u[i].gas
        BY <1>3, <1>5, <2>2
  <2>. QED BY <1>5, <2>3, <2>4 DEF StackCovered
<1>8. u[Len(u)].gas >= gas_used
  <2>1. n - 1 \in 1..(n - 1) /\ n - 1 \in 1..n /\ n \in 1..n /\ (n - 1) + 1 = n
        BY <1>1
  <2>2. s[n].limit <= s[n - 1].gas /\ u[Len(u)] = s[n - 1]
        BY <1>3, <1>5, <2>1
  <2>. QED BY <1>2, <1>4, <2>1, <2>2
<1>9. /\ t \in Seq(FrameAt(w)) /\ Len(t) = Len(u) /\ StackCovered(t)
      /\ \A i \in 1..Len(u) : /\ t[i].kind = u[i].kind
                              /\ t[i].address = u[i].address
                              /\ t[i].limit = u[i].limit
      BY <1>5, <1>6, <1>7, <1>8, SpendStack DEF t
<1>. QED BY <1>5, <1>9 DEF n, u, t

-----------------------------------------------------------------------------
(* Transactions                                                              *)

(* The numbers of a transaction are naturals.                                *)
LEMMA TxType ==
    ASSUME NEW t \in Txs
    PROVE  /\ t.nonce \in Nat /\ t.value \in Nat /\ t.gas \in Nat /\ t.gas_price \in Nat
           /\ upfront_gas_cost(t) \in Nat
           /\ calculate_intrinsic_gas(t) \in Nat
           /\ t # NoTx
<1>1. /\ t.nonce \in Nat /\ t.value \in Nat /\ t.gas \in Nat /\ t.gas_price \in Nat
      /\ t.zero_bytes \in Nat /\ t.nonzero_bytes \in Nat
      /\ t # NoTx
      BY TxsAssumption
<1>2. \A m, n \in Nat : m * n \in Nat
      OBVIOUS
<1>3. upfront_gas_cost(t) \in Nat
      BY <1>1, <1>2 DEF upfront_gas_cost
<1>4. ZeroByteGas * t.zero_bytes \in Nat /\ NonZeroByteGas * t.nonzero_bytes \in Nat
      BY <1>1, <1>2, GasAssumption
<1>5. calculate_intrinsic_gas(t) \in Nat
      BY <1>4, GasAssumption DEF calculate_intrinsic_gas
<1>. QED BY <1>1, <1>3, <1>5

(* What validate_transaction guarantees.                                     *)
LEMMA ValidTx ==
    ASSUME NEW w, IsWorld(w), NEW t \in Txs, validate_transaction(w, t) = "valid"
    PROVE  /\ t.sender \in Eoas
           /\ get_account(w, t.sender).nonce = t.nonce
           /\ get_account(w, t.sender).balance >= t.value + upfront_gas_cost(t)
           /\ can_deduct(w, t.sender, upfront_gas_cost(t))
           /\ gas_for_execution(t) \in Nat
           /\ gas_for_execution(t) <= t.gas
<1>1. t.sender # NoSender /\ t.sender \in Eoas
      BY TxsAssumption DEF validate_transaction
<1>2. get_account(w, t.sender).nonce = t.nonce
      BY DEF validate_transaction
<1>3. get_account(w, t.sender).balance >= t.value + upfront_gas_cost(t)
      BY DEF validate_transaction, can_deduct
<1>4. ~(t.gas < calculate_intrinsic_gas(t))
      BY DEF validate_transaction
<1>5. get_account(w, t.sender).balance \in Nat
      BY GetType
<1>6. can_deduct(w, t.sender, upfront_gas_cost(t))
      BY <1>3, <1>5, TxType DEF can_deduct
<1>7. gas_for_execution(t) \in Nat /\ gas_for_execution(t) <= t.gas
      BY <1>4, TxType DEF gas_for_execution
<1>. QED BY <1>1, <1>2, <1>3, <1>6, <1>7

(* What steps 3 and 4 of apply_transaction do to the world.                  *)
LEMMA ChargeWorld ==
    ASSUME NEW w, IsWorld(w), NEW t \in Txs, validate_transaction(w, t) = "valid"
    PROVE  LET c == Charge(w, t) IN
           /\ IsWorld(c)
           /\ \A x : x \in DOMAIN c <=> x \in DOMAIN w \/ x = t.sender
           /\ get_account(c, t.sender).nonce = get_account(w, t.sender).nonce + 1
           /\ \A b : b # t.sender => get_account(c, b).nonce = get_account(w, b).nonce
           /\ get_account(c, t.sender).balance
                = get_account(w, t.sender).balance - upfront_gas_cost(t)
           /\ \A b : b # t.sender => get_account(c, b).balance = get_account(w, b).balance
           /\ \A b : get_account(c, b).code = get_account(w, b).code
           /\ \A b : get_account(c, b).storage = get_account(w, b).storage
           /\ can_deduct(c, t.sender, t.value)
<1>. DEFINE s == t.sender
            fee == upfront_gas_cost(t)
            paid == deduct_balance(w, s, fee)
            c == increment_nonce(paid, s)
<1>1. fee \in Nat /\ can_deduct(w, s, fee)
      BY TxType, ValidTx
<1>2. /\ IsWorld(paid)
      /\ \A x : x \in DOMAIN paid <=> x \in DOMAIN w \/ x = s
      /\ get_account(paid, s).balance = get_account(w, s).balance - fee
      /\ \A b : b # s => get_account(paid, b).balance = get_account(w, b).balance
      /\ \A b : get_account(paid, b).nonce = get_account(w, b).nonce
      /\ \A b : get_account(paid, b).code = get_account(w, b).code
      /\ \A b : get_account(paid, b).storage = get_account(w, b).storage
  <2>. HIDE DEF s, fee
  <2>. QED BY <1>1, DeductBalance
<1>3. get_account(w, s).balance >= t.value + fee
      BY ValidTx
<1>4. /\ t.value \in Nat
      /\ get_account(w, s).balance \in Nat
      BY GetType, TxType
<1>5. Charge(w, t) = c
      BY DEF Charge
<1>. HIDE DEF paid, s, fee
<1>6. /\ IsWorld(c)
      /\ \A x : x \in DOMAIN c <=> x \in DOMAIN paid \/ x = s
      /\ get_account(c, s).nonce = get_account(paid, s).nonce + 1
      /\ \A b : b # s => get_account(c, b).nonce = get_account(paid, b).nonce
      /\ \A b : get_account(c, b).balance = get_account(paid, b).balance
      /\ \A b : get_account(c, b).code = get_account(paid, b).code
      /\ \A b : get_account(c, b).storage = get_account(paid, b).storage
      BY <1>2, IncrementNonce
<1>. HIDE DEF c
<1>7. can_deduct(c, s, t.value)
      BY <1>1, <1>2, <1>3, <1>4, <1>6 DEF can_deduct
<1>8. /\ IsWorld(c)
      /\ \A x : x \in DOMAIN c <=> x \in DOMAIN w \/ x = s
      /\ get_account(c, s).nonce = get_account(w, s).nonce + 1
      /\ \A b : b # s => get_account(c, b).nonce = get_account(w, b).nonce
      /\ get_account(c, s).balance = get_account(w, s).balance - fee
      /\ \A b : b # s => get_account(c, b).balance = get_account(w, b).balance
      /\ \A b : get_account(c, b).code = get_account(w, b).code
      /\ \A b : get_account(c, b).storage = get_account(w, b).storage
      BY <1>2, <1>6
<1>. QED BY <1>5, <1>7, <1>8 DEF s, fee

-----------------------------------------------------------------------------
(* Type correctness                                                          *)

(* TypeOK alone is not inductive: that a fee can be charged to the snapshot  *)
(* again, and that no gas counter goes below zero, needs to know that the    *)
(* transaction was valid there and that gas is covered along the stack.      *)
TypeInv == TypeOK /\ GasCovered /\ BegunValid

(* A transaction that returns leaves a typed world and an empty stack.       *)
LEMMA FinishType ==
    ASSUME TypeOK, NEW t \in Txs, IsWorld(accounts'),
           NEW outcome \in {"success", "failure"},
           NEW gas_used \in Nat, NEW gas_remaining \in Nat,
           NEW address \in DOMAIN accounts' \cup {NoAddress},
           NEW fee \in Nat,
           result' = Outcome(outcome, gas_used, gas_remaining, address),
           Finish(t, fee)
    PROVE  TypeInv'
<1>1. frames' = <<>> /\ tx' = NoTx /\ snapshot' = EmptyWorld
      BY DEF Finish
<1>2. IsWorld(snapshot')
      BY <1>1, EmptyWorldType
<1>3. frames' \in Seq(FrameAt(accounts'))
      BY <1>1, EmptySeq
<1>4. result' \in [outcome : Rejections \cup {"none", "success", "failure"},
                   gas_used : Nat, gas_remaining : Nat,
                   contract_address : DOMAIN accounts' \cup {NoAddress}]
      BY DEF Outcome
<1>5. applied' \subseteq Txs /\ burned' \in Nat
      BY DEF Finish, TypeOK
<1>6. TypeOK'
      BY <1>1, <1>2, <1>3, <1>4, <1>5 DEF TypeOK
<1>7. StackCovered(<<>>)
      BY EmptySeq DEF StackCovered
<1>8. GasCovered' /\ BegunValid'
      BY <1>1, <1>7 DEF GasCovered, BegunValid
<1>. QED BY <1>6, <1>8 DEF TypeInv

(* A successful end of a transaction keeps the invariant.                    *)
LEMMA SucceedType ==
    ASSUME TypeOK, NEW t \in Txs, NEW w, IsWorld(w),
           NEW gas_remaining \in Nat, gas_remaining <= t.gas,
           NEW address \in DOMAIN w \cup {NoAddress},
           Succeed(t, w, gas_remaining, address)
    PROVE  TypeInv'
<1>. DEFINE gas_refund == gas_remaining * t.gas_price
            gas_used == t.gas - gas_remaining
            fee == gas_used * t.gas_price
<1>0. \A m, n \in Nat : m * n \in Nat
      OBVIOUS
<1>1. gas_used \in Nat
      BY TxType
<1>2. gas_refund \in Nat /\ fee \in Nat
      BY <1>0, <1>1, TxType
<1>3. /\ accounts' = IF gas_refund > 0 THEN add_balance(w, t.sender, gas_refund) ELSE w
      /\ result' = Outcome("success", gas_used, gas_remaining, address)
      /\ Finish(t, fee)
      BY DEF Succeed
<1>. HIDE DEF gas_refund, gas_used, fee
<1>4. /\ IsWorld(add_balance(w, t.sender, gas_refund))
      /\ \A x : x \in DOMAIN w => x \in DOMAIN add_balance(w, t.sender, gas_refund)
      BY <1>2, AddBalance
<1>5. IsWorld(accounts')
      BY <1>3, <1>4
<1>6. address \in DOMAIN accounts' \cup {NoAddress}
      BY <1>3, <1>4
<1>. QED BY <1>1, <1>2, <1>3, <1>5, <1>6, FinishType

(* A transaction that fails leaves the snapshot, charged.                    *)
LEMMA FailType ==
    ASSUME TypeInv, tx # NoTx, FailTransaction
    PROVE  TypeInv'
<1>1. /\ tx \in Txs /\ IsWorld(snapshot) /\ TypeOK
      /\ validate_transaction(snapshot, tx) = "valid"
      BY DEF TypeInv, TypeOK, BegunValid
<1>2. /\ accounts' = Charge(snapshot, tx)
      /\ result' = Outcome("failure", tx.gas, 0, NoAddress)
      /\ Finish(tx, upfront_gas_cost(tx))
      BY DEF FailTransaction
<1>3. IsWorld(accounts')
      BY <1>1, <1>2, ChargeWorld
<1>4. tx.gas \in Nat /\ upfront_gas_cost(tx) \in Nat
      BY <1>1, TxType
<1>. QED BY <1>1, <1>2, <1>3, <1>4, FinishType

(* A transaction that begins has one frame with all the gas there is.        *)
LEMMA BeginType ==
    ASSUME TypeInv, NEW t \in Txs, Accepted(t), NEW w, IsWorld(w), NEW f \in FrameAt(w),
           f.gas = gas_for_execution(t), f.limit = gas_for_execution(t), Begin(t, w, f)
    PROVE  TypeInv'
<1>1. /\ TypeOK /\ tx = NoTx
      /\ validate_transaction(accounts, t) = "valid"
      BY DEF TypeInv, Accepted
<1>2. /\ tx' = t /\ snapshot' = accounts /\ accounts' = w /\ frames' = <<f>>
      /\ result' = NoResult /\ applied' = applied /\ burned' = burned
      BY DEF Begin
<1>3. /\ frames' \in Seq(FrameAt(accounts')) /\ frames' # <<>>
      /\ Len(frames') = 1 /\ frames'[1] = f
      BY <1>2
<1>4. t # NoTx
      BY TxType
<1>5. result' \in [outcome : Rejections \cup {"none", "success", "failure"},
                   gas_used : Nat, gas_remaining : Nat,
                   contract_address : DOMAIN accounts' \cup {NoAddress}]
      BY <1>2 DEF NoResult, Outcome
<1>6. TypeOK'
      BY <1>1, <1>2, <1>3, <1>4, <1>5 DEF TypeOK
<1>7. f.gas \in Nat
      BY DEF FrameAt
<1>8. StackCovered(frames')
      BY <1>3, <1>7 DEF StackCovered
<1>9. GasCovered'
      BY <1>2, <1>3, <1>8 DEF GasCovered, gas_for_execution, calculate_intrinsic_gas
<1>10. BegunValid'
      BY <1>1, <1>2 DEF BegunValid
<1>. QED BY <1>6, <1>9, <1>10 DEF TypeInv

(* A step inside a transaction: the world only gets accounts and the         *)
(* outermost frame keeps its limit.                                          *)
LEMMA StayType ==
    ASSUME TypeInv, Running, StayInTransaction, IsWorld(accounts'),
           \A x : x \in DOMAIN accounts => x \in DOMAIN accounts',
           frames' \in Seq(FrameAt(accounts')), Len(frames') >= 1,
           StackCovered(frames'), frames'[1].limit = frames[1].limit
    PROVE  TypeInv'
<1>1. /\ tx' = tx /\ snapshot' = snapshot /\ result' = result
      /\ applied' = applied /\ burned' = burned
      BY DEF StayInTransaction
<1>2. TypeOK /\ GasCovered /\ BegunValid /\ frames # <<>>
      BY DEF TypeInv, Running
<1>3. frames' # <<>>
      BY EmptySeq
<1>4. result' \in [outcome : Rejections \cup {"none", "success", "failure"},
                   gas_used : Nat, gas_remaining : Nat,
                   contract_address : DOMAIN accounts' \cup {NoAddress}]
      BY <1>1, <1>2 DEF TypeOK
<1>5. TypeOK'
      BY <1>1, <1>2, <1>3, <1>4 DEF TypeOK
<1>6. GasCovered'
      BY <1>1, <1>2, <1>3 DEF GasCovered, gas_for_execution, calculate_intrinsic_gas
<1>7. BegunValid'
      BY <1>1, <1>2 DEF BegunValid
<1>. QED BY <1>5, <1>6, <1>7 DEF TypeInv

(* What is known of the running frame.                                       *)
LEMMA RunningFrame ==
    ASSUME TypeInv, Running
    PROVE  /\ IsWorld(accounts) /\ StackCovered(frames)
           /\ frames \in Seq(FrameAt(accounts)) /\ frames # <<>>
           /\ tx \in Txs /\ tx # NoTx
           /\ Depth \in Nat /\ Depth >= 1
           /\ Top \in FrameAt(accounts) /\ Top = frames[Len(frames)]
           /\ Top.kind \in {"call", "create"} /\ Self \in DOMAIN accounts
           /\ Top.storage \in Storage
           /\ Top.gas \in Nat /\ Top.limit \in Nat /\ Top.gas <= Top.limit
           /\ Top.limit - Top.gas \in Nat /\ Top.limit - Top.gas <= Top.limit
<1>1. /\ IsWorld(accounts) /\ StackCovered(frames)
      /\ frames \in Seq(FrameAt(accounts)) /\ frames # <<>>
      /\ tx \in Txs /\ tx # NoTx
      BY DEF TypeInv, TypeOK, GasCovered, Running
<1>2. Depth \in Nat /\ Depth >= 1 /\ Depth \in 1..Len(frames)
      BY <1>1, StackType DEF Depth
<1>3. Top \in FrameAt(accounts) /\ Top = frames[Len(frames)]
      BY <1>1, <1>2, StackType DEF Depth, Top
<1>4. /\ Top.kind \in {"call", "create"} /\ Self \in DOMAIN accounts
      /\ Top.storage \in Storage /\ Top.gas \in Nat /\ Top.limit \in Nat
      BY <1>3 DEF FrameAt, Self
<1>5. Top.gas <= Top.limit
      BY <1>1, <1>2 DEF StackCovered, Top
<1>. QED BY <1>1, <1>2, <1>3, <1>4, <1>5

(* The outermost frame has no more gas than its transaction.                 *)
LEMMA OutermostGas ==
    ASSUME TypeInv, Running, Depth = 1
    PROVE  Top.gas <= tx.gas
<1>1. tx \in Txs /\ tx # NoTx /\ Top.gas \in Nat /\ Top.gas <= Top.limit /\ Top.limit \in Nat
      BY RunningFrame
<1>2. Top.limit = gas_for_execution(tx)
      BY DEF TypeInv, GasCovered, Running, Top
<1>3. validate_transaction(snapshot, tx) = "valid" /\ IsWorld(snapshot)
      BY <1>1 DEF TypeInv, BegunValid, TypeOK
<1>4. gas_for_execution(tx) <= tx.gas
      BY <1>1, <1>3, ValidTx
<1>. QED BY <1>1, <1>2, <1>4, TxType

(* A stack of frames is one in a world with more accounts.                   *)
LEMMA FramesInLargerWorld ==
    ASSUME NEW v, NEW w, \A x : x \in DOMAIN v => x \in DOMAIN w,
           NEW s \in Seq(FrameAt(v))
    PROVE  s \in Seq(FrameAt(w))
<1>1. FrameAt(v) \subseteq FrameAt(w)
      BY DEF FrameAt
<1>. QED BY <1>1, SeqMonotonic

(* The running frame pays and goes on, in a world with more accounts.        *)
LEMMA SpendType ==
    ASSUME TypeInv, NEW cost \in Nat, CanPay(cost), StayInTransaction,
           frames' = Spend(cost), IsWorld(accounts'),
           \A x : x \in DOMAIN accounts => x \in DOMAIN accounts'
    PROVE  TypeInv'
<1>1. Running /\ Top.gas >= cost
      BY DEF CanPay
<1>2. /\ frames \in Seq(FrameAt(accounts)) /\ frames # <<>> /\ StackCovered(frames)
      /\ frames[Len(frames)].gas >= cost
      /\ Len(frames) \in Nat /\ Len(frames) >= 1
      BY <1>1, RunningFrame DEF Depth
<1>3. frames' = consume_gas(frames, cost)
      BY DEF Spend
<1>4. /\ frames' \in Seq(FrameAt(accounts)) /\ Len(frames') = Len(frames)
      /\ StackCovered(frames')
      /\ \A i \in 1..Len(frames) : frames'[i].limit = frames[i].limit
      BY <1>2, <1>3, SpendStack
<1>5. frames' \in Seq(FrameAt(accounts'))
      BY <1>4, FramesInLargerWorld
<1>6. frames'[1].limit = frames[1].limit
      BY <1>2, <1>4
<1>. QED BY <1>1, <1>2, <1>4, <1>5, <1>6, StayType

(* The running frame pays and a new one starts above it.                     *)
LEMMA EnterType ==
    ASSUME TypeInv, NEW cost \in Nat, CanPay(cost), IsWorld(accounts'),
           \A x : x \in DOMAIN accounts => x \in DOMAIN accounts',
           NEW f \in FrameAt(accounts'), f.gas = f.limit, f.limit <= Top.gas - cost,
           Enter(f, cost)
    PROVE  TypeInv'
<1>. DEFINE paid == consume_gas(frames, cost)
<1>1. Running /\ Top.gas >= cost
      BY DEF CanPay
<1>2. /\ frames \in Seq(FrameAt(accounts)) /\ frames # <<>> /\ StackCovered(frames)
      /\ frames[Len(frames)] = Top
      /\ Len(frames) \in Nat /\ Len(frames) >= 1
      BY <1>1, RunningFrame DEF Depth
<1>3. frames' = Append(paid, f) /\ StayInTransaction
      BY DEF Enter, Spend
<1>4. /\ paid \in Seq(FrameAt(accounts)) /\ Len(paid) = Len(frames)
      /\ StackCovered(paid)
      /\ paid[Len(frames)].gas = Top.gas - cost
      /\ \A i \in 1..Len(frames) : paid[i].limit = frames[i].limit
      BY <1>1, <1>2, SpendStack
<1>. HIDE DEF paid
<1>5. paid \in Seq(FrameAt(accounts')) /\ paid # <<>>
      BY <1>2, <1>4, FramesInLargerWorld, EmptySeq
<1>6. /\ frames' \in Seq(FrameAt(accounts')) /\ Len(frames') = Len(paid) + 1
      /\ StackCovered(frames')
      /\ \A i \in 1..Len(paid) : frames'[i] = paid[i]
      BY <1>3, <1>4, <1>5, PushStack
<1>7. frames'[1].limit = frames[1].limit
      BY <1>2, <1>4, <1>6
<1>8. Len(frames') >= 1
      BY <1>2, <1>4, <1>6
<1>. QED BY <1>1, <1>3, <1>6, <1>7, <1>8, StayType

(* A frame answers, and its caller goes on in a world with more accounts.    *)
LEMMA ResumeType ==
    ASSUME TypeInv, Running, Depth # 1, IsWorld(accounts'),
           \A x : x \in DOMAIN accounts => x \in DOMAIN accounts',
           NEW gas_used \in Nat, gas_used <= Top.limit, Resume(gas_used)
    PROVE  TypeInv'
<1>0. /\ frames \in Seq(FrameAt(accounts)) /\ frames # <<>> /\ StackCovered(frames)
      /\ Depth \in Nat /\ Depth >= 1 /\ Top = frames[Len(frames)]
      BY RunningFrame
<1>1. /\ Len(frames) \in Nat /\ Len(frames) > 1
      /\ gas_used <= frames[Len(frames)].limit
  <2>1. Depth > 1
        BY <1>0
  <2>2. gas_used <= frames[Len(frames)].limit
        BY <1>0
  <2>. QED BY <1>0, <2>1, <2>2 DEF Depth
<1>2. /\ frames' = consume_gas(SubSeq(frames, 1, Len(frames) - 1), gas_used)
      /\ StayInTransaction
      BY DEF Resume, Depth
<1>3. /\ frames' \in Seq(FrameAt(accounts)) /\ Len(frames') = Len(frames) - 1
      /\ StackCovered(frames')
      /\ \A i \in 1..(Len(frames) - 1) : frames'[i].limit = frames[i].limit
      BY <1>0, <1>1, <1>2, PopStack
<1>4. frames' \in Seq(FrameAt(accounts'))
      BY <1>3, FramesInLargerWorld
<1>5. frames'[1].limit = frames[1].limit /\ Len(frames') >= 1
      BY <1>1, <1>3
<1>. QED BY <1>2, <1>3, <1>4, <1>5, StayType

(* A frame fails: the transaction does, or its caller goes on.               *)
LEMMA FailFrameType ==
    ASSUME TypeInv, Running, NEW gas_used \in Nat, gas_used <= Top.limit,
           FailFrame(gas_used)
    PROVE  TypeInv'
<1>1. CASE Depth = 1
      BY <1>1, RunningFrame, FailType DEF FailFrame
<1>2. CASE Depth # 1
  <2>1. accounts' = accounts /\ Resume(gas_used)
        BY <1>2 DEF FailFrame
  <2>2. IsWorld(accounts') /\ \A x : x \in DOMAIN accounts => x \in DOMAIN accounts'
        BY <2>1, RunningFrame
  <2>. QED BY <1>2, <2>1, <2>2, ResumeType
<1>. QED BY <1>1, <1>2

(* What the caller of a frame that returned writes is a world.               *)
LEMMA CommittedWorld ==
    ASSUME TypeInv, Running, NEW code \in Codes \cup {NoCode}
    PROVE  /\ IsWorld(Committed(code))
           /\ \A x : x \in DOMAIN Committed(code) <=> x \in DOMAIN accounts
           /\ \A b : get_account(Committed(code), b).nonce = get_account(accounts, b).nonce
           /\ \A b : b # Self => get_account(Committed(code), b).code
                                    = get_account(accounts, b).code
           /\ Top.kind = "call" => get_account(Committed(code), Self).code
                                    = get_account(accounts, Self).code
           /\ \A b : b # Self => get_account(Committed(code), b).storage
                                    = get_account(accounts, b).storage
           /\ \A b : get_account(Committed(code), b).balance = get_account(accounts, b).balance
<1>. DEFINE coded == IF Top.kind = "create" THEN set_code(accounts, Self, code) ELSE accounts
<1>1. IsWorld(accounts) /\ Self \in DOMAIN accounts /\ Top.storage \in Storage
      BY RunningFrame
<1>2. /\ IsWorld(coded)
      /\ \A x : x \in DOMAIN coded <=> x \in DOMAIN accounts
      /\ \A b : get_account(coded, b).nonce = get_account(accounts, b).nonce
      /\ \A b : get_account(coded, b).storage = get_account(accounts, b).storage
      /\ \A b : get_account(coded, b).balance = get_account(accounts, b).balance
      /\ \A b : b # Self => get_account(coded, b).code = get_account(accounts, b).code
      /\ Top.kind = "call" => get_account(coded, Self).code = get_account(accounts, Self).code
  <2>1. CASE Top.kind = "create"
        BY <1>1, <2>1, SetCode
  <2>2. CASE Top.kind # "create"
        BY <1>1, <2>2
  <2>. QED BY <2>1, <2>2
<1>3. Committed(code) = set_storage_items(coded, Self, Top.storage)
      BY DEF Committed
<1>. HIDE DEF coded
<1>. DEFINE c == set_storage_items(coded, Self, Top.storage)
<1>4. /\ IsWorld(c)
      /\ \A x : x \in DOMAIN c <=> x \in DOMAIN coded
      /\ \A b : b # Self => get_account(c, b).storage = get_account(coded, b).storage
      /\ \A b : get_account(c, b).nonce = get_account(coded, b).nonce
      /\ \A b : get_account(c, b).code = get_account(coded, b).code
      /\ \A b : get_account(c, b).balance = get_account(coded, b).balance
      BY <1>1, <1>2, SetStorageItems
<1>. HIDE DEF c
<1>. QED BY <1>2, <1>3, <1>4 DEF c

(* A creation transaction's world: charged, the new account there, the value *)
(* moved.                                                                    *)
LEMMA CreateWorld ==
    ASSUME NEW w, IsWorld(w), NEW s, NEW a, NEW value \in Nat, can_deduct(w, s, value)
    PROVE  LET c == transfer(add_balance(w, a, 0), s, a, value) IN
           /\ IsWorld(c)
           /\ \A x : x \in DOMAIN w => x \in DOMAIN c
           /\ a \in DOMAIN c
           /\ \A b : get_account(c, b).nonce = get_account(w, b).nonce
           /\ \A b : get_account(c, b).code = get_account(w, b).code
           /\ \A b : get_account(c, b).storage = get_account(w, b).storage
           /\ get_account(c, s).balance >= get_account(w, s).balance - value
           /\ \A b : b # s => get_account(c, b).balance >= get_account(w, b).balance
<1>. DEFINE v == add_balance(w, a, 0)
            c == transfer(v, s, a, value)
<1>1. /\ IsWorld(v)
      /\ \A x : x \in DOMAIN v <=> x \in DOMAIN w \/ x = a
      /\ get_account(v, a).balance = get_account(w, a).balance + 0
      /\ \A b : b # a => get_account(v, b).balance = get_account(w, b).balance
      /\ \A b : get_account(v, b).nonce = get_account(w, b).nonce
      /\ \A b : get_account(v, b).code = get_account(w, b).code
      /\ \A b : get_account(v, b).storage = get_account(w, b).storage
      BY AddBalance
<1>2. \A b : get_account(w, b).balance \in Nat
      BY GetType
<1>. HIDE DEF v
<1>3. \A b : get_account(v, b).balance = get_account(w, b).balance
      BY <1>1, <1>2
<1>4. can_deduct(v, s, value)
      BY <1>3 DEF can_deduct
<1>5. /\ IsWorld(c)
      /\ \A x : x \in DOMAIN v => x \in DOMAIN c
      /\ \A b : get_account(c, b).nonce = get_account(v, b).nonce
      /\ \A b : get_account(c, b).code = get_account(v, b).code
      /\ \A b : get_account(c, b).storage = get_account(v, b).storage
      /\ get_account(c, s).balance >= get_account(v, s).balance - value
      /\ \A b : b # s => get_account(c, b).balance >= get_account(v, b).balance
      BY <1>1, <1>4, Transfer
<1>. HIDE DEF c
<1>6. /\ IsWorld(c)
      /\ \A x : x \in DOMAIN w => x \in DOMAIN c
      /\ a \in DOMAIN c
      /\ \A b : get_account(c, b).nonce = get_account(w, b).nonce
      /\ \A b : get_account(c, b).code = get_account(w, b).code
      /\ \A b : get_account(c, b).storage = get_account(w, b).storage
      /\ get_account(c, s).balance >= get_account(w, s).balance - value
      /\ \A b : b # s => get_account(c, b).balance >= get_account(w, b).balance
      BY <1>1, <1>3, <1>5
<1>. QED BY <1>6 DEF c, v

(* CREATE: the creator's nonce used up, the new account there.               *)
LEMMA NumberedWorld ==
    ASSUME NEW w, IsWorld(w), NEW s, NEW a
    PROVE  LET c == add_balance(increment_nonce(w, s), a, 0) IN
           /\ IsWorld(c)
           /\ \A x : x \in DOMAIN c <=> x \in DOMAIN w \/ x = s \/ x = a
           /\ get_account(c, s).nonce = get_account(w, s).nonce + 1
           /\ \A b : b # s => get_account(c, b).nonce = get_account(w, b).nonce
           /\ \A b : get_account(c, b).balance = get_account(w, b).balance
           /\ \A b : get_account(c, b).code = get_account(w, b).code
           /\ \A b : get_account(c, b).storage = get_account(w, b).storage
<1>. DEFINE v == increment_nonce(w, s)
            c == add_balance(v, a, 0)
<1>1. /\ IsWorld(v)
      /\ \A x : x \in DOMAIN v <=> x \in DOMAIN w \/ x = s
      /\ get_account(v, s).nonce = get_account(w, s).nonce + 1
      /\ \A b : b # s => get_account(v, b).nonce = get_account(w, b).nonce
      /\ \A b : get_account(v, b).balance = get_account(w, b).balance
      /\ \A b : get_account(v, b).code = get_account(w, b).code
      /\ \A b : get_account(v, b).storage = get_account(w, b).storage
  <2>1. /\ IsWorld(v)
        /\ \A x : x \in DOMAIN v <=> x \in DOMAIN w \/ x = s
        /\ get_account(v, s).nonce = get_account(w, s).nonce + 1
        BY IncrementNonce
  <2>2. \A b : b # s => get_account(v, b).nonce = get_account(w, b).nonce
        BY IncrementNonce
  <2>3. /\ \A b : get_account(v, b).balance = get_account(w, b).balance
        /\ \A b : get_account(v, b).code = get_account(w, b).code
        /\ \A b : get_account(v, b).storage = get_account(w, b).storage
        BY IncrementNonce
  <2>. HIDE DEF v
  <2>. QED BY <2>1, <2>2, <2>3
<1>. HIDE DEF v
<1>2. /\ IsWorld(c)
      /\ \A x : x \in DOMAIN c <=> x \in DOMAIN v \/ x = a
      /\ get_account(c, a).balance = get_account(v, a).balance + 0
      /\ \A b : b # a => get_account(c, b).balance = get_account(v, b).balance
      /\ \A b : get_account(c, b).nonce = get_account(v, b).nonce
      /\ \A b : get_account(c, b).code = get_account(v, b).code
      /\ \A b : get_account(c, b).storage = get_account(v, b).storage
      BY <1>1, AddBalance
<1>3. \A b : get_account(v, b).balance \in Nat
      BY <1>1, GetType
<1>. HIDE DEF c
<1>4. \A b : get_account(c, b).balance = get_account(v, b).balance
      BY <1>2, <1>3
<1>5. /\ IsWorld(c)
      /\ \A x : x \in DOMAIN c <=> x \in DOMAIN w \/ x = s \/ x = a
      /\ get_account(c, s).nonce = get_account(w, s).nonce + 1
      /\ \A b : b # s => get_account(c, b).nonce = get_account(w, b).nonce
      /\ \A b : get_account(c, b).balance = get_account(w, b).balance
      /\ \A b : get_account(c, b).code = get_account(w, b).code
      /\ \A b : get_account(c, b).storage = get_account(w, b).storage
      BY <1>1, <1>2, <1>4
<1>. QED BY <1>5 DEF c, v

(* What CREATE writes before its init code runs is a world.                  *)
LEMMA NewContractWorld ==
    ASSUME IsWorld(accounts)
    PROVE  /\ IsWorld(WithNewContract)
           /\ \A x : x \in DOMAIN WithNewContract
                        <=> x \in DOMAIN accounts \/ x = Self \/ x = NewContract
           /\ get_account(WithNewContract, Self).nonce = get_account(accounts, Self).nonce + 1
           /\ \A b : b # Self => get_account(WithNewContract, b).nonce
                                    = get_account(accounts, b).nonce
           /\ \A b : get_account(WithNewContract, b).balance = get_account(accounts, b).balance
           /\ \A b : get_account(WithNewContract, b).code = get_account(accounts, b).code
           /\ \A b : get_account(WithNewContract, b).storage = get_account(accounts, b).storage
BY NumberedWorld DEF WithNewContract

(* The genesis state is typed and covered.                                   *)
LEMMA InitType == Init => TypeInv
<1>. SUFFICES ASSUME Init PROVE TypeInv
     OBVIOUS
<1>1. /\ accounts = Genesis /\ tx = NoTx /\ snapshot = EmptyWorld /\ frames = <<>>
      /\ result = NoResult /\ applied = {} /\ burned = 0
      BY DEF Init
<1>2. IsWorld(accounts) /\ IsWorld(snapshot)
      BY <1>1, GenesisAssumption, EmptyWorldType
<1>3. frames \in Seq(FrameAt(accounts))
      BY <1>1, EmptySeq
<1>4. result \in [outcome : Rejections \cup {"none", "success", "failure"},
                  gas_used : Nat, gas_remaining : Nat,
                  contract_address : DOMAIN accounts \cup {NoAddress}]
      BY <1>1 DEF NoResult, Outcome
<1>5. TypeOK
      BY <1>1, <1>2, <1>3, <1>4 DEF TypeOK
<1>6. StackCovered(<<>>)
      BY EmptySeq DEF StackCovered
<1>7. GasCovered /\ BegunValid
      BY <1>1, <1>6 DEF GasCovered, BegunValid
<1>. QED BY <1>5, <1>7 DEF TypeInv

(* A submitted transaction keeps the invariant.                              *)
LEMMA SubmitType ==
    ASSUME TypeInv, NEW t \in Txs,
           \/ Reject(t)
           \/ ExecuteValueTransfer(t)
           \/ ExecuteContractCall(t)
           \/ ExecuteCreate(t)
    PROVE  TypeInv'
<1>. DEFINE charged == Charge(accounts, t)
            moved == transfer(charged, t.sender, t.to, t.value)
<1>0. TypeOK /\ GasCovered /\ BegunValid /\ IsWorld(accounts)
      BY DEF TypeInv, TypeOK
<1>1. ASSUME Accepted(t)
      PROVE  /\ IsWorld(charged)
             /\ \A x : x \in DOMAIN accounts => x \in DOMAIN charged
             /\ t.value \in Nat /\ can_deduct(charged, t.sender, t.value)
             /\ IsWorld(moved)
             /\ \A x : x \in DOMAIN accounts => x \in DOMAIN moved
             /\ gas_for_execution(t) \in Nat /\ gas_for_execution(t) <= t.gas
  <2>1. validate_transaction(accounts, t) = "valid"
        BY <1>1 DEF Accepted
  <2>2. t.value \in Nat
        BY TxType
  <2>3. gas_for_execution(t) \in Nat /\ gas_for_execution(t) <= t.gas
        BY <1>0, <2>1, ValidTx
  <2>4. /\ IsWorld(charged)
        /\ \A x : x \in DOMAIN accounts => x \in DOMAIN charged
        /\ can_deduct(charged, t.sender, t.value)
        BY <1>0, <2>1, ChargeWorld
  <2>. HIDE DEF charged
  <2>5. IsWorld(moved) /\ \A x : x \in DOMAIN charged => x \in DOMAIN moved
        BY <2>2, <2>4, Transfer
  <2>. HIDE DEF moved
  <2>. QED BY <2>2, <2>3, <2>4, <2>5
<1>2. CASE Reject(t)
  <2>1. /\ result' = Outcome(validate_transaction(accounts, t), 0, 0, NoAddress)
        /\ validate_transaction(accounts, t) # "valid"
        /\ accounts' = accounts /\ tx' = tx /\ snapshot' = snapshot /\ frames' = frames
        /\ applied' = applied /\ burned' = burned
        BY <1>2 DEF Reject
  <2>2. validate_transaction(accounts, t) \in Rejections
        BY <2>1 DEF validate_transaction, Rejections
  <2>3. result' \in [outcome : Rejections \cup {"none", "success", "failure"},
                     gas_used : Nat, gas_remaining : Nat,
                     contract_address : DOMAIN accounts' \cup {NoAddress}]
        BY <2>1, <2>2 DEF Outcome
  <2>4. TypeOK'
        BY <1>0, <2>1, <2>3 DEF TypeOK
  <2>5. GasCovered'
        BY <1>0, <2>1 DEF GasCovered, gas_for_execution, calculate_intrinsic_gas
  <2>6. BegunValid'
        BY <1>0, <2>1 DEF BegunValid
  <2>. QED BY <2>4, <2>5, <2>6 DEF TypeInv
<1>3. CASE ExecuteValueTransfer(t)
  <2>1. Accepted(t) /\ Succeed(t, moved, gas_for_execution(t), NoAddress)
        BY <1>3 DEF ExecuteValueTransfer
  <2>. HIDE DEF moved, charged
  <2>. QED BY <1>0, <1>1, <2>1, SucceedType
<1>4. CASE ExecuteContractCall(t)
  <2>. DEFINE f == Frame("call", t.to, get_account(accounts, t.to).storage, gas_for_execution(t))
  <2>1. Accepted(t) /\ get_account(accounts, t.to).code # NoCode /\ Begin(t, moved, f)
        BY <1>4 DEF ExecuteContractCall
  <2>2. t.to \in DOMAIN accounts
        BY <2>1 DEF get_account, EMPTY_ACCOUNT
  <2>. HIDE DEF moved, charged
  <2>3. /\ f \in FrameAt(moved)
        /\ f.gas = gas_for_execution(t) /\ f.limit = gas_for_execution(t)
    <3>1. t.to \in DOMAIN moved /\ gas_for_execution(t) \in Nat
          BY <1>1, <2>1, <2>2
    <3>2. get_account(accounts, t.to).storage \in Storage
          BY <1>0, GetType
    <3>. QED BY <3>1, <3>2 DEF Frame, FrameAt
  <2>. HIDE DEF f
  <2>. QED BY <1>1, <2>1, <2>3, BeginType
<1>5. CASE ExecuteCreate(t)
  <2>. DEFINE a == compute_contract_address(t.sender, t.nonce)
              w == transfer(add_balance(charged, a, 0), t.sender, a, t.value)
              f == Frame("create", a, EmptyStorage, gas_for_execution(t))
  <2>1. Accepted(t) /\ Begin(t, w, f)
        BY <1>5 DEF ExecuteCreate
  <2>. HIDE DEF charged, a
  <2>2. IsWorld(w) /\ a \in DOMAIN w
        BY <1>1, <2>1, CreateWorld
  <2>. HIDE DEF w
  <2>3. /\ f \in FrameAt(w)
        /\ f.gas = gas_for_execution(t) /\ f.limit = gas_for_execution(t)
        BY <1>1, <2>1, <2>2, EmptyAccountType DEF Frame, FrameAt
  <2>. HIDE DEF f
  <2>. QED BY <2>1, <2>2, <2>3, BeginType
<1>. QED BY <1>2, <1>3, <1>4, <1>5

(* An opcode, or the end of a frame, keeps the invariant.                    *)
LEMMA StepType == TypeInv /\ Step => TypeInv'
<1>. SUFFICES ASSUME TypeInv, Step PROVE TypeInv'
     OBVIOUS
<1>0. /\ SstoreGas \in Nat /\ CreateGas \in Nat /\ CallGas \in Nat
      /\ ComputeCosts \subseteq Nat /\ GasRequests \subseteq Nat /\ Values \subseteq Nat
      BY GasAssumption
<1>1. CASE Compute
  <2>1. PICK cost \in ComputeCosts : /\ CanPay(cost)
                                     /\ frames' = Spend(cost)
                                     /\ UNCHANGED accounts
                                     /\ StayInTransaction
        BY <1>1 DEF Compute
  <2>2. Running /\ cost \in Nat
        BY <1>0, <2>1 DEF CanPay
  <2>3. IsWorld(accounts') /\ \A x : x \in DOMAIN accounts => x \in DOMAIN accounts'
        BY <2>1, <2>2, RunningFrame
  <2>. QED BY <2>1, <2>2, <2>3, SpendType
<1>2. CASE Sstore
  <2>1. PICK k \in Slots, v \in Words : /\ CanPay(SstoreGas)
                                        /\ frames' = store_slot(Spend(SstoreGas), k, v)
                                        /\ UNCHANGED accounts
                                        /\ StayInTransaction
        BY <1>2 DEF Sstore
  <2>. DEFINE paid == consume_gas(frames, SstoreGas)
  <2>2. Running /\ frames' = store_slot(paid, k, v)
        BY <2>1 DEF CanPay, Spend
  <2>3. /\ frames \in Seq(FrameAt(accounts)) /\ frames # <<>> /\ StackCovered(frames)
        /\ Len(frames) \in Nat /\ Len(frames) >= 1
        /\ frames[Len(frames)].gas >= SstoreGas
        /\ IsWorld(accounts)
        BY <2>1, <2>2, RunningFrame DEF Depth, CanPay
  <2>4. /\ paid \in Seq(FrameAt(accounts)) /\ Len(paid) = Len(frames)
        /\ StackCovered(paid)
        /\ \A i \in 1..Len(frames) : paid[i].limit = frames[i].limit
        BY <1>0, <2>3, SpendStack
  <2>. HIDE DEF paid
  <2>5. paid # <<>>
        BY <2>3, <2>4, EmptySeq
  <2>6. /\ frames' \in Seq(FrameAt(accounts)) /\ Len(frames') = Len(paid)
        /\ StackCovered(frames')
        /\ \A i \in 1..Len(paid) : frames'[i].limit = paid[i].limit
        BY <2>2, <2>4, <2>5, StoreStack
  <2>7. /\ frames'[1].limit = frames[1].limit /\ Len(frames') >= 1
        /\ frames' \in Seq(FrameAt(accounts'))
        /\ IsWorld(accounts') /\ \A x : x \in DOMAIN accounts => x \in DOMAIN accounts'
        BY <2>1, <2>3, <2>4, <2>6
  <2>. QED BY <2>1, <2>2, <2>6, <2>7, StayType
<1>3. CASE CallUnfunded
  <2>1. /\ CanPay(CallGas) /\ frames' = Spend(CallGas)
        /\ UNCHANGED accounts /\ StayInTransaction
        BY <1>3 DEF CallUnfunded
  <2>2. IsWorld(accounts') /\ \A x : x \in DOMAIN accounts => x \in DOMAIN accounts'
        BY <2>1, RunningFrame DEF CanPay
  <2>. QED BY <1>0, <2>1, <2>2, SpendType
<1>4. CASE CallWithoutCode
  <2>1. PICK target \in DOMAIN accounts \cup CallTargets, value \in Values :
             /\ CanPay(CallGas)
             /\ can_deduct(accounts, Self, value)
             /\ accounts' = transfer(accounts, Self, target, value)
             /\ frames' = Spend(CallGas)
             /\ StayInTransaction
        BY <1>4 DEF CallWithoutCode
  <2>2. IsWorld(accounts) /\ value \in Nat
        BY <1>0, <2>1, RunningFrame DEF CanPay
  <2>3. IsWorld(accounts') /\ \A x : x \in DOMAIN accounts => x \in DOMAIN accounts'
        BY <2>1, <2>2, Transfer
  <2>. QED BY <1>0, <2>1, <2>3, SpendType
<1>5. CASE CallContract
  <2>1. PICK target \in DOMAIN accounts, value \in Values, gas \in GasRequests :
             LET forwarded_gas == Lesser(gas, Top.gas - CallGas) IN
             /\ CanPay(CallGas)
             /\ can_deduct(accounts, Self, value)
             /\ accounts' = transfer(accounts, Self, target, value)
             /\ Enter(Frame("call", target, accounts[target].storage, forwarded_gas), CallGas)
        BY <1>5 DEF CallContract
  <2>. DEFINE forwarded_gas == Lesser(gas, Top.gas - CallGas)
              f == Frame("call", target, accounts[target].storage, forwarded_gas)
  <2>2. /\ CanPay(CallGas) /\ can_deduct(accounts, Self, value)
        /\ accounts' = transfer(accounts, Self, target, value)
        /\ Enter(f, CallGas)
        BY <2>1
  <2>3. /\ IsWorld(accounts) /\ value \in Nat /\ gas \in Nat
        /\ Top.gas \in Nat /\ Top.gas >= CallGas
        BY <1>0, <2>2, RunningFrame DEF CanPay
  <2>4. forwarded_gas \in Nat /\ forwarded_gas <= Top.gas - CallGas
        BY <1>0, <2>3 DEF Lesser
  <2>. HIDE DEF forwarded_gas
  <2>5. IsWorld(accounts') /\ \A x : x \in DOMAIN accounts => x \in DOMAIN accounts'
        BY <2>2, <2>3, Transfer
  <2>6. accounts[target].storage \in Storage
        BY <2>3 DEF IsWorld, Account
  <2>7. f \in FrameAt(accounts') /\ f.gas = f.limit /\ f.limit <= Top.gas - CallGas
        BY <2>4, <2>5, <2>6 DEF Frame, FrameAt
  <2>. HIDE DEF f
  <2>. QED BY <1>0, <2>2, <2>5, <2>7, EnterType
<1>6. CASE CreateUnfunded
  <2>1. /\ CanPay(CreateGas) /\ accounts' = WithNewContract
        /\ frames' = Spend(CreateGas) /\ StayInTransaction
        BY <1>6 DEF CreateUnfunded
  <2>2. IsWorld(accounts') /\ \A x : x \in DOMAIN accounts => x \in DOMAIN accounts'
        BY <2>1, RunningFrame, NewContractWorld DEF CanPay
  <2>. QED BY <1>0, <2>1, <2>2, SpendType
<1>7. CASE CreateContract
  <2>. DEFINE f == Frame("create", NewContract, EmptyStorage, Top.gas - CreateGas)
  <2>1. PICK value \in Values :
             /\ CanPay(CreateGas)
             /\ can_deduct(WithNewContract, Self, value)
             /\ accounts' = transfer(WithNewContract, Self, NewContract, value)
             /\ Enter(f, CreateGas)
        BY <1>7 DEF CreateContract
  <2>2. /\ IsWorld(accounts) /\ value \in Nat
        /\ Top.gas \in Nat /\ Top.gas >= CreateGas
        BY <1>0, <2>1, RunningFrame DEF CanPay
  <2>3. /\ IsWorld(WithNewContract) /\ NewContract \in DOMAIN WithNewContract
        /\ \A x : x \in DOMAIN accounts => x \in DOMAIN WithNewContract
        BY <2>2, NewContractWorld
  <2>4. /\ IsWorld(accounts')
        /\ \A x : x \in DOMAIN WithNewContract => x \in DOMAIN accounts'
        BY <2>1, <2>2, <2>3, Transfer
  <2>5. Top.gas - CreateGas \in Nat
        BY <1>0, <2>2
  <2>6. f \in FrameAt(accounts') /\ f.gas = f.limit /\ f.limit <= Top.gas - CreateGas
        BY <2>3, <2>4, <2>5, EmptyAccountType DEF Frame, FrameAt
  <2>. HIDE DEF f
  <2>. QED BY <1>0, <2>1, <2>3, <2>4, <2>6, EnterType
<1>8. CASE Return
  <2>1. PICK code \in Codes \cup {NoCode} :
          /\ Running
          /\ Top.kind = "call" => code = NoCode
          /\ IF Depth = 1
             THEN Succeed(tx, Committed(code), Top.gas,
                          IF Top.kind = "create" THEN Self ELSE NoAddress)
             ELSE accounts' = Committed(code) /\ Resume(Top.limit - Top.gas)
        BY <1>8 DEF Return
  <2>. DEFINE w == Committed(code)
  <2>2. IsWorld(w) /\ \A x : x \in DOMAIN w <=> x \in DOMAIN accounts
        BY <2>1, CommittedWorld
  <2>. HIDE DEF w
  <2>3. CASE Depth = 1
    <3>. DEFINE address == IF Top.kind = "create" THEN Self ELSE NoAddress
    <3>1. Succeed(tx, w, Top.gas, address)
          BY <2>1, <2>3 DEF w
    <3>2. address \in DOMAIN w \cup {NoAddress}
          BY <2>1, <2>2, RunningFrame
    <3>. HIDE DEF address
    <3>3. TypeOK /\ tx \in Txs /\ Top.gas \in Nat /\ Top.gas <= Top.limit /\ Top.limit \in Nat
          BY <2>1, RunningFrame DEF TypeInv
    <3>6. Top.gas <= tx.gas
          BY <2>1, <2>3, OutermostGas
    <3>. QED BY <2>2, <3>1, <3>2, <3>3, <3>6, SucceedType
  <2>4. CASE Depth # 1
    <3>1. accounts' = w /\ Resume(Top.limit - Top.gas)
          BY <2>1, <2>4 DEF w
    <3>2. IsWorld(accounts') /\ \A x : x \in DOMAIN accounts => x \in DOMAIN accounts'
          BY <2>2, <3>1
    <3>3. Top.limit - Top.gas \in Nat /\ Top.limit - Top.gas <= Top.limit
          BY <2>1, RunningFrame
    <3>. QED BY <2>1, <2>4, <3>1, <3>2, <3>3, ResumeType
  <2>. QED BY <2>3, <2>4
<1>9. CASE Revert
  <2>. DEFINE gas_used == IF Top.kind = "create" THEN Top.limit - Top.gas ELSE Top.limit
  <2>1. Running /\ FailFrame(gas_used)
        BY <1>9 DEF Revert
  <2>2. gas_used \in Nat /\ gas_used <= Top.limit
        BY <2>1, RunningFrame
  <2>. HIDE DEF gas_used
  <2>. QED BY <2>1, <2>2, FailFrameType
<1>10. CASE Invalid
  <2>1. Running /\ FailFrame(Top.limit)
        BY <1>10 DEF Invalid
  <2>2. Top.limit \in Nat /\ Top.limit <= Top.limit
        BY <2>1, RunningFrame
  <2>. QED BY <2>1, <2>2, FailFrameType
<1>11. CASE OutOfGas
  <2>. DEFINE gas_used == IF Top.kind = "create" THEN 0 ELSE Top.limit
  <2>1. Running /\ FailFrame(gas_used)
        BY <1>11 DEF OutOfGas
  <2>2. gas_used \in Nat /\ gas_used <= Top.limit
        BY <2>1, RunningFrame
  <2>. HIDE DEF gas_used
  <2>. QED BY <2>1, <2>2, FailFrameType
<1>12. CASE Abort
  <2>1. Running /\ FailTransaction
        BY <1>12 DEF Abort
  <2>. QED BY <2>1, RunningFrame, FailType
<1>. QED BY <1>1, <1>2, <1>3, <1>4, <1>5, <1>6, <1>7, <1>8, <1>9, <1>10, <1>11, <1>12 DEF Step

(* A step that changes nothing keeps the invariant.                          *)
LEMMA StutterType == TypeInv /\ UNCHANGED vars => TypeInv'
<1>. SUFFICES ASSUME TypeInv, UNCHANGED vars PROVE TypeInv'
     OBVIOUS
<1>1. /\ accounts' = accounts /\ tx' = tx /\ snapshot' = snapshot /\ frames' = frames
      /\ result' = result /\ applied' = applied /\ burned' = burned
      BY DEF vars
<1>2. TypeOK'
      BY <1>1 DEF TypeInv, TypeOK
<1>3. GasCovered' /\ BegunValid'
      BY <1>1 DEF TypeInv, GasCovered, BegunValid, gas_for_execution, calculate_intrinsic_gas
<1>. QED BY <1>2, <1>3 DEF TypeInv

(* The inductive invariant holds in every reachable state.                   *)
THEOREM Invariance == Spec => []TypeInv
<1>1. TypeInv /\ [Next]_vars => TypeInv'
  <2>. SUFFICES ASSUME TypeInv, [Next]_vars PROVE TypeInv'
       OBVIOUS
  <2>1. CASE Submit
        BY <2>1, SubmitType DEF Submit
  <2>2. CASE Step
        BY <2>2, StepType
  <2>3. CASE UNCHANGED vars
        BY <2>3, StutterType
  <2>. QED BY <2>1, <2>2, <2>3 DEF Next
<1>. QED BY InitType, <1>1, PTL DEF Spec

(* Every variable holds a value of its kind, whatever program a contract     *)
(* runs: balances, nonces and gas counters stay natural numbers, every frame *)
(* runs at an account that exists, and a finished transaction leaves neither *)
(* a frame nor a snapshot behind.                                            *)
THEOREM TypeCorrect == Spec => []TypeOK
<1>1. TypeInv => TypeOK
      BY DEF TypeInv
<1>. QED BY Invariance, <1>1, PTL

(* Nested calls cannot overdraw gas: the EVM subtracts a callee's answer     *)
(* without testing it, and it is always covered.                             *)
THEOREM GasIsCovered == Spec => []GasCovered
<1>1. TypeInv => GasCovered
      BY DEF TypeInv
<1>. QED BY Invariance, <1>1, PTL

-----------------------------------------------------------------------------
(* Nonces: no transaction is ever applied twice, whatever programs run and   *)
(* however transactions fail; contracts are only ever created on unused      *)
(* addresses; and frames run at contracts, each construction on its own.     *)

(* The world that stays if the transaction that is running fails, or the     *)
(* current one if none is.                                                   *)
Settled == IF tx = NoTx THEN accounts ELSE snapshot

(* While a transaction runs, its nonce is used up and no sender's nonce is   *)
(* behind what it was in the snapshot: what is committed will be at least    *)
(* what would be rolled back to.                                             *)
NonceUsed ==
    tx # NoTx =>
        /\ get_account(accounts, tx.sender).nonce > tx.nonce
        /\ \A t \in Txs : get_account(accounts, t.sender).nonce
                            >= get_account(snapshot, t.sender).nonce

NonceInv == NoReplay /\ NonceUsed

(* No nonce goes back from one world to the next.                            *)
NoncesKept(old, new) == \A a : get_account(new, a).nonce >= get_account(old, a).nonce

(* Worlds with the same nonces.                                              *)
LEMMA SameNonces ==
    ASSUME NEW w, IsWorld(w), NEW v,
           \A a : get_account(v, a).nonce = get_account(w, a).nonce
    PROVE  NoncesKept(w, v)
<1>1. \A a : get_account(w, a).nonce \in Nat
      BY GetType
<1>. QED BY <1>1 DEF NoncesKept

(* Charging a valid transaction moves its sender's nonce past its own.       *)
LEMMA ChargePasses ==
    ASSUME NEW w, IsWorld(w), NEW t \in Txs, validate_transaction(w, t) = "valid"
    PROVE  /\ NoncesKept(w, Charge(w, t))
           /\ get_account(Charge(w, t), t.sender).nonce > t.nonce
<1>. DEFINE c == Charge(w, t)
<1>1. /\ get_account(c, t.sender).nonce = get_account(w, t.sender).nonce + 1
      /\ \A a : a # t.sender => get_account(c, a).nonce = get_account(w, a).nonce
      BY ChargeWorld
<1>2. \A a : get_account(w, a).nonce \in Nat
      BY GetType
<1>3. get_account(w, t.sender).nonce = t.nonce /\ t.nonce \in Nat
      BY ValidTx, TxType
<1>. HIDE DEF c
<1>4. NoncesKept(w, c)
      BY <1>1, <1>2 DEF NoncesKept
<1>5. get_account(c, t.sender).nonce > t.nonce
      BY <1>1, <1>3
<1>. QED BY <1>4, <1>5 DEF c

(* Keeping nonces is transitive.                                             *)
LEMMA KeptTransitive ==
    ASSUME NEW u, IsWorld(u), NEW v, IsWorld(v), NEW w, IsWorld(w),
           NoncesKept(u, v), NoncesKept(v, w)
    PROVE  NoncesKept(u, w)
<1>1. \A a : /\ get_account(u, a).nonce \in Nat /\ get_account(v, a).nonce \in Nat
             /\ get_account(w, a).nonce \in Nat
      BY GetType
<1>. QED BY <1>1 DEF NoncesKept

-----------------------------------------------------------------------------
(* A transaction that ends in a world in which its nonce is used up and no   *)
(* sender's is behind the settled world.                                     *)
LEMMA EndReplay ==
    ASSUME TypeOK, NonceInv, IsWorld(accounts'), NEW t \in Txs, NEW fee, Finish(t, fee),
           get_account(accounts', t.sender).nonce > t.nonce,
           \A u \in Txs : get_account(accounts', u.sender).nonce
                            >= get_account(Settled, u.sender).nonce
    PROVE  NonceInv'
<1>1. tx' = NoTx /\ applied' = applied \cup {t} /\ applied \subseteq Txs
      BY DEF Finish, TypeOK
<1>2. IsWorld(Settled)
      BY DEF Settled, TypeOK
<1>3. \A u \in applied : get_account(Settled, u.sender).nonce > u.nonce
      BY DEF NonceInv, NoReplay, Settled
<1>4. \A u \in Txs : /\ get_account(Settled, u.sender).nonce \in Nat
                     /\ get_account(accounts', u.sender).nonce \in Nat
                     /\ u.nonce \in Nat
      BY <1>2, GetType, TxType
<1>5. \A u \in applied : get_account(accounts', u.sender).nonce > u.nonce
      BY <1>1, <1>3, <1>4
<1>6. NoReplay'
      BY <1>1, <1>5 DEF NoReplay
<1>7. NonceUsed'
      BY <1>1 DEF NonceUsed
<1>. QED BY <1>6, <1>7 DEF NonceInv

(* A refund does not touch nonces, so a success ends well if its world does. *)
LEMMA SucceedReplay ==
    ASSUME TypeOK, NonceInv, NEW t \in Txs, NEW w, IsWorld(w),
           NEW gas_remaining \in Nat, NEW address, Succeed(t, w, gas_remaining, address),
           get_account(w, t.sender).nonce > t.nonce,
           \A u \in Txs : get_account(w, u.sender).nonce
                            >= get_account(Settled, u.sender).nonce
    PROVE  NonceInv'
<1>. DEFINE gas_refund == gas_remaining * t.gas_price
            refunded == add_balance(w, t.sender, gas_refund)
            fee == (t.gas - gas_remaining) * t.gas_price
<1>1. /\ accounts' = IF gas_refund > 0 THEN refunded ELSE w
      /\ Finish(t, fee)
      BY DEF Succeed
<1>2. gas_refund \in Nat
  <2>1. \A m, n \in Nat : m * n \in Nat
        OBVIOUS
  <2>. QED BY <2>1, TxType
<1>. HIDE DEF gas_refund, fee
<1>3. /\ IsWorld(refunded)
      /\ \A a : get_account(refunded, a).nonce = get_account(w, a).nonce
      BY <1>2, AddBalance
<1>. HIDE DEF refunded
<1>4. IsWorld(accounts') /\ \A a : get_account(accounts', a).nonce = get_account(w, a).nonce
      BY <1>1, <1>3
<1>. QED BY <1>1, <1>4, EndReplay

(* A failure ends in the snapshot, charged.                                  *)
LEMMA FailReplay ==
    ASSUME TypeInv, NonceInv, tx # NoTx, FailTransaction
    PROVE  NonceInv'
<1>1. /\ TypeOK /\ tx \in Txs /\ IsWorld(snapshot)
      /\ validate_transaction(snapshot, tx) = "valid" /\ Settled = snapshot
      BY DEF TypeInv, TypeOK, BegunValid, Settled
<1>2. accounts' = Charge(snapshot, tx) /\ Finish(tx, upfront_gas_cost(tx))
      BY DEF FailTransaction
<1>3. IsWorld(accounts')
      BY <1>1, <1>2, ChargeWorld
<1>4. /\ NoncesKept(snapshot, accounts')
      /\ get_account(accounts', tx.sender).nonce > tx.nonce
      BY <1>1, <1>2, ChargePasses
<1>5. \A u \in Txs : get_account(accounts', u.sender).nonce
                       >= get_account(Settled, u.sender).nonce
      BY <1>1, <1>4 DEF NoncesKept
<1>. QED BY <1>1, <1>2, <1>3, <1>4, <1>5, EndReplay

(* A transaction that begins has used its nonce up in the world it leaves.   *)
LEMMA BeginReplay ==
    ASSUME TypeOK, NonceInv, tx = NoTx, NEW t \in Txs, NEW w, NEW f, Begin(t, w, f),
           NoncesKept(accounts, w), get_account(w, t.sender).nonce > t.nonce
    PROVE  NonceInv'
<1>1. tx' = t /\ snapshot' = accounts /\ accounts' = w /\ applied' = applied /\ t # NoTx
      BY TxType DEF Begin
<1>2. NoReplay'
      BY <1>1 DEF NonceInv, NoReplay
<1>3. NonceUsed'
      BY <1>1 DEF NonceUsed, NoncesKept
<1>. QED BY <1>2, <1>3 DEF NonceInv

(* Inside a transaction no nonce goes back.                                  *)
LEMMA StayReplay ==
    ASSUME TypeInv, NonceInv, Running, IsWorld(accounts'), StayInTransaction,
           NoncesKept(accounts, accounts')
    PROVE  NonceInv'
<1>1. tx' = tx /\ snapshot' = snapshot /\ applied' = applied
      BY DEF StayInTransaction
<1>2. TypeOK /\ tx \in Txs /\ tx # NoTx /\ IsWorld(accounts) /\ IsWorld(snapshot)
      BY RunningFrame DEF TypeInv, TypeOK
<1>3. NoReplay'
      BY <1>1, <1>2 DEF NonceInv, NoReplay
<1>4. \A t \in Txs : /\ get_account(accounts, t.sender).nonce \in Nat
                     /\ get_account(accounts', t.sender).nonce \in Nat
                     /\ get_account(snapshot, t.sender).nonce \in Nat
                     /\ get_account(accounts', t.sender).nonce
                          >= get_account(accounts, t.sender).nonce
                     /\ t.nonce \in Nat
      BY <1>2, GetType, TxType DEF NoncesKept
<1>5. NonceUsed'
      BY <1>1, <1>2, <1>4 DEF NonceInv, NonceUsed
<1>. QED BY <1>3, <1>5 DEF NonceInv

-----------------------------------------------------------------------------
(* A submitted transaction.                                                  *)
LEMMA SubmitReplay ==
    ASSUME TypeInv, NonceInv, NEW t \in Txs,
           \/ Reject(t)
           \/ ExecuteValueTransfer(t)
           \/ ExecuteContractCall(t)
           \/ ExecuteCreate(t)
    PROVE  NonceInv'
<1>. DEFINE charged == Charge(accounts, t)
            moved == transfer(charged, t.sender, t.to, t.value)
<1>0. TypeOK /\ IsWorld(accounts)
      BY DEF TypeInv, TypeOK
<1>1. ASSUME Accepted(t)
      PROVE  /\ tx = NoTx /\ t.value \in Nat /\ gas_for_execution(t) \in Nat
             /\ IsWorld(charged) /\ can_deduct(charged, t.sender, t.value)
             /\ NoncesKept(accounts, charged)
             /\ get_account(charged, t.sender).nonce > t.nonce
             /\ IsWorld(moved)
             /\ NoncesKept(accounts, moved)
             /\ get_account(moved, t.sender).nonce > t.nonce
  <2>1. tx = NoTx /\ validate_transaction(accounts, t) = "valid"
        BY <1>1 DEF Accepted
  <2>2. t.value \in Nat /\ gas_for_execution(t) \in Nat
        BY <1>0, <2>1, TxType, ValidTx
  <2>3. IsWorld(charged) /\ can_deduct(charged, t.sender, t.value)
        BY <1>0, <2>1, ChargeWorld
  <2>4. NoncesKept(accounts, charged) /\ get_account(charged, t.sender).nonce > t.nonce
        BY <1>0, <2>1, ChargePasses
  <2>. HIDE DEF charged
  <2>5. IsWorld(moved) /\ \A a : get_account(moved, a).nonce = get_account(charged, a).nonce
        BY <2>2, <2>3, Transfer
  <2>. HIDE DEF moved
  <2>6. NoncesKept(accounts, moved)
        BY <2>4, <2>5 DEF NoncesKept
  <2>. QED BY <2>1, <2>2, <2>3, <2>4, <2>5, <2>6
<1>2. CASE Reject(t)
  <2>1. accounts' = accounts /\ tx' = tx /\ snapshot' = snapshot /\ applied' = applied
        BY <1>2 DEF Reject
  <2>. QED BY <2>1 DEF NonceInv, NoReplay, NonceUsed
<1>3. CASE ExecuteValueTransfer(t)
  <2>1. Accepted(t) /\ Succeed(t, moved, gas_for_execution(t), NoAddress)
        BY <1>3 DEF ExecuteValueTransfer
  <2>. HIDE DEF moved, charged
  <2>2. \A u \in Txs : get_account(moved, u.sender).nonce
                          >= get_account(Settled, u.sender).nonce
        BY <1>1, <2>1 DEF NoncesKept, Settled
  <2>. QED BY <1>0, <1>1, <2>1, <2>2, SucceedReplay
<1>4. CASE ExecuteContractCall(t)
  <2>. DEFINE f == Frame("call", t.to, get_account(accounts, t.to).storage, gas_for_execution(t))
  <2>1. Accepted(t) /\ Begin(t, moved, f)
        BY <1>4 DEF ExecuteContractCall
  <2>. HIDE DEF moved, charged, f
  <2>. QED BY <1>0, <1>1, <2>1, BeginReplay
<1>5. CASE ExecuteCreate(t)
  <2>. DEFINE a == compute_contract_address(t.sender, t.nonce)
              w == transfer(add_balance(charged, a, 0), t.sender, a, t.value)
              f == Frame("create", a, EmptyStorage, gas_for_execution(t))
  <2>1. Accepted(t) /\ Begin(t, w, f)
        BY <1>5 DEF ExecuteCreate
  <2>. HIDE DEF charged, a, f
  <2>2. \A b : get_account(w, b).nonce = get_account(charged, b).nonce
        BY <1>1, <2>1, CreateWorld
  <2>. HIDE DEF w
  <2>3. NoncesKept(accounts, w) /\ get_account(w, t.sender).nonce > t.nonce
        BY <1>1, <2>1, <2>2 DEF NoncesKept
  <2>. QED BY <1>0, <1>1, <2>1, <2>3, BeginReplay
<1>. QED BY <1>2, <1>3, <1>4, <1>5

(* A frame fails: its transaction does, or nothing happens to the world.     *)
LEMMA FailFrameReplay ==
    ASSUME TypeInv, NonceInv, Running, NEW gas_used, FailFrame(gas_used)
    PROVE  NonceInv'
<1>1. CASE Depth = 1
      BY <1>1, RunningFrame, FailReplay DEF FailFrame
<1>2. CASE Depth # 1
  <2>1. accounts' = accounts /\ StayInTransaction /\ IsWorld(accounts)
        BY <1>2, RunningFrame DEF FailFrame, Resume
  <2>2. NoncesKept(accounts, accounts')
        BY <2>1, SameNonces
  <2>. QED BY <2>1, <2>2, StayReplay
<1>. QED BY <1>1, <1>2

(* An opcode that neither creates a contract nor ends a frame leaves all     *)
(* nonces alone.                                                             *)
LEMMA OpcodeReplay ==
    ASSUME TypeInv, NonceInv, IsWorld(accounts'),
           Compute \/ Sstore \/ CallUnfunded \/ CallWithoutCode \/ CallContract
    PROVE  NonceInv'
<1>1. Running /\ StayInTransaction
      BY DEF Compute, Sstore, CallUnfunded, CallWithoutCode, CallContract, CanPay, Enter
<1>2. IsWorld(accounts) /\ Values \subseteq Nat
      BY <1>1, RunningFrame, GasAssumption
<1>3. \A a : get_account(accounts', a).nonce = get_account(accounts, a).nonce
  <2>1. CASE Compute \/ Sstore \/ CallUnfunded
        BY <2>1 DEF Compute, Sstore, CallUnfunded
  <2>2. CASE CallWithoutCode \/ CallContract
    <3>1. PICK target \in DOMAIN accounts \cup CallTargets, value \in Values :
              /\ can_deduct(accounts, Self, value)
              /\ accounts' = transfer(accounts, Self, target, value)
      <4>1. CASE CallWithoutCode
            BY <4>1 DEF CallWithoutCode
      <4>2. CASE CallContract
            BY <4>2 DEF CallContract
      <4>. QED BY <2>2, <4>1, <4>2
    <3>2. value \in Nat
          BY <1>2, <3>1
    <3>3. \A a : get_account(transfer(accounts, Self, target, value), a).nonce
                   = get_account(accounts, a).nonce
          BY <1>2, <3>1, <3>2, Transfer
    <3>. QED BY <3>1, <3>3
  <2>. QED BY <2>1, <2>2
<1>4. NoncesKept(accounts, accounts')
      BY <1>2, <1>3, SameNonces
<1>. QED BY <1>1, <1>4, StayReplay

(* CREATE only ever moves the creator's nonce forward.                       *)
LEMMA CreateReplay ==
    ASSUME TypeInv, NonceInv, IsWorld(accounts'), CreateUnfunded \/ CreateContract
    PROVE  NonceInv'
<1>1. Running /\ StayInTransaction
      BY DEF CreateUnfunded, CreateContract, CanPay, Enter
<1>2. IsWorld(accounts) /\ Values \subseteq Nat
      BY <1>1, RunningFrame, GasAssumption
<1>3. /\ IsWorld(WithNewContract)
      /\ get_account(WithNewContract, Self).nonce = get_account(accounts, Self).nonce + 1
      /\ \A a : a # Self => get_account(WithNewContract, a).nonce
                               = get_account(accounts, a).nonce
      BY <1>2, NewContractWorld
<1>4. \A a : get_account(accounts', a).nonce = get_account(WithNewContract, a).nonce
  <2>1. CASE CreateUnfunded
        BY <2>1 DEF CreateUnfunded
  <2>2. CASE CreateContract
    <3>1. PICK value \in Values :
              /\ can_deduct(WithNewContract, Self, value)
              /\ accounts' = transfer(WithNewContract, Self, NewContract, value)
          BY <2>2 DEF CreateContract
    <3>. QED BY <1>2, <1>3, <3>1, Transfer
  <2>. QED BY <2>1, <2>2
<1>5. \A a : get_account(accounts, a).nonce \in Nat
      BY <1>2, GetType
<1>6. NoncesKept(accounts, accounts')
      BY <1>3, <1>4, <1>5 DEF NoncesKept
<1>. QED BY <1>1, <1>6, StayReplay

(* A frame returns: what its caller writes are code and storage.             *)
LEMMA ReturnReplay ==
    ASSUME TypeInv, NonceInv, IsWorld(accounts'), Return
    PROVE  NonceInv'
<1>1. PICK code \in Codes \cup {NoCode} :
        /\ Running
        /\ IF Depth = 1
           THEN Succeed(tx, Committed(code), Top.gas,
                        IF Top.kind = "create" THEN Self ELSE NoAddress)
           ELSE accounts' = Committed(code) /\ Resume(Top.limit - Top.gas)
      BY DEF Return
<1>. DEFINE w == Committed(code)
<1>2. IsWorld(w) /\ \A a : get_account(w, a).nonce = get_account(accounts, a).nonce
      BY <1>1, CommittedWorld
<1>. HIDE DEF w
<1>3. /\ TypeOK /\ IsWorld(accounts) /\ tx \in Txs /\ tx # NoTx /\ Top.gas \in Nat
      /\ Settled = snapshot
      BY <1>1, RunningFrame DEF TypeInv, Settled
<1>4. CASE Depth = 1
  <2>. DEFINE address == IF Top.kind = "create" THEN Self ELSE NoAddress
  <2>1. Succeed(tx, w, Top.gas, address)
        BY <1>1, <1>4 DEF w
  <2>. HIDE DEF address
  <2>2. /\ get_account(w, tx.sender).nonce > tx.nonce
        /\ \A u \in Txs : get_account(w, u.sender).nonce
                             >= get_account(Settled, u.sender).nonce
        BY <1>2, <1>3 DEF NonceInv, NonceUsed
  <2>. QED BY <1>2, <1>3, <2>1, <2>2, SucceedReplay
<1>5. CASE Depth # 1
  <2>1. accounts' = w /\ StayInTransaction
        BY <1>1, <1>5 DEF w, Resume
  <2>2. NoncesKept(accounts, accounts')
        BY <1>2, <1>3, <2>1, SameNonces
  <2>. QED BY <1>1, <2>1, <2>2, StayReplay
<1>. QED BY <1>4, <1>5

(* Every step of a transaction.                                              *)
LEMMA StepReplay == TypeInv /\ NonceInv /\ Step => NonceInv'
<1>. SUFFICES ASSUME TypeInv, NonceInv, Step PROVE NonceInv'
     OBVIOUS
<1>0. IsWorld(accounts')
      BY StepType DEF TypeInv, TypeOK
<1>1. CASE Compute \/ Sstore \/ CallUnfunded \/ CallWithoutCode \/ CallContract
      BY <1>0, <1>1, OpcodeReplay
<1>2. CASE CreateUnfunded \/ CreateContract
      BY <1>0, <1>2, CreateReplay
<1>3. CASE Return
      BY <1>0, <1>3, ReturnReplay
<1>4. CASE Revert
      BY <1>4, FailFrameReplay DEF Revert
<1>5. CASE Invalid
      BY <1>5, FailFrameReplay DEF Invalid
<1>6. CASE OutOfGas
      BY <1>6, FailFrameReplay DEF OutOfGas
<1>7. CASE Abort
  <2>1. Running /\ FailTransaction
        BY <1>7 DEF Abort
  <2>. QED BY <2>1, RunningFrame, FailReplay
<1>. QED BY <1>1, <1>2, <1>3, <1>4, <1>5, <1>6, <1>7 DEF Step

(* A signed transaction takes effect at most once: after it was applied, its *)
(* nonce is behind its sender's in the world that stays, whether it          *)
(* succeeded or failed, whatever ran in between, and also in the world a     *)
(* later failure goes back to.                                               *)
THEOREM AppliedOnce == Spec => []NoReplay
<1>1. Init => NonceInv
      BY DEF Init, NonceInv, NoReplay, NonceUsed
<1>2. TypeInv /\ NonceInv /\ [Next]_vars => NonceInv'
  <2>. SUFFICES ASSUME TypeInv, NonceInv, [Next]_vars PROVE NonceInv'
       OBVIOUS
  <2>1. CASE Submit
        BY <2>1, SubmitReplay DEF Submit
  <2>2. CASE Step
        BY <2>2, StepReplay
  <2>3. CASE UNCHANGED vars
        BY <2>3 DEF vars, NonceInv, NoReplay, NonceUsed
  <2>. QED BY <2>1, <2>2, <2>3 DEF Next
<1>3. NonceInv => NoReplay
      BY DEF NonceInv
<1>. QED BY Invariance, <1>1, <1>2, <1>3, PTL DEF Spec

-----------------------------------------------------------------------------
(* One account acts: it may pay, use nonces, get code and storage; of the    *)
(* others nothing but a balance changes, and no balance falls.               *)
Acts(old, new, s) ==
    /\ IsWorld(new)
    /\ \A x : x \in DOMAIN old => x \in DOMAIN new
    /\ NoncesKept(old, new)
    /\ \A b : b # s =>
          /\ get_account(new, b).nonce = get_account(old, b).nonce
          /\ get_account(new, b).code = get_account(old, b).code
          /\ get_account(new, b).storage = get_account(old, b).storage
          /\ get_account(new, b).balance >= get_account(old, b).balance

SameCode(old, new) == \A b : get_account(new, b).code = get_account(old, b).code

SameStorage(old, new) == \A b : get_account(new, b).storage = get_account(old, b).storage

(* Of a sound world, no address ahead of its creator's nonce was used, and   *)
(* the accounts of keys have neither code nor storage.                       *)
Sound(w) == CreationsAhead(w) /\ EoasPlain(w)

(* When nonces grow, fewer addresses are ahead of them.                      *)
LEMMA AheadShrinks ==
    ASSUME NEW old, IsWorld(old), NEW new, IsWorld(new), NoncesKept(old, new),
           NEW a, AheadOfNonce(new, a)
    PROVE  AheadOfNonce(old, a)
<1>1. /\ get_account(old, a[1]).nonce \in Nat /\ get_account(new, a[1]).nonce \in Nat
      /\ get_account(new, a[1]).nonce >= get_account(old, a[1]).nonce
      BY GetType DEF NoncesKept
<1>. QED BY <1>1 DEF AheadOfNonce

(* An address that is ahead has a pristine account, or none, which is the    *)
(* same.                                                                     *)
LEMMA AheadPristine ==
    ASSUME NEW w, CreationsAhead(w), NEW a, AheadOfNonce(w, a)
    PROVE  Pristine(get_account(w, a))
BY DEF CreationsAhead, Pristine, get_account, EMPTY_ACCOUNT

(* A sound world stays sound when an account acts that is not ahead; if it   *)
(* is a key's, it must get neither code nor storage.                         *)
LEMMA SoundKept ==
    ASSUME NEW old, IsWorld(old), NEW new, NEW s, Acts(old, new, s), Sound(old),
           ~AheadOfNonce(old, s),
           s \notin Eoas \/ (SameCode(old, new) /\ SameStorage(old, new))
    PROVE  Sound(new)
<1>1. IsWorld(new) /\ NoncesKept(old, new)
      BY DEF Acts
<1>2. ASSUME NEW a \in DOMAIN new, AheadOfNonce(new, a)
      PROVE  Pristine(new[a])
  <2>1. AheadOfNonce(old, a) /\ a # s
        BY <1>1, <1>2, AheadShrinks
  <2>2. Pristine(get_account(old, a))
        BY <2>1, AheadPristine DEF Sound
  <2>3. Pristine(get_account(new, a))
        BY <2>1, <2>2 DEF Acts, Pristine
  <2>. QED BY <2>3 DEF get_account
<1>3. ASSUME NEW e \in Eoas
      PROVE  /\ get_account(new, e).code = NoCode
             /\ get_account(new, e).storage = EmptyStorage
  <2>1. /\ get_account(old, e).code = NoCode
        /\ get_account(old, e).storage = EmptyStorage
        BY DEF Sound, EoasPlain
  <2>2. CASE e # s
        BY <2>1, <2>2 DEF Acts
  <2>3. CASE e = s
        BY <2>1, <2>3 DEF SameCode, SameStorage
  <2>. QED BY <2>2, <2>3
<1>. QED BY <1>2, <1>3 DEF Sound, CreationsAhead, EoasPlain

(* The empty world, the snapshot between transactions, is sound.             *)
LEMMA EmptySound == Sound(EmptyWorld)
BY DEF Sound, EmptyWorld, CreationsAhead, EoasPlain, get_account, EMPTY_ACCOUNT

(* Two acts of one account are one.                                          *)
LEMMA ActsTwice ==
    ASSUME NEW u, IsWorld(u), NEW v, NEW w, NEW s, Acts(u, v, s), Acts(v, w, s)
    PROVE  Acts(u, w, s)
<1>1. IsWorld(v) /\ IsWorld(w) /\ NoncesKept(u, v) /\ NoncesKept(v, w)
      BY DEF Acts
<1>2. NoncesKept(u, w)
      BY <1>1, KeptTransitive
<1>3. \A b : /\ get_account(u, b).balance \in Nat /\ get_account(v, b).balance \in Nat
             /\ get_account(w, b).balance \in Nat
      BY <1>1, GetType
<1>. QED BY <1>1, <1>2, <1>3 DEF Acts

(* A world that stays, with nobody acting.                                   *)
LEMMA ActsNot ==
    ASSUME NEW w, IsWorld(w), NEW s
    PROVE  Acts(w, w, s) /\ SameCode(w, w) /\ SameStorage(w, w)
<1>1. \A b : get_account(w, b).nonce \in Nat /\ get_account(w, b).balance \in Nat
      BY GetType
<1>. QED BY <1>1 DEF Acts, NoncesKept, SameCode, SameStorage

(* A transfer is an act of the sender of the money.                          *)
LEMMA TransferActs ==
    ASSUME NEW w, IsWorld(w), NEW s, NEW r, NEW amount \in Nat, can_deduct(w, s, amount)
    PROVE  /\ Acts(w, transfer(w, s, r, amount), s)
           /\ SameCode(w, transfer(w, s, r, amount))
           /\ SameStorage(w, transfer(w, s, r, amount))
<1>. DEFINE v == transfer(w, s, r, amount)
<1>1. /\ IsWorld(v)
      /\ \A x : x \in DOMAIN w => x \in DOMAIN v
      /\ \A b : b # s => get_account(v, b).balance >= get_account(w, b).balance
      /\ \A b : get_account(v, b).nonce = get_account(w, b).nonce
      /\ \A b : get_account(v, b).code = get_account(w, b).code
      /\ \A b : get_account(v, b).storage = get_account(w, b).storage
      BY Transfer
<1>. HIDE DEF v
<1>2. NoncesKept(w, v)
      BY <1>1, SameNonces
<1>3. Acts(w, v, s) /\ SameCode(w, v) /\ SameStorage(w, v)
      BY <1>1, <1>2 DEF Acts, SameCode, SameStorage
<1>. QED BY <1>3 DEF v

(* Charging a transaction is an act of its sender, and so is the creation of *)
(* the account and the transfer that follow.                                 *)
LEMMA ChargeActs ==
    ASSUME NEW w, IsWorld(w), NEW t \in Txs, validate_transaction(w, t) = "valid"
    PROVE  /\ Acts(w, Charge(w, t), t.sender)
           /\ SameCode(w, Charge(w, t)) /\ SameStorage(w, Charge(w, t))
<1>. DEFINE c == Charge(w, t)
<1>1. /\ IsWorld(c)
      /\ \A x : x \in DOMAIN c <=> x \in DOMAIN w \/ x = t.sender
      /\ \A b : b # t.sender => get_account(c, b).nonce = get_account(w, b).nonce
      /\ \A b : b # t.sender => get_account(c, b).balance = get_account(w, b).balance
      /\ \A b : get_account(c, b).code = get_account(w, b).code
      /\ \A b : get_account(c, b).storage = get_account(w, b).storage
      BY ChargeWorld
<1>2. NoncesKept(w, c)
      BY ChargePasses
<1>3. \A b : get_account(w, b).balance \in Nat
      BY GetType
<1>. HIDE DEF c
<1>4. Acts(w, c, t.sender) /\ SameCode(w, c) /\ SameStorage(w, c)
      BY <1>1, <1>2, <1>3 DEF Acts, SameCode, SameStorage
<1>. QED BY <1>4 DEF c

(* The account that is created, and what it is paid.                         *)
LEMMA CreateActs ==
    ASSUME NEW w, IsWorld(w), NEW s, NEW a, NEW value \in Nat, can_deduct(w, s, value)
    PROVE  LET c == transfer(add_balance(w, a, 0), s, a, value) IN
           Acts(w, c, s) /\ SameCode(w, c) /\ SameStorage(w, c)
<1>. DEFINE c == transfer(add_balance(w, a, 0), s, a, value)
<1>1. /\ IsWorld(c)
      /\ \A x : x \in DOMAIN w => x \in DOMAIN c
      /\ \A b : get_account(c, b).nonce = get_account(w, b).nonce
      /\ \A b : get_account(c, b).code = get_account(w, b).code
      /\ \A b : get_account(c, b).storage = get_account(w, b).storage
      /\ \A b : b # s => get_account(c, b).balance >= get_account(w, b).balance
      BY CreateWorld
<1>. HIDE DEF c
<1>2. NoncesKept(w, c)
      BY <1>1, SameNonces
<1>3. Acts(w, c, s) /\ SameCode(w, c) /\ SameStorage(w, c)
      BY <1>1, <1>2 DEF Acts, SameCode, SameStorage
<1>. QED BY <1>3 DEF c

-----------------------------------------------------------------------------
(* Inside a transaction it is the running frame's account that acts.         *)

(* An opcode that creates nothing.                                           *)
LEMMA OpcodeActs ==
    ASSUME TypeInv, Compute \/ Sstore \/ CallUnfunded \/ CallWithoutCode \/ CallContract
    PROVE  /\ Running /\ StayInTransaction
           /\ Acts(accounts, accounts', Self)
           /\ SameCode(accounts, accounts') /\ SameStorage(accounts, accounts')
<1>1. Running /\ StayInTransaction
      BY DEF Compute, Sstore, CallUnfunded, CallWithoutCode, CallContract, CanPay, Enter
<1>2. IsWorld(accounts) /\ Values \subseteq Nat
      BY <1>1, RunningFrame, GasAssumption
<1>3. CASE Compute \/ Sstore \/ CallUnfunded
  <2>1. accounts' = accounts
        BY <1>3 DEF Compute, Sstore, CallUnfunded
  <2>. QED BY <1>1, <1>2, <2>1, ActsNot
<1>4. CASE CallWithoutCode \/ CallContract
  <2>1. PICK target \in DOMAIN accounts \cup CallTargets, value \in Values :
            /\ can_deduct(accounts, Self, value)
            /\ accounts' = transfer(accounts, Self, target, value)
    <3>1. CASE CallWithoutCode
          BY <3>1 DEF CallWithoutCode
    <3>2. CASE CallContract
          BY <3>2 DEF CallContract
    <3>. QED BY <1>4, <3>1, <3>2
  <2>2. value \in Nat
        BY <1>2, <2>1
  <2>. QED BY <1>1, <1>2, <2>1, <2>2, TransferActs
<1>. QED BY <1>3, <1>4

(* CREATE uses up a nonce, too.                                              *)
LEMMA NumberingActs ==
    ASSUME TypeInv, CreateUnfunded \/ CreateContract
    PROVE  /\ Running /\ StayInTransaction
           /\ Acts(accounts, accounts', Self)
           /\ SameCode(accounts, accounts') /\ SameStorage(accounts, accounts')
           /\ get_account(accounts', Self).nonce = get_account(accounts, Self).nonce + 1
<1>1. Running /\ StayInTransaction
      BY DEF CreateUnfunded, CreateContract, CanPay, Enter
<1>2. IsWorld(accounts) /\ Values \subseteq Nat
      BY <1>1, RunningFrame, GasAssumption
<1>. DEFINE w == WithNewContract
<1>3. /\ IsWorld(w)
      /\ \A x : x \in DOMAIN w <=> x \in DOMAIN accounts \/ x = Self \/ x = NewContract
      /\ get_account(w, Self).nonce = get_account(accounts, Self).nonce + 1
      /\ \A b : b # Self => get_account(w, b).nonce = get_account(accounts, b).nonce
      /\ \A b : get_account(w, b).balance = get_account(accounts, b).balance
      /\ \A b : get_account(w, b).code = get_account(accounts, b).code
      /\ \A b : get_account(w, b).storage = get_account(accounts, b).storage
      BY <1>2, NewContractWorld
<1>4. \A b : get_account(accounts, b).nonce \in Nat /\ get_account(accounts, b).balance \in Nat
      BY <1>2, GetType
<1>5. Acts(accounts, w, Self) /\ SameCode(accounts, w) /\ SameStorage(accounts, w)
  <2>. HIDE DEF w
  <2>. QED BY <1>3, <1>4 DEF Acts, NoncesKept, SameCode, SameStorage
<1>6. CASE CreateUnfunded
  <2>1. accounts' = w
        BY <1>6 DEF CreateUnfunded
  <2>. HIDE DEF w
  <2>. QED BY <1>1, <1>3, <1>5, <2>1
<1>7. CASE CreateContract
  <2>1. PICK value \in Values :
            /\ can_deduct(w, Self, value)
            /\ accounts' = transfer(w, Self, NewContract, value)
        BY <1>7 DEF CreateContract
  <2>. HIDE DEF w
  <2>2. value \in Nat
        BY <1>2, <2>1
  <2>3. Acts(w, accounts', Self) /\ SameCode(w, accounts') /\ SameStorage(w, accounts')
        BY <1>3, <2>1, <2>2, TransferActs
  <2>4. \A b : get_account(accounts', b).nonce = get_account(w, b).nonce
        BY <1>3, <2>1, <2>2, Transfer
  <2>5. Acts(accounts, accounts', Self)
        BY <1>2, <1>5, <2>3, ActsTwice
  <2>. QED BY <1>1, <1>3, <1>5, <2>3, <2>4, <2>5 DEF SameCode, SameStorage
<1>. QED BY <1>6, <1>7

(* What is written for a frame that returned is its own code and storage.    *)
LEMMA CommittedActs ==
    ASSUME TypeInv, Running, NEW code \in Codes \cup {NoCode}
    PROVE  /\ Acts(accounts, Committed(code), Self)
           /\ Top.kind = "call" => SameCode(accounts, Committed(code))
           /\ \A b : get_account(Committed(code), b).nonce = get_account(accounts, b).nonce
           /\ \A b : get_account(Committed(code), b).balance = get_account(accounts, b).balance
<1>. DEFINE c == Committed(code)
<1>1. /\ IsWorld(c)
      /\ \A x : x \in DOMAIN c <=> x \in DOMAIN accounts
      /\ \A b : get_account(c, b).nonce = get_account(accounts, b).nonce
      /\ \A b : b # Self => get_account(c, b).code = get_account(accounts, b).code
      /\ Top.kind = "call" => get_account(c, Self).code = get_account(accounts, Self).code
      /\ \A b : b # Self => get_account(c, b).storage = get_account(accounts, b).storage
      /\ \A b : get_account(c, b).balance = get_account(accounts, b).balance
      BY CommittedWorld
<1>2. IsWorld(accounts)
      BY RunningFrame
<1>3. \A b : get_account(accounts, b).balance \in Nat
      BY <1>2, GetType
<1>. HIDE DEF c
<1>4. NoncesKept(accounts, c)
      BY <1>1, <1>2, SameNonces
<1>5. Acts(accounts, c, Self) /\ (Top.kind = "call" => SameCode(accounts, c))
      BY <1>1, <1>3, <1>4 DEF Acts, SameCode
<1>. QED BY <1>1, <1>5 DEF c

-----------------------------------------------------------------------------
(* A frame runs at a contract whose address its creator's nonce has passed.  *)
(* If the frame constructs it, that happened in this transaction, and its    *)
(* code is still to come.                                                    *)
Placed(w, old, f) ==
    /\ f.address \notin Eoas
    /\ ~AheadOfNonce(w, f.address)
    /\ f.kind = "create" => /\ get_account(w, f.address).code = NoCode
                            /\ AheadOfNonce(old, f.address)

(* ... and nobody else runs there.                                           *)
StackPlaced(w, old, s) ==
    \A i \in 1..Len(s) :
        /\ Placed(w, old, s[i])
        /\ \A j \in 1..Len(s) :
               (i # j /\ s[j].kind = "create") => s[i].address # s[j].address

CreationInv ==
    /\ Sound(accounts) /\ Sound(snapshot)
    /\ tx # NoTx => NoncesKept(snapshot, accounts)
    /\ StackPlaced(accounts, snapshot, frames)

(* The stack t has the frames of s, or the lower ones of them.               *)
PartOf(t, s) ==
    /\ Len(t) \in Nat /\ Len(s) \in Nat /\ Len(t) <= Len(s)
    /\ \A i \in 1..Len(t) : t[i].kind = s[i].kind /\ t[i].address = s[i].address

(* Frames stay where they are when nonces grow, unless code comes.           *)
LEMMA PlacedKept ==
    ASSUME NEW w, IsWorld(w), NEW v, IsWorld(v), NoncesKept(w, v), NEW old,
           NEW s, StackPlaced(w, old, s), NEW t, PartOf(t, s),
           \A i \in 1..Len(t) :
               s[i].kind = "create" => get_account(v, s[i].address).code = NoCode
    PROVE  StackPlaced(v, old, t)
<1>1. \A a : ~AheadOfNonce(w, a) => ~AheadOfNonce(v, a)
      BY AheadShrinks
<1>. SUFFICES ASSUME NEW i \in 1..Len(t)
              PROVE  /\ Placed(v, old, t[i])
                     /\ \A j \in 1..Len(t) :
                            (i # j /\ t[j].kind = "create") => t[i].address # t[j].address
     BY DEF StackPlaced
<1>2. i \in 1..Len(s) /\ t[i].kind = s[i].kind /\ t[i].address = s[i].address
      BY DEF PartOf
<1>3. Placed(w, old, s[i])
      BY <1>2 DEF StackPlaced
<1>4. Placed(v, old, t[i])
      BY <1>1, <1>2, <1>3 DEF Placed
<1>5. ASSUME NEW j \in 1..Len(t), i # j, t[j].kind = "create"
      PROVE  t[i].address # t[j].address
  <2>1. j \in 1..Len(s) /\ t[j].kind = s[j].kind /\ t[j].address = s[j].address
        BY DEF PartOf
  <2>2. s[i].address # s[j].address
        BY <1>2, <1>5, <2>1 DEF StackPlaced
  <2>. QED BY <1>2, <2>1, <2>2
<1>. QED BY <1>4, <1>5

(* A frame is put on top.                                                    *)
LEMMA PlacedOnTop ==
    ASSUME NEW v, NEW old, NEW s, Len(s) \in Nat, StackPlaced(v, old, s),
           NEW f, Placed(v, old, f),
           \A i \in 1..Len(s) :
               (f.kind = "create" \/ s[i].kind = "create") => s[i].address # f.address,
           NEW t, Len(t) = Len(s) + 1, t[Len(s) + 1] = f,
           \A i \in 1..Len(s) : t[i] = s[i]
    PROVE  StackPlaced(v, old, t)
<1>. DEFINE n == Len(s)
<1>1. \A i \in 1..Len(t) : i \in 1..n \/ i = n + 1
      OBVIOUS
<1>2. \A i \in 1..Len(t) : Placed(v, old, t[i])
      BY <1>1 DEF StackPlaced
<1>3. ASSUME NEW i \in 1..Len(t), NEW j \in 1..Len(t), i # j, t[j].kind = "create"
      PROVE  t[i].address # t[j].address
  <2>1. CASE i \in 1..n /\ j \in 1..n
        BY <1>3, <2>1 DEF StackPlaced
  <2>2. CASE i = n + 1 /\ j \in 1..n
        BY <1>3, <2>2
  <2>3. CASE i \in 1..n /\ j = n + 1
        BY <1>3, <2>3
  <2>. QED BY <1>1, <1>3, <2>1, <2>2, <2>3
<1>. QED BY <1>2, <1>3 DEF StackPlaced

(* What CreationInv says of the running frame.                               *)
LEMMA TopPlaced ==
    ASSUME TypeInv, CreationInv, Running
    PROVE  /\ Placed(accounts, snapshot, Top)
           /\ Self \notin Eoas /\ ~AheadOfNonce(accounts, Self)
           /\ \A i \in 1..Len(frames) :
                  (i # Len(frames) /\ frames[i].kind = "create") => frames[i].address # Self
           /\ \A i \in 1..Len(frames) :
                  (i # Len(frames) /\ Top.kind = "create") => frames[i].address # Self
           /\ \A i \in 1..Len(frames) :
                  frames[i].kind = "create" => get_account(accounts, frames[i].address).code = NoCode
<1>1. Top = frames[Len(frames)] /\ Len(frames) \in 1..Len(frames)
      BY RunningFrame DEF Depth
<1>. QED BY <1>1 DEF CreationInv, StackPlaced, Placed, Self

(* A step inside a transaction that leaves the frames as they are or drops   *)
(* the top one.                                                              *)
LEMMA StayPlaced ==
    ASSUME TypeInv, CreationInv, Running, StayInTransaction,
           Acts(accounts, accounts', Self), PartOf(frames', frames),
           \A i \in 1..Len(frames') :
               frames[i].kind = "create"
                   => get_account(accounts', frames[i].address).code = NoCode
    PROVE  CreationInv'
<1>1. tx' = tx /\ snapshot' = snapshot
      BY DEF StayInTransaction
<1>2. IsWorld(accounts) /\ IsWorld(snapshot) /\ tx # NoTx
      BY RunningFrame DEF TypeInv, TypeOK
<1>3. IsWorld(accounts') /\ NoncesKept(accounts, accounts')
      BY DEF Acts
<1>4. NoncesKept(snapshot, accounts')
      BY <1>2, <1>3, KeptTransitive DEF CreationInv
<1>5. Sound(accounts')
      BY <1>2, TopPlaced, SoundKept DEF CreationInv
<1>6. StackPlaced(accounts', snapshot, frames')
      BY <1>2, <1>3, PlacedKept DEF CreationInv
<1>. QED BY <1>1, <1>4, <1>5, <1>6 DEF CreationInv

(* A step that puts a frame on top.                                          *)
LEMMA EnterPlaced ==
    ASSUME TypeInv, CreationInv, Running,
           Acts(accounts, accounts', Self), SameCode(accounts, accounts'),
           NEW cost \in Nat, CanPay(cost), NEW f, Enter(f, cost),
           Placed(accounts', snapshot, f),
           \A i \in 1..Len(frames) :
               (f.kind = "create" \/ frames[i].kind = "create") => frames[i].address # f.address
    PROVE  CreationInv'
<1>. DEFINE paid == consume_gas(frames, cost)
<1>1. /\ tx' = tx /\ snapshot' = snapshot
      /\ frames' = Append(paid, f)
      BY DEF Enter, StayInTransaction, Spend
<1>2. IsWorld(accounts) /\ IsWorld(snapshot) /\ tx # NoTx
      BY RunningFrame DEF TypeInv, TypeOK
<1>3. IsWorld(accounts') /\ NoncesKept(accounts, accounts')
      BY DEF Acts
<1>4. NoncesKept(snapshot, accounts')
      BY <1>2, <1>3, KeptTransitive DEF CreationInv
<1>5. Sound(accounts')
      BY <1>2, TopPlaced, SoundKept DEF CreationInv
<1>6. /\ paid \in Seq(FrameAt(accounts)) /\ Len(paid) = Len(frames) /\ Len(frames) \in Nat
      /\ \A i \in 1..Len(frames) : /\ paid[i].kind = frames[i].kind
                                   /\ paid[i].address = frames[i].address
  <2>1. /\ frames \in Seq(FrameAt(accounts)) /\ frames # <<>> /\ StackCovered(frames)
        /\ frames[Len(frames)].gas >= cost /\ Len(frames) \in Nat
        BY RunningFrame DEF CanPay, Depth
  <2>. QED BY <2>1, SpendStack
<1>. HIDE DEF paid
<1>7. PartOf(paid, frames)
      BY <1>6 DEF PartOf
<1>8. \A i \in 1..Len(paid) :
          frames[i].kind = "create" => get_account(accounts', frames[i].address).code = NoCode
      BY <1>6, TopPlaced DEF SameCode
<1>9. StackPlaced(accounts', snapshot, paid)
      BY <1>2, <1>3, <1>7, <1>8, PlacedKept DEF CreationInv
<1>10. /\ Len(frames') = Len(paid) + 1 /\ frames'[Len(paid) + 1] = f
       /\ \A i \in 1..Len(paid) : frames'[i] = paid[i]
       BY <1>1, <1>6
<1>11. StackPlaced(accounts', snapshot, frames')
       BY <1>6, <1>9, <1>10, PlacedOnTop
<1>. QED BY <1>1, <1>4, <1>5, <1>11 DEF CreationInv

(* A transaction that begins.                                                *)
LEMMA BeginPlaced ==
    ASSUME TypeInv, CreationInv, NEW t \in Txs, NEW w, NEW f, Begin(t, w, f),
           Acts(accounts, w, t.sender), SameCode(accounts, w), SameStorage(accounts, w),
           t.sender \in Eoas, Placed(w, accounts, f)
    PROVE  CreationInv'
<1>1. accounts' = w /\ snapshot' = accounts /\ frames' = <<f>>
      BY DEF Begin
<1>2. IsWorld(accounts) /\ ~AheadOfNonce(accounts, t.sender)
      BY DEF TypeInv, TypeOK, AheadOfNonce
<1>3. Sound(w) /\ NoncesKept(accounts, w)
      BY <1>2, SoundKept DEF CreationInv, Acts
<1>4. StackPlaced(w, accounts, <<f>>)
      BY DEF StackPlaced
<1>. QED BY <1>1, <1>3, <1>4 DEF CreationInv

(* A transaction that ends.                                                  *)
LEMMA EndPlaced ==
    ASSUME Sound(accounts'), NEW t, NEW fee, Finish(t, fee)
    PROVE  CreationInv'
<1>1. tx' = NoTx /\ snapshot' = EmptyWorld /\ frames' = <<>>
      BY DEF Finish
<1>2. StackPlaced(accounts', snapshot', frames')
      BY <1>1 DEF StackPlaced
<1>. QED BY <1>1, <1>2, EmptySound DEF CreationInv

-----------------------------------------------------------------------------
(* The steps *)

(* An opcode that enters no frame leaves the stack's frames in their places. *)
LEMMA SpendPart ==
    ASSUME TypeInv, NEW cost \in Nat, CanPay(cost), frames' = Spend(cost)
    PROVE  PartOf(frames', frames)
<1>1. /\ frames \in Seq(FrameAt(accounts)) /\ frames # <<>> /\ StackCovered(frames)
      /\ frames[Len(frames)].gas >= cost /\ Len(frames) \in Nat
      BY RunningFrame DEF CanPay, Depth
<1>. DEFINE paid == consume_gas(frames, cost)
<1>2. /\ Len(paid) = Len(frames)
      /\ \A i \in 1..Len(frames) : /\ paid[i].kind = frames[i].kind
                                   /\ paid[i].address = frames[i].address
      BY <1>1, SpendStack
<1>3. frames' = paid
      BY DEF Spend
<1>. HIDE DEF paid
<1>. QED BY <1>1, <1>2, <1>3 DEF PartOf

(* SSTORE changes the storage of the top frame as well.                      *)
LEMMA StorePart ==
    ASSUME TypeInv, Sstore
    PROVE  PartOf(frames', frames)
<1>1. PICK k \in Slots, v \in Words : /\ CanPay(SstoreGas)
                                      /\ frames' = store_slot(Spend(SstoreGas), k, v)
      BY DEF Sstore
<1>. DEFINE paid == consume_gas(frames, SstoreGas)
<1>2. /\ frames \in Seq(FrameAt(accounts)) /\ frames # <<>> /\ StackCovered(frames)
      /\ frames[Len(frames)].gas >= SstoreGas
      /\ Len(frames) \in Nat /\ Len(frames) >= 1 /\ SstoreGas \in Nat
      BY <1>1, RunningFrame, GasAssumption DEF CanPay, Depth
<1>3. /\ paid \in Seq(FrameAt(accounts)) /\ Len(paid) = Len(frames) /\ StackCovered(paid)
      /\ \A i \in 1..Len(frames) : /\ paid[i].kind = frames[i].kind
                                   /\ paid[i].address = frames[i].address
      BY <1>2, SpendStack
<1>4. frames' = store_slot(paid, k, v)
      BY <1>1 DEF Spend
<1>. HIDE DEF paid
<1>5. paid # <<>>
      BY <1>2, <1>3, EmptySeq
<1>6. /\ Len(frames') = Len(paid)
      /\ \A i \in 1..Len(paid) : /\ frames'[i].kind = paid[i].kind
                                 /\ frames'[i].address = paid[i].address
      BY <1>3, <1>4, <1>5, StoreStack
<1>. QED BY <1>2, <1>3, <1>6 DEF PartOf

(* A frame that answers leaves the ones below it.                            *)
LEMMA ResumePart ==
    ASSUME TypeInv, Running, Depth # 1, NEW gas_used \in Nat, gas_used <= Top.limit,
           Resume(gas_used)
    PROVE  /\ PartOf(frames', frames) /\ Len(frames') = Len(frames) - 1
           /\ StayInTransaction
<1>0. /\ frames \in Seq(FrameAt(accounts)) /\ StackCovered(frames)
      /\ Depth \in Nat /\ Depth >= 1 /\ Top = frames[Len(frames)]
      BY RunningFrame
<1>1. /\ frames \in Seq(FrameAt(accounts)) /\ StackCovered(frames)
      /\ Len(frames) \in Nat /\ Len(frames) > 1
      /\ gas_used <= frames[Len(frames)].limit
      BY <1>0 DEF Depth
<1>. DEFINE popped == consume_gas(SubSeq(frames, 1, Len(frames) - 1), gas_used)
<1>2. /\ Len(popped) = Len(frames) - 1
      /\ \A i \in 1..(Len(frames) - 1) : /\ popped[i].kind = frames[i].kind
                                         /\ popped[i].address = frames[i].address
      BY <1>1, PopStack
<1>3. frames' = popped /\ StayInTransaction
      BY DEF Resume, Depth
<1>. HIDE DEF popped
<1>. QED BY <1>1, <1>2, <1>3 DEF PartOf

(* An opcode that neither enters nor ends a frame.                           *)
LEMMA QuietPlaced ==
    ASSUME TypeInv, CreationInv,
           Compute \/ Sstore \/ CallUnfunded \/ CallWithoutCode \/ CreateUnfunded
    PROVE  CreationInv'
<1>1. /\ Running /\ StayInTransaction
      /\ Acts(accounts, accounts', Self) /\ SameCode(accounts, accounts')
      BY OpcodeActs, NumberingActs
<1>2. PartOf(frames', frames)
  <2>0. ComputeCosts \subseteq Nat /\ CallGas \in Nat /\ CreateGas \in Nat
        BY GasAssumption
  <2>1. CASE Compute
    <3>1. PICK cost \in ComputeCosts : CanPay(cost) /\ frames' = Spend(cost)
          BY <2>1 DEF Compute
    <3>. QED BY <2>0, <3>1, SpendPart
  <2>2. CASE Sstore
        BY <2>2, StorePart
  <2>3. CASE CallUnfunded \/ CallWithoutCode
    <3>1. CanPay(CallGas) /\ frames' = Spend(CallGas)
          BY <2>3 DEF CallUnfunded, CallWithoutCode
    <3>. QED BY <2>0, <3>1, SpendPart
  <2>4. CASE CreateUnfunded
    <3>1. CanPay(CreateGas) /\ frames' = Spend(CreateGas)
          BY <2>4 DEF CreateUnfunded
    <3>. QED BY <2>0, <3>1, SpendPart
  <2>. QED BY <2>1, <2>2, <2>3, <2>4
<1>3. \A i \in 1..Len(frames') :
          frames[i].kind = "create" => get_account(accounts', frames[i].address).code = NoCode
      BY <1>1, <1>2, TopPlaced DEF PartOf, SameCode
<1>. QED BY <1>1, <1>2, <1>3, StayPlaced

(* CALL enters a contract that has its code: it was created, and is not      *)
(* under construction.                                                       *)
LEMMA CallPlaced ==
    ASSUME TypeInv, CreationInv, CallContract
    PROVE  CreationInv'
<1>1. /\ Running /\ Acts(accounts, accounts', Self) /\ SameCode(accounts, accounts')
      /\ IsWorld(accounts) /\ CallGas \in Nat
      BY OpcodeActs, RunningFrame, GasAssumption
<1>2. PICK target \in DOMAIN accounts, value \in Values, gas \in GasRequests :
          /\ CanPay(CallGas)
          /\ accounts[target].code # NoCode
          /\ Enter(Frame("call", target, accounts[target].storage,
                         Lesser(gas, Top.gas - CallGas)), CallGas)
      BY DEF CallContract
<1>. DEFINE f == Frame("call", target, accounts[target].storage, Lesser(gas, Top.gas - CallGas))
<1>3. f.kind = "call" /\ f.address = target
      BY DEF Frame
<1>4. CanPay(CallGas) /\ Enter(f, CallGas)
      BY <1>2
<1>5. get_account(accounts, target).code # NoCode
      BY <1>2 DEF get_account
<1>. HIDE DEF f
<1>6. target \notin Eoas
      BY <1>5 DEF CreationInv, Sound, EoasPlain
<1>7. ~AheadOfNonce(accounts, target)
      BY <1>5, AheadPristine DEF CreationInv, Sound, Pristine
<1>8. ~AheadOfNonce(accounts', target)
      BY <1>1, <1>7, AheadShrinks DEF Acts
<1>9. Placed(accounts', snapshot, f)
      BY <1>3, <1>6, <1>8 DEF Placed
<1>10. \A i \in 1..Len(frames) :
           (f.kind = "create" \/ frames[i].kind = "create") => frames[i].address # f.address
       BY <1>1, <1>3, <1>5, TopPlaced
<1>. QED BY <1>1, <1>4, <1>9, <1>10, EnterPlaced

(* The address of the next creation is ahead of its creator's nonce.         *)
LEMMA NextAhead ==
    ASSUME NEW w, IsWorld(w), NEW s, NEW n \in Nat, get_account(w, s).nonce = n
    PROVE  /\ AheadOfNonce(w, compute_contract_address(s, n))
           /\ \A v : get_account(v, s).nonce = n + 1
                       => ~AheadOfNonce(v, compute_contract_address(s, n))
<1>. DEFINE a == compute_contract_address(s, n)
<1>1. a[1] = s /\ a[2] = n /\ Len(a) = 2
      BY DEF compute_contract_address
<1>2. \A e \in Eoas : Len(e) = 1
      BY DEF Eoas, KeyAddress
<1>3. a \notin Eoas
      BY <1>1, <1>2
<1>. HIDE DEF a
<1>4. AheadOfNonce(w, a) /\ \A v : get_account(v, s).nonce = n + 1 => ~AheadOfNonce(v, a)
      BY <1>1, <1>3 DEF AheadOfNonce
<1>. QED BY <1>4 DEF a

(* CREATE enters the contract it has just numbered.                          *)
LEMMA CreatePlaced ==
    ASSUME TypeInv, CreationInv, CreateContract
    PROVE  CreationInv'
<1>1. /\ Running /\ Acts(accounts, accounts', Self) /\ SameCode(accounts, accounts')
      /\ get_account(accounts', Self).nonce = get_account(accounts, Self).nonce + 1
      BY NumberingActs
<1>2. IsWorld(accounts) /\ IsWorld(snapshot) /\ tx # NoTx /\ CreateGas \in Nat
      BY <1>1, RunningFrame, GasAssumption DEF TypeInv, TypeOK
<1>. DEFINE f == Frame("create", NewContract, EmptyStorage, Top.gas - CreateGas)
<1>3. CanPay(CreateGas) /\ Enter(f, CreateGas)
      BY DEF CreateContract
<1>4. f.kind = "create" /\ f.address = NewContract
      BY DEF Frame
<1>. HIDE DEF f
<1>5. AheadOfNonce(accounts, NewContract) /\ ~AheadOfNonce(accounts', NewContract)
  <2>1. get_account(accounts, Self).nonce \in Nat
        BY <1>2, GetType
  <2>. QED BY <1>1, <1>2, <2>1, NextAhead DEF NewContract
<1>6. AheadOfNonce(snapshot, NewContract)
      BY <1>2, <1>5, AheadShrinks DEF CreationInv
<1>7. get_account(accounts', NewContract).code = NoCode
      BY <1>1, <1>5, AheadPristine DEF CreationInv, Sound, Pristine, SameCode
<1>8. Placed(accounts', snapshot, f)
      BY <1>4, <1>5, <1>6, <1>7 DEF Placed, AheadOfNonce
<1>9. \A i \in 1..Len(frames) : frames[i].address # NewContract
      BY <1>5 DEF CreationInv, StackPlaced, Placed
<1>. QED BY <1>1, <1>2, <1>3, <1>4, <1>8, <1>9, EnterPlaced

(* A refund is an act of whoever gets it, and a transaction that ended well  *)
(* leaves a sound world if it ran to one.                                    *)
LEMMA SucceedPlaced ==
    ASSUME NEW t \in Txs, t.sender \in Eoas, NEW w, IsWorld(w), Sound(w),
           NEW gas_remaining \in Nat, NEW address, Succeed(t, w, gas_remaining, address)
    PROVE  CreationInv'
<1>. DEFINE gas_refund == gas_remaining * t.gas_price
            refunded == add_balance(w, t.sender, gas_refund)
            fee == (t.gas - gas_remaining) * t.gas_price
<1>1. (accounts' = w \/ accounts' = refunded) /\ Finish(t, fee)
      BY DEF Succeed
<1>2. gas_refund \in Nat
  <2>1. \A m, n \in Nat : m * n \in Nat
        OBVIOUS
  <2>. QED BY <2>1, TxType
<1>. HIDE DEF gas_refund, fee
<1>3. /\ IsWorld(refunded)
      /\ \A x : x \in DOMAIN refunded <=> x \in DOMAIN w \/ x = t.sender
      /\ \A b : b # t.sender => get_account(refunded, b).balance = get_account(w, b).balance
      /\ \A b : get_account(refunded, b).nonce = get_account(w, b).nonce
      /\ \A b : get_account(refunded, b).code = get_account(w, b).code
      /\ \A b : get_account(refunded, b).storage = get_account(w, b).storage
      BY <1>2, AddBalance
<1>. HIDE DEF refunded
<1>4. NoncesKept(w, refunded)
      BY <1>3, SameNonces
<1>5. \A b : get_account(w, b).balance \in Nat
      BY GetType
<1>6. Acts(w, refunded, t.sender) /\ SameCode(w, refunded) /\ SameStorage(w, refunded)
      BY <1>3, <1>4, <1>5 DEF Acts, SameCode, SameStorage
<1>7. ~AheadOfNonce(w, t.sender)
      BY DEF AheadOfNonce
<1>8. Sound(accounts')
      BY <1>1, <1>6, <1>7, SoundKept
<1>. QED BY <1>1, <1>8, EndPlaced

(* A failure leaves the snapshot, charged.                                   *)
LEMMA FailPlaced ==
    ASSUME TypeInv, CreationInv, tx # NoTx, FailTransaction
    PROVE  CreationInv'
<1>1. /\ tx \in Txs /\ IsWorld(snapshot)
      /\ validate_transaction(snapshot, tx) = "valid"
      BY DEF TypeInv, TypeOK, BegunValid
<1>2. accounts' = Charge(snapshot, tx) /\ Finish(tx, upfront_gas_cost(tx))
      BY DEF FailTransaction
<1>3. tx.sender \in Eoas
      BY <1>1, ValidTx
<1>4. /\ Acts(snapshot, accounts', tx.sender)
      /\ SameCode(snapshot, accounts') /\ SameStorage(snapshot, accounts')
      BY <1>1, <1>2, ChargeActs
<1>5. ~AheadOfNonce(snapshot, tx.sender)
      BY <1>3 DEF AheadOfNonce
<1>6. Sound(accounts')
      BY <1>1, <1>4, <1>5, SoundKept DEF CreationInv
<1>. QED BY <1>2, <1>6, EndPlaced

(* A frame fails.                                                            *)
LEMMA FailFramePlaced ==
    ASSUME TypeInv, CreationInv, Running, NEW gas_used \in Nat, gas_used <= Top.limit,
           FailFrame(gas_used)
    PROVE  CreationInv'
<1>1. CASE Depth = 1
      BY <1>1, RunningFrame, FailPlaced DEF FailFrame
<1>2. CASE Depth # 1
  <2>1. accounts' = accounts /\ Resume(gas_used) /\ IsWorld(accounts)
        BY <1>2, RunningFrame DEF FailFrame
  <2>2. PartOf(frames', frames) /\ StayInTransaction
        BY <1>2, <2>1, ResumePart
  <2>3. Acts(accounts, accounts', Self)
        BY <2>1, ActsNot
  <2>4. \A i \in 1..Len(frames') :
            frames[i].kind = "create" => get_account(accounts', frames[i].address).code = NoCode
        BY <2>1, <2>2, TopPlaced DEF PartOf
  <2>. QED BY <2>2, <2>3, <2>4, StayPlaced
<1>. QED BY <1>1, <1>2

(* A frame returns; the contract it constructed gets its code.               *)
LEMMA ReturnPlaced ==
    ASSUME TypeInv, CreationInv, Return
    PROVE  CreationInv'
<1>1. PICK code \in Codes \cup {NoCode} :
        /\ Running
        /\ IF Depth = 1
           THEN Succeed(tx, Committed(code), Top.gas,
                        IF Top.kind = "create" THEN Self ELSE NoAddress)
           ELSE accounts' = Committed(code) /\ Resume(Top.limit - Top.gas)
      BY DEF Return
<1>. DEFINE w == Committed(code)
<1>2. Acts(accounts, w, Self) /\ IsWorld(w)
      BY <1>1, CommittedActs DEF Acts
<1>. HIDE DEF w
<1>3. IsWorld(accounts) /\ tx \in Txs /\ tx # NoTx /\ Top.gas \in Nat
      BY <1>1, RunningFrame
<1>4. CASE Depth = 1
  <2>. DEFINE address == IF Top.kind = "create" THEN Self ELSE NoAddress
  <2>1. Succeed(tx, w, Top.gas, address)
        BY <1>1, <1>4 DEF w
  <2>. HIDE DEF address
  <2>2. tx.sender \in Eoas
    <3>1. IsWorld(snapshot) /\ validate_transaction(snapshot, tx) = "valid"
          BY <1>3 DEF TypeInv, TypeOK, BegunValid
    <3>. QED BY <1>3, <3>1, ValidTx
  <2>3. Sound(w)
        BY <1>1, <1>2, <1>3, TopPlaced, SoundKept DEF CreationInv
  <2>. QED BY <1>2, <1>3, <2>1, <2>2, <2>3, SucceedPlaced
<1>5. CASE Depth # 1
  <2>1. accounts' = w /\ Resume(Top.limit - Top.gas)
        BY <1>1, <1>5 DEF w
  <2>2. Top.limit - Top.gas \in Nat /\ Top.limit - Top.gas <= Top.limit
        BY <1>1, RunningFrame
  <2>3. PartOf(frames', frames) /\ Len(frames') = Len(frames) - 1 /\ StayInTransaction
        BY <1>1, <1>5, <2>1, <2>2, ResumePart
  <2>4. \A i \in 1..Len(frames') :
            frames[i].kind = "create" => get_account(accounts', frames[i].address).code = NoCode
    <3>. SUFFICES ASSUME NEW i \in 1..Len(frames'), frames[i].kind = "create"
                  PROVE  get_account(accounts', frames[i].address).code = NoCode
         OBVIOUS
    <3>1. i \in 1..Len(frames) /\ i # Len(frames)
          BY <2>3 DEF PartOf
    <3>2. /\ get_account(accounts, frames[i].address).code = NoCode
          /\ frames[i].address # Self
          BY <1>1, <3>1, TopPlaced
    <3>. QED BY <1>2, <2>1, <3>2 DEF Acts
  <2>. QED BY <1>1, <1>2, <2>1, <2>3, <2>4, StayPlaced
<1>. QED BY <1>4, <1>5

(* Every step of a transaction.                                              *)
LEMMA StepPlaced == TypeInv /\ CreationInv /\ Step => CreationInv'
<1>. SUFFICES ASSUME TypeInv, CreationInv, Step PROVE CreationInv'
     OBVIOUS
<1>1. CASE Compute \/ Sstore \/ CallUnfunded \/ CallWithoutCode \/ CreateUnfunded
      BY <1>1, QuietPlaced
<1>2. CASE CallContract
      BY <1>2, CallPlaced
<1>3. CASE CreateContract
      BY <1>3, CreatePlaced
<1>4. CASE Return
      BY <1>4, ReturnPlaced
<1>5. CASE Revert
  <2>. DEFINE gas_used == IF Top.kind = "create" THEN Top.limit - Top.gas ELSE Top.limit
  <2>1. Running /\ FailFrame(gas_used)
        BY <1>5 DEF Revert
  <2>2. gas_used \in Nat /\ gas_used <= Top.limit
        BY <2>1, RunningFrame
  <2>. HIDE DEF gas_used
  <2>. QED BY <2>1, <2>2, FailFramePlaced
<1>6. CASE Invalid
  <2>1. Running /\ FailFrame(Top.limit)
        BY <1>6 DEF Invalid
  <2>2. Top.limit \in Nat /\ Top.limit <= Top.limit
        BY <2>1, RunningFrame
  <2>. QED BY <2>1, <2>2, FailFramePlaced
<1>7. CASE OutOfGas
  <2>. DEFINE gas_used == IF Top.kind = "create" THEN 0 ELSE Top.limit
  <2>1. Running /\ FailFrame(gas_used)
        BY <1>7 DEF OutOfGas
  <2>2. gas_used \in Nat /\ gas_used <= Top.limit
        BY <2>1, RunningFrame
  <2>. HIDE DEF gas_used
  <2>. QED BY <2>1, <2>2, FailFramePlaced
<1>8. CASE Abort
  <2>1. Running /\ FailTransaction
        BY <1>8 DEF Abort
  <2>. QED BY <2>1, RunningFrame, FailPlaced
<1>. QED BY <1>1, <1>2, <1>3, <1>4, <1>5, <1>6, <1>7, <1>8 DEF Step

(* A submitted transaction.                                                  *)
LEMMA SubmitPlaced ==
    ASSUME TypeInv, CreationInv, NEW t \in Txs,
           \/ Reject(t)
           \/ ExecuteValueTransfer(t)
           \/ ExecuteContractCall(t)
           \/ ExecuteCreate(t)
    PROVE  CreationInv'
<1>. DEFINE charged == Charge(accounts, t)
            moved == transfer(charged, t.sender, t.to, t.value)
<1>0. IsWorld(accounts) /\ Sound(accounts)
      BY DEF TypeInv, TypeOK, CreationInv
<1>1. ASSUME Accepted(t)
      PROVE  /\ t.sender \in Eoas /\ t.value \in Nat /\ gas_for_execution(t) \in Nat
             /\ t.nonce \in Nat /\ get_account(accounts, t.sender).nonce = t.nonce
             /\ IsWorld(charged) /\ can_deduct(charged, t.sender, t.value)
             /\ get_account(charged, t.sender).nonce = t.nonce + 1
             /\ Acts(accounts, charged, t.sender)
             /\ SameCode(accounts, charged) /\ SameStorage(accounts, charged)
             /\ Acts(accounts, moved, t.sender)
             /\ SameCode(accounts, moved) /\ SameStorage(accounts, moved)
             /\ IsWorld(moved)
  <2>1. validate_transaction(accounts, t) = "valid"
        BY <1>1 DEF Accepted
  <2>2. /\ t.sender \in Eoas /\ t.value \in Nat /\ gas_for_execution(t) \in Nat
        /\ t.nonce \in Nat /\ get_account(accounts, t.sender).nonce = t.nonce
        BY <1>0, <2>1, TxType, ValidTx
  <2>3. /\ IsWorld(charged) /\ can_deduct(charged, t.sender, t.value)
        /\ get_account(charged, t.sender).nonce = get_account(accounts, t.sender).nonce + 1
        BY <1>0, <2>1, ChargeWorld
  <2>4. /\ Acts(accounts, charged, t.sender)
        /\ SameCode(accounts, charged) /\ SameStorage(accounts, charged)
        BY <1>0, <2>1, ChargeActs
  <2>. HIDE DEF charged
  <2>5. /\ Acts(charged, moved, t.sender)
        /\ SameCode(charged, moved) /\ SameStorage(charged, moved)
        BY <2>2, <2>3, TransferActs
  <2>. HIDE DEF moved
  <2>6. Acts(accounts, moved, t.sender)
        BY <1>0, <2>4, <2>5, ActsTwice
  <2>7. SameCode(accounts, moved) /\ SameStorage(accounts, moved) /\ IsWorld(moved)
        BY <2>4, <2>5 DEF SameCode, SameStorage, Acts
  <2>. QED BY <2>2, <2>3, <2>4, <2>6, <2>7
<1>2. CASE Reject(t)
  <2>1. accounts' = accounts /\ tx' = tx /\ snapshot' = snapshot /\ frames' = frames
        BY <1>2 DEF Reject
  <2>. QED BY <2>1 DEF CreationInv
<1>3. CASE ExecuteValueTransfer(t)
  <2>1. Accepted(t) /\ Succeed(t, moved, gas_for_execution(t), NoAddress)
        BY <1>3 DEF ExecuteValueTransfer
  <2>. HIDE DEF moved, charged
  <2>2. ~AheadOfNonce(accounts, t.sender)
        BY <1>1, <2>1 DEF AheadOfNonce
  <2>3. Sound(moved)
        BY <1>0, <1>1, <2>1, <2>2, SoundKept
  <2>. QED BY <1>1, <2>1, <2>3, SucceedPlaced
<1>4. CASE ExecuteContractCall(t)
  <2>. DEFINE f == Frame("call", t.to, get_account(accounts, t.to).storage, gas_for_execution(t))
  <2>1. Accepted(t) /\ Begin(t, moved, f) /\ get_account(accounts, t.to).code # NoCode
        BY <1>4 DEF ExecuteContractCall
  <2>2. f.kind = "call" /\ f.address = t.to
        BY DEF Frame
  <2>. HIDE DEF moved, charged, f
  <2>3. t.to \notin Eoas
        BY <1>0, <2>1 DEF Sound, EoasPlain
  <2>4. ~AheadOfNonce(accounts, t.to)
        BY <1>0, <2>1, AheadPristine DEF Sound, Pristine
  <2>5. ~AheadOfNonce(moved, t.to)
        BY <1>0, <1>1, <2>1, <2>4, AheadShrinks DEF Acts
  <2>6. Placed(moved, accounts, f)
        BY <2>2, <2>3, <2>5 DEF Placed
  <2>. QED BY <1>1, <2>1, <2>6, BeginPlaced
<1>5. CASE ExecuteCreate(t)
  <2>. DEFINE a == compute_contract_address(t.sender, t.nonce)
              w == transfer(add_balance(charged, a, 0), t.sender, a, t.value)
              f == Frame("create", a, EmptyStorage, gas_for_execution(t))
  <2>1. Accepted(t) /\ Begin(t, w, f)
        BY <1>5 DEF ExecuteCreate
  <2>2. f.kind = "create" /\ f.address = a
        BY DEF Frame
  <2>. HIDE DEF charged, f
  <2>3. /\ Acts(charged, w, t.sender) /\ SameCode(charged, w) /\ SameStorage(charged, w)
        /\ \A b : get_account(w, b).nonce = get_account(charged, b).nonce
    <3>. HIDE DEF a
    <3>. QED BY <1>1, <2>1, CreateActs, CreateWorld
  <2>. HIDE DEF w
  <2>4. Acts(accounts, w, t.sender) /\ SameCode(accounts, w) /\ SameStorage(accounts, w)
    <3>1. Acts(accounts, w, t.sender)
          BY <1>0, <1>1, <2>1, <2>3, ActsTwice
    <3>. QED BY <1>1, <2>1, <2>3, <3>1 DEF SameCode, SameStorage
  <2>5. AheadOfNonce(accounts, a) /\ ~AheadOfNonce(w, a)
        BY <1>0, <1>1, <2>1, <2>3, NextAhead
  <2>. HIDE DEF a
  <2>6. get_account(w, a).code = NoCode
        BY <1>0, <2>4, <2>5, AheadPristine DEF Sound, Pristine, SameCode
  <2>7. Placed(w, accounts, f)
        BY <2>2, <2>5, <2>6 DEF Placed, AheadOfNonce
  <2>. QED BY <1>1, <2>1, <2>4, <2>7, BeginPlaced
<1>. QED BY <1>2, <1>3, <1>4, <1>5

(* In every reachable state contracts are where they belong.                 *)
THEOREM CreationInvariance == Spec => []CreationInv
<1>1. Init => CreationInv
  <2>. SUFFICES ASSUME Init PROVE CreationInv
       OBVIOUS
  <2>1. accounts = Genesis /\ snapshot = EmptyWorld /\ tx = NoTx /\ frames = <<>>
        BY DEF Init
  <2>2. StackPlaced(accounts, snapshot, frames)
        BY <2>1 DEF StackPlaced
  <2>. QED BY <2>1, <2>2, GenesisAssumption, EmptySound DEF CreationInv, Sound
<1>2. TypeInv /\ CreationInv /\ [Next]_vars => CreationInv'
  <2>. SUFFICES ASSUME TypeInv, CreationInv, [Next]_vars PROVE CreationInv'
       OBVIOUS
  <2>1. CASE Submit
        BY <2>1, SubmitPlaced DEF Submit
  <2>2. CASE Step
        BY <2>2, StepPlaced
  <2>3. CASE UNCHANGED vars
        BY <2>3 DEF vars, CreationInv
  <2>. QED BY <2>1, <2>2, <2>3 DEF Next
<1>. QED BY Invariance, <1>1, <1>2, PTL DEF Spec

(* Neither CREATE nor a creation transaction ever lands on an address that   *)
(* was used before, in the current world or in the one a failure goes back   *)
(* to (compute_contract_address with the nonce of its creator).              *)
THEOREM CreatedOnce == Spec => []CreationsPristine
<1>1. CreationInv => CreationsPristine
      BY DEF CreationInv, Sound, CreationsPristine
<1>. QED BY <1>1, CreationInvariance, PTL

(* No frame runs at the address of a key, no contract is constructed twice   *)
(* at a time, and none is called while it is under construction.             *)
THEOREM FramesStayApart == Spec => []FramesAtContracts
<1>1. CreationInv => FramesAtContracts
      BY DEF CreationInv, StackPlaced, Placed, FramesAtContracts
<1>. QED BY <1>1, CreationInvariance, PTL

-----------------------------------------------------------------------------
(* The ledger: seen from outside, apply_transaction is one step of Ledger.   *)

(* Ledger's operators on worlds are those of Accounts.                       *)
LEMMA LedgerOperators ==
    /\ \A w, a : TheLedger!get_account(w, a) = get_account(w, a)
    /\ \A w, a, n : TheLedger!can_deduct(w, a, n) = can_deduct(w, a, n)
    /\ \A w, a, n : TheLedger!deduct_balance(w, a, n) = deduct_balance(w, a, n)
    /\ \A w, s, r, n : TheLedger!transfer(w, s, r, n) = transfer(w, s, r, n)
    /\ \A w, a : TheLedger!increment_nonce(w, a) = increment_nonce(w, a)
    /\ \A w, a : TheLedger!AheadOfNonce(w, a) = AheadOfNonce(w, a)
    /\ \A w : TheLedger!CreationsAhead(w) = CreationsAhead(w)
    /\ \A w : TheLedger!EoasPlain(w) = EoasPlain(w)
    /\ TheLedger!Eoas = Eoas
    /\ \A t : TheLedger!MaxFee(t) = upfront_gas_cost(t)
<1>0. TheLedger!EMPTY_ACCOUNT = EMPTY_ACCOUNT /\ TheLedger!EmptyStorage = EmptyStorage
      BY DEF TheLedger!EMPTY_ACCOUNT, EMPTY_ACCOUNT, TheLedger!EmptyStorage, EmptyStorage
<1>1. \A w, a : TheLedger!get_account(w, a) = get_account(w, a)
      BY <1>0 DEF TheLedger!get_account, get_account
<1>2. \A w, a, x : TheLedger!set_account(w, a, x) = set_account(w, a, x)
      BY DEF TheLedger!set_account, set_account
<1>3. \A w, a, n : TheLedger!can_deduct(w, a, n) = can_deduct(w, a, n)
      BY <1>1 DEF TheLedger!can_deduct, can_deduct
<1>4. \A w, a, n : TheLedger!deduct_balance(w, a, n) = deduct_balance(w, a, n)
      BY <1>1, <1>2 DEF TheLedger!deduct_balance, deduct_balance
<1>5. \A w, a, n : TheLedger!add_balance(w, a, n) = add_balance(w, a, n)
      BY <1>1, <1>2 DEF TheLedger!add_balance, add_balance
<1>6. \A w, s, r, n : TheLedger!transfer(w, s, r, n) = transfer(w, s, r, n)
      BY <1>4, <1>5 DEF TheLedger!transfer, transfer
<1>7. \A w, a : TheLedger!increment_nonce(w, a) = increment_nonce(w, a)
      BY <1>1, <1>2 DEF TheLedger!increment_nonce, increment_nonce
<1>8. TheLedger!Eoas = Eoas
      BY DEF TheLedger!Eoas, Eoas, TheLedger!KeyAddress, KeyAddress
<1>9. \A w, a : TheLedger!AheadOfNonce(w, a) = AheadOfNonce(w, a)
      BY <1>1, <1>8 DEF TheLedger!AheadOfNonce, AheadOfNonce
<1>10. \A w : TheLedger!CreationsAhead(w) = CreationsAhead(w)
       BY <1>0, <1>9 DEF TheLedger!CreationsAhead, CreationsAhead, TheLedger!Pristine, Pristine
<1>11. \A w : TheLedger!EoasPlain(w) = EoasPlain(w)
       BY <1>0, <1>1, <1>8 DEF TheLedger!EoasPlain, EoasPlain
<1>12. \A t : TheLedger!MaxFee(t) = upfront_gas_cost(t)
       BY DEF TheLedger!MaxFee, upfront_gas_cost
<1>. QED BY <1>1, <1>3, <1>4, <1>6, <1>7, <1>8, <1>9, <1>10, <1>11, <1>12

(* Worlds with the same accounts are the same.                               *)
LEMMA SameWorld ==
    ASSUME NEW v, IsWorld(v), NEW w, IsWorld(w),
           \A x : x \in DOMAIN v <=> x \in DOMAIN w,
           \A b : /\ get_account(v, b).nonce = get_account(w, b).nonce
                  /\ get_account(v, b).balance = get_account(w, b).balance
                  /\ get_account(v, b).code = get_account(w, b).code
                  /\ get_account(v, b).storage = get_account(w, b).storage
    PROVE  v = w
<1>1. ASSUME NEW x \in DOMAIN v
      PROVE  v[x] = w[x]
  <2>1. v[x] \in Account /\ w[x] \in Account
        BY DEF IsWorld
  <2>2. v[x] = get_account(v, x) /\ w[x] = get_account(w, x)
        BY DEF get_account
  <2>. QED BY <2>1, <2>2 DEF Account
<1>2. DOMAIN v = DOMAIN w
      OBVIOUS
<1>. QED BY <1>1, <1>2 DEF IsWorld

(* What a transfer does to whom, to the wei.                                 *)
LEMMA TransferExact ==
    ASSUME NEW w, IsWorld(w), NEW s, NEW r, NEW amount \in Nat, can_deduct(w, s, amount)
    PROVE  LET v == transfer(w, s, r, amount) IN
           /\ IsWorld(v)
           /\ \A x : x \in DOMAIN v <=> x \in DOMAIN w \/ (amount # 0 /\ (x = s \/ x = r))
           /\ s = r => \A b : get_account(v, b).balance = get_account(w, b).balance
           /\ s # r => /\ get_account(v, s).balance = get_account(w, s).balance - amount
                       /\ get_account(v, r).balance = get_account(w, r).balance + amount
           /\ \A b : b # s /\ b # r => get_account(v, b).balance = get_account(w, b).balance
           /\ \A b : get_account(v, b).nonce = get_account(w, b).nonce
           /\ \A b : get_account(v, b).code = get_account(w, b).code
           /\ \A b : get_account(v, b).storage = get_account(w, b).storage
<1>0. \A b : get_account(w, b).balance \in Nat
      BY GetType
<1>1. CASE amount = 0
  <2>1. transfer(w, s, r, amount) = w
        BY <1>1 DEF transfer
  <2>. QED BY <1>0, <1>1, <2>1
<1>2. CASE amount # 0
  <2>. DEFINE paid == deduct_balance(w, s, amount)
              v == add_balance(paid, r, amount)
  <2>1. transfer(w, s, r, amount) = v
        BY <1>2 DEF transfer
  <2>2. /\ IsWorld(paid)
        /\ \A x : x \in DOMAIN paid <=> x \in DOMAIN w \/ x = s
        /\ get_account(paid, s).balance = get_account(w, s).balance - amount
        /\ \A b : b # s => get_account(paid, b).balance = get_account(w, b).balance
        /\ \A b : get_account(paid, b).nonce = get_account(w, b).nonce
        /\ \A b : get_account(paid, b).code = get_account(w, b).code
        /\ \A b : get_account(paid, b).storage = get_account(w, b).storage
        BY DeductBalance
  <2>. HIDE DEF paid
  <2>3. /\ IsWorld(v)
        /\ \A x : x \in DOMAIN v <=> x \in DOMAIN paid \/ x = r
        /\ get_account(v, r).balance = get_account(paid, r).balance + amount
        /\ \A b : b # r => get_account(v, b).balance = get_account(paid, b).balance
        /\ \A b : get_account(v, b).nonce = get_account(paid, b).nonce
        /\ \A b : get_account(v, b).code = get_account(paid, b).code
        /\ \A b : get_account(v, b).storage = get_account(paid, b).storage
        BY <2>2, AddBalance
  <2>. HIDE DEF v
  <2>4. s = r => \A b : get_account(v, b).balance = get_account(w, b).balance
        BY <1>0, <2>2, <2>3
  <2>5. s # r => /\ get_account(v, s).balance = get_account(w, s).balance - amount
                 /\ get_account(v, r).balance = get_account(w, r).balance + amount
        BY <1>0, <2>2, <2>3
  <2>6. \A b : b # s /\ b # r => get_account(v, b).balance = get_account(w, b).balance
        BY <2>2, <2>3
  <2>. QED BY <1>2, <2>1, <2>2, <2>3, <2>4, <2>5, <2>6
<1>. QED BY <1>1, <1>2

(* The gas a transaction pays up front, less what it is refunded, is the fee *)
(* for what it used.                                                         *)
LEMMA FeeIsDifference ==
    ASSUME NEW gas \in Nat, NEW left \in Nat, left <= gas, NEW price \in Nat
    PROVE  /\ (gas - left) * price \in Nat /\ left * price \in Nat /\ gas * price \in Nat
           /\ gas * price - left * price = (gas - left) * price
           /\ left * price <= gas * price
<1>. DEFINE used == gas - left
<1>1. used \in Nat /\ gas = used + left
      OBVIOUS
<1>. HIDE DEF used
<1>2. \A m, n \in Nat : m * n \in Nat
      OBVIOUS
<1>3. (used + left) * price = used * price + left * price
      BY <1>1
<1>4. used * price \in Nat /\ left * price \in Nat
      BY <1>1, <1>2
<1>5. gas * price = used * price + left * price
      BY <1>1, <1>3
<1>. QED BY <1>4, <1>5 DEF used

-----------------------------------------------------------------------------
(* Conservation of wei                                                       *)

(* The total of a finite world, with one account taken out.                  *)
LEMMA TotalWithout ==
    ASSUME NEW w, IsWorld(w), IsFiniteSet(DOMAIN w), NEW a
    PROVE  LET balances == [x \in DOMAIN w |-> w[x].balance]
               rest == SumFunctionOnSet(balances, DOMAIN w \ {a})
           IN  rest \in Int /\ Total(w) = get_account(w, a).balance + rest
<1>. DEFINE balances == [x \in DOMAIN w |-> w[x].balance]
            D == DOMAIN w
<1>1. \A x \in D : balances[x] \in Int
      BY DEF IsWorld, Account
<1>2. Total(w) = SumFunctionOnSet(balances, D)
      BY DEF Total, SumFunction
<1>3. a \in D => balances[a] = get_account(w, a).balance
      BY DEF get_account
<1>4. a \notin D => D \ {a} = D /\ get_account(w, a).balance = 0
      BY DEF get_account, EMPTY_ACCOUNT
<1>5. IsFiniteSet(D)
      OBVIOUS
<1>. HIDE DEF balances, D
<1>6. /\ SumFunctionOnSet(balances, D) \in Int
      /\ \A x \in D : /\ SumFunctionOnSet(balances, D \ {x}) \in Int
                      /\ SumFunctionOnSet(balances, D)
                           = balances[x] + SumFunctionOnSet(balances, D \ {x})
      BY <1>1, <1>5, SumElement
<1>7. /\ SumFunctionOnSet(balances, D \ {a}) \in Int
      /\ Total(w) = get_account(w, a).balance + SumFunctionOnSet(balances, D \ {a})
  <2>1. CASE a \in D
        BY <1>2, <1>3, <1>6, <2>1
  <2>2. CASE a \notin D
    <3>1. SumFunctionOnSet(balances, D \ {a}) = SumFunctionOnSet(balances, D)
          BY <1>4, <2>2
    <3>. QED BY <1>2, <1>4, <1>6, <2>2, <3>1
  <2>. QED BY <2>1, <2>2
<1>. QED BY <1>7 DEF balances, D

(* If only one account's balance changes, the total changes with it. The     *)
(* account may be new.                                                       *)
LEMMA TotalChange ==
    ASSUME NEW v, IsWorld(v), IsFiniteSet(DOMAIN v), NEW w, IsWorld(w), NEW a,
           \A x : x \in DOMAIN w <=> x \in DOMAIN v \/ x = a,
           \A b : b # a => get_account(w, b).balance = get_account(v, b).balance
    PROVE  /\ IsFiniteSet(DOMAIN w) /\ Total(v) \in Int /\ Total(w) \in Int
           /\ Total(w) - Total(v) = get_account(w, a).balance - get_account(v, a).balance
<1>. DEFINE f == [x \in DOMAIN v |-> v[x].balance]
            g == [x \in DOMAIN w |-> w[x].balance]
            S == DOMAIN v \ {a}
<1>1. DOMAIN w = DOMAIN v \cup {a} /\ DOMAIN w \ {a} = S
      OBVIOUS
<1>2. IsFiniteSet(DOMAIN w) /\ IsFiniteSet(S)
      BY <1>1, FS_AddElement, FS_RemoveElement
<1>3. ASSUME NEW x \in S
      PROVE  f[x] \in Int /\ g[x] = f[x]
  <2>1. x \in DOMAIN v /\ x \in DOMAIN w /\ x # a
        BY <1>1
  <2>2. f[x] = get_account(v, x).balance /\ g[x] = get_account(w, x).balance
        BY <2>1 DEF get_account
  <2>3. get_account(v, x).balance \in Int
        BY GetType
  <2>. QED BY <2>1, <2>2, <2>3
<1>4. SumFunctionOnSet(g, S) = SumFunctionOnSet(f, S)
  <2>. HIDE DEF f, g, S
  <2>. QED BY <1>2, <1>3, SumAgrees
<1>5. /\ SumFunctionOnSet(f, S) \in Int
      /\ Total(v) = get_account(v, a).balance + SumFunctionOnSet(f, S)
      BY TotalWithout
<1>6. Total(w) = get_account(w, a).balance + SumFunctionOnSet(g, DOMAIN w \ {a})
      BY <1>2, TotalWithout
<1>7. Total(w) = get_account(w, a).balance + SumFunctionOnSet(f, S)
  <2>. HIDE DEF f, g, S
  <2>. QED BY <1>1, <1>4, <1>6
<1>8. get_account(v, a).balance \in Int /\ get_account(w, a).balance \in Int
      BY GetType
<1>. HIDE DEF f, g, S
<1>. QED BY <1>2, <1>5, <1>7, <1>8

(* ... and if none changes, the total is the same.                           *)
LEMMA TotalSame ==
    ASSUME NEW v, IsWorld(v), IsFiniteSet(DOMAIN v), NEW w, IsWorld(w), NEW a,
           \A x : x \in DOMAIN w <=> x \in DOMAIN v \/ x = a,
           \A b : get_account(w, b).balance = get_account(v, b).balance
    PROVE  IsFiniteSet(DOMAIN w) /\ Total(w) \in Int /\ Total(w) = Total(v)
<1>1. /\ IsFiniteSet(DOMAIN w) /\ Total(v) \in Int /\ Total(w) \in Int
      /\ Total(w) - Total(v) = get_account(w, a).balance - get_account(v, a).balance
      BY TotalChange
<1>2. get_account(w, a).balance = get_account(v, a).balance /\ get_account(v, a).balance \in Int
      BY GetType
<1>. QED BY <1>1, <1>2

(* add_balance makes wei, deduct_balance loses it, transfer does neither.    *)
LEMMA AddTotal ==
    ASSUME NEW w, IsWorld(w), IsFiniteSet(DOMAIN w), NEW a, NEW amount \in Nat
    PROVE  /\ IsFiniteSet(DOMAIN add_balance(w, a, amount))
           /\ Total(w) \in Int /\ Total(add_balance(w, a, amount)) \in Int
           /\ Total(add_balance(w, a, amount)) = Total(w) + amount
<1>. DEFINE v == add_balance(w, a, amount)
<1>1. /\ IsWorld(v)
      /\ \A x : x \in DOMAIN v <=> x \in DOMAIN w \/ x = a
      /\ get_account(v, a).balance = get_account(w, a).balance + amount
      /\ \A b : b # a => get_account(v, b).balance = get_account(w, b).balance
      BY AddBalance
<1>. HIDE DEF v
<1>2. /\ IsFiniteSet(DOMAIN v) /\ Total(w) \in Int /\ Total(v) \in Int
      /\ Total(v) - Total(w) = get_account(v, a).balance - get_account(w, a).balance
      BY <1>1, TotalChange
<1>3. get_account(w, a).balance \in Int
      BY GetType
<1>4. Total(v) = Total(w) + amount
      BY <1>1, <1>2, <1>3
<1>. QED BY <1>2, <1>4 DEF v

LEMMA DeductTotal ==
    ASSUME NEW w, IsWorld(w), IsFiniteSet(DOMAIN w), NEW a, NEW amount \in Nat,
           can_deduct(w, a, amount)
    PROVE  /\ IsFiniteSet(DOMAIN deduct_balance(w, a, amount))
           /\ Total(w) \in Int /\ Total(deduct_balance(w, a, amount)) \in Int
           /\ Total(deduct_balance(w, a, amount)) = Total(w) - amount
<1>. DEFINE v == deduct_balance(w, a, amount)
<1>1. /\ IsWorld(v)
      /\ \A x : x \in DOMAIN v <=> x \in DOMAIN w \/ x = a
      /\ get_account(v, a).balance = get_account(w, a).balance - amount
      /\ \A b : b # a => get_account(v, b).balance = get_account(w, b).balance
      BY DeductBalance
<1>. HIDE DEF v
<1>2. /\ IsFiniteSet(DOMAIN v) /\ Total(w) \in Int /\ Total(v) \in Int
      /\ Total(v) - Total(w) = get_account(v, a).balance - get_account(w, a).balance
      BY <1>1, TotalChange
<1>3. get_account(w, a).balance \in Int
      BY GetType
<1>4. Total(v) = Total(w) - amount
      BY <1>1, <1>2, <1>3
<1>. QED BY <1>2, <1>4 DEF v

LEMMA TransferTotal ==
    ASSUME NEW w, IsWorld(w), IsFiniteSet(DOMAIN w), NEW s, NEW r, NEW amount \in Nat,
           can_deduct(w, s, amount)
    PROVE  /\ IsFiniteSet(DOMAIN transfer(w, s, r, amount))
           /\ Total(transfer(w, s, r, amount)) = Total(w)
<1>1. CASE amount = 0
      BY <1>1 DEF transfer
<1>2. CASE amount # 0
  <2>. DEFINE paid == deduct_balance(w, s, amount)
  <2>1. transfer(w, s, r, amount) = add_balance(paid, r, amount)
        BY <1>2 DEF transfer
  <2>2. IsWorld(paid)
        BY DeductBalance
  <2>3. /\ IsFiniteSet(DOMAIN paid) /\ Total(w) \in Int /\ Total(paid) \in Int
        /\ Total(paid) = Total(w) - amount
        BY DeductTotal
  <2>. HIDE DEF paid
  <2>4. /\ IsFiniteSet(DOMAIN add_balance(paid, r, amount))
        /\ Total(add_balance(paid, r, amount)) = Total(paid) + amount
        BY <2>2, <2>3, AddTotal
  <2>. QED BY <2>1, <2>3, <2>4
<1>. QED BY <1>1, <1>2

(* Charging a transaction takes its whole fee out of the world.              *)
LEMMA ChargeTotal ==
    ASSUME NEW w, IsWorld(w), IsFiniteSet(DOMAIN w), NEW t \in Txs,
           validate_transaction(w, t) = "valid"
    PROVE  /\ IsFiniteSet(DOMAIN Charge(w, t))
           /\ Total(w) \in Int /\ Total(Charge(w, t)) \in Int
           /\ Total(Charge(w, t)) = Total(w) - upfront_gas_cost(t)
<1>. DEFINE c == Charge(w, t)
<1>1. /\ IsWorld(c)
      /\ \A x : x \in DOMAIN c <=> x \in DOMAIN w \/ x = t.sender
      /\ get_account(c, t.sender).balance
           = get_account(w, t.sender).balance - upfront_gas_cost(t)
      /\ \A b : b # t.sender => get_account(c, b).balance = get_account(w, b).balance
      BY ChargeWorld
<1>. HIDE DEF c
<1>2. /\ IsFiniteSet(DOMAIN c) /\ Total(w) \in Int /\ Total(c) \in Int
      /\ Total(c) - Total(w) = get_account(c, t.sender).balance - get_account(w, t.sender).balance
      BY <1>1, TotalChange
<1>3. get_account(w, t.sender).balance \in Int /\ upfront_gas_cost(t) \in Int
      BY GetType, TxType
<1>4. Total(c) = Total(w) - upfront_gas_cost(t)
      BY <1>1, <1>2, <1>3
<1>. QED BY <1>2, <1>4 DEF c

(* What was made of the wei of a world: nothing was added and nothing lost,  *)
(* and there are finitely many accounts still.                               *)
Conserves(old, new) == IsFiniteSet(DOMAIN new) /\ Total(new) = Total(old)

LEMMA FiniteTotal ==
    ASSUME NEW w, IsWorld(w), IsFiniteSet(DOMAIN w)
    PROVE  Total(w) \in Int
BY AddTotal

(* Worlds with the same balances: the accounts that one has and the other    *)
(* lacks are at most two, and hold nothing.                                  *)
LEMMA TwoMoreConserve ==
    ASSUME NEW v, IsWorld(v), IsFiniteSet(DOMAIN v), NEW w, IsWorld(w), NEW s, NEW a,
           \A x : x \in DOMAIN w <=> x \in DOMAIN v \/ x = s \/ x = a,
           \A b : get_account(w, b).balance = get_account(v, b).balance
    PROVE  Conserves(v, w)
<1>. DEFINE u == set_account(v, s, get_account(v, s))
<1>1. get_account(v, s) \in Account
      BY GetType
<1>2. /\ IsWorld(u)
      /\ \A x : x \in DOMAIN u <=> x \in DOMAIN v \/ x = s
      /\ \A b : get_account(u, b) = get_account(v, b)
      BY <1>1, SetAccount
<1>. HIDE DEF u
<1>3. IsFiniteSet(DOMAIN u) /\ Total(u) = Total(v)
      BY <1>2, TotalSame
<1>4. /\ \A x : x \in DOMAIN w <=> x \in DOMAIN u \/ x = a
      /\ \A b : get_account(w, b).balance = get_account(u, b).balance
      BY <1>2
<1>5. IsFiniteSet(DOMAIN w) /\ Total(w) = Total(u)
      BY <1>2, <1>3, <1>4, TotalSame
<1>. QED BY <1>3, <1>5 DEF Conserves

LEMMA SameConserves ==
    ASSUME NEW v, IsWorld(v), IsFiniteSet(DOMAIN v), NEW w, IsWorld(w), NEW a \in DOMAIN v,
           \A x : x \in DOMAIN w <=> x \in DOMAIN v,
           \A b : get_account(w, b).balance = get_account(v, b).balance
    PROVE  Conserves(v, w)
<1>1. \A x : x \in DOMAIN w <=> x \in DOMAIN v \/ x = a
      OBVIOUS
<1>. QED BY <1>1, TotalSame DEF Conserves

(* What is wanted of every state. While a transaction runs, the wei of its   *)
(* snapshot is all there, so going back to the snapshot loses and makes none.*)
SupplyInv ==
    /\ IsFiniteSet(DOMAIN accounts) /\ IsFiniteSet(DOMAIN snapshot)
    /\ WeiConserved
    /\ tx # NoTx => Total(snapshot) + burned = Supply

(* A transaction that ends: its fee is burned, and what was paid up front    *)
(* beyond that is back.                                                      *)
LEMMA EndSupply ==
    ASSUME IsFiniteSet(DOMAIN accounts'), NEW t, NEW fee, Finish(t, fee),
           Total(accounts') + burned + fee = Supply,
           Total(accounts') \in Int, burned \in Nat, fee \in Nat
    PROVE  SupplyInv'
<1>1. tx' = NoTx /\ snapshot' = EmptyWorld /\ burned' = burned + fee
      BY DEF Finish
<1>2. IsFiniteSet(DOMAIN snapshot')
      BY <1>1, EmptyWorldType, FS_EmptySet
<1>3. Supply' = Supply
      BY DEF Supply, Total
<1>4. WeiConserved'
      BY <1>1, <1>3 DEF WeiConserved, PaidUpFront, Total
<1>. QED BY <1>1, <1>2, <1>4 DEF SupplyInv

(* A success, in a world that holds all the wei but what was burned and what *)
(* the transaction paid up front.                                            *)
LEMMA SucceedSupply ==
    ASSUME TypeOK, NEW t \in Txs, NEW w, IsWorld(w), IsFiniteSet(DOMAIN w),
           NEW gas_remaining \in Nat, gas_remaining <= t.gas, NEW address,
           Succeed(t, w, gas_remaining, address),
           Total(w) + burned + upfront_gas_cost(t) = Supply
    PROVE  SupplyInv'
<1>. DEFINE gas_refund == gas_remaining * t.gas_price
            fee == (t.gas - gas_remaining) * t.gas_price
            refunded == add_balance(w, t.sender, gas_refund)
<1>1. /\ accounts' = IF gas_refund > 0 THEN refunded ELSE w
      /\ Finish(t, fee)
      BY DEF Succeed
<1>2. t.gas \in Nat /\ t.gas_price \in Nat /\ burned \in Nat /\ upfront_gas_cost(t) \in Nat
      BY TxType DEF TypeOK
<1>3. /\ gas_refund \in Nat /\ fee \in Nat
      /\ upfront_gas_cost(t) - gas_refund = fee
  <2>1. upfront_gas_cost(t) = t.gas * t.gas_price
        BY DEF upfront_gas_cost
  <2>. QED BY <1>2, <2>1, FeeIsDifference
<1>. HIDE DEF gas_refund, fee
<1>4. /\ IsFiniteSet(DOMAIN refunded)
      /\ Total(w) \in Int /\ Total(refunded) \in Int
      /\ Total(refunded) = Total(w) + gas_refund
      BY <1>3, AddTotal
<1>. HIDE DEF refunded
<1>5. /\ IsFiniteSet(DOMAIN accounts') /\ Total(accounts') \in Int
      /\ Total(accounts') = Total(w) + gas_refund
  <2>1. CASE gas_refund > 0
        BY <1>1, <1>4, <2>1
  <2>2. CASE ~(gas_refund > 0)
        BY <1>1, <1>3, <1>4, <2>2
  <2>. QED BY <2>1, <2>2
<1>6. Total(accounts') + burned + fee = Supply
      BY <1>2, <1>3, <1>4, <1>5
<1>. QED BY <1>1, <1>2, <1>3, <1>5, <1>6, EndSupply

(* A failure ends in the snapshot, charged: the fee is all that is burned.   *)
LEMMA FailSupply ==
    ASSUME TypeInv, SupplyInv, tx # NoTx, FailTransaction
    PROVE  SupplyInv'
<1>1. /\ tx \in Txs /\ IsWorld(snapshot) /\ burned \in Nat
      /\ validate_transaction(snapshot, tx) = "valid"
      BY DEF TypeInv, TypeOK, BegunValid
<1>2. accounts' = Charge(snapshot, tx) /\ Finish(tx, upfront_gas_cost(tx))
      BY DEF FailTransaction
<1>3. /\ IsFiniteSet(DOMAIN accounts')
      /\ Total(snapshot) \in Int /\ Total(accounts') \in Int
      /\ Total(accounts') = Total(snapshot) - upfront_gas_cost(tx)
      BY <1>1, <1>2, ChargeTotal DEF SupplyInv
<1>4. upfront_gas_cost(tx) \in Nat
      BY <1>1, TxType
<1>5. Total(accounts') + burned + upfront_gas_cost(tx) = Supply
      BY <1>1, <1>3, <1>4 DEF SupplyInv
<1>. QED BY <1>1, <1>2, <1>3, <1>4, <1>5, EndSupply

(* A transaction begins in a world from which its fee was taken.             *)
LEMMA BeginSupply ==
    ASSUME TypeOK, SupplyInv, tx = NoTx, NEW t \in Txs, NEW w, NEW f, Begin(t, w, f),
           IsFiniteSet(DOMAIN w), Total(accounts) \in Int,
           Total(w) = Total(accounts) - upfront_gas_cost(t)
    PROVE  SupplyInv'
<1>1. tx' = t /\ snapshot' = accounts /\ accounts' = w /\ burned' = burned /\ t # NoTx
      BY TxType DEF Begin
<1>2. upfront_gas_cost(t) \in Nat /\ burned \in Nat
      BY TxType DEF TypeOK
<1>3. Total(accounts) + burned = Supply
      BY <1>2 DEF SupplyInv, WeiConserved, PaidUpFront
<1>4. Total(accounts') + burned' + PaidUpFront' = Supply
      BY <1>1, <1>2, <1>3 DEF PaidUpFront, upfront_gas_cost
<1>5. Supply' = Supply /\ Total(snapshot)' = Total(accounts)
      BY <1>1 DEF Supply, Total
<1>6. WeiConserved'
      BY <1>4, <1>5 DEF WeiConserved, Total
<1>. QED BY <1>1, <1>3, <1>5, <1>6 DEF SupplyInv

(* Inside a transaction wei only moves.                                      *)
LEMMA StaySupply ==
    ASSUME SupplyInv, StayInTransaction, Conserves(accounts, accounts')
    PROVE  SupplyInv'
<1>1. tx' = tx /\ snapshot' = snapshot /\ burned' = burned
      BY DEF StayInTransaction
<1>2. /\ Supply' = Supply /\ PaidUpFront' = PaidUpFront
      /\ Total(snapshot)' = Total(snapshot) /\ Total(accounts)' = Total(accounts)
      BY <1>1 DEF Supply, Total, PaidUpFront, upfront_gas_cost, Conserves
<1>. QED BY <1>1, <1>2 DEF SupplyInv, WeiConserved, Conserves

(* A submitted transaction.                                                  *)
LEMMA SubmitSupply ==
    ASSUME TypeInv, SupplyInv, NEW t \in Txs,
           \/ Reject(t)
           \/ ExecuteValueTransfer(t)
           \/ ExecuteContractCall(t)
           \/ ExecuteCreate(t)
    PROVE  SupplyInv'
<1>. DEFINE charged == Charge(accounts, t)
            moved == transfer(charged, t.sender, t.to, t.value)
<1>0. TypeOK /\ IsWorld(accounts) /\ burned \in Nat /\ IsFiniteSet(DOMAIN accounts)
      BY DEF TypeInv, TypeOK, SupplyInv
<1>1. ASSUME Accepted(t)
      PROVE  /\ tx = NoTx /\ t.value \in Nat /\ upfront_gas_cost(t) \in Nat
             /\ gas_for_execution(t) \in Nat /\ gas_for_execution(t) <= t.gas
             /\ IsWorld(charged) /\ can_deduct(charged, t.sender, t.value)
             /\ IsFiniteSet(DOMAIN charged) /\ Total(accounts) \in Int
             /\ Total(charged) = Total(accounts) - upfront_gas_cost(t)
             /\ IsWorld(moved) /\ IsFiniteSet(DOMAIN moved) /\ Total(moved) = Total(charged)
  <2>1. tx = NoTx /\ validate_transaction(accounts, t) = "valid"
        BY <1>1 DEF Accepted
  <2>2. /\ t.value \in Nat /\ upfront_gas_cost(t) \in Nat
        /\ gas_for_execution(t) \in Nat /\ gas_for_execution(t) <= t.gas
        BY <1>0, <2>1, TxType, ValidTx
  <2>3. IsWorld(charged) /\ can_deduct(charged, t.sender, t.value)
        BY <1>0, <2>1, ChargeWorld
  <2>4. /\ IsFiniteSet(DOMAIN charged) /\ Total(accounts) \in Int
        /\ Total(charged) = Total(accounts) - upfront_gas_cost(t)
        BY <1>0, <2>1, ChargeTotal
  <2>. HIDE DEF charged
  <2>5. IsWorld(moved)
        BY <2>2, <2>3, Transfer
  <2>6. IsFiniteSet(DOMAIN moved) /\ Total(moved) = Total(charged)
        BY <2>2, <2>3, <2>4, TransferTotal
  <2>. QED BY <2>1, <2>2, <2>3, <2>4, <2>5, <2>6
<1>2. CASE Reject(t)
  <2>1. accounts' = accounts /\ tx' = tx /\ snapshot' = snapshot /\ burned' = burned
        BY <1>2 DEF Reject
  <2>. QED BY <2>1 DEF SupplyInv, WeiConserved, PaidUpFront, Total, Supply, upfront_gas_cost
<1>3. CASE ExecuteValueTransfer(t)
  <2>1. Accepted(t) /\ Succeed(t, moved, gas_for_execution(t), NoAddress)
        BY <1>3 DEF ExecuteValueTransfer
  <2>2. Total(accounts) + burned = Supply
        BY <1>0, <1>1, <2>1 DEF SupplyInv, WeiConserved, PaidUpFront
  <2>. HIDE DEF moved, charged
  <2>3. Total(moved) + burned + upfront_gas_cost(t) = Supply
        BY <1>0, <1>1, <2>1, <2>2
  <2>. QED BY <1>0, <1>1, <2>1, <2>3, SucceedSupply
<1>4. CASE ExecuteContractCall(t)
  <2>. DEFINE f == Frame("call", t.to, get_account(accounts, t.to).storage, gas_for_execution(t))
  <2>1. Accepted(t) /\ Begin(t, moved, f)
        BY <1>4 DEF ExecuteContractCall
  <2>. HIDE DEF moved, charged, f
  <2>. QED BY <1>0, <1>1, <2>1, BeginSupply
<1>5. CASE ExecuteCreate(t)
  <2>. DEFINE a == compute_contract_address(t.sender, t.nonce)
              v == add_balance(charged, a, 0)
              w == transfer(v, t.sender, a, t.value)
              f == Frame("create", a, EmptyStorage, gas_for_execution(t))
  <2>1. Accepted(t) /\ Begin(t, w, f)
        BY <1>5 DEF ExecuteCreate
  <2>. HIDE DEF charged, a, f
  <2>2. /\ IsWorld(v) /\ get_account(v, a).balance = get_account(charged, a).balance + 0
        /\ \A b : b # a => get_account(v, b).balance = get_account(charged, b).balance
        BY <1>1, <2>1, AddBalance
  <2>3. IsFiniteSet(DOMAIN v) /\ Total(v) = Total(charged) + 0 /\ Total(charged) \in Int
        BY <1>1, <2>1, AddTotal
  <2>4. get_account(charged, a).balance \in Nat
        BY <1>1, <2>1, GetType
  <2>. HIDE DEF v
  <2>5. can_deduct(v, t.sender, t.value)
        BY <1>1, <2>1, <2>2, <2>4 DEF can_deduct
  <2>6. IsFiniteSet(DOMAIN w) /\ Total(w) = Total(v)
        BY <1>1, <2>1, <2>2, <2>3, <2>5, TransferTotal
  <2>. HIDE DEF w
  <2>7. Total(w) = Total(accounts) - upfront_gas_cost(t)
        BY <1>1, <2>1, <2>3, <2>6
  <2>. QED BY <1>0, <1>1, <2>1, <2>6, <2>7, BeginSupply
<1>. QED BY <1>2, <1>3, <1>4, <1>5

(* A frame fails: its transaction does, or nothing happens to the world.     *)
LEMMA FailFrameSupply ==
    ASSUME TypeInv, SupplyInv, Running, NEW gas_used, FailFrame(gas_used)
    PROVE  SupplyInv'
<1>1. CASE Depth = 1
      BY <1>1, RunningFrame, FailSupply DEF FailFrame
<1>2. CASE Depth # 1
  <2>1. accounts' = accounts /\ StayInTransaction
        BY <1>2 DEF FailFrame, Resume
  <2>. QED BY <2>1, StaySupply DEF SupplyInv, Conserves
<1>. QED BY <1>1, <1>2

(* CALL with its value moves wei between accounts, the other opcodes that    *)
(* create nothing move none.                                                 *)
LEMMA OpcodeSupply ==
    ASSUME TypeInv, SupplyInv,
           Compute \/ Sstore \/ CallUnfunded \/ CallWithoutCode \/ CallContract
    PROVE  SupplyInv'
<1>1. Running /\ StayInTransaction
      BY DEF Compute, Sstore, CallUnfunded, CallWithoutCode, CallContract, CanPay, Enter
<1>2. IsWorld(accounts) /\ Values \subseteq Nat /\ IsFiniteSet(DOMAIN accounts)
      BY <1>1, RunningFrame, GasAssumption DEF SupplyInv
<1>3. Conserves(accounts, accounts')
  <2>1. CASE Compute \/ Sstore \/ CallUnfunded
    <3>1. accounts' = accounts
          BY <2>1 DEF Compute, Sstore, CallUnfunded
    <3>. QED BY <1>2, <3>1 DEF Conserves
  <2>2. CASE CallWithoutCode \/ CallContract
    <3>1. PICK target \in DOMAIN accounts \cup CallTargets, value \in Values :
              /\ can_deduct(accounts, Self, value)
              /\ accounts' = transfer(accounts, Self, target, value)
      <4>1. CASE CallWithoutCode
            BY <4>1 DEF CallWithoutCode
      <4>2. CASE CallContract
            BY <4>2 DEF CallContract
      <4>. QED BY <2>2, <4>1, <4>2
    <3>2. value \in Nat
          BY <1>2, <3>1
    <3>. QED BY <1>2, <3>1, <3>2, TransferTotal DEF Conserves
  <2>. QED BY <2>1, <2>2
<1>. QED BY <1>1, <1>3, StaySupply

(* CREATE makes an account with nothing in it, then moves its value there.   *)
LEMMA CreateSupply ==
    ASSUME TypeInv, SupplyInv, CreateUnfunded \/ CreateContract
    PROVE  SupplyInv'
<1>1. Running /\ StayInTransaction
      BY DEF CreateUnfunded, CreateContract, CanPay, Enter
<1>2. IsWorld(accounts) /\ Values \subseteq Nat /\ IsFiniteSet(DOMAIN accounts)
      BY <1>1, RunningFrame, GasAssumption DEF SupplyInv
<1>3. /\ IsWorld(WithNewContract)
      /\ \A x : x \in DOMAIN WithNewContract
                   <=> x \in DOMAIN accounts \/ x = Self \/ x = NewContract
      /\ \A b : get_account(WithNewContract, b).balance = get_account(accounts, b).balance
      BY <1>2, NewContractWorld
<1>4. Conserves(accounts, WithNewContract)
      BY <1>2, <1>3, TwoMoreConserve
<1>5. Conserves(accounts, accounts')
  <2>1. CASE CreateUnfunded
        BY <1>4, <2>1 DEF CreateUnfunded
  <2>2. CASE CreateContract
    <3>1. PICK value \in Values :
              /\ can_deduct(WithNewContract, Self, value)
              /\ accounts' = transfer(WithNewContract, Self, NewContract, value)
          BY <2>2 DEF CreateContract
    <3>2. value \in Nat
          BY <1>2, <3>1
    <3>. QED BY <1>3, <1>4, <3>1, <3>2, TransferTotal DEF Conserves
  <2>. QED BY <2>1, <2>2
<1>. QED BY <1>1, <1>5, StaySupply

(* A frame returns: its caller writes code and storage; the outermost one's  *)
(* gas that is left is refunded.                                             *)
LEMMA ReturnSupply ==
    ASSUME TypeInv, SupplyInv, Return
    PROVE  SupplyInv'
<1>1. PICK code \in Codes \cup {NoCode} :
        /\ Running
        /\ IF Depth = 1
           THEN Succeed(tx, Committed(code), Top.gas,
                        IF Top.kind = "create" THEN Self ELSE NoAddress)
           ELSE accounts' = Committed(code) /\ Resume(Top.limit - Top.gas)
      BY DEF Return
<1>. DEFINE w == Committed(code)
<1>2. /\ IsWorld(w) /\ \A x : x \in DOMAIN w <=> x \in DOMAIN accounts
      /\ \A b : get_account(w, b).balance = get_account(accounts, b).balance
      BY <1>1, CommittedWorld
<1>. HIDE DEF w
<1>3. /\ TypeOK /\ IsWorld(accounts) /\ tx \in Txs /\ tx # NoTx /\ Top.gas \in Nat
      /\ Self \in DOMAIN accounts /\ IsFiniteSet(DOMAIN accounts)
      BY <1>1, RunningFrame DEF TypeInv, SupplyInv
<1>4. Conserves(accounts, w)
      BY <1>2, <1>3, SameConserves
<1>5. CASE Depth = 1
  <2>. DEFINE address == IF Top.kind = "create" THEN Self ELSE NoAddress
  <2>1. Succeed(tx, w, Top.gas, address)
        BY <1>1, <1>5 DEF w
  <2>2. Top.gas <= tx.gas
        BY <1>1, <1>5, OutermostGas
  <2>3. Total(w) + burned + upfront_gas_cost(tx) = Supply
        BY <1>3, <1>4 DEF SupplyInv, WeiConserved, PaidUpFront, Conserves
  <2>. HIDE DEF address
  <2>. QED BY <1>2, <1>3, <1>4, <2>1, <2>2, <2>3, SucceedSupply DEF Conserves
<1>6. CASE Depth # 1
  <2>1. accounts' = w /\ StayInTransaction
        BY <1>1, <1>6 DEF w, Resume
  <2>. QED BY <1>4, <2>1, StaySupply
<1>. QED BY <1>5, <1>6

(* Every step of a transaction.                                              *)
LEMMA StepSupply == TypeInv /\ SupplyInv /\ Step => SupplyInv'
<1>. SUFFICES ASSUME TypeInv, SupplyInv, Step PROVE SupplyInv'
     OBVIOUS
<1>1. CASE Compute \/ Sstore \/ CallUnfunded \/ CallWithoutCode \/ CallContract
      BY <1>1, OpcodeSupply
<1>2. CASE CreateUnfunded \/ CreateContract
      BY <1>2, CreateSupply
<1>3. CASE Return
      BY <1>3, ReturnSupply
<1>4. CASE Revert
      BY <1>4, FailFrameSupply DEF Revert
<1>5. CASE Invalid
      BY <1>5, FailFrameSupply DEF Invalid
<1>6. CASE OutOfGas
      BY <1>6, FailFrameSupply DEF OutOfGas
<1>7. CASE Abort
  <2>1. Running /\ FailTransaction
        BY <1>7 DEF Abort
  <2>. QED BY <2>1, RunningFrame, FailSupply
<1>. QED BY <1>1, <1>2, <1>3, <1>4, <1>5, <1>6, <1>7 DEF Step

(* No transaction, call, creation, failure or rollback makes or loses wei,   *)
(* whatever the programs do: balances, burned fees and what the transaction  *)
(* under way has paid up front always add up to the genesis allocation.      *)
THEOREM WeiIsConserved == Spec => []WeiConserved
<1>1. Init => SupplyInv
  <2>. SUFFICES ASSUME Init PROVE SupplyInv
       OBVIOUS
  <2>1. accounts = Genesis /\ tx = NoTx /\ snapshot = EmptyWorld /\ burned = 0
        BY DEF Init
  <2>2. IsFiniteSet(DOMAIN accounts) /\ IsFiniteSet(DOMAIN snapshot)
        BY <2>1, GenesisAssumption, EmptyWorldType, FS_EmptySet
  <2>3. Total(Genesis) \in Int
    <3>1. IsWorld(Genesis) /\ IsFiniteSet(DOMAIN Genesis)
          BY GenesisAssumption
    <3>. QED BY <3>1, FiniteTotal
  <2>4. WeiConserved
        BY <2>1, <2>3 DEF WeiConserved, PaidUpFront, Supply
  <2>. QED BY <2>1, <2>2, <2>4 DEF SupplyInv
<1>2. TypeInv /\ SupplyInv /\ [Next]_vars => SupplyInv'
  <2>. SUFFICES ASSUME TypeInv, SupplyInv, [Next]_vars PROVE SupplyInv'
       OBVIOUS
  <2>1. CASE Submit
        BY <2>1, SubmitSupply DEF Submit
  <2>2. CASE Step
        BY <2>2, StepSupply
  <2>3. CASE UNCHANGED vars
        BY <2>3 DEF vars, SupplyInv, WeiConserved, PaidUpFront, Total, Supply, upfront_gas_cost
  <2>. QED BY <2>1, <2>2, <2>3 DEF Next
<1>3. SupplyInv => WeiConserved
      BY DEF SupplyInv
<1>. QED BY Invariance, <1>1, <1>2, <1>3, PTL DEF Spec

-----------------------------------------------------------------------------
(* A payment, charged up front and refunded after it, is a payment and then  *)
(* the fee for the intrinsic gas.                                            *)
LEMMA PaymentExact ==
    ASSUME NEW w, IsWorld(w), NEW t \in Txs, validate_transaction(w, t) = "valid",
           NEW after,
           LET gas_refund == gas_for_execution(t) * t.gas_price
               moved == transfer(Charge(w, t), t.sender, t.to, t.value)
           IN  after = IF gas_refund > 0 THEN add_balance(moved, t.sender, gas_refund) ELSE moved
    PROVE  LET fee == calculate_intrinsic_gas(t) * t.gas_price IN
           after = increment_nonce(
                      deduct_balance(transfer(w, t.sender, t.to, t.value), t.sender, fee),
                      t.sender)
<1>. DEFINE s == t.sender
            refund == gas_for_execution(t) * t.gas_price
            upfront == upfront_gas_cost(t)
            fee == calculate_intrinsic_gas(t) * t.gas_price
            charged == Charge(w, t)
            moved == transfer(charged, s, t.to, t.value)
            refunded == add_balance(moved, s, refund)
            paid == transfer(w, s, t.to, t.value)
            charged2 == deduct_balance(paid, s, fee)
            expected == increment_nonce(charged2, s)
<1>1. /\ refund \in Nat /\ upfront \in Nat /\ fee \in Nat
      /\ upfront - refund = fee
      /\ t.value \in Nat
  <2>1. /\ t.gas \in Nat /\ t.gas_price \in Nat /\ t.value \in Nat
        /\ calculate_intrinsic_gas(t) \in Nat /\ upfront_gas_cost(t) \in Nat
        BY TxType
  <2>2. gas_for_execution(t) \in Nat /\ gas_for_execution(t) <= t.gas
        BY ValidTx
  <2>3. calculate_intrinsic_gas(t) = t.gas - gas_for_execution(t)
        BY <2>1, <2>2 DEF gas_for_execution
  <2>4. upfront_gas_cost(t) = t.gas * t.gas_price
        BY DEF upfront_gas_cost
  <2>. QED BY <2>1, <2>2, <2>3, <2>4, FeeIsDifference
<1>2. get_account(w, s).balance >= t.value + upfront
      BY ValidTx
<1>3. /\ after = IF refund > 0 THEN refunded ELSE moved
      OBVIOUS
<1>4. /\ IsWorld(charged)
      /\ \A x : x \in DOMAIN charged <=> x \in DOMAIN w \/ x = s
      /\ get_account(charged, s).nonce = get_account(w, s).nonce + 1
      /\ \A b : b # s => get_account(charged, b).nonce = get_account(w, b).nonce
      /\ get_account(charged, s).balance = get_account(w, s).balance - upfront
      /\ \A b : b # s => get_account(charged, b).balance = get_account(w, b).balance
      /\ \A b : get_account(charged, b).code = get_account(w, b).code
      /\ \A b : get_account(charged, b).storage = get_account(w, b).storage
      /\ can_deduct(charged, s, t.value)
      BY ChargeWorld
<1>5. \A b : get_account(w, b).balance \in Nat /\ get_account(w, b).nonce \in Nat
      BY GetType
<1>. HIDE DEF refund, upfront, fee, charged
<1>6. /\ IsWorld(moved)
      /\ \A x : x \in DOMAIN moved
                  <=> x \in DOMAIN charged \/ (t.value # 0 /\ (x = s \/ x = t.to))
      /\ s = t.to => \A b : get_account(moved, b).balance = get_account(charged, b).balance
      /\ s # t.to =>
            /\ get_account(moved, s).balance = get_account(charged, s).balance - t.value
            /\ get_account(moved, t.to).balance = get_account(charged, t.to).balance + t.value
      /\ \A b : b # s /\ b # t.to =>
            get_account(moved, b).balance = get_account(charged, b).balance
      /\ \A b : get_account(moved, b).nonce = get_account(charged, b).nonce
      /\ \A b : get_account(moved, b).code = get_account(charged, b).code
      /\ \A b : get_account(moved, b).storage = get_account(charged, b).storage
      BY <1>1, <1>4, TransferExact
<1>7. can_deduct(w, s, t.value)
      BY <1>1, <1>2, <1>5 DEF can_deduct
<1>8. /\ IsWorld(paid)
      /\ \A x : x \in DOMAIN paid <=> x \in DOMAIN w \/ (t.value # 0 /\ (x = s \/ x = t.to))
      /\ s = t.to => \A b : get_account(paid, b).balance = get_account(w, b).balance
      /\ s # t.to =>
            /\ get_account(paid, s).balance = get_account(w, s).balance - t.value
            /\ get_account(paid, t.to).balance = get_account(w, t.to).balance + t.value
      /\ \A b : b # s /\ b # t.to => get_account(paid, b).balance = get_account(w, b).balance
      /\ \A b : get_account(paid, b).nonce = get_account(w, b).nonce
      /\ \A b : get_account(paid, b).code = get_account(w, b).code
      /\ \A b : get_account(paid, b).storage = get_account(w, b).storage
      BY <1>1, <1>7, TransferExact
<1>. HIDE DEF moved, paid
<1>9. /\ IsWorld(refunded)
      /\ \A x : x \in DOMAIN refunded <=> x \in DOMAIN moved \/ x = s
      /\ get_account(refunded, s).balance = get_account(moved, s).balance + refund
      /\ \A b : b # s => get_account(refunded, b).balance = get_account(moved, b).balance
      /\ \A b : get_account(refunded, b).nonce = get_account(moved, b).nonce
      /\ \A b : get_account(refunded, b).code = get_account(moved, b).code
      /\ \A b : get_account(refunded, b).storage = get_account(moved, b).storage
      BY <1>1, <1>6, AddBalance
<1>10. can_deduct(paid, s, fee)
  <2>1. get_account(paid, s).balance >= get_account(w, s).balance - t.value
        BY <1>1, <1>5, <1>8
  <2>2. get_account(paid, s).balance \in Nat
        BY <1>8, GetType
  <2>. QED BY <1>1, <1>2, <1>5, <2>1, <2>2 DEF can_deduct
<1>11. /\ IsWorld(charged2)
       /\ \A x : x \in DOMAIN charged2 <=> x \in DOMAIN paid \/ x = s
       /\ get_account(charged2, s).balance = get_account(paid, s).balance - fee
       /\ \A b : b # s => get_account(charged2, b).balance = get_account(paid, b).balance
       /\ \A b : get_account(charged2, b).nonce = get_account(paid, b).nonce
       /\ \A b : get_account(charged2, b).code = get_account(paid, b).code
       /\ \A b : get_account(charged2, b).storage = get_account(paid, b).storage
       BY <1>1, <1>8, <1>10, DeductBalance
<1>. HIDE DEF refunded, charged2
<1>12. /\ IsWorld(expected)
       /\ \A x : x \in DOMAIN expected <=> x \in DOMAIN charged2 \/ x = s
       /\ get_account(expected, s).nonce = get_account(charged2, s).nonce + 1
       /\ \A b : b # s => get_account(expected, b).nonce = get_account(charged2, b).nonce
       /\ \A b : get_account(expected, b).balance = get_account(charged2, b).balance
       /\ \A b : get_account(expected, b).code = get_account(charged2, b).code
       /\ \A b : get_account(expected, b).storage = get_account(charged2, b).storage
       BY <1>11, IncrementNonce
<1>. HIDE DEF expected, s
<1>13. /\ IsWorld(after)
       /\ \A x : x \in DOMAIN after <=> x \in DOMAIN moved \/ x = s
       /\ \A b : get_account(after, b).nonce = get_account(moved, b).nonce
       /\ \A b : get_account(after, b).code = get_account(moved, b).code
       /\ \A b : get_account(after, b).storage = get_account(moved, b).storage
  <2>1. CASE refund > 0
        BY <1>3, <1>9, <2>1
  <2>2. CASE ~(refund > 0)
        BY <1>3, <1>4, <1>6, <2>2
  <2>. QED BY <2>1, <2>2
<1>14. /\ get_account(after, s).balance = get_account(moved, s).balance + refund
       /\ \A b : b # s => get_account(after, b).balance = get_account(moved, b).balance
  <2>0. get_account(moved, s).balance \in Nat
        BY <1>6, GetType
  <2>1. CASE refund > 0
        BY <1>3, <1>9, <2>1
  <2>2. CASE ~(refund > 0)
        BY <1>1, <1>3, <2>0, <2>2
  <2>. QED BY <2>1, <2>2
<1>15. \A x : x \in DOMAIN after <=> x \in DOMAIN expected
       BY <1>4, <1>6, <1>8, <1>11, <1>12, <1>13
<1>16. \A b : get_account(after, b).nonce = get_account(expected, b).nonce
       BY <1>4, <1>6, <1>8, <1>11, <1>12, <1>13
<1>17. \A b : /\ get_account(after, b).code = get_account(expected, b).code
              /\ get_account(after, b).storage = get_account(expected, b).storage
       BY <1>4, <1>6, <1>8, <1>11, <1>12, <1>13
<1>18. get_account(after, s).balance = get_account(expected, s).balance
       BY <1>1, <1>4, <1>5, <1>6, <1>8, <1>11, <1>12, <1>14
<1>19. \A b : b # s => get_account(after, b).balance = get_account(expected, b).balance
       BY <1>4, <1>5, <1>6, <1>8, <1>11, <1>12, <1>14
<1>20. after = expected
       BY <1>12, <1>13, <1>15, <1>16, <1>17, <1>18, <1>19, SameWorld
<1>. QED BY <1>20 DEF expected, charged2, paid, fee, s

-----------------------------------------------------------------------------
(* What a transaction has done so far, between the world it began in and the *)
(* current one: everything Ledger asks of it when it ends, and of every      *)
(* address, with an account or without.                                      *)
Carried(t, old, new) ==
    /\ \A x : x \in DOMAIN old => x \in DOMAIN new
    /\ NoncesKept(old, new)
    /\ get_account(new, t.sender).nonce = get_account(old, t.sender).nonce + 1
    /\ get_account(new, t.sender).balance
         >= get_account(old, t.sender).balance - t.value - upfront_gas_cost(t)
    /\ \A e \in Eoas \ {t.sender} :
          /\ get_account(new, e).nonce = get_account(old, e).nonce
          /\ get_account(new, e).balance >= get_account(old, e).balance
    /\ \A a : get_account(old, a).code # NoCode
                => get_account(new, a).code = get_account(old, a).code
    /\ \A a : (get_account(new, a).code # NoCode /\ get_account(old, a).code = NoCode)
                => AheadOfNonce(old, a) /\ ~AheadOfNonce(new, a)

(* Of the keys' nonces, t used up one: its sender's next.                    *)
OneNonce(t, old, new) ==
    /\ get_account(new, t.sender).nonce = get_account(old, t.sender).nonce + 1
    /\ \A e \in Eoas \ {t.sender} : get_account(new, e).nonce = get_account(old, e).nonce

LedgerInv ==
    tx # NoTx =>
        /\ tx.to = NoTo \/ get_account(snapshot, tx.to).code # NoCode
        /\ Carried(tx, snapshot, accounts)

(* That is what Ledger asks.                                                 *)
LEMMA CarriedExecuted ==
    ASSUME NEW t \in Txs, NEW old, NEW new, Carried(t, old, new)
    PROVE  TheLedger!Executed(t, old, new)
<1>1. TheLedger!SenderPays(t, old, new)
      BY LedgerOperators DEF Carried, TheLedger!SenderPays
<1>2. TheLedger!OthersKeep(t, old, new)
      BY LedgerOperators DEF Carried, TheLedger!OthersKeep
<1>3. TheLedger!AccountsGrow(old, new)
  <2>. SUFFICES ASSUME NEW a \in DOMAIN old
                PROVE  /\ a \in DOMAIN new
                       /\ new[a].nonce >= old[a].nonce
                       /\ old[a].code # NoCode => new[a].code = old[a].code
       BY DEF TheLedger!AccountsGrow
  <2>1. a \in DOMAIN new
        BY DEF Carried
  <2>2. old[a] = get_account(old, a) /\ new[a] = get_account(new, a)
        BY <2>1 DEF get_account
  <2>. QED BY <2>1, <2>2 DEF Carried, NoncesKept
<1>4. TheLedger!CodeByCreation(old, new)
  <2>. SUFFICES ASSUME NEW a \in DOMAIN new, new[a].code # NoCode,
                       get_account(old, a).code = NoCode
                PROVE  AheadOfNonce(old, a) /\ ~AheadOfNonce(new, a)
       BY LedgerOperators DEF TheLedger!CodeByCreation
  <2>1. new[a] = get_account(new, a)
        BY DEF get_account
  <2>. QED BY <2>1 DEF Carried
<1>. QED BY <1>1, <1>2, <1>3, <1>4 DEF TheLedger!Executed

(* It is so when a transaction begins: charged, and its value moved.         *)
LEMMA CarriedAtFirst ==
    ASSUME NEW w, IsWorld(w), NEW t \in Txs, validate_transaction(w, t) = "valid",
           NEW v, Acts(Charge(w, t), v, t.sender), SameCode(Charge(w, t), v),
           get_account(v, t.sender).nonce = get_account(Charge(w, t), t.sender).nonce,
           get_account(v, t.sender).balance
             >= get_account(Charge(w, t), t.sender).balance - t.value
    PROVE  Carried(t, w, v)
<1>. DEFINE c == Charge(w, t)
<1>1. /\ IsWorld(c)
      /\ get_account(c, t.sender).nonce = get_account(w, t.sender).nonce + 1
      /\ get_account(c, t.sender).balance = get_account(w, t.sender).balance - upfront_gas_cost(t)
      /\ \A b : get_account(c, b).code = get_account(w, b).code
      BY ChargeWorld
<1>2. Acts(w, c, t.sender)
      BY ChargeActs
<1>3. /\ Acts(c, v, t.sender) /\ SameCode(c, v)
      /\ get_account(v, t.sender).nonce = get_account(c, t.sender).nonce
      /\ get_account(v, t.sender).balance >= get_account(c, t.sender).balance - t.value
      OBVIOUS
<1>. HIDE DEF c
<1>4. Acts(w, v, t.sender)
      BY <1>2, <1>3, ActsTwice
<1>5. IsWorld(v)
      BY <1>4 DEF Acts
<1>6. /\ get_account(w, t.sender).balance \in Nat /\ get_account(v, t.sender).balance \in Nat
      /\ t.value \in Nat /\ upfront_gas_cost(t) \in Nat
      BY <1>5, GetType, TxType
<1>7. get_account(v, t.sender).balance
        >= get_account(w, t.sender).balance - t.value - upfront_gas_cost(t)
      BY <1>1, <1>3, <1>6
<1>8. \A b : get_account(v, b).code = get_account(w, b).code
      BY <1>1, <1>3 DEF SameCode
<1>. QED BY <1>1, <1>3, <1>4, <1>7, <1>8 DEF Carried, Acts

(* It stays so when a contract acts that is not ahead of its creator's nonce *)
(* and that gets code only if this transaction creates it.                   *)
LEMMA CarriedOn ==
    ASSUME NEW t \in Txs, t.sender \in Eoas,
           NEW old, IsWorld(old), NEW w, IsWorld(w), Carried(t, old, w),
           NEW v, NEW s, Acts(w, v, s), s \notin Eoas, ~AheadOfNonce(w, s),
           \/ SameCode(w, v)
           \/ get_account(w, s).code = NoCode /\ AheadOfNonce(old, s)
    PROVE  Carried(t, old, v)
<1>1. IsWorld(v) /\ NoncesKept(w, v) /\ NoncesKept(old, w)
      BY DEF Acts, Carried
<1>2. NoncesKept(old, v)
      BY <1>1, KeptTransitive
<1>3. \A x : x \in DOMAIN old => x \in DOMAIN v
      BY DEF Acts, Carried
<1>4. \A e \in Eoas :
          /\ get_account(v, e).nonce = get_account(w, e).nonce
          /\ get_account(v, e).balance >= get_account(w, e).balance
      BY DEF Acts
<1>5. \A a : /\ get_account(old, a).balance \in Nat /\ get_account(w, a).balance \in Nat
             /\ get_account(v, a).balance \in Nat
      BY <1>1, GetType
<1>6. /\ get_account(v, t.sender).nonce = get_account(old, t.sender).nonce + 1
      /\ get_account(v, t.sender).balance
           >= get_account(old, t.sender).balance - t.value - upfront_gas_cost(t)
  <2>1. t.value \in Nat /\ upfront_gas_cost(t) \in Nat
        BY TxType
  <2>. QED BY <1>4, <1>5, <2>1 DEF Carried
<1>7. \A e \in Eoas \ {t.sender} :
          /\ get_account(v, e).nonce = get_account(old, e).nonce
          /\ get_account(v, e).balance >= get_account(old, e).balance
      BY <1>4, <1>5 DEF Carried
<1>8. ASSUME NEW a, get_account(old, a).code # NoCode
      PROVE  get_account(v, a).code = get_account(old, a).code
  <2>1. get_account(w, a).code = get_account(old, a).code
        BY <1>8 DEF Carried
  <2>2. SameCode(w, v) \/ a # s
        BY <1>8, <2>1
  <2>. QED BY <2>1, <2>2 DEF SameCode, Acts
<1>9. ASSUME NEW a, get_account(v, a).code # NoCode, get_account(old, a).code = NoCode
      PROVE  AheadOfNonce(old, a) /\ ~AheadOfNonce(v, a)
  <2>1. CASE get_account(w, a).code # NoCode
    <3>1. AheadOfNonce(old, a) /\ ~AheadOfNonce(w, a)
          BY <1>9, <2>1 DEF Carried
    <3>. QED BY <1>1, <3>1, AheadShrinks
  <2>2. CASE get_account(w, a).code = NoCode
    <3>1. a = s /\ ~SameCode(w, v)
          BY <1>9, <2>2 DEF Acts, SameCode
    <3>. QED BY <1>1, <3>1, AheadShrinks
  <2>. QED BY <2>1, <2>2
<1>. QED BY <1>2, <1>3, <1>6, <1>7, <1>8, <1>9 DEF Carried

(* ... and when the sender is refunded.                                      *)
LEMMA CarriedRefund ==
    ASSUME NEW t \in Txs, NEW old, IsWorld(old), NEW w, IsWorld(w), Carried(t, old, w),
           NEW refund \in Nat
    PROVE  Carried(t, old, add_balance(w, t.sender, refund))
<1>. DEFINE v == add_balance(w, t.sender, refund)
<1>1. /\ IsWorld(v)
      /\ \A x : x \in DOMAIN v <=> x \in DOMAIN w \/ x = t.sender
      /\ get_account(v, t.sender).balance = get_account(w, t.sender).balance + refund
      /\ \A b : b # t.sender => get_account(v, b).balance = get_account(w, b).balance
      /\ \A b : get_account(v, b).nonce = get_account(w, b).nonce
      /\ \A b : get_account(v, b).code = get_account(w, b).code
      BY AddBalance
<1>2. /\ get_account(old, t.sender).balance \in Nat /\ get_account(w, t.sender).balance \in Nat
      /\ t.value \in Nat /\ upfront_gas_cost(t) \in Nat
      BY GetType, TxType
<1>. HIDE DEF v
<1>3. get_account(v, t.sender).balance
        >= get_account(old, t.sender).balance - t.value - upfront_gas_cost(t)
      BY <1>1, <1>2 DEF Carried
<1>4. NoncesKept(old, v)
      BY <1>1 DEF Carried, NoncesKept
<1>5. \A a : AheadOfNonce(v, a) <=> AheadOfNonce(w, a)
      BY <1>1 DEF AheadOfNonce
<1>6. /\ \A a : get_account(old, a).code # NoCode
                  => get_account(v, a).code = get_account(old, a).code
      /\ \A a : (get_account(v, a).code # NoCode /\ get_account(old, a).code = NoCode)
                  => AheadOfNonce(old, a) /\ ~AheadOfNonce(v, a)
      BY <1>1, <1>5 DEF Carried
<1>7. \A e \in Eoas \ {t.sender} :
          /\ get_account(v, e).nonce = get_account(old, e).nonce
          /\ get_account(v, e).balance >= get_account(old, e).balance
      BY <1>1 DEF Carried
<1>8. Carried(t, old, v)
      BY <1>1, <1>3, <1>4, <1>6, <1>7 DEF Carried
<1>. QED BY <1>8 DEF v

-----------------------------------------------------------------------------
(* The steps, each with what Ledger sees of it. Until apply_transaction      *)
(* returns, the ledger is the snapshot.                                      *)

Seen == <<Settled, result.outcome>>

(* A step inside a transaction.                                              *)
LEMMA LedgerStay ==
    ASSUME TypeInv, CreationInv, LedgerInv, Running, StayInTransaction,
           Acts(accounts, accounts', Self),
           SameCode(accounts, accounts') \/ Top.kind = "create"
    PROVE  LedgerInv' /\ UNCHANGED Seen /\ tx' # NoTx
<1>1. tx' = tx /\ snapshot' = snapshot /\ result' = result
      BY DEF StayInTransaction
<1>2. /\ IsWorld(accounts) /\ IsWorld(snapshot) /\ tx \in Txs /\ tx # NoTx
      /\ validate_transaction(snapshot, tx) = "valid"
      BY RunningFrame DEF TypeInv, TypeOK, BegunValid
<1>3. tx.sender \in Eoas
      BY <1>2, ValidTx
<1>4. /\ Self \notin Eoas /\ ~AheadOfNonce(accounts, Self)
      /\ Top.kind = "create" => /\ get_account(accounts, Self).code = NoCode
                                /\ AheadOfNonce(snapshot, Self)
      BY TopPlaced DEF Placed, Self
<1>5. Carried(tx, snapshot, accounts')
      BY <1>2, <1>3, <1>4, CarriedOn DEF LedgerInv
<1>. QED BY <1>1, <1>2, <1>5 DEF LedgerInv, Seen, Settled

(* A transaction was valid in the world it began in, for Ledger as well.     *)
LEMMA LedgerValid ==
    ASSUME TypeInv, NEW t \in Txs, validate_transaction(Settled, t) = "valid"
    PROVE  TheLedger!Valid(t)
<1>1. IsWorld(Settled)
      BY DEF TypeInv, TypeOK, Settled
<1>2. /\ t.sender \in Eoas
      /\ get_account(Settled, t.sender).nonce = t.nonce
      /\ get_account(Settled, t.sender).balance >= t.value + upfront_gas_cost(t)
      BY <1>1, ValidTx
<1>. QED BY <1>2, LedgerOperators DEF TheLedger!Valid, Settled, can_deduct

(* A transaction fails: nonce and fee are all that is left of it.            *)
LEMMA LedgerFail ==
    ASSUME TypeInv, tx # NoTx, FailTransaction
    PROVE  TheLedger!Fail(tx) /\ OneNonce(tx, snapshot, accounts')
<1>1. /\ tx \in Txs /\ Settled = snapshot
      /\ validate_transaction(Settled, tx) = "valid"
      BY DEF TypeInv, TypeOK, BegunValid, Settled
<1>2. /\ tx' = NoTx /\ accounts' = Charge(snapshot, tx)
      /\ result'.outcome = "failure"
      BY DEF FailTransaction, Finish, Outcome
<1>3. TheLedger!Valid(tx)
      BY <1>1, LedgerValid
<1>4. TheLedger!Fail(tx)
      BY <1>2, <1>3, LedgerOperators DEF TheLedger!Fail, Charge
<1>5. IsWorld(snapshot)
      BY DEF TypeInv, TypeOK
<1>6. OneNonce(tx, snapshot, accounts')
      BY <1>1, <1>2, <1>5, ChargeWorld DEF OneNonce
<1>. QED BY <1>4, <1>6

(* A payment.                                                                *)
LEMMA LedgerPay ==
    ASSUME TypeInv, NEW t \in Txs, ExecuteValueTransfer(t)
    PROVE  TheLedger!Pay(t)
<1>. DEFINE moved == transfer(Charge(accounts, t), t.sender, t.to, t.value)
            gas_refund == gas_for_execution(t) * t.gas_price
            fee == calculate_intrinsic_gas(t) * t.gas_price
<1>1. /\ tx = NoTx /\ validate_transaction(accounts, t) = "valid"
      /\ t.to # NoTo /\ get_account(accounts, t.to).code = NoCode
      /\ Succeed(t, moved, gas_for_execution(t), NoAddress)
      BY DEF ExecuteValueTransfer, Accepted
<1>2. /\ accounts' = IF gas_refund > 0 THEN add_balance(moved, t.sender, gas_refund) ELSE moved
      /\ result'.outcome = "success" /\ tx' = NoTx
      BY <1>1 DEF Succeed, Outcome, Finish
<1>3. Settled = accounts /\ IsWorld(accounts)
      BY <1>1 DEF Settled, TypeInv, TypeOK
<1>4. TheLedger!Valid(t)
      BY <1>1, <1>3, LedgerValid
<1>5. accounts' = increment_nonce(
                     deduct_balance(transfer(accounts, t.sender, t.to, t.value), t.sender, fee),
                     t.sender)
      BY <1>1, <1>2, <1>3, PaymentExact
<1>. HIDE DEF moved, gas_refund
<1>. QED BY <1>1, <1>2, <1>4, <1>5, LedgerOperators DEF TheLedger!Pay

(* A transaction whose outermost frame returned: a run of a program.         *)
LEMMA LedgerRun ==
    ASSUME TypeInv, CreationInv, LedgerInv, Running, CreationInv',
           NEW w, IsWorld(w), Carried(tx, snapshot, w),
           NEW gas_remaining \in Nat, NEW address, Succeed(tx, w, gas_remaining, address)
    PROVE  TheLedger!Run(tx) /\ OneNonce(tx, snapshot, accounts')
<1>1. /\ tx \in Txs /\ tx # NoTx /\ Settled = snapshot /\ IsWorld(snapshot)
      /\ validate_transaction(Settled, tx) = "valid"
      BY RunningFrame DEF TypeInv, TypeOK, BegunValid, Settled
<1>. DEFINE gas_refund == gas_remaining * tx.gas_price
<1>2. /\ accounts' = w \/ accounts' = add_balance(w, tx.sender, gas_refund)
      /\ result'.outcome = "success" /\ tx' = NoTx
      BY DEF Succeed, Outcome, Finish
<1>3. gas_refund \in Nat
  <2>1. \A m, n \in Nat : m * n \in Nat
        OBVIOUS
  <2>. QED BY <1>1, <2>1, TxType
<1>. HIDE DEF gas_refund
<1>4. Carried(tx, snapshot, accounts')
      BY <1>1, <1>2, <1>3, CarriedRefund
<1>5. TheLedger!Executed(tx, snapshot, accounts')
      BY <1>1, <1>4, CarriedExecuted
<1>6. EoasPlain(accounts') /\ CreationsAhead(accounts')
      BY DEF CreationInv, Sound
<1>7. tx.to = NoTo \/ get_account(snapshot, tx.to).code # NoCode
      BY <1>1 DEF LedgerInv
<1>8. TheLedger!Valid(tx)
      BY <1>1, LedgerValid
<1>9. TheLedger!Run(tx)
      BY <1>1, <1>2, <1>5, <1>6, <1>7, <1>8, LedgerOperators DEF TheLedger!Run
<1>10. OneNonce(tx, snapshot, accounts')
       BY <1>4 DEF Carried, OneNonce
<1>. QED BY <1>9, <1>10

(* A transaction ends with a failure.                                        *)
LEMMA FailSeen ==
    ASSUME TypeInv, tx # NoTx, FailTransaction
    PROVE  LedgerInv' /\ TheLedger!Next /\ OneNonce(tx, snapshot, accounts')
<1>1. tx' = NoTx /\ tx \in Txs
      BY DEF FailTransaction, Finish, TypeInv, TypeOK
<1>2. TheLedger!Fail(tx) /\ OneNonce(tx, snapshot, accounts')
      BY LedgerFail
<1>. QED BY <1>1, <1>2 DEF LedgerInv, TheLedger!Next

(* A frame fails.                                                            *)
LEMMA FailFrameSeen ==
    ASSUME TypeInv, CreationInv, LedgerInv, Running, NEW gas_used, FailFrame(gas_used)
    PROVE  /\ LedgerInv' /\ (TheLedger!Next \/ UNCHANGED Seen)
           /\ tx' = NoTx => OneNonce(tx, snapshot, accounts')
<1>1. CASE Depth = 1
      BY <1>1, RunningFrame, FailSeen DEF FailFrame
<1>2. CASE Depth # 1
  <2>1. accounts' = accounts /\ StayInTransaction /\ IsWorld(accounts)
        BY <1>2, RunningFrame DEF FailFrame, Resume
  <2>2. Acts(accounts, accounts', Self) /\ SameCode(accounts, accounts')
        BY <2>1, ActsNot
  <2>. QED BY <2>1, <2>2, LedgerStay
<1>. QED BY <1>1, <1>2

(* A frame returns.                                                          *)
LEMMA ReturnSeen ==
    ASSUME TypeInv, CreationInv, CreationInv', LedgerInv, Return
    PROVE  /\ LedgerInv' /\ (TheLedger!Next \/ UNCHANGED Seen)
           /\ tx' = NoTx => OneNonce(tx, snapshot, accounts')
<1>1. PICK code \in Codes \cup {NoCode} :
        /\ Running
        /\ IF Depth = 1
           THEN Succeed(tx, Committed(code), Top.gas,
                        IF Top.kind = "create" THEN Self ELSE NoAddress)
           ELSE accounts' = Committed(code) /\ Resume(Top.limit - Top.gas)
      BY DEF Return
<1>. DEFINE w == Committed(code)
<1>2. /\ Acts(accounts, w, Self) /\ IsWorld(w)
      /\ SameCode(accounts, w) \/ Top.kind = "create"
      BY <1>1, CommittedActs, RunningFrame DEF Acts
<1>. HIDE DEF w
<1>3. /\ IsWorld(accounts) /\ IsWorld(snapshot) /\ tx \in Txs /\ tx # NoTx /\ Top.gas \in Nat
      /\ validate_transaction(snapshot, tx) = "valid"
      BY <1>1, RunningFrame DEF TypeInv, TypeOK, BegunValid
<1>4. CASE Depth = 1
  <2>. DEFINE address == IF Top.kind = "create" THEN Self ELSE NoAddress
  <2>1. Succeed(tx, w, Top.gas, address)
        BY <1>1, <1>4 DEF w
  <2>. HIDE DEF address
  <2>2. tx.sender \in Eoas
        BY <1>3, ValidTx
  <2>3. /\ Self \notin Eoas /\ ~AheadOfNonce(accounts, Self)
        /\ Top.kind = "create" => /\ get_account(accounts, Self).code = NoCode
                                  /\ AheadOfNonce(snapshot, Self)
        BY <1>1, TopPlaced DEF Placed, Self
  <2>4. Carried(tx, snapshot, w)
        BY <1>2, <1>3, <2>2, <2>3, CarriedOn DEF LedgerInv
  <2>5. TheLedger!Run(tx) /\ OneNonce(tx, snapshot, accounts')
        BY <1>1, <1>2, <1>3, <2>1, <2>4, LedgerRun
  <2>6. tx' = NoTx
        BY <2>1 DEF Succeed, Finish
  <2>. QED BY <1>3, <2>5, <2>6 DEF LedgerInv, TheLedger!Next
<1>5. CASE Depth # 1
  <2>1. accounts' = w /\ StayInTransaction
        BY <1>1, <1>5 DEF w, Resume
  <2>. QED BY <1>1, <1>2, <2>1, LedgerStay
<1>. QED BY <1>4, <1>5

(* Every step of a transaction.                                              *)
LEMMA StepSeen ==
    ASSUME TypeInv, CreationInv, CreationInv', LedgerInv, Step
    PROVE  /\ LedgerInv' /\ (TheLedger!Next \/ UNCHANGED Seen)
           /\ tx' = NoTx => OneNonce(tx, snapshot, accounts')
<1>1. CASE Compute \/ Sstore \/ CallUnfunded \/ CallWithoutCode \/ CallContract
      BY <1>1, OpcodeActs, LedgerStay
<1>2. CASE CreateUnfunded \/ CreateContract
      BY <1>2, NumberingActs, LedgerStay
<1>3. CASE Return
      BY <1>3, ReturnSeen
<1>4. CASE Revert
      BY <1>4, FailFrameSeen DEF Revert
<1>5. CASE Invalid
      BY <1>5, FailFrameSeen DEF Invalid
<1>6. CASE OutOfGas
      BY <1>6, FailFrameSeen DEF OutOfGas
<1>7. CASE Abort
  <2>1. Running /\ FailTransaction
        BY <1>7 DEF Abort
  <2>. QED BY <2>1, RunningFrame, FailSeen
<1>. QED BY <1>1, <1>2, <1>3, <1>4, <1>5, <1>6, <1>7 DEF Step

(* A transaction begins: for Ledger, nothing has happened yet.               *)
LEMMA BeginSeen ==
    ASSUME TypeInv, tx = NoTx, NEW t \in Txs, NEW w, NEW f, Begin(t, w, f),
           t.to = NoTo \/ get_account(accounts, t.to).code # NoCode,
           Carried(t, accounts, w)
    PROVE  LedgerInv' /\ TheLedger!Next
<1>1. /\ tx' = t /\ snapshot' = accounts /\ accounts' = w
      /\ result'.outcome = "none" /\ t # NoTx
      BY TxType DEF Begin, NoResult, Outcome
<1>2. TheLedger!Begin
      BY <1>1 DEF TheLedger!Begin
<1>. QED BY <1>1, <1>2 DEF LedgerInv, TheLedger!Next

(* A submitted transaction.                                                  *)
LEMMA SubmitSeen ==
    ASSUME TypeInv, LedgerInv, NEW t \in Txs,
           \/ Reject(t)
           \/ ExecuteValueTransfer(t)
           \/ ExecuteContractCall(t)
           \/ ExecuteCreate(t)
    PROVE  LedgerInv' /\ (TheLedger!Next \/ UNCHANGED Seen)
<1>. DEFINE charged == Charge(accounts, t)
            moved == transfer(charged, t.sender, t.to, t.value)
<1>0. IsWorld(accounts)
      BY DEF TypeInv, TypeOK
<1>1. ASSUME Accepted(t)
      PROVE  /\ tx = NoTx /\ validate_transaction(accounts, t) = "valid"
             /\ t.value \in Nat /\ IsWorld(charged) /\ can_deduct(charged, t.sender, t.value)
      BY <1>0, <1>1, TxType, ChargeWorld DEF Accepted
<1>2. CASE Reject(t)
  <2>1. /\ tx' = tx /\ tx = NoTx /\ accounts' = accounts /\ snapshot' = snapshot
        /\ result'.outcome = validate_transaction(accounts, t)
        /\ validate_transaction(accounts, t) # "valid"
        BY <1>2 DEF Reject, Outcome
  <2>2. result'.outcome \in Rejections
        BY <2>1 DEF validate_transaction, Rejections
  <2>3. TheLedger!Refuse
        BY <2>1, <2>2 DEF TheLedger!Refuse
  <2>. QED BY <2>1, <2>3 DEF LedgerInv, TheLedger!Next
<1>3. CASE ExecuteValueTransfer(t)
  <2>1. TheLedger!Pay(t)
        BY <1>3, LedgerPay
  <2>2. tx' = NoTx
        BY <1>3 DEF ExecuteValueTransfer, Succeed, Finish
  <2>. QED BY <2>1, <2>2 DEF LedgerInv, TheLedger!Next
<1>4. CASE ExecuteContractCall(t)
  <2>. DEFINE f == Frame("call", t.to, get_account(accounts, t.to).storage, gas_for_execution(t))
  <2>1. Accepted(t) /\ Begin(t, moved, f) /\ get_account(accounts, t.to).code # NoCode
        BY <1>4 DEF ExecuteContractCall
  <2>. HIDE DEF f
  <2>2. /\ Acts(charged, moved, t.sender) /\ SameCode(charged, moved)
        /\ get_account(moved, t.sender).nonce = get_account(charged, t.sender).nonce
        /\ get_account(moved, t.sender).balance >= get_account(charged, t.sender).balance - t.value
    <3>. HIDE DEF charged
    <3>. QED BY <1>1, <2>1, TransferActs, Transfer
  <2>. HIDE DEF moved
  <2>3. Carried(t, accounts, moved)
        BY <1>0, <1>1, <2>1, <2>2, CarriedAtFirst
  <2>. QED BY <1>1, <2>1, <2>3, BeginSeen
<1>5. CASE ExecuteCreate(t)
  <2>. DEFINE a == compute_contract_address(t.sender, t.nonce)
              w == transfer(add_balance(charged, a, 0), t.sender, a, t.value)
              f == Frame("create", a, EmptyStorage, gas_for_execution(t))
  <2>1. Accepted(t) /\ t.to = NoTo /\ Begin(t, w, f)
        BY <1>5 DEF ExecuteCreate
  <2>. HIDE DEF a, f
  <2>2. /\ Acts(charged, w, t.sender) /\ SameCode(charged, w)
        /\ get_account(w, t.sender).nonce = get_account(charged, t.sender).nonce
        /\ get_account(w, t.sender).balance >= get_account(charged, t.sender).balance - t.value
    <3>. HIDE DEF charged
    <3>. QED BY <1>1, <2>1, CreateActs, CreateWorld
  <2>. HIDE DEF w
  <2>3. Carried(t, accounts, w)
        BY <1>0, <1>1, <2>1, <2>2, CarriedAtFirst
  <2>. QED BY <1>1, <2>1, <2>3, BeginSeen
<1>. QED BY <1>2, <1>3, <1>4, <1>5

(* apply_transaction, with its frames, its gas, its snapshot and everything  *)
(* a program may do on the way, implements Ledger: a transaction happens at  *)
(* once or not at all, a failure leaves no trace but nonce and fee, a        *)
(* payment moves what it says, and no program makes anybody but the sender   *)
(* pay, changes deployed code or puts code where no creation has put it.     *)
THEOREM Atomic == Spec => LedgerSpec
<1>1. Init => TheLedger!Init
      BY DEF Init, TheLedger!Init, NoResult, Outcome
<1>2. Init => LedgerInv
      BY DEF Init, LedgerInv
<1>3. TypeInv /\ CreationInv /\ CreationInv' /\ LedgerInv /\ [Next]_vars
        => LedgerInv' /\ (TheLedger!Next \/ UNCHANGED Seen)
  <2>. SUFFICES ASSUME TypeInv, CreationInv, CreationInv', LedgerInv, [Next]_vars
                PROVE  LedgerInv' /\ (TheLedger!Next \/ UNCHANGED Seen)
       OBVIOUS
  <2>1. CASE Submit
        BY <2>1, SubmitSeen DEF Submit
  <2>2. CASE Step
        BY <2>2, StepSeen
  <2>3. CASE UNCHANGED vars
        BY <2>3 DEF vars, LedgerInv, Seen, Settled
  <2>. QED BY <2>1, <2>2, <2>3 DEF Next
<1>4. (TheLedger!Next \/ UNCHANGED Seen)
        => [TheLedger!Next]_<<IF tx = NoTx THEN accounts ELSE snapshot, result.outcome>>
      BY DEF Seen, Settled
<1>. QED BY <1>1, <1>2, <1>3, <1>4, Invariance, CreationInvariance, PTL
         DEF Spec, LedgerSpec, TheLedger!Spec

-----------------------------------------------------------------------------
(* A world state and a chain that a program keeps together: whatever         *)
(* programs run and whichever transactions fail or are left out of a block,  *)
(* the head commits to the state, and no transaction is in the chain twice   *)
(* or before one of its sender's with a smaller nonce.                       *)

(* Lists of transactions.                                                    *)
IsList(s) == s \in Seq(Range(s))

LEMMA AppendList ==
    ASSUME NEW s, IsList(s), NEW e
    PROVE  /\ IsList(Append(s, e))
           /\ Len(s) \in Nat
           /\ Len(Append(s, e)) = Len(s) + 1
           /\ \A i \in 1..Len(s) : Append(s, e)[i] = s[i]
           /\ Append(s, e)[Len(s) + 1] = e
<1>. DEFINE S == Range(s) \cup {e}
            t == Append(s, e)
<1>1. s \in Seq(S) /\ e \in S
      BY SeqMonotonic DEF IsList
<1>. HIDE DEF S
<1>2. t \in Seq(S)
      BY <1>1
<1>3. IsList(t)
      BY <1>2, SeqOfRange DEF IsList
<1>. QED BY <1>1, <1>3

-----------------------------------------------------------------------------
(* The invariant *)

(* The chain's lists have one length, and the head's hash is cached.         *)
ChainShape ==
    /\ IsList(blocks) /\ IsList(hashes)
    /\ Len(blocks) >= 1 /\ Len(hashes) = Len(blocks)
    /\ hashes[Len(hashes)] = Chain!block_hash(blocks[Len(blocks)])

ListsTyped ==
    /\ pending \in Seq(Txs)
    /\ \A i \in 1..Len(blocks) : blocks[i].transactions \in Seq(Txs)

(* Everything listed was applied.                                            *)
ListedApplied ==
    \A i \in 1..(Len(blocks) + 1) : \A p \in DOMAIN Listed(i) : Listed(i)[p] \in applied

Lists == ListsTyped /\ ListedApplied /\ NoncesIncrease

NodeInv == TypeInv /\ NonceInv /\ ChainShape /\ Lists /\ HeadCommits

-----------------------------------------------------------------------------
(* What a step of apply_transaction lists *)

(* A transaction that is applied comes after everything its sender had       *)
(* applied before it.                                                        *)
LEMMA AppliedBefore ==
    ASSUME NonceInv, applied \subseteq Txs, NEW w, IsWorld(w), NEW t \in Txs,
           validate_transaction(w, t) = "valid", w = Settled
    PROVE  \A u \in applied : u.sender = t.sender => u.nonce < t.nonce
<1>1. \A u \in applied : get_account(w, u.sender).nonce > u.nonce
      BY DEF NonceInv, NoReplay, Settled
<1>2. get_account(w, t.sender).nonce = t.nonce
      BY ValidTx
<1>3. \A u \in applied : u.nonce \in Nat
      BY TxsAssumption
<1>4. t.nonce \in Nat
      BY TxsAssumption
<1>5. ASSUME NEW u \in applied, u.sender = t.sender PROVE u.nonce < t.nonce
  <2>1. t.nonce > u.nonce
        BY <1>1, <1>2, <1>5
  <2>. QED BY <2>1, <1>3, <1>4
<1>. QED BY <1>5

(* It is listed behind all others.                                           *)
LEMMA ListOne ==
    ASSUME ChainShape, Lists, NEW t \in Txs, UNCHANGED blocks,
           pending' = Append(pending, t), applied' = applied \cup {t},
           \A u \in applied : u.sender = t.sender => u.nonce < t.nonce
    PROVE  Lists' /\ pending' # <<>>
<1>. DEFINE last == Len(blocks) + 1
            n == Len(pending) + 1
<1>1. Len(blocks) \in Nat /\ blocks' = blocks /\ pending \in Seq(Txs)
      BY DEF ChainShape, IsList, Lists, ListsTyped
<1>2. /\ pending' \in Seq(Txs) /\ Len(pending) \in Nat
      /\ Len(pending') = n /\ pending'[n] = t
      /\ \A p \in 1..Len(pending) : pending'[p] = pending[p]
      BY <1>1
<1>3. ListsTyped'
      BY <1>1, <1>2 DEF Lists, ListsTyped
<1>4. \A i \in 1..Len(blocks) : Listed(i)' = Listed(i)
      BY <1>1 DEF Listed
<1>5. Listed(last) = pending /\ Listed(last)' = pending'
      BY <1>1 DEF Listed
<1>6. DOMAIN pending = 1..Len(pending) /\ DOMAIN pending' = 1..n
      BY <1>1, <1>2
<1>7. ASSUME NEW i \in 1..last, NEW p \in DOMAIN Listed(i)'
      PROVE  \/ p \in DOMAIN Listed(i) /\ Listed(i)'[p] = Listed(i)[p] /\ Listed(i)[p] \in applied
             \/ i = last /\ p = n /\ Listed(i)'[p] = t
  <2>1. CASE i # last
    <3>1. i \in 1..Len(blocks)
          BY <2>1, <1>1
    <3>. QED BY <3>1, <1>4, <1>7 DEF Lists, ListedApplied
  <2>2. CASE i = last /\ p # n
    <3>1. p \in 1..Len(pending)
          BY <2>2, <1>2, <1>5, <1>6, <1>7
    <3>. QED BY <2>2, <3>1, <1>2, <1>5, <1>6 DEF Lists, ListedApplied
  <2>3. CASE i = last /\ p = n
        BY <2>3, <1>2, <1>5
  <2>. QED BY <2>1, <2>2, <2>3
<1>8. ListedApplied'
      BY <1>1, <1>7 DEF ListedApplied
<1>9. NoncesIncrease'
  <2>. SUFFICES ASSUME NEW i \in 1..last, NEW j \in 1..last,
                       NEW p \in DOMAIN Listed(i)', NEW q \in DOMAIN Listed(j)',
                       i < j \/ (i = j /\ p < q),
                       Listed(i)'[p].sender = Listed(j)'[q].sender
                PROVE  Listed(i)'[p].nonce < Listed(j)'[q].nonce
       BY <1>1, Zenon DEF NoncesIncrease
  <2>1. ~ (i = last /\ p = n)
    <3>1. ASSUME i = last /\ p = n PROVE FALSE
      <4>1. j = last /\ p < q
            BY <3>1, <1>1
      <4>2. q \in 1..n
            BY <4>1, <1>5, <1>6
      <4>. QED BY <3>1, <4>1, <4>2, <1>2
    <3>. QED BY <3>1
  <2>2. p \in DOMAIN Listed(i) /\ Listed(i)'[p] = Listed(i)[p] /\ Listed(i)[p] \in applied
        BY <2>1, <1>7
  <2>3. CASE j = last /\ q = n /\ Listed(j)'[q] = t
        BY <2>2, <2>3
  <2>4. CASE q \in DOMAIN Listed(j) /\ Listed(j)'[q] = Listed(j)[q]
        BY <2>2, <2>4 DEF Lists, NoncesIncrease
  <2>. QED BY <2>3, <2>4, <1>7
<1>. QED BY <1>2, <1>3, <1>8, <1>9 DEF Lists

(* Nothing new to list.                                                      *)
LEMMA ListNothing ==
    ASSUME Lists, UNCHANGED <<blocks, pending, applied>>
    PROVE  Lists'
BY DEF Lists, ListsTyped, ListedApplied, NoncesIncrease, Listed

(* A step of a frame stays in the transaction or ends it.                    *)
LEMMA StepApplies ==
    ASSUME TypeInv, Step
    PROVE  /\ tx \in Txs /\ tx # NoTx
           /\ \/ tx' = tx /\ applied' = applied /\ snapshot' = snapshot
              \/ tx' = NoTx /\ applied' = applied \cup {tx}
<1>1. Running
      BY DEF Step, Compute, Sstore, CallUnfunded, CallWithoutCode, CallContract, CreateUnfunded,
             CreateContract, Return, Revert, Invalid, OutOfGas, Abort, CanPay
<1>2. tx \in Txs /\ tx # NoTx
      BY <1>1, RunningFrame
<1>3. CASE Compute \/ Sstore \/ CallUnfunded \/ CallWithoutCode \/ CallContract
             \/ CreateUnfunded \/ CreateContract
      BY <1>3, <1>2 DEF Compute, Sstore, CallUnfunded, CallWithoutCode, CallContract,
             CreateUnfunded, CreateContract, Enter, StayInTransaction
<1>4. CASE Return
      BY <1>4, <1>2 DEF Return, Succeed, Finish, Resume, StayInTransaction
<1>5. CASE Revert \/ Invalid \/ OutOfGas \/ Abort
      BY <1>5, <1>2 DEF Revert, Invalid, OutOfGas, Abort, FailFrame, FailTransaction, Finish,
             Resume, StayInTransaction
<1>. QED BY <1>2, <1>3, <1>4, <1>5 DEF Step

-----------------------------------------------------------------------------
(* Steps *)

(* The head and its root are as they were.                                   *)
LEMMA SameChain ==
    ASSUME ChainShape, UNCHANGED chain_vars
    PROVE  ChainShape' /\ blocks' = blocks /\ Chain!latest' = Chain!latest
BY DEF ChainShape, chain_vars, Chain!latest, Chain!block_hash

LEMMA ApplyKeeps ==
    ASSUME NodeInv, ApplyTransaction
    PROVE  NodeInv'
<1>1. /\ TypeInv /\ NonceInv /\ ChainShape /\ Lists /\ UNCHANGED chain_vars
      /\ applied \subseteq Txs /\ IsWorld(accounts) /\ IsWorld(snapshot)
      BY DEF NodeInv, ApplyTransaction, TypeInv, TypeOK
<1>2. ChainShape' /\ blocks' = blocks /\ Chain!latest' = Chain!latest
      BY <1>1, SameChain
<1>3. CASE \E t \in Txs : Reject(t) /\ pending' = pending
  <2>1. PICK t \in Txs : Reject(t) /\ pending' = pending
        BY <1>3
  <2>2. TypeInv' /\ NonceInv'
        BY <2>1, <1>1, SubmitType, SubmitReplay
  <2>3. applied' = applied /\ accounts' = accounts /\ tx' = tx
        BY <2>1 DEF Reject
  <2>4. Lists'
        BY <2>1, <2>3, <1>1, <1>2, ListNothing
  <2>5. HeadCommits'
        BY <2>1, <2>3, <1>2 DEF NodeInv, HeadCommits, state_root_placeholder
  <2>. QED BY <2>2, <2>4, <2>5, <1>2 DEF NodeInv
<1>4. CASE \E t \in Txs : ExecuteValueTransfer(t) /\ pending' = Append(pending, t)
  <2>1. PICK t \in Txs : ExecuteValueTransfer(t) /\ pending' = Append(pending, t)
        BY <1>4
  <2>2. TypeInv' /\ NonceInv'
        BY <2>1, <1>1, SubmitType, SubmitReplay
  <2>3. Accepted(t) /\ applied' = applied \cup {t}
        BY <2>1 DEF ExecuteValueTransfer, Succeed, Finish
  <2>4. \A u \in applied : u.sender = t.sender => u.nonce < t.nonce
        BY <2>3, <1>1, AppliedBefore DEF Accepted, Settled
  <2>5. Lists' /\ pending' # <<>>
        BY <2>1, <2>3, <2>4, <1>1, <1>2, ListOne
  <2>. QED BY <2>2, <2>5, <1>2 DEF NodeInv, HeadCommits
<1>5. CASE \E t \in Txs : (ExecuteContractCall(t) \/ ExecuteCreate(t)) /\ pending' = pending
  <2>1. PICK t \in Txs : (ExecuteContractCall(t) \/ ExecuteCreate(t)) /\ pending' = pending
        BY <1>5
  <2>2. TypeInv' /\ NonceInv'
        BY <2>1, <1>1, SubmitType, SubmitReplay
  <2>3. applied' = applied /\ tx' = t /\ t # NoTx
        BY <2>1, TxType DEF ExecuteContractCall, ExecuteCreate, Begin
  <2>4. Lists'
        BY <2>1, <2>3, <1>1, <1>2, ListNothing
  <2>. QED BY <2>2, <2>3, <2>4, <1>2 DEF NodeInv, HeadCommits
<1>6. CASE Step /\ pending' = IF tx' = NoTx THEN Append(pending, tx) ELSE pending
  <2>1. TypeInv' /\ NonceInv'
        BY <1>6, <1>1, StepType, StepReplay
  <2>2. /\ tx \in Txs /\ tx # NoTx
        /\ \/ tx' = tx /\ applied' = applied
           \/ tx' = NoTx /\ applied' = applied \cup {tx}
        BY <1>6, <1>1, StepApplies
  <2>3. CASE tx' = tx /\ applied' = applied
    <3>1. pending' = pending
          BY <2>2, <2>3, <1>6
    <3>2. Lists'
          BY <2>3, <3>1, <1>1, <1>2, ListNothing
    <3>. QED BY <2>1, <2>2, <2>3, <3>2, <1>2 DEF NodeInv, HeadCommits
  <2>4. CASE tx' = NoTx /\ applied' = applied \cup {tx}
    <3>1. pending' = Append(pending, tx)
          BY <2>4, <1>6
    <3>2. validate_transaction(snapshot, tx) = "valid" /\ snapshot = Settled
          BY <2>2, <1>1 DEF TypeInv, BegunValid, Settled
    <3>3. \A u \in applied : u.sender = tx.sender => u.nonce < tx.nonce
          BY <2>2, <3>2, <1>1, AppliedBefore
    <3>4. Lists' /\ pending' # <<>>
          BY <2>2, <2>4, <3>1, <3>3, <1>1, <1>2, ListOne
    <3>. QED BY <2>1, <3>4, <1>2 DEF NodeInv, HeadCommits
  <2>. QED BY <2>2, <2>3, <2>4
<1>. QED BY <1>3, <1>4, <1>5, <1>6 DEF ApplyTransaction

(* The block is appended: its parent is the head, and it carries the root of *)
(* the state.                                                                *)
LEMMA MineAppends ==
    ASSUME ChainShape, NEW transactions, Mine(transactions)
    PROVE  /\ ChainShape'
           /\ Len(blocks) \in Nat /\ Len(blocks') = Len(blocks) + 1
           /\ \A i \in 1..Len(blocks) : blocks'[i] = blocks[i]
           /\ blocks'[Len(blocks) + 1].transactions = transactions
           /\ Chain!latest'.header.state_root = state_root_placeholder(accounts)
<1>1. PICK timestamp \in Timestamps :
        Chain!append_block(Chain!create_block(Chain!latest, transactions,
                                              state_root_placeholder(accounts), timestamp))
      BY DEF Mine
<1>. DEFINE b == Chain!create_block(Chain!latest, transactions,
                                    state_root_placeholder(accounts), timestamp)
<1>2. /\ b.header.parent_hash = Chain!block_hash(Chain!latest)
      /\ b.header.number = Chain!latest.header.number + 1
      /\ b.header.state_root = state_root_placeholder(accounts)
      /\ b.transactions = transactions
      BY DEF Chain!create_block, Chain!Block, Chain!Header
<1>3. Chain!Links(b) /\ Chain!Follows(b)
      BY <1>2 DEF ChainShape, Chain!Links, Chain!Follows, Chain!expected_parent_hash,
                  Chain!expected_number, Chain!height, Chain!latest
<1>. HIDE DEF b
<1>4. blocks' = Append(blocks, b) /\ hashes' = Append(hashes, Chain!block_hash(b))
      BY <1>1, <1>3 DEF b, Chain!append_block, Chain!Extend
<1>5. /\ IsList(blocks') /\ Len(blocks) \in Nat /\ Len(blocks') = Len(blocks) + 1
      /\ \A i \in 1..Len(blocks) : blocks'[i] = blocks[i]
      /\ blocks'[Len(blocks) + 1] = b
      BY <1>4, AppendList DEF ChainShape
<1>6. /\ IsList(hashes') /\ Len(hashes') = Len(blocks) + 1
      /\ hashes'[Len(blocks) + 1] = Chain!block_hash(b)
      BY <1>4, AppendList DEF ChainShape
<1>7. ChainShape'
      BY <1>5, <1>6 DEF ChainShape, Chain!block_hash
<1>8. Chain!latest' = b
      BY <1>5 DEF Chain!latest
<1>. QED BY <1>2, <1>5, <1>7, <1>8

(* What goes into a block keeps its place; what is left out is gone.         *)
LEMMA MineKeeps ==
    ASSUME NodeInv, NEW transactions \in Seq(Txs), Mine(transactions),
           Len(transactions) <= Len(pending),
           \A p \in 1..Len(transactions) : transactions[p] = pending[p]
    PROVE  NodeInv'
<1>. DEFINE last == Len(blocks) + 1
<1>1. /\ TypeInv /\ NonceInv /\ ChainShape /\ Lists
      /\ UNCHANGED vars /\ pending' = <<>> /\ applied' = applied /\ accounts' = accounts
      BY DEF NodeInv, Mine, vars
<1>2. /\ ChainShape'
      /\ Len(blocks) \in Nat /\ Len(blocks') = last
      /\ \A i \in 1..Len(blocks) : blocks'[i] = blocks[i]
      /\ blocks'[last].transactions = transactions
      /\ Chain!latest'.header.state_root = state_root_placeholder(accounts)
      BY <1>1, MineAppends
<1>3. TypeInv' /\ NonceInv'
      BY <1>1, StutterType DEF vars, NonceInv, NoReplay, NonceUsed
<1>4. HeadCommits'
      BY <1>1, <1>2 DEF HeadCommits
<1>5. ListsTyped'
      BY <1>1, <1>2 DEF Lists, ListsTyped
<1>6. /\ \A i \in 1..Len(blocks) : Listed(i)' = Listed(i)
      /\ \A i : i = last => Listed(i)' = transactions /\ Listed(i) = pending
      /\ \A i : i = last + 1 => Listed(i)' = <<>>
  <2>1. \A i : Listed(i)' = IF i <= Len(blocks') THEN blocks'[i].transactions ELSE pending'
        BY DEF Listed
  <2>2. \A i \in 1..Len(blocks) : Listed(i)' = Listed(i)
        BY <1>2, <2>1 DEF Listed
  <2>3. ASSUME NEW i, i = last PROVE Listed(i)' = transactions /\ Listed(i) = pending
        BY <2>1, <2>3, <1>2 DEF Listed
  <2>4. ASSUME NEW i, i = last + 1 PROVE Listed(i)' = <<>>
        BY <2>1, <2>4, <1>1, <1>2
  <2>. QED BY <2>2, <2>3, <2>4
<1>7. /\ DOMAIN transactions = 1..Len(transactions) /\ Len(transactions) \in Nat
      /\ DOMAIN pending = 1..Len(pending) /\ Len(pending) \in Nat
      BY <1>1 DEF Lists, ListsTyped
<1>8. ASSUME NEW i \in 1..(last + 1), NEW p \in DOMAIN Listed(i)'
      PROVE  i \in 1..last /\ p \in DOMAIN Listed(i) /\ Listed(i)'[p] = Listed(i)[p]
  <2>1. CASE i \in 1..Len(blocks)
        BY <2>1, <1>2, <1>6, <1>8
  <2>2. CASE i = last
    <3>1. Listed(i)' = transactions /\ Listed(i) = pending /\ p \in 1..Len(transactions)
          BY <2>2, <1>6, <1>7, <1>8
    <3>2. p \in 1..Len(pending) /\ transactions[p] = pending[p]
          BY <3>1, <1>7
    <3>. QED BY <2>2, <3>1, <3>2, <1>2, <1>7
  <2>3. CASE i = last + 1
    <3>1. p \in DOMAIN <<>>
          BY <2>3, <1>6, <1>8
    <3>. QED BY <3>1
  <2>. QED BY <2>1, <2>2, <2>3, <1>2
<1>9. ListedApplied'
      BY <1>1, <1>2, <1>8 DEF Lists, ListedApplied
<1>10. NoncesIncrease'
  <2>. SUFFICES ASSUME NEW i \in 1..(last + 1), NEW j \in 1..(last + 1),
                       NEW p \in DOMAIN Listed(i)', NEW q \in DOMAIN Listed(j)',
                       i < j \/ (i = j /\ p < q),
                       Listed(i)'[p].sender = Listed(j)'[q].sender
                PROVE  Listed(i)'[p].nonce < Listed(j)'[q].nonce
       BY <1>2, Zenon DEF NoncesIncrease
  <2>1. /\ i \in 1..last /\ p \in DOMAIN Listed(i) /\ Listed(i)'[p] = Listed(i)[p]
        /\ j \in 1..last /\ q \in DOMAIN Listed(j) /\ Listed(j)'[q] = Listed(j)[q]
        BY <1>8
  <2>. QED BY <2>1, <1>1 DEF Lists, NoncesIncrease
<1>. QED BY <1>1, <1>2, <1>3, <1>4, <1>5, <1>9, <1>10 DEF NodeInv, Lists

(* A program's own write to the storage of an account.                       *)
LEMMA SetSupplyKeeps ==
    ASSUME NodeInv, SetSupply
    PROVE  NodeInv'
<1>1. PICK a \in DOMAIN accounts, k \in Slots, v \in Words :
        /\ tx = NoTx
        /\ accounts' = set_storage_items(accounts, a, Store(EmptyStorage, k, v))
        /\ UNCHANGED <<tx, snapshot, frames, result, applied, burned, chain_vars, pending>>
      BY DEF SetSupply
<1>2. /\ TypeOK /\ GasCovered /\ BegunValid /\ NonceInv /\ ChainShape /\ Lists
      /\ IsWorld(accounts) /\ IsWorld(snapshot) /\ HeadCommits
      BY DEF NodeInv, TypeInv, TypeOK
<1>3. Store(EmptyStorage, k, v) \in Storage
      BY EmptyAccountType, StoreType
<1>4. /\ IsWorld(accounts')
      /\ \A x : x \in DOMAIN accounts' <=> x \in DOMAIN accounts
      /\ \A b : get_account(accounts', b).nonce = get_account(accounts, b).nonce
      /\ \A b : get_account(accounts', b).balance = get_account(accounts, b).balance
      /\ \A b : get_account(accounts', b).code = get_account(accounts, b).code
      BY <1>1, <1>2, <1>3, SetStorageItems
<1>5. DOMAIN accounts' = DOMAIN accounts
      BY <1>4
<1>6. /\ tx' = tx /\ snapshot' = snapshot /\ frames' = frames /\ result' = result
      /\ applied' = applied /\ burned' = burned /\ pending' = pending
      /\ UNCHANGED chain_vars
      BY <1>1
<1>7. TypeOK'
      BY <1>2, <1>4, <1>5, <1>6 DEF TypeOK, FrameAt
<1>8. GasCovered' /\ BegunValid'
      BY <1>1, <1>2, <1>6
         DEF GasCovered, StackCovered, BegunValid, gas_for_execution, calculate_intrinsic_gas
<1>9. NonceInv'
      BY <1>1, <1>2, <1>4, <1>6 DEF NonceInv, NoReplay, NonceUsed
<1>10. ChainShape' /\ blocks' = blocks /\ Chain!latest' = Chain!latest
      BY <1>2, <1>6, SameChain
<1>11. Lists'
      BY <1>2, <1>6, <1>10, ListNothing
<1>12. state_root_placeholder(accounts)' = state_root_placeholder(accounts)
  <2>1. \A x \in DOMAIN accounts : /\ accounts'[x].nonce = accounts[x].nonce
                                   /\ accounts'[x].balance = accounts[x].balance
                                   /\ accounts'[x].code = accounts[x].code
        BY <1>4, <1>5 DEF get_account
  <2>. QED BY <2>1, <1>5 DEF state_root_placeholder
<1>13. HeadCommits'
      BY <1>2, <1>6, <1>10, <1>12 DEF HeadCommits
<1>. QED BY <1>7, <1>8, <1>9, <1>10, <1>11, <1>13 DEF NodeInv, TypeInv

-----------------------------------------------------------------------------
LEMMA NodeStart == NodeInit => NodeInv
<1>. SUFFICES ASSUME NodeInit PROVE NodeInv
     OBVIOUS
<1>1. PICK timestamp \in Timestamps :
        LET genesis == Chain!create_genesis_block(state_root_placeholder(accounts), timestamp)
        IN  /\ blocks = <<genesis>>
            /\ hashes = <<Chain!block_hash(genesis)>>
      BY DEF NodeInit
<1>. DEFINE genesis == Chain!create_genesis_block(state_root_placeholder(accounts), timestamp)
<1>2. genesis.transactions = <<>> /\ genesis.header.state_root = state_root_placeholder(accounts)
      BY DEF Chain!create_genesis_block, Chain!Block, Chain!Header
<1>3. blocks = <<genesis>> /\ hashes = <<Chain!block_hash(genesis)>>
      BY <1>1
<1>. HIDE DEF genesis
<1>4. Init /\ pending = <<>>
      BY DEF NodeInit
<1>5. TypeInv /\ NonceInv
      BY <1>4, InitType DEF Init, NonceInv, NoReplay, NonceUsed
<1>6. ChainShape
  <2>1. ASSUME NEW e PROVE IsList(<<e>>) /\ Len(<<e>>) = 1 /\ <<e>>[1] = e
    <3>1. <<e>> \in Seq({e})
          OBVIOUS
    <3>. QED BY <3>1, SeqOfRange DEF IsList
  <2>. QED BY <1>3, <2>1 DEF ChainShape
<1>7. HeadCommits
      BY <1>2, <1>3 DEF HeadCommits, Chain!latest
<1>8. ListsTyped
  <2>1. <<>> \in Seq(Txs)
        BY EmptySeq
  <2>2. Len(blocks) = 1 /\ blocks[1].transactions = <<>>
        BY <1>2, <1>3
  <2>3. \A i \in 1..Len(blocks) : i = 1
        BY <2>2
  <2>. QED BY <1>4, <2>1, <2>2, <2>3 DEF ListsTyped
<1>9. \A i \in 1..(Len(blocks) + 1) : Listed(i) = <<>>
      BY <1>2, <1>3, <1>4 DEF Listed
<1>10. ListedApplied /\ NoncesIncrease
      BY <1>9 DEF ListedApplied, NoncesIncrease
<1>. QED BY <1>5, <1>6, <1>7, <1>8, <1>10 DEF NodeInv, Lists

LEMMA NodeStep == NodeInv /\ [NodeNext]_node_vars => NodeInv'
<1>. SUFFICES ASSUME NodeInv, [NodeNext]_node_vars PROVE NodeInv'
     OBVIOUS
<1>1. pending \in Seq(Txs)
      BY DEF NodeInv, Lists, ListsTyped
<1>2. CASE ApplyTransaction
      BY <1>2, ApplyKeeps
<1>3. CASE MineAll
  <2>1. Mine(pending) /\ Len(pending) <= Len(pending)
        BY <1>1, <1>3 DEF MineAll
  <2>. QED BY <2>1, <1>1, MineKeeps
<1>4. CASE MineSome
  <2>1. PICK n \in 1..(Len(pending) - 1) : Mine(SubSeq(pending, 1, n))
        BY <1>4 DEF MineSome
  <2>2. /\ SubSeq(pending, 1, n) \in Seq(Txs)
        /\ Len(SubSeq(pending, 1, n)) = n /\ n <= Len(pending)
        /\ \A p \in 1..n : SubSeq(pending, 1, n)[p] = pending[p]
        BY <1>1
  <2>. QED BY <2>1, <2>2, MineKeeps
<1>5. CASE SetSupply
      BY <1>5, SetSupplyKeeps
<1>6. CASE UNCHANGED node_vars
  <2>1. UNCHANGED vars /\ UNCHANGED chain_vars /\ pending' = pending
        BY <1>6 DEF node_vars
  <2>2. TypeInv' /\ NonceInv'
        BY <2>1, StutterType DEF NodeInv, vars, NonceInv, NoReplay, NonceUsed
  <2>3. ChainShape' /\ blocks' = blocks /\ Chain!latest' = Chain!latest
        BY <2>1, SameChain DEF NodeInv
  <2>4. Lists' /\ HeadCommits'
        BY <2>1, <2>3, ListNothing DEF NodeInv, vars, HeadCommits, state_root_placeholder
  <2>. QED BY <2>2, <2>3, <2>4 DEF NodeInv
<1>. QED BY <1>2, <1>3, <1>4, <1>5, <1>6 DEF NodeNext

THEOREM NodeInvariance == NodeSpec => []NodeInv
BY NodeStart, NodeStep, PTL DEF NodeSpec

(* With nothing waiting for a block, the head's root is that of the state    *)
(* there is, whatever was refused, and whatever was written by hand where    *)
(* the root does not look.                                                   *)
THEOREM HeadIsState == NodeSpec => []HeadCommits
<1>1. NodeInv => HeadCommits
      BY DEF NodeInv
<1>. QED BY NodeInvariance, <1>1, PTL

(* For chains of any length: no transaction is listed twice, in one block or *)
(* in two, and each sender's are listed in the order of their nonces, also   *)
(* when some fail and some are left out.                                     *)
THEOREM ListedInOrder == NodeSpec => []NoncesIncrease
<1>1. NodeInv => NoncesIncrease
      BY DEF NodeInv, Lists
<1>. QED BY NodeInvariance, <1>1, PTL

-----------------------------------------------------------------------------
(* Gaps: every nonce used since the genesis is that of one applied           *)
(* transaction.                                                              *)

UsedOnce ==
    /\ \A t, u \in applied : t.sender = u.sender /\ t.nonce = u.nonce => t = u
    /\ \A e \in Eoas : \A n \in nonce_of(Genesis, e)..(nonce_of(Settled, e) - 1) :
           \E t \in applied : t.sender = e /\ t.nonce = n

(* It is inductive with the invariants that say how a transaction uses       *)
(* nonces.                                                                   *)
GapInv == CreationInv /\ LedgerInv /\ UsedOnce

(* Nothing was applied, and no key's nonce has changed.                      *)
LEMMA UseNone ==
    ASSUME UsedOnce, applied' = applied,
           \A e \in Eoas : nonce_of(Settled, e)' = nonce_of(Settled, e)
    PROVE  UsedOnce'
<1>1. \A e : nonce_of(Genesis, e)' = nonce_of(Genesis, e)
      BY DEF nonce_of, get_account, EMPTY_ACCOUNT, EmptyStorage
<1>2. Eoas' = Eoas
      BY DEF Eoas, KeyAddress
<1>. QED BY <1>1, <1>2 DEF UsedOnce

(* A transaction was applied, with the next nonce of its sender.             *)
LEMMA UseOne ==
    ASSUME UsedOnce, applied \subseteq Txs, NEW t \in Txs, applied' = applied \cup {t},
           NEW w, IsWorld(w), w = Settled, validate_transaction(w, t) = "valid",
           \A u \in applied : u.sender = t.sender => u.nonce < t.nonce,
           tx' = NoTx, OneNonce(t, w, accounts')
    PROVE  UsedOnce'
<1>1. /\ \A e : nonce_of(Genesis, e)' = nonce_of(Genesis, e)
      /\ Eoas' = Eoas
      /\ \A e : nonce_of(Settled, e)' = get_account(accounts', e).nonce
      BY DEF nonce_of, get_account, EMPTY_ACCOUNT, EmptyStorage, Eoas, KeyAddress, Settled
<1>2. /\ t.sender \in Eoas /\ get_account(w, t.sender).nonce = t.nonce /\ t.nonce \in Nat
      /\ \A e : get_account(w, e).nonce \in Nat
      /\ \A e : nonce_of(Genesis, e) \in Nat
      BY ValidTx, TxType, GetType, GenesisAssumption DEF nonce_of
<1>3. \A u \in applied : u.nonce \in Nat
      BY TxType
<1>4. \A u, v \in applied' : u.sender = v.sender /\ u.nonce = v.nonce => u = v
  <2>. SUFFICES ASSUME NEW u \in applied', NEW v \in applied',
                       u.sender = v.sender, u.nonce = v.nonce
                PROVE  u = v
       OBVIOUS
  <2>1. CASE u \in applied /\ v \in applied
        BY <2>1 DEF UsedOnce
  <2>2. CASE u = t /\ v \in applied
        BY <2>2, <1>2, <1>3
  <2>3. CASE u \in applied /\ v = t
        BY <2>3, <1>2, <1>3
  <2>. QED BY <2>1, <2>2, <2>3
<1>5. ASSUME NEW e \in Eoas,
             NEW n \in nonce_of(Genesis, e)..(get_account(accounts', e).nonce - 1)
      PROVE  \E u \in applied' : u.sender = e /\ u.nonce = n
  <2>1. CASE n \in nonce_of(Genesis, e)..(get_account(w, e).nonce - 1)
        BY <2>1 DEF UsedOnce, nonce_of
  <2>2. CASE n \notin nonce_of(Genesis, e)..(get_account(w, e).nonce - 1)
    <3>1. e = t.sender
          BY <1>5, <2>2 DEF OneNonce
    <3>2. get_account(accounts', e).nonce = t.nonce + 1 /\ get_account(w, e).nonce = t.nonce
          BY <3>1, <1>2 DEF OneNonce
    <3>3. n = t.nonce
          BY <3>2, <2>2, <1>2, <1>5
    <3>. QED BY <3>1, <3>3
  <2>. QED BY <2>1, <2>2
<1>. QED BY <1>1, <1>4, <1>5 DEF UsedOnce

(* A payment uses its sender's nonce.                                        *)
LEMMA PaymentNonce ==
    ASSUME TypeInv, NEW t \in Txs, ExecuteValueTransfer(t)
    PROVE  OneNonce(t, accounts, accounts')
<1>. DEFINE c == Charge(accounts, t)
            moved == transfer(c, t.sender, t.to, t.value)
            gas_refund == gas_for_execution(t) * t.gas_price
<1>1. /\ IsWorld(accounts) /\ validate_transaction(accounts, t) = "valid"
      /\ accounts' = IF gas_refund > 0 THEN add_balance(moved, t.sender, gas_refund) ELSE moved
      BY DEF ExecuteValueTransfer, Accepted, Succeed, TypeInv, TypeOK
<1>2. /\ IsWorld(c) /\ can_deduct(c, t.sender, t.value)
      /\ get_account(c, t.sender).nonce = get_account(accounts, t.sender).nonce + 1
      /\ \A b : b # t.sender => get_account(c, b).nonce = get_account(accounts, b).nonce
      BY <1>1, ChargeWorld
<1>3. t.value \in Nat /\ t.gas_price \in Nat /\ gas_for_execution(t) \in Nat
      BY <1>1, TxType, ValidTx
<1>4. gas_refund \in Nat
  <2>1. \A m, n \in Nat : m * n \in Nat
        OBVIOUS
  <2>. QED BY <1>3, <2>1
<1>. HIDE DEF c
<1>5. IsWorld(moved) /\ \A b : get_account(moved, b).nonce = get_account(c, b).nonce
      BY <1>2, <1>3, Transfer
<1>. HIDE DEF moved, gas_refund
<1>6. \A b : get_account(accounts', b).nonce = get_account(moved, b).nonce
      BY <1>1, <1>4, <1>5, AddBalance
<1>. QED BY <1>2, <1>5, <1>6 DEF OneNonce

(* A submitted transaction, and a step of the one that runs.                 *)
LEMMA ApplyUses ==
    ASSUME NodeInv, GapInv, ApplyTransaction
    PROVE  GapInv'
<1>1. /\ TypeInv /\ NonceInv /\ CreationInv /\ LedgerInv /\ UsedOnce
      /\ applied \subseteq Txs /\ IsWorld(accounts) /\ IsWorld(snapshot)
      BY DEF NodeInv, GapInv, TypeInv, TypeOK
<1>2. ASSUME NEW t \in Txs, Reject(t) \/ ExecuteContractCall(t) \/ ExecuteCreate(t)
      PROVE  GapInv'
  <2>1. CreationInv' /\ LedgerInv'
        BY <1>1, <1>2, SubmitPlaced, SubmitSeen
  <2>2. applied' = applied /\ Settled' = Settled
        BY <1>2, TxType DEF Reject, ExecuteContractCall, ExecuteCreate, Begin, Accepted, Settled
  <2>3. \A e \in Eoas : nonce_of(Settled, e)' = nonce_of(Settled, e)
        BY <2>2 DEF nonce_of, get_account, EMPTY_ACCOUNT, EmptyStorage
  <2>4. UsedOnce'
        BY <1>1, <2>2, <2>3, UseNone
  <2>. QED BY <2>1, <2>4 DEF GapInv
<1>3. ASSUME NEW t \in Txs, ExecuteValueTransfer(t)
      PROVE  GapInv'
  <2>1. CreationInv' /\ LedgerInv'
        BY <1>1, <1>3, SubmitPlaced, SubmitSeen
  <2>2. Accepted(t) /\ applied' = applied \cup {t} /\ tx' = NoTx
        BY <1>3 DEF ExecuteValueTransfer, Succeed, Finish
  <2>3. validate_transaction(accounts, t) = "valid" /\ accounts = Settled
        BY <2>2 DEF Accepted, Settled
  <2>4. \A u \in applied : u.sender = t.sender => u.nonce < t.nonce
        BY <1>1, <2>3, AppliedBefore
  <2>5. OneNonce(t, accounts, accounts')
        BY <1>1, <1>3, PaymentNonce
  <2>6. UsedOnce'
        BY <1>1, <2>2, <2>3, <2>4, <2>5, UseOne
  <2>. QED BY <2>1, <2>6 DEF GapInv
<1>4. CASE Step
  <2>1. CreationInv'
        BY <1>1, <1>4, StepPlaced
  <2>2. /\ LedgerInv' /\ (TheLedger!Next \/ UNCHANGED Seen)
        /\ tx' = NoTx => OneNonce(tx, snapshot, accounts')
        BY <1>1, <1>4, <2>1, StepSeen
  <2>3. /\ tx \in Txs /\ tx # NoTx
        /\ \/ tx' = tx /\ applied' = applied /\ snapshot' = snapshot
           \/ tx' = NoTx /\ applied' = applied \cup {tx}
        BY <1>1, <1>4, StepApplies
  <2>4. CASE tx' = tx /\ applied' = applied /\ snapshot' = snapshot
    <3>1. Settled' = Settled
          BY <2>3, <2>4 DEF Settled
    <3>2. \A e \in Eoas : nonce_of(Settled, e)' = nonce_of(Settled, e)
          BY <3>1 DEF nonce_of, get_account, EMPTY_ACCOUNT, EmptyStorage
    <3>3. UsedOnce'
          BY <1>1, <2>4, <3>2, UseNone
    <3>. QED BY <2>1, <2>2, <3>3 DEF GapInv
  <2>5. CASE tx' = NoTx /\ applied' = applied \cup {tx}
    <3>1. validate_transaction(snapshot, tx) = "valid" /\ snapshot = Settled
          BY <2>3, <1>1 DEF TypeInv, BegunValid, Settled
    <3>2. \A u \in applied : u.sender = tx.sender => u.nonce < tx.nonce
          BY <2>3, <3>1, <1>1, AppliedBefore
    <3>3. UsedOnce'
          BY <1>1, <2>2, <2>3, <2>5, <3>1, <3>2, UseOne
    <3>. QED BY <2>1, <2>2, <3>3 DEF GapInv
  <2>. QED BY <2>3, <2>4, <2>5
<1>. QED BY <1>2, <1>3, <1>4 DEF ApplyTransaction

(* Nothing but blocks or storage changes.                                    *)
LEMMA SupplyUses ==
    ASSUME NodeInv, GapInv, SetSupply
    PROVE  GapInv'
<1>1. PICK a \in DOMAIN accounts, k \in Slots, v \in Words :
        /\ tx = NoTx
        /\ accounts[a].code # NoCode
        /\ accounts' = set_storage_items(accounts, a, Store(EmptyStorage, k, v))
        /\ UNCHANGED <<tx, snapshot, frames, applied>>
      BY DEF SetSupply
<1>2. /\ TypeOK /\ CreationInv /\ UsedOnce /\ IsWorld(accounts)
      /\ Sound(accounts) /\ Sound(snapshot)
      BY DEF NodeInv, GapInv, TypeInv, TypeOK, CreationInv
<1>3. Store(EmptyStorage, k, v) \in Storage
      BY EmptyAccountType, StoreType
<1>4. /\ IsWorld(accounts')
      /\ \A x : x \in DOMAIN accounts' <=> x \in DOMAIN accounts
      /\ \A b : b # a => get_account(accounts', b).storage = get_account(accounts, b).storage
      /\ \A b : get_account(accounts', b).nonce = get_account(accounts, b).nonce
      /\ \A b : get_account(accounts', b).balance = get_account(accounts, b).balance
      /\ \A b : get_account(accounts', b).code = get_account(accounts, b).code
      BY <1>1, <1>2, <1>3, SetStorageItems
<1>5. Acts(accounts, accounts', a)
  <2>1. NoncesKept(accounts, accounts')
        BY <1>2, <1>4, SameNonces
  <2>2. \A b : get_account(accounts, b).balance \in Nat
        BY <1>2, GetType
  <2>. QED BY <1>4, <2>1, <2>2 DEF Acts
<1>6. get_account(accounts, a).code # NoCode
      BY <1>1 DEF get_account
<1>7. a \notin Eoas /\ ~AheadOfNonce(accounts, a)
  <2>1. a \notin Eoas
        BY <1>2, <1>6 DEF Sound, EoasPlain
  <2>2. ~AheadOfNonce(accounts, a)
        BY <1>2, <1>6, AheadPristine DEF Sound, Pristine
  <2>. QED BY <2>1, <2>2
<1>8. Sound(accounts')
      BY <1>2, <1>5, <1>7, SoundKept
<1>9. frames' = <<>> /\ tx' = NoTx /\ snapshot' = snapshot
      BY <1>1, <1>2 DEF TypeOK
<1>10. CreationInv'
       BY <1>2, <1>8, <1>9 DEF CreationInv, StackPlaced
<1>11. LedgerInv'
       BY <1>9 DEF LedgerInv
<1>12. \A e \in Eoas : nonce_of(Settled, e)' = nonce_of(Settled, e)
  <2>1. Settled = accounts /\ Settled' = accounts'
        BY <1>1, <1>9 DEF Settled
  <2>. QED BY <1>4, <2>1 DEF nonce_of
<1>13. UsedOnce'
       BY <1>1, <1>2, <1>12, UseNone
<1>. QED BY <1>10, <1>11, <1>13 DEF GapInv

LEMMA StutterUses ==
    ASSUME GapInv, UNCHANGED vars
    PROVE  GapInv'
<1>1. CreationInv' /\ LedgerInv'
      BY DEF GapInv, vars, CreationInv, LedgerInv
<1>2. UsedOnce'
  <2>1. Settled' = Settled /\ applied' = applied
        BY DEF vars, Settled
  <2>2. \A e \in Eoas : nonce_of(Settled, e)' = nonce_of(Settled, e)
        BY <2>1 DEF nonce_of, get_account, EMPTY_ACCOUNT, EmptyStorage
  <2>. QED BY <2>1, <2>2, UseNone DEF GapInv
<1>. QED BY <1>1, <1>2 DEF GapInv

LEMMA GapStart == NodeInit => GapInv
<1>. SUFFICES ASSUME NodeInit PROVE GapInv
     OBVIOUS
<1>1. /\ accounts = Genesis /\ snapshot = EmptyWorld /\ tx = NoTx /\ frames = <<>>
      /\ applied = {}
      BY DEF NodeInit, Init
<1>2. CreationInv
  <2>1. StackPlaced(accounts, snapshot, frames)
        BY <1>1 DEF StackPlaced
  <2>. QED BY <1>1, <2>1, GenesisAssumption, EmptySound DEF CreationInv, Sound
<1>3. UsedOnce
  <2>1. \A e : nonce_of(Genesis, e) \in Nat
        BY GetType, GenesisAssumption DEF nonce_of
  <2>2. \A m \in Nat : m..(m - 1) = {}
        OBVIOUS
  <2>3. Settled = Genesis
        BY <1>1 DEF Settled
  <2>. QED BY <1>1, <2>1, <2>2, <2>3 DEF UsedOnce
<1>. QED BY <1>1, <1>2, <1>3 DEF GapInv, LedgerInv

(* What is missing in the lists is what was left out: if a listed            *)
(* transaction had the nonce of one that was left out, it would be that one. *)
LEMMA GapsShow ==
    ASSUME NodeInv, UsedOnce
    PROVE  GapsAreLeftOut
<1>. SUFFICES ASSUME tx = NoTx, NEW e \in Eoas,
                     NEW n \in nonce_of(Genesis, e)..(nonce_of(accounts, e) - 1)
              PROVE  ~Shown(e, n) <=> \E t \in LeftOut : t.sender = e /\ t.nonce = n
     BY DEF GapsAreLeftOut
<1>1. ListedApplied
      BY DEF NodeInv, Lists
<1>2. ASSUME ~Shown(e, n)
      PROVE  \E t \in LeftOut : t.sender = e /\ t.nonce = n
  <2>1. PICK t \in applied : t.sender = e /\ t.nonce = n
        BY DEF UsedOnce, Settled
  <2>2. t \in LeftOut
        BY <1>2, <2>1 DEF Shown, LeftOut
  <2>. QED BY <2>1, <2>2
<1>3. ASSUME NEW t \in LeftOut, t.sender = e, t.nonce = n, Shown(e, n)
      PROVE  FALSE
  <2>1. PICK i \in 1..(Len(blocks) + 1) : \E p \in DOMAIN Listed(i) :
               Listed(i)[p].sender = e /\ Listed(i)[p].nonce = n
        BY <1>3 DEF Shown
  <2>2. PICK p \in DOMAIN Listed(i) : Listed(i)[p].sender = e /\ Listed(i)[p].nonce = n
        BY <2>1
  <2>3. Listed(i)[p] \in applied /\ t \in applied /\ Listed(i)[p] # t
        BY <1>1, <1>3 DEF ListedApplied, LeftOut
  <2>. QED BY <1>3, <2>2, <2>3 DEF UsedOnce
<1>. QED BY <1>2, <1>3

(* For chains of any length and any programs: blocks that leave transactions *)
(* out still tell which nonces are missing, and each of these is that of a   *)
(* transaction that was applied. Nothing uses up a second nonce, and nothing *)
(* listed takes the place of what was left out.                              *)
THEOREM GapsTell == NodeSpec => []GapsAreLeftOut
<1>1. NodeInv /\ GapInv /\ [NodeNext]_node_vars => GapInv'
  <2>. SUFFICES ASSUME NodeInv, GapInv, [NodeNext]_node_vars PROVE GapInv'
       OBVIOUS
  <2>1. CASE ApplyTransaction
        BY <2>1, ApplyUses
  <2>2. CASE MineAll \/ MineSome
        BY <2>2, StutterUses DEF MineAll, MineSome, Mine
  <2>3. CASE SetSupply
        BY <2>3, SupplyUses
  <2>4. CASE UNCHANGED node_vars
        BY <2>4, StutterUses DEF node_vars
  <2>. QED BY <2>1, <2>2, <2>3, <2>4 DEF NodeNext
<1>2. NodeInv /\ GapInv => GapsAreLeftOut
      BY GapsShow DEF GapInv
<1>. QED BY GapStart, NodeInvariance, <1>1, <1>2, PTL DEF NodeSpec
===============================================================================
