--------------------------------- MODULE Node ---------------------------------
(* What a program built on the library does with a world state and a chain:  *)
(* apply transactions one after another, put them into a block with the root *)
(* of the resulting state (scenarios/*.py), and append it                    *)
(* (tests/test_blockchain.py).                                               *)
EXTENDS StateTransition

CONSTANTS Timestamps, MaxHeight   \* MaxHeight: bound on the chain's length

VARIABLES blocks, hashes, answer, recorded, faults   \* of Blockchain

VARIABLE pending   \* the transactions applied since the last block, in order

Chain == INSTANCE Blockchain WITH
    StateRoots <- {}, TransactionLists <- {}, MaxFaults <- 0

chain_vars == <<blocks, hashes, answer, recorded, faults>>

node_vars == <<vars, chain_vars, pending>>

(* keccak256 of the RLP of the accounts, modelled by what it hashes: of an   *)
(* account, everything but the storage.                                      *)
state_root_placeholder(w) ==
    [a \in DOMAIN w |->
        [nonce |-> w[a].nonce, balance |-> w[a].balance, code |-> w[a].code]]

NodeInit ==
    /\ Init
    /\ \E timestamp \in Timestamps :
           LET genesis == Chain!create_genesis_block(state_root_placeholder(accounts), timestamp)
           IN  /\ blocks = <<genesis>>
               /\ hashes = <<Chain!block_hash(genesis)>>
               /\ answer = Chain!block_hash(genesis)
    /\ recorded = blocks
    /\ faults = 0
    /\ pending = <<>>

-----------------------------------------------------------------------------
(* A transaction that is refused never was; one that returns, successful or  *)
(* not, is kept for the next block.                                          *)
ApplyTransaction ==
    /\ UNCHANGED chain_vars
    /\ \/ \E t \in Txs : Reject(t) /\ pending' = pending
       \/ \E t \in Txs : ExecuteValueTransfer(t) /\ pending' = Append(pending, t)
       \/ \E t \in Txs : (ExecuteContractCall(t) \/ ExecuteCreate(t)) /\ pending' = pending
       \/ Step /\ pending' = IF tx' = NoTx THEN Append(pending, tx) ELSE pending

(* A block with the given transactions on top of the head.                   *)
Mine(transactions) ==
    /\ tx = NoTx
    /\ Chain!height < MaxHeight
    /\ \E timestamp \in Timestamps :
           Chain!append_block(Chain!create_block(Chain!latest, transactions,
                                                 state_root_placeholder(accounts), timestamp))
    /\ pending' = <<>>
    /\ UNCHANGED vars

(* Mutant: the block carries the root of the state before its transactions. *)
MineStale ==
    /\ pending # <<>> /\ tx = NoTx
    /\ Chain!height < MaxHeight
    /\ \E timestamp \in Timestamps :
           Chain!append_block(Chain!create_block(Chain!latest, pending,
                                                 Chain!latest.header.state_root, timestamp))
    /\ pending' = <<>>
    /\ UNCHANGED vars

MineAll == pending # <<>> /\ Mine(pending)

(* scenarios/03_token.py leaves its last two transactions out of the block.  *)
MineSome == \E n \in 1..(Len(pending) - 1) : Mine(SubSeq(pending, 1, n))

(* It also writes the initial supply into the token's storage by hand.       *)
SetSupply ==
    \E a \in DOMAIN accounts, k \in Slots, v \in Words :
        /\ tx = NoTx
        /\ accounts[a].code # NoCode
        /\ accounts' = set_storage_items(accounts, a, Store(EmptyStorage, k, v))
        /\ UNCHANGED <<tx, snapshot, frames, result, applied, burned, chain_vars, pending>>

NodeNext == ApplyTransaction \/ MineAll \/ MineSome \/ SetSupply

NodeSpec == NodeInit /\ [][NodeNext]_node_vars

-----------------------------------------------------------------------------
(* Properties *)

(* The transactions of the i-th block, and behind the last those that wait   *)
(* for one.                                                                  *)
Listed(i) == IF i <= Len(blocks) THEN blocks[i].transactions ELSE pending

(* Between transactions, with nothing waiting for a block, the head commits  *)
(* to the state there is: refused transactions and writes the root does not  *)
(* see included.                                                             *)
HeadCommits ==
    (tx = NoTx /\ pending = <<>>)
        => Chain!latest.header.state_root = state_root_placeholder(accounts)

(* No transaction is in two blocks, or in one twice, and each sender's come  *)
(* in the order of their nonces, failed ones included.                       *)
NoncesIncrease ==
    \A i, j \in 1..(Len(blocks) + 1) :
        \A p \in DOMAIN Listed(i), q \in DOMAIN Listed(j) :
            (/\ i < j \/ (i = j /\ p < q)
             /\ Listed(i)[p].sender = Listed(j)[q].sender)
                => Listed(i)[p].nonce < Listed(j)[q].nonce

Shown(e, n) ==
    \E i \in 1..(Len(blocks) + 1) : \E p \in DOMAIN Listed(i) :
        Listed(i)[p].sender = e /\ Listed(i)[p].nonce = n

LeftOut ==
    {t \in applied : \A i \in 1..(Len(blocks) + 1) : \A p \in DOMAIN Listed(i) : Listed(i)[p] # t}

nonce_of(w, e) == get_account(w, e).nonce

(* Blocks that leave transactions out are no full history, but they tell     *)
(* what is missing: a nonce that a sender has used since the genesis is in   *)
(* no block, nor waiting for one, exactly if a transaction with that nonce   *)
(* was applied and left out. No failure or creation uses up a second nonce,  *)
(* and nothing that is listed takes the place of what was left out           *)
(* (apply_transaction, and the blocks of scenarios/03_token.py).             *)
GapsAreLeftOut ==
    tx = NoTx =>
        \A e \in Eoas : \A n \in nonce_of(Genesis, e)..(nonce_of(accounts, e) - 1) :
            ~Shown(e, n) <=> \E t \in LeftOut : t.sender = e /\ t.nonce = n
===============================================================================
