------------------------------ MODULE Blockchain ------------------------------
(* chain/block.py and chain/blockchain.py: blocks linked by hashes, and the  *)
(* list of them that class Blockchain keeps with the hash of each.           *)
(*                                                                           *)
(* keccak256 of the RLP of a header is modelled by what it hashes, the four  *)
(* header fields: two hashes are equal exactly if the headers are (collision *)
(* resistance is assumed; that RLP is injective is checked in Rlp).          *)
EXTENDS Integers, Sequences, Functions

CONSTANTS
    StateRoots, Timestamps,
    TransactionLists,    \* what a block's transactions may be
    MaxHeight,           \* bound: no block is offered above it
    MaxFaults            \* bound: in-place changes of appended blocks

ASSUME BlockchainAssumption == MaxHeight \in Nat /\ MaxFaults \in Nat

VARIABLES
    blocks,     \* _blocks, oldest first
    hashes,     \* _block_hashes, computed when each block was appended
    answer,     \* what the last append_block returned or raised
    recorded,   \* history: the blocks as they were when they were appended
    faults      \* history: how many in-place changes there were

vars == <<blocks, hashes, answer, recorded, faults>>

GENESIS_PARENT_HASH == <<>>

Header(parent_hash, number, timestamp, state_root) ==
    [parent_hash |-> parent_hash, number |-> number,
     timestamp |-> timestamp, state_root |-> state_root]

Block(header, transactions) == [header |-> header, transactions |-> transactions]

block_hash(b) == <<b.header>>

create_genesis_block(state_root, timestamp) ==
    Block(Header(GENESIS_PARENT_HASH, 0, timestamp, state_root), <<>>)

create_block(parent, transactions, state_root, timestamp) ==
    Block(Header(block_hash(parent), parent.header.number + 1, timestamp, state_root),
          transactions)

Init == \E state_root \in StateRoots, timestamp \in Timestamps :
    LET genesis == create_genesis_block(state_root, timestamp) IN
    /\ blocks = <<genesis>>
    /\ hashes = <<block_hash(genesis)>>
    /\ answer = block_hash(genesis)
    /\ recorded = blocks
    /\ faults = 0

latest == blocks[Len(blocks)]

height == latest.header.number

-----------------------------------------------------------------------------
(* append_block compares the parent hash with the one it kept, but the       *)
(* number with the one in the head's header as it is now.                    *)
expected_parent_hash == hashes[Len(hashes)]

expected_number == height + 1

Extend(b) ==
    /\ blocks' = Append(blocks, b)
    /\ hashes' = Append(hashes, block_hash(b))
    /\ answer' = block_hash(b)
    /\ recorded' = Append(recorded, b)
    /\ UNCHANGED faults

Refused == <<>>   \* ValueError, whichever test failed

Refuse == answer' = Refused /\ UNCHANGED <<blocks, hashes, recorded, faults>>

Links(b) == b.header.parent_hash = expected_parent_hash

Follows(b) == b.header.number = expected_number

(* Mutant: the link is not looked at. *)
AppendAnyParent(b) == IF Follows(b) THEN Extend(b) ELSE Refuse

append_block(b) == IF Links(b) /\ Follows(b) THEN Extend(b) ELSE Refuse

(* Blocks come from create_block over any block of the chain, or are put     *)
(* together by hand as the tests do.                                         *)
AppendCreated ==
    \E parent \in Range(blocks), transactions \in TransactionLists,
       state_root \in StateRoots, timestamp \in Timestamps :
        /\ parent.header.number < MaxHeight
        /\ append_block(create_block(parent, transactions, state_root, timestamp))

AppendHandmade ==
    \E parent_hash \in Range(hashes) \cup {GENESIS_PARENT_HASH}, number \in 0..MaxHeight,
       transactions \in TransactionLists, state_root \in StateRoots, timestamp \in Timestamps :
        append_block(Block(Header(parent_hash, number, timestamp, state_root), transactions))

Next == AppendCreated \/ AppendHandmade

-----------------------------------------------------------------------------
(* Blocks are mutable objects that the chain shares with whoever made them:  *)
(* a field can change after the block was appended (the tests corrupt one),  *)
(* and create_block keeps the very list of transactions it was given.        *)
InPlace(i, b) ==
    /\ faults < MaxFaults
    /\ b # blocks[i]
    /\ blocks' = [blocks EXCEPT ![i] = b]
    /\ faults' = faults + 1
    /\ UNCHANGED <<hashes, answer, recorded>>

Corrupt ==
    \E i \in DOMAIN blocks, state_root \in StateRoots, number \in 0..MaxHeight,
       parent_hash \in {block_hash(b) : b \in Range(blocks)} :
        \E header \in {[blocks[i].header EXCEPT !.state_root = state_root],
                       [blocks[i].header EXCEPT !.number = number],
                       [blocks[i].header EXCEPT !.parent_hash = parent_hash]} :
            InPlace(i, [blocks[i] EXCEPT !.header = header])

Amend ==
    \E i \in DOMAIN blocks, transactions \in TransactionLists :
        InPlace(i, [blocks[i] EXCEPT !.transactions = transactions])

FaultyNext == Next \/ Corrupt \/ Amend

FaultySpec == Init /\ [][FaultyNext]_vars

-----------------------------------------------------------------------------
(* Mutant: the link to the genesis block is not looked at. *)
validate_chain_late ==
    \A i \in 2..(Len(blocks) - 1) : blocks[i + 1].header.parent_hash = block_hash(blocks[i])

validate_chain ==
    \A i \in 1..(Len(blocks) - 1) : blocks[i + 1].header.parent_hash = block_hash(blocks[i])

NoBlock == <<>>   \* IndexError

get_block_by_number(number) ==
    IF number \in 0..(Len(blocks) - 1) THEN blocks[number + 1] ELSE NoBlock

-----------------------------------------------------------------------------
(* Properties *)

(* Until somebody changes a block in place, whatever blocks are offered the  *)
(* chain is linked, its caches are right and a block is found under its      *)
(* number (append_block, get_block_by_number and validate_chain agree).      *)
ChainIntact ==
    faults = 0 =>
        /\ validate_chain
        /\ Len(hashes) = Len(blocks)
        /\ \A i \in 1..Len(blocks) : hashes[i] = block_hash(blocks[i])
        /\ \A n \in 0..(Len(blocks) - 1) : get_block_by_number(n).header.number = n

(* One trusted hash vouches for the whole chain: if the head still has the   *)
(* hash append_block returned for it and validate_chain says True, then no   *)
(* header below it has changed, however many blocks were changed and however *)
(* the links were patched up.                                                *)
HeadVouches ==
    (validate_chain /\ block_hash(latest) = expected_parent_hash)
        => \A i \in 1..Len(blocks) : blocks[i].header = recorded[i].header

(* block.py:81: "The block hash uniquely identifies a block". A block of the *)
(* chain that still has the hash it was appended with is that block.         *)
BlockHashIdentifies ==
    \A i \in 1..Len(blocks) :
        block_hash(blocks[i]) = hashes[i] => blocks[i] = recorded[i]
===============================================================================
