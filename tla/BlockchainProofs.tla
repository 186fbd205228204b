--------------------------- MODULE BlockchainProofs ---------------------------
(* Theorems about Blockchain, for chains of every length and every number of *)
(* in-place changes.                                                         *)
EXTENDS Blockchain, SequenceTheorems, InductionTheorems

(* What a chain is an intact copy of: the blocks as they were appended, with *)
(* their hashes, linked. No change in place touches it.                      *)
Shape ==
    /\ blocks \in Seq(Range(blocks))
    /\ recorded \in Seq(Range(recorded))
    /\ hashes \in Seq(Range(hashes))
    /\ Len(blocks) >= 1
    /\ Len(recorded) = Len(blocks) /\ Len(hashes) = Len(blocks)

RecordLinked ==
    /\ \A i \in 1..Len(hashes) : hashes[i] = block_hash(recorded[i])
    /\ \A i \in 1..(Len(hashes) - 1) : recorded[i + 1].header.parent_hash = hashes[i]

Record == Shape /\ RecordLinked

-----------------------------------------------------------------------------
(* Appending and replacing keep a sequence one.                              *)
LEMMA AppendIsSeq ==
    ASSUME NEW s, s \in Seq(Range(s)), NEW e
    PROVE  LET t == Append(s, e) IN
           /\ t \in Seq(Range(t))
           /\ Len(t) = Len(s) + 1
           /\ \A i \in 1..Len(s) : t[i] = s[i]
           /\ t[Len(s) + 1] = e
<1>. DEFINE S == Range(s) \cup {e}
            t == Append(s, e)
<1>1. s \in Seq(S) /\ e \in S
      BY SeqMonotonic
<1>. HIDE DEF S
<1>2. t \in Seq(S)
      BY <1>1
<1>3. t \in Seq(Range(t))
      BY <1>2, SeqOfRange
<1>. QED BY <1>1, <1>3

(* A sequence with one element replaced is a sequence of the same length.    *)
LEMMA ReplaceIsSeq ==
    ASSUME NEW s, s \in Seq(Range(s)), NEW i \in 1..Len(s), NEW e
    PROVE  LET t == [s EXCEPT ![i] = e] IN
           t \in Seq(Range(t)) /\ Len(t) = Len(s)
<1>. DEFINE S == Range(s) \cup {e}
            t == [s EXCEPT ![i] = e]
<1>1. s \in Seq(S) /\ e \in S
      BY SeqMonotonic
<1>. HIDE DEF S
<1>2. t \in Seq(S) /\ Len(t) = Len(s)
      BY <1>1, ExceptSeq
<1>3. t \in Seq(Range(t))
      BY <1>2, SeqOfRange
<1>. QED BY <1>2, <1>3

(* A sequence of one element, as the chain is when it is made.               *)
LEMMA SingletonIsSeq ==
    ASSUME NEW e
    PROVE  <<e>> \in Seq(Range(<<e>>)) /\ Len(<<e>>) = 1 /\ <<e>>[1] = e
<1>1. <<e>> \in Seq({e})
      OBVIOUS
<1>. QED BY <1>1, SeqOfRange

-----------------------------------------------------------------------------
(* The record                                                                *)

(* A new chain holds the genesis block, under number 0.                      *)
LEMMA InitRecord == Init => Record /\ blocks = recorded /\ blocks[1].header.number = 0
                            /\ Len(blocks) = 1
<1>. SUFFICES ASSUME Init
     PROVE  Record /\ blocks = recorded /\ blocks[1].header.number = 0 /\ Len(blocks) = 1
     OBVIOUS
<1>1. PICK state_root \in StateRoots, timestamp \in Timestamps :
          LET genesis == create_genesis_block(state_root, timestamp) IN
          /\ blocks = <<genesis>>
          /\ hashes = <<block_hash(genesis)>>
          /\ recorded = blocks
      BY DEF Init
<1>. DEFINE genesis == create_genesis_block(state_root, timestamp)
<1>2. genesis.header.number = 0
      BY DEF create_genesis_block, Block, Header
<1>3. blocks = <<genesis>> /\ hashes = <<block_hash(genesis)>> /\ recorded = blocks
      BY <1>1
<1>. HIDE DEF genesis
<1>4. Shape
      BY <1>3, SingletonIsSeq DEF Shape
<1>5. RecordLinked
      BY <1>3 DEF RecordLinked
<1>. QED BY <1>2, <1>3, <1>4, <1>5 DEF Record

(* append_block, when it takes a block.                                      *)
LEMMA ExtendRecord ==
    ASSUME Record, NEW b, b.header.parent_hash = expected_parent_hash, Extend(b)
    PROVE  Record'
<1>. DEFINE n == Len(blocks)
<1>1. /\ n \in Nat /\ n >= 1
      /\ Len(recorded) = n /\ Len(hashes) = n
      /\ \A i \in 1..n : hashes[i] = block_hash(recorded[i])
      /\ \A i \in 1..(n - 1) : recorded[i + 1].header.parent_hash = hashes[i]
      BY DEF Record, Shape, RecordLinked
<1>2. /\ blocks' = Append(blocks, b) /\ recorded' = Append(recorded, b)
      /\ hashes' = Append(hashes, block_hash(b))
      BY DEF Extend
<1>3. b.header.parent_hash = hashes[n]
      BY <1>1 DEF expected_parent_hash
<1>4. /\ blocks' \in Seq(Range(blocks'))
      /\ Len(blocks') = n + 1
      BY <1>2, AppendIsSeq DEF Record, Shape
<1>5. /\ recorded' \in Seq(Range(recorded'))
      /\ Len(recorded') = n + 1
      /\ \A i \in 1..n : recorded'[i] = recorded[i]
      /\ recorded'[n + 1] = b
      BY <1>1, <1>2, AppendIsSeq DEF Record, Shape
<1>6. /\ hashes' \in Seq(Range(hashes'))
      /\ Len(hashes') = n + 1
      /\ \A i \in 1..n : hashes'[i] = hashes[i]
      /\ hashes'[n + 1] = block_hash(b)
      BY <1>1, <1>2, AppendIsSeq DEF Record, Shape
<1>. HIDE DEF n
<1>7. Shape'
      BY <1>1, <1>4, <1>5, <1>6 DEF Shape
<1>8. \A i \in 1..(n + 1) : hashes'[i] = block_hash(recorded'[i])
  <2>1. \A i \in 1..(n + 1) : i \in 1..n \/ i = n + 1
        BY <1>1
  <2>. QED BY <1>1, <1>5, <1>6, <2>1
<1>9. \A i \in 1..n : recorded'[i + 1].header.parent_hash = hashes'[i]
  <2>1. \A i \in 1..n : (i \in 1..(n - 1) /\ i + 1 \in 1..n) \/ i = n
        BY <1>1
  <2>. QED BY <1>1, <1>3, <1>5, <1>6, <2>1
<1>10. (n + 1) - 1 = n
      BY <1>1
<1>11. RecordLinked'
      BY <1>6, <1>8, <1>9, <1>10 DEF RecordLinked, block_hash
<1>. QED BY <1>7, <1>11 DEF Record

(* A block of the chain changes in place.                                    *)
LEMMA InPlaceRecord ==
    ASSUME Record, NEW i \in DOMAIN blocks, NEW b, InPlace(i, b)
    PROVE  Record'
<1>1. /\ blocks' = [blocks EXCEPT ![i] = b]
      /\ hashes' = hashes /\ recorded' = recorded
      BY DEF InPlace
<1>2. i \in 1..Len(blocks)
      BY DEF Record, Shape
<1>3. blocks' \in Seq(Range(blocks')) /\ Len(blocks') = Len(blocks)
      BY <1>1, <1>2, ReplaceIsSeq DEF Record, Shape
<1>4. Shape'
      BY <1>1, <1>3 DEF Record, Shape
<1>5. RecordLinked'
      BY <1>1 DEF Record, RecordLinked, block_hash
<1>. QED BY <1>4, <1>5 DEF Record

(* append_block keeps the record, whatever block it is offered.              *)
LEMMA AppendRecord ==
    ASSUME Record, NEW b, append_block(b)
    PROVE  Record'
<1>1. CASE Extend(b) /\ b.header.parent_hash = expected_parent_hash
      BY <1>1, ExtendRecord
<1>2. CASE UNCHANGED <<blocks, hashes, recorded>>
      BY <1>2 DEF Record, Shape, RecordLinked, block_hash
<1>. QED BY <1>1, <1>2 DEF append_block, Refuse, Links, Follows

(* So does every step, the in-place changes of blocks included.              *)
LEMMA StepRecord == Record /\ [FaultyNext]_vars => Record'
<1>. SUFFICES ASSUME Record, [FaultyNext]_vars PROVE Record'
     OBVIOUS
<1>1. CASE AppendCreated
      BY <1>1, AppendRecord DEF AppendCreated
<1>2. CASE AppendHandmade
      BY <1>2, AppendRecord DEF AppendHandmade
<1>3. CASE Corrupt
      BY <1>3, InPlaceRecord DEF Corrupt
<1>4. CASE Amend
      BY <1>4, InPlaceRecord DEF Amend
<1>5. CASE UNCHANGED vars
      BY <1>5 DEF vars, Record, Shape, RecordLinked, block_hash
<1>. QED BY <1>1, <1>2, <1>3, <1>4, <1>5 DEF FaultyNext, Next

(* Downwards from the head: an intact block commits to its parent's hash.    *)
LEMMA RecordVouches == Record => HeadVouches
<1>. SUFFICES ASSUME Record, validate_chain, block_hash(latest) = expected_parent_hash
     PROVE  \A i \in 1..Len(blocks) : blocks[i].header = recorded[i].header
     BY DEF HeadVouches
<1>. DEFINE n == Len(blocks)
            Changed == {d \in 0..(n - 1) : blocks[n - d].header # recorded[n - d].header}
<1>1. /\ n \in Nat /\ n >= 1 /\ Len(hashes) = n
      /\ \A i \in 1..n : hashes[i] = block_hash(recorded[i])
      /\ \A i \in 1..(n - 1) : recorded[i + 1].header.parent_hash = hashes[i]
      BY DEF Record, Shape, RecordLinked
<1>2. \A i \in 1..(n - 1) : blocks[i + 1].header.parent_hash = block_hash(blocks[i])
      BY DEF validate_chain
<1>3. block_hash(blocks[n]) = hashes[n]
      BY <1>1 DEF latest, expected_parent_hash
<1>. HIDE DEF n
<1>4. \A x, y : block_hash(x) = block_hash(y) => x.header = y.header
      BY DEF block_hash
<1>5. ASSUME Changed # {} PROVE FALSE
  <2>1. Changed \subseteq Nat
        BY <1>1
  <2>2. PICK d \in Changed : \A e \in Changed : d <= e
        BY <1>5, <2>1, LeastNumber
  <2>. DEFINE k == n - d
  <2>3. d \in 0..(n - 1) /\ blocks[k].header # recorded[k].header
        BY <2>2
  <2>. HIDE DEF Changed
  <2>4. CASE d = 0
    <3>1. k = n /\ n \in 1..n
          BY <1>1, <2>4
    <3>2. block_hash(blocks[n]) = block_hash(recorded[n])
          BY <1>1, <1>3, <3>1
    <3>. QED BY <1>4, <2>3, <3>1, <3>2
  <2>5. CASE d # 0
    <3>1. /\ d - 1 \in 0..(n - 1) /\ ~(d <= d - 1)
          /\ k \in 1..(n - 1) /\ k \in 1..n /\ n - (d - 1) = k + 1
          BY <1>1, <2>3, <2>5
    <3>2. d - 1 \notin Changed
          BY <2>2, <3>1
    <3>3. blocks[k + 1].header = recorded[k + 1].header
          BY <3>1, <3>2 DEF Changed
    <3>4. block_hash(blocks[k]) = block_hash(recorded[k])
          BY <1>1, <1>2, <3>1, <3>3
    <3>. QED BY <1>4, <2>3, <3>4
  <2>. QED BY <2>4, <2>5
<1>6. \A i \in 1..n : n - i \in 0..(n - 1) /\ n - (n - i) = i
      BY <1>1
<1>7. \A i \in 1..n : blocks[i].header = recorded[i].header
      BY <1>5, <1>6
<1>. QED BY <1>7 DEF n

(* One trusted hash vouches for every header below it, whatever happened to  *)
(* the chain since.                                                          *)
THEOREM OneHashVouches == FaultySpec => []HeadVouches
<1>1. Init => Record
      BY InitRecord
<1>2. FaultySpec => []Record
      BY <1>1, StepRecord, PTL DEF FaultySpec
<1>. QED BY <1>2, RecordVouches, PTL

-----------------------------------------------------------------------------
(* Without changes in place                                                  *)

Unchanged ==
    /\ Record
    /\ blocks = recorded
    /\ \A i \in 1..Len(blocks) : blocks[i].header.number = i - 1

(* What holds of a chain with in-place changes: it is as it was recorded     *)
(* until the first of them.                                                  *)
UntilFault == faults \in Nat /\ (faults = 0 => Unchanged)

(* A new chain is as it was recorded.                                        *)
LEMMA InitUnchanged == Init => UntilFault
<1>. SUFFICES ASSUME Init PROVE Unchanged /\ faults = 0
     BY DEF UntilFault
<1>3. faults = 0
      BY DEF Init
<1>1. Record /\ blocks = recorded /\ blocks[1].header.number = 0 /\ Len(blocks) = 1
      BY InitRecord
<1>2. \A i \in 1..Len(blocks) : blocks[i].header.number = i - 1
      BY <1>1
<1>. QED BY <1>1, <1>2, <1>3 DEF Unchanged

(* append_block, when it takes a block: its number is the next one.          *)
LEMMA ExtendUnchanged ==
    ASSUME Unchanged, NEW b, b.header.parent_hash = expected_parent_hash,
           b.header.number = expected_number, Extend(b)
    PROVE  Unchanged'
<1>. DEFINE n == Len(blocks)
<1>1. /\ n \in Nat /\ n >= 1
      /\ blocks \in Seq(Range(blocks)) /\ blocks = recorded
      /\ \A i \in 1..n : blocks[i].header.number = i - 1
      BY DEF Unchanged, Record, Shape
<1>2. Record'
      BY ExtendRecord DEF Unchanged
<1>3. blocks' = Append(blocks, b) /\ recorded' = Append(recorded, b)
      BY DEF Extend
<1>4. /\ Len(blocks') = n + 1
      /\ \A i \in 1..n : blocks'[i] = blocks[i]
      /\ blocks'[n + 1] = b
      BY <1>1, <1>3, AppendIsSeq
<1>5. b.header.number = n
      BY <1>1 DEF expected_number, height, latest
<1>6. \A i \in 1..(n + 1) : blocks'[i].header.number = i - 1
  <2>1. \A i \in 1..(n + 1) : i \in 1..n \/ i = n + 1
        BY <1>1
  <2>. QED BY <1>1, <1>4, <1>5, <2>1
<1>. HIDE DEF n
<1>. QED BY <1>1, <1>2, <1>3, <1>4, <1>6 DEF Unchanged

(* append_block never changes a block that is there.                         *)
LEMMA AppendUnchanged ==
    ASSUME UntilFault, NEW b, append_block(b)
    PROVE  UntilFault'
<1>1. faults' = faults
      BY DEF append_block, Extend, Refuse
<1>2. ASSUME Unchanged PROVE Unchanged'
  <2>1. CASE /\ Extend(b) /\ b.header.parent_hash = expected_parent_hash
             /\ b.header.number = expected_number
        BY <1>2, <2>1, ExtendUnchanged
  <2>2. CASE UNCHANGED <<blocks, hashes, recorded>>
        BY <1>2, <2>2 DEF Unchanged, Record, Shape, RecordLinked, block_hash
  <2>. QED BY <2>1, <2>2 DEF append_block, Refuse, Links, Follows
<1>. QED BY <1>1, <1>2 DEF UntilFault

(* An in-place change is counted.                                            *)
LEMMA InPlaceCounted ==
    ASSUME UntilFault, NEW i, NEW b, InPlace(i, b)
    PROVE  UntilFault'
<1>1. faults \in Nat /\ faults' = faults + 1
      BY DEF UntilFault, InPlace
<1>2. faults' \in Nat /\ faults' # 0
      BY <1>1
<1>. QED BY <1>2 DEF UntilFault

(* Until the first in-place change the chain stays as it was recorded.       *)
LEMMA StepUnchanged == UntilFault /\ [FaultyNext]_vars => UntilFault'
<1>. SUFFICES ASSUME UntilFault, [FaultyNext]_vars PROVE UntilFault'
     OBVIOUS
<1>1. CASE AppendCreated
      BY <1>1, AppendUnchanged DEF AppendCreated
<1>2. CASE AppendHandmade
      BY <1>2, AppendUnchanged DEF AppendHandmade
<1>3. CASE Corrupt
      BY <1>3, InPlaceCounted DEF Corrupt
<1>4. CASE Amend
      BY <1>4, InPlaceCounted DEF Amend
<1>5. CASE UNCHANGED vars
      BY <1>5 DEF vars, UntilFault, Unchanged, Record, Shape, RecordLinked, block_hash
<1>. QED BY <1>1, <1>2, <1>3, <1>4, <1>5 DEF FaultyNext, Next

(* A chain that is as it was recorded is intact.                             *)
LEMMA UnchangedIntact == UntilFault => ChainIntact
<1>. SUFFICES ASSUME Unchanged, faults = 0 PROVE ChainIntact
     BY DEF UntilFault, ChainIntact
<1>. DEFINE n == Len(blocks)
<1>1. /\ n \in Nat /\ Len(hashes) = n /\ blocks = recorded
      /\ \A i \in 1..n : hashes[i] = block_hash(blocks[i])
      /\ \A i \in 1..(n - 1) : blocks[i + 1].header.parent_hash = hashes[i]
      /\ \A i \in 1..n : blocks[i].header.number = i - 1
      BY DEF Unchanged, Record, Shape, RecordLinked
<1>. HIDE DEF n
<1>2. \A i \in 1..(n - 1) : i \in 1..n
      BY <1>1
<1>3. \A i \in 1..(n - 1) : blocks[i + 1].header.parent_hash = block_hash(blocks[i])
      BY <1>1, <1>2
<1>4. \A m \in 0..(n - 1) : m + 1 \in 1..n /\ (m + 1) - 1 = m
      BY <1>1
<1>5. \A m \in 0..(n - 1) : blocks[m + 1].header.number = m
      BY <1>1, <1>4
<1>. QED BY <1>1, <1>3, <1>5 DEF ChainIntact, validate_chain, get_block_by_number, n

(* Whatever blocks are offered, until somebody changes a block in place the  *)
(* chain stays linked, its cached hashes are right, and every block is found *)
(* under its own number.                                                     *)
THEOREM ChainStaysIntact == FaultySpec => []ChainIntact
<1>1. FaultySpec => []UntilFault
      BY InitUnchanged, StepUnchanged, PTL DEF FaultySpec
<1>. QED BY <1>1, UnchangedIntact, PTL
===============================================================================
