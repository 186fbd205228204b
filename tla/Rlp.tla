---------------------------------- MODULE Rlp ----------------------------------
(* encoding/rlp.py. The state is an item that is being put together and a    *)
(* string of bytes that is being received, so that the encoder meets every   *)
(* small item and the decoder every short string.                            *)
(*                                                                           *)
(* The code's numbers are STRING0 = 0x80, SHORT = 55 and LENGTHS = 8; the    *)
(* other boundaries and the number of bytes there are follow from them.      *)
EXTENDS Integers, Sequences

CONSTANTS
    STRING0,       \* the prefix of the empty string
    SHORT,         \* the longest payload whose length fits in the prefix
    LENGTHS,       \* the most bytes a length may have
    MaxData,       \* bound: of received strings
    MaxEncoding,   \* bound: of encodings
    MaxDepth       \* bound: lists in lists (the interpreter's recursion limit)

LONGSTRING == STRING0 + SHORT             \* 0xb7

LIST0 == LONGSTRING + LENGTHS + 1         \* 0xc0

LONGLIST == LIST0 + SHORT                 \* 0xf7

Base == LONGLIST + LENGTHS + 1            \* 256

Byte == 0..(Base - 1)

from_bytes(s) ==
    LET upto[n \in 0..Len(s)] == IF n = 0 THEN 0 ELSE upto[n - 1] * Base + s[n]
    IN  upto[Len(s)]

(* Big-endian, with no leading zero: to_bytes of (bit_length + 7) // 8.      *)
Digits[n \in Nat] == IF n = 0 THEN <<>> ELSE Append(Digits[n \div Base], n % Base)

(* Mutant: zero is one byte. *)
ZeroIsAByte(n) == IF n = 0 THEN <<0>> ELSE Digits[n]

int_to_rlp_bytes(n) == Digits[n]

encode_length(length) == IF length = 0 THEN <<0>> ELSE Digits[length]

(* No length is too long to have its own length in a prefix (eight bytes in  *)
(* the code), and no string received is nested more deeply than the bound.   *)
ASSUME LayoutAssumption ==
    /\ {STRING0, SHORT, LENGTHS, MaxData, MaxEncoding, MaxDepth} \subseteq Nat \ {0}
    /\ Len(Digits[MaxEncoding]) <= LENGTHS
    /\ MaxData <= MaxDepth

-----------------------------------------------------------------------------
(* An item is a byte string or a list of items.                              *)
String(s) == [bytes |-> s]

List(items) == [items |-> items]

IsString(item) == "bytes" \in DOMAIN item

Strings == [bytes : Seq(Byte)]

Items[depth \in 0..MaxDepth] ==
    IF depth = 0 THEN Strings ELSE Strings \cup [items : Seq(Items[depth - 1])]

Prefixed(short, long, payload) ==
    IF Len(payload) <= SHORT
    THEN <<short + Len(payload)>> \o payload
    ELSE LET len_bytes == encode_length(Len(payload))
         IN  <<long + Len(len_bytes)>> \o len_bytes \o payload

(* Mutant: any single byte stands for itself. *)
EverySingleByte(data) == IF Len(data) = 1 THEN data ELSE Prefixed(STRING0, LONGSTRING, data)

encode_string(data) ==
    IF Len(data) = 1 /\ data[1] < STRING0 THEN data ELSE Prefixed(STRING0, LONGSTRING, data)

(* The items' encodings, one after the other.                                *)
Payload(items, encode) ==
    LET upto[n \in 0..Len(items)] == IF n = 0 THEN <<>> ELSE upto[n - 1] \o encode[items[n]]
    IN  upto[Len(items)]

encode_list(items, encode) == Prefixed(LIST0, LONGLIST, Payload(items, encode))

Encodings[depth \in 0..MaxDepth] ==
    [item \in Items[depth] |->
        IF IsString(item) THEN encode_string(item.bytes)
        ELSE encode_list(item.items, Encodings[depth - 1])]

rlp_encode(item) == Encodings[MaxDepth][item]

-----------------------------------------------------------------------------
(* Decoding gives an item and where it ends, or raises ValueError.           *)
ValueError == [ok |-> FALSE]

Found(item, end) == [ok |-> TRUE, item |-> item, end |-> end]

Part(data, start, end) == SubSeq(data, start + 1, end)

(* The payload of a string from start to end.                                *)
StringTo(data, start, end) ==
    IF end > Len(data) THEN ValueError ELSE Found(String(Part(data, start, end)), end)

(* What a loop leaves behind.                                                *)
Stopped(items, pos) == [ok |-> TRUE, items |-> items, pos |-> pos]

(* Mutant: that the items fill the list exactly is not tested. *)
ListUpTo(read, end) == IF ~read.ok THEN ValueError ELSE Found(List(read.items), read.pos)

(* The end of _decode_list.                                                  *)
ListExactly(read, end) ==
    IF ~read.ok \/ read.pos # end THEN ValueError ELSE Found(List(read.items), end)

(* The loop of _decode_list. What it has read is in read, and later[p] is    *)
(* what _decode_item returns at p. Every round reads a byte at least.        *)
Round(later, end, read) ==
    IF ~read.ok \/ read.pos >= end THEN read
    ELSE LET next == later[read.pos]
         IN  IF next.ok THEN Stopped(Append(read.items, next.item), next.end) ELSE ValueError

ItemsFrom(later, start, end) ==
    LET after[n \in 0..(end - start)] ==
            IF n = 0 THEN Stopped(<<>>, start) ELSE Round(later, end, after[n - 1])
    IN  after[end - start]

decode_list(data, later, start, list_len) ==
    IF start + list_len > Len(data) THEN ValueError
    ELSE ListExactly(ItemsFrom(later, start, start + list_len), start + list_len)

decode_item(data, later, offset) ==
    IF offset >= Len(data) THEN ValueError
    ELSE LET prefix == data[offset + 1]
             start == offset + 1
             len_end(long) == start + prefix - long
             length(long) == from_bytes(Part(data, start, len_end(long)))
         IN  CASE prefix < STRING0 -> Found(String(<<prefix>>), start)
               [] prefix \in STRING0..LONGSTRING -> StringTo(data, start, start + prefix - STRING0)
               [] prefix \in (LONGSTRING + 1)..(LIST0 - 1) ->
                    IF len_end(LONGSTRING) > Len(data) THEN ValueError
                    ELSE StringTo(data, len_end(LONGSTRING), len_end(LONGSTRING) + length(LONGSTRING))
               [] prefix \in LIST0..LONGLIST -> decode_list(data, later, start, prefix - LIST0)
               [] OTHER ->
                    IF len_end(LONGLIST) > Len(data) THEN ValueError
                    ELSE decode_list(data, later, len_end(LONGLIST), length(LONGLIST))

(* _decode_item calls itself further on in the data only: left is how many   *)
(* bytes there are from its offset on.                                       *)
Decodings(data) ==
    LET reads[left \in 0..Len(data)] ==
            decode_item(data, [p \in (Len(data) - left + 1)..Len(data) |-> reads[Len(data) - p]],
                        Len(data) - left)
    IN  reads

rlp_decode(data) ==
    LET result == Decodings(data)[Len(data)]
    IN  IF ~result.ok \/ result.end # Len(data) THEN ValueError ELSE result

-----------------------------------------------------------------------------
VARIABLES
    item,    \* what a caller is about to encode
    data     \* what a caller has received so far

vars == <<item, data>>

Init == item = String(<<>>) /\ data = <<>>

(* A byte at the end of a string, a list around an item, an item more: with  *)
(* the bytes at the boundaries.                                              *)
Larger(i) ==
    IF IsString(i)
    THEN {String(Append(i.bytes, b)) : b \in {0, STRING0 - 1, STRING0}} \cup {List(<<i>>)}
    ELSE {List(Append(i.items, String(s))) : s \in {<<>>, <<0>>, <<STRING0>>, <<1, 1>>}}
            \cup {List(Append(i.items, List(<<>>))), List(<<i>>)}

Build ==
    /\ data = <<>>
    /\ item' \in {i \in Larger(item) : i \in Items[MaxDepth] /\ Len(rlp_encode(i)) <= MaxEncoding}
    /\ UNCHANGED data

Receive ==
    /\ item = String(<<>>) /\ Len(data) < MaxData
    /\ \E b \in Byte : data' = Append(data, b)
    /\ UNCHANGED item

(* And the next one.                                                         *)
Reset == item' = String(<<>>) /\ data' = <<>>

Next == Build \/ Receive \/ Reset

Spec == Init /\ [][Next]_vars

-----------------------------------------------------------------------------
(* Properties *)

(* What is encoded is decoded again, whole and nothing else, so no two items *)
(* have one encoding: transaction hashes, block hashes, contract addresses   *)
(* and the state root distinguish whatever they encode (rlp_encode and       *)
(* rlp_decode of encoding/rlp.py).                                           *)
RoundTrip ==
    LET result == rlp_decode(rlp_encode(item)) IN result.ok /\ result.item = item

(* Whatever the decoder accepts, the encoder writes shorter or in the same   *)
(* way: an encoding that is not the encoder's own (a single byte with a      *)
(* prefix, a length with leading zeros) is never the shortest, and an item   *)
(* never reaches beyond the list it is in (_decode_item of encoding/rlp.py). *)
Shortest ==
    LET result == rlp_decode(data) IN
    result.ok => LET again == rlp_encode(result.item)
                 IN  again = data \/ Len(again) < Len(data)

(* No encoding begins another, so that encodings can be told apart when they *)
(* are joined without a length, as state_root_placeholder of                 *)
(* state/world_state.py joins its accounts. An integer has one form, without *)
(* leading zeros.                                                            *)
Separable ==
    /\ rlp_decode(data).ok => \A n \in 0..(Len(data) - 1) : ~rlp_decode(SubSeq(data, 1, n)).ok
    /\ LET n == from_bytes(data)
           digits == int_to_rlp_bytes(n)
       IN  from_bytes(digits) = n /\ (digits # <<>> => digits[1] # 0)
=============================================================================
