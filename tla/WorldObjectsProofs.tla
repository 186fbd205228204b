-------------------------- MODULE WorldObjectsProofs --------------------------
(* Theorems about WorldObjects, for any finite set of addresses and any      *)
(* number of operations, snapshots and reverts: no two places ever share an  *)
(* object that an operation could change, and the objects behave as the      *)
(* values of Worlds.                                                         *)
EXTENDS WorldObjects, InductionTheorems, FunctionTheorems

-----------------------------------------------------------------------------
(* Names are natural numbers, and there is a greatest.                       *)
Named(S) == S \subseteq Nat /\ \E m \in S : \A i \in S : i <= m

AccountOf(h) == [nonce : Int, balance : Int, code : Codes \cup {NoCode}, storage : DOMAIN h.dicts]

IsTable(table, h) ==
    DOMAIN table \subseteq Addresses /\ table \in [DOMAIN table -> DOMAIN h.accounts]

(* A heap: every name in it is the name of something, and EMPTY_ACCOUNT is   *)
(* as it was made.                                                           *)
IsHeap(h) ==
    /\ h = [tables |-> h.tables, accounts |-> h.accounts, dicts |-> h.dicts]
    /\ Named(DOMAIN h.tables) /\ Named(DOMAIN h.accounts) /\ Named(DOMAIN h.dicts)
    /\ Current \in DOMAIN h.tables
    /\ \A t \in DOMAIN h.tables : IsTable(h.tables[t], h)
    /\ h.accounts \in [DOMAIN h.accounts -> AccountOf(h)]
    /\ Sentinel \in DOMAIN h.accounts
    /\ Value(h, Sentinel) = A!EMPTY_ACCOUNT

(* NothingShared, of any heap.                                               *)
Apart(h) ==
    /\ \A t, u \in DOMAIN h.tables :
          \A a \in DOMAIN h.tables[t], b \in DOMAIN h.tables[u] :
              h.tables[t][a] = h.tables[u][b] => t = u /\ a = b
    /\ \A i, j \in DOMAIN h.accounts : h.accounts[i].storage = h.accounts[j].storage => i = j
    /\ \A t \in DOMAIN h.tables : Sentinel \notin Range(h.tables[t])

(* What the caller has is in the heap.                                       *)
Holds(h, sv, hd) ==
    /\ sv = <<>> \/ \E t \in DOMAIN h.tables : sv = <<t>>
    /\ hd = <<>> \/ \E i \in DOMAIN h.accounts : hd = <<i>>

ObjectsInv ==
    /\ IsHeap(heap) /\ Apart(heap) /\ Holds(heap, saved, held)
    /\ DOMAIN heap.tables = {Current} \cup Range(saved)

-----------------------------------------------------------------------------
(* Names *)

(* A set of numbers that has a bound has a greatest.                         *)
LEMMA BoundedIsNamed ==
    ASSUME NEW S, S \subseteq Nat, S # {}, NEW b \in Nat, \A i \in S : i <= b
    PROVE  Named(S)
<1>. DEFINE T == {m \in Nat : \A i \in S : i <= m}
<1>1. PICK m \in T : \A k \in T : m <= k
      BY LeastNumber
<1>2. m \in S
  <2>1. SUFFICES ASSUME m \notin S PROVE FALSE
        OBVIOUS
  <2>2. m # 0
    <3>1. PICK i \in S : TRUE
          OBVIOUS
    <3>2. i \in Nat /\ i <= m /\ i # m
          BY <2>1
    <3>. QED BY <3>2
  <2>3. m - 1 \in T
        BY <2>1, <2>2
  <2>. QED BY <1>1, <2>3
<1>. QED BY <1>2 DEF Named

LEMMA MaxOfNamed ==
    ASSUME NEW S, Named(S)
    PROVE  Max(S) \in S /\ \A i \in S : i <= Max(S)
<1>1. PICK m \in S : \A i \in S : i <= m
      BY DEF Named
<1>2. \A i \in S : m >= i
      BY <1>1 DEF Named
<1>. QED BY <1>2 DEF Max, Named

(* A fresh name is beyond all that are used.                                 *)
LEMMA FreshName ==
    ASSUME NEW S, Named(S)
    PROVE  Fresh(S) \in Nat /\ Fresh(S) \notin S /\ \A i \in S : i < Fresh(S)
<1>1. Max(S) \in Nat /\ \A i \in S : i \in Nat /\ i <= Max(S)
      BY MaxOfNamed DEF Named
<1>. QED BY <1>1 DEF Fresh

LEMMA OneMoreNamed ==
    ASSUME NEW S, Named(S)
    PROVE  Named(S \cup {Fresh(S)})
<1>1. Fresh(S) \in Nat /\ \A i \in S : i \in Nat /\ i < Fresh(S)
      BY FreshName DEF Named
<1>2. \A i \in S \cup {Fresh(S)} : i \in Nat /\ i <= Fresh(S)
      BY <1>1
<1>. QED BY <1>2 DEF Named

LEMMA MinOfNaturals ==
    ASSUME NEW S, S \subseteq Nat, S # {}
    PROVE  Min(S) \in S /\ \A i \in S : Min(S) <= i
<1>1. PICK m \in S : \A i \in S : m <= i
      BY LeastNumber
<1>. QED BY <1>1 DEF Min

(* Every address has a place of its own.                                     *)
LEMMA PositionType ==
    /\ Width \in Nat
    /\ Position \in [Addresses -> 1..Width]
    /\ \A a, b \in Addresses : Position[a] = Position[b] => a = b
<1>1. Width \in Nat /\ ExistsBijection(1..Width, Addresses)
      BY ObjectsAssumption, FS_CardinalityType DEF Width
<1>2. ExistsBijection(Addresses, 1..Width)
      BY <1>1, Fun_ExistsBijSymmetric
<1>3. PICK f \in [Addresses -> 1..Width] : IsInjective(f)
      BY <1>2 DEF ExistsBijection, Bijection, Injection
<1>4. Position \in [Addresses -> 1..Width] /\ IsInjective(Position)
      BY <1>3 DEF Position
<1>. QED BY <1>1, <1>4 DEF IsInjective

-----------------------------------------------------------------------------
(* An operation that changes an account                                      *)

(* What is in h is in g, and the snapshot is the same.                       *)
Keeps(h, g) ==
    /\ DOMAIN g.tables = DOMAIN h.tables
    /\ DOMAIN h.accounts \subseteq DOMAIN g.accounts
    /\ \A i \in DOMAIN h.accounts : Value(g, i) = Value(h, i)
    /\ \A t \in DOMAIN h.tables \ {Current} :
          g.tables[t] = h.tables[t] /\ WorldIn(g, t) = WorldIn(h, t)

LEMMA ValueField ==
    ASSUME NEW h, IsHeap(h), NEW i \in DOMAIN h.accounts
    PROVE  /\ h.accounts[i] \in AccountOf(h)
           /\ Value(h, i) = [nonce |-> h.accounts[i].nonce, balance |-> h.accounts[i].balance,
                             code |-> h.accounts[i].code, storage |-> h.dicts[h.accounts[i].storage]]
<1>1. h.accounts[i] \in AccountOf(h)
      BY DEF IsHeap
<1>. QED BY <1>1 DEF Value, AccountOf

LEMMA Lookup ==
    ASSUME NEW h, IsHeap(h), NEW a
    PROVE  /\ get_account(h, a) \in DOMAIN h.accounts
           /\ account_at(h, a) \in AccountOf(h)
           /\ Value(h, get_account(h, a)) = A!get_account(WorldIn(h, Current), a)
<1>1. get_account(h, a) \in DOMAIN h.accounts
      BY DEF IsHeap, get_account, IsTable
<1>2. account_at(h, a) \in AccountOf(h)
      BY <1>1, ValueField DEF account_at
<1>3. DOMAIN WorldIn(h, Current) = DOMAIN h.tables[Current]
      BY DEF WorldIn
<1>4. CASE a \in DOMAIN h.tables[Current]
      BY <1>1, <1>2, <1>3, <1>4 DEF get_account, A!get_account, WorldIn
<1>5. CASE a \notin DOMAIN h.tables[Current]
      BY <1>1, <1>2, <1>3, <1>5 DEF get_account, A!get_account, IsHeap
<1>. QED BY <1>1, <1>2, <1>4, <1>5

(* The modifier's copy takes the account's place in the world, and is all    *)
(* that is new.                                                              *)
LEMMA ModifyHeap ==
    ASSUME NEW h, IsHeap(h), NEW a \in Addresses, NEW account \in AccountOf(h), NEW storage,
           NEW g, g = modify_account(h, a, account, storage)
    PROVE  /\ IsHeap(g) /\ Keeps(h, g)
           /\ Apart(h) => Apart(g)
           /\ WorldIn(g, Current) =
                 A!set_account(WorldIn(h, Current), a, [account EXCEPT !.storage = storage])
<1>. DEFINE i == Fresh(DOMAIN h.accounts)
            d == Fresh(DOMAIN h.dicts)
            copy == [account EXCEPT !.storage = d]
<1>1. /\ i \in Nat /\ i \notin DOMAIN h.accounts /\ Named(DOMAIN h.accounts \cup {i})
      /\ d \in Nat /\ d \notin DOMAIN h.dicts /\ Named(DOMAIN h.dicts \cup {d})
      BY FreshName, OneMoreNamed DEF IsHeap
<1>2. g = [tables |-> [h.tables EXCEPT ![Current] = With(@, a, i)],
           accounts |-> With(h.accounts, i, copy),
           dicts |-> With(h.dicts, d, storage)]
      BY DEF modify_account, deepcopy
<1>3. /\ DOMAIN g.accounts = DOMAIN h.accounts \cup {i}
      /\ g.accounts[i] = copy
      /\ \A j \in DOMAIN h.accounts : g.accounts[j] = h.accounts[j]
  <2>1. g.accounts = With(h.accounts, i, copy)
        BY <1>2
  <2>. QED BY <2>1, <1>1 DEF With
<1>4. /\ DOMAIN g.dicts = DOMAIN h.dicts \cup {d}
      /\ g.dicts[d] = storage
      /\ \A e \in DOMAIN h.dicts : g.dicts[e] = h.dicts[e]
  <2>1. g.dicts = With(h.dicts, d, storage)
        BY <1>2
  <2>. QED BY <2>1, <1>1 DEF With
<1>5. /\ DOMAIN g.tables = DOMAIN h.tables
      /\ DOMAIN g.tables[Current] = DOMAIN h.tables[Current] \cup {a}
      /\ g.tables[Current][a] = i
      /\ \A b \in DOMAIN h.tables[Current] \ {a} : g.tables[Current][b] = h.tables[Current][b]
      /\ \A t \in DOMAIN h.tables \ {Current} : g.tables[t] = h.tables[t]
  <2>1. g.tables = [h.tables EXCEPT ![Current] = With(@, a, i)]
        BY <1>2
  <2>2. g.tables[Current] = With(h.tables[Current], a, i)
        BY <2>1 DEF IsHeap
  <2>. QED BY <2>1, <2>2 DEF With
<1>. HIDE DEF i, d
<1>6. \A j \in DOMAIN h.accounts : h.accounts[j] \in AccountOf(h)
      BY DEF IsHeap
<1>7. /\ copy = [nonce |-> account.nonce, balance |-> account.balance, code |-> account.code,
                 storage |-> d]
      /\ copy \in AccountOf(g)
      BY <1>4 DEF AccountOf
<1>8. \A j \in DOMAIN g.accounts : g.accounts[j] \in AccountOf(g)
  <2>1. \A j \in DOMAIN h.accounts : h.accounts[j] \in AccountOf(g)
        BY <1>4, <1>6 DEF AccountOf
  <2>. QED BY <2>1, <1>3, <1>7
<1>9. \A j \in DOMAIN h.accounts : Value(g, j) = Value(h, j)
  <2>. TAKE j \in DOMAIN h.accounts
  <2>1. h.accounts[j].storage \in DOMAIN h.dicts
        BY <1>6 DEF AccountOf
  <2>. QED BY <2>1, <1>3, <1>4, <1>6 DEF Value, AccountOf
<1>10. Value(g, i) = [account EXCEPT !.storage = storage]
       BY <1>3, <1>4, <1>7 DEF Value, AccountOf
<1>11. \A t \in DOMAIN g.tables : IsTable(g.tables[t], g)
  <2>. TAKE t \in DOMAIN g.tables
  <2>1. IsTable(h.tables[t], h) /\ t \in DOMAIN h.tables
        BY <1>5 DEF IsHeap
  <2>2. CASE t # Current
        BY <2>1, <2>2, <1>3, <1>5 DEF IsTable
  <2>3. CASE t = Current
    <3>1. g.tables[t] = With(h.tables[t], a, i)
          BY <2>1, <2>3, <1>2 DEF IsHeap
    <3>2. With(h.tables[t], a, i) \in [DOMAIN h.tables[t] \cup {a} -> DOMAIN g.accounts]
          BY <2>1, <1>3 DEF With, IsTable
    <3>. QED BY <2>1, <3>1, <3>2 DEF IsTable
  <2>. QED BY <2>2, <2>3
<1>12. g.accounts \in [DOMAIN g.accounts -> AccountOf(g)]
  <2>1. g.accounts = [j \in DOMAIN g.accounts |-> g.accounts[j]]
        BY <1>2 DEF With
  <2>. QED BY <2>1, <1>8
<1>13. IsHeap(g)
       BY <1>1, <1>2, <1>3, <1>4, <1>5, <1>9, <1>11, <1>12 DEF IsHeap
<1>14. Keeps(h, g)
  <2>1. \A t \in DOMAIN h.tables \ {Current} : WorldIn(g, t) = WorldIn(h, t)
    <3>. TAKE t \in DOMAIN h.tables \ {Current}
    <3>1. \A b \in DOMAIN h.tables[t] : Value(g, h.tables[t][b]) = Value(h, h.tables[t][b])
          BY <1>9 DEF IsHeap, IsTable
    <3>. QED BY <3>1, <1>5 DEF WorldIn
  <2>. QED BY <2>1, <1>3, <1>5, <1>9 DEF Keeps
<1>15. WorldIn(g, Current) =
          A!set_account(WorldIn(h, Current), a, [account EXCEPT !.storage = storage])
  <2>1. \A b \in DOMAIN h.tables[Current] :
           Value(g, h.tables[Current][b]) = Value(h, h.tables[Current][b])
        BY <1>9 DEF IsHeap, IsTable
  <2>. QED BY <2>1, <1>5, <1>10 DEF WorldIn, A!set_account
<1>16. ASSUME Apart(h) PROVE Apart(g)
  <2>1. \A t \in DOMAIN h.tables : \A b \in DOMAIN h.tables[t] :
           h.tables[t][b] # i /\ h.tables[t][b] # Sentinel
        BY <1>1, <1>16 DEF IsHeap, IsTable, Apart, Range
  <2>2. i # Sentinel
        BY <1>1 DEF IsHeap
  <2>3. \A t, u \in DOMAIN g.tables :
           \A b \in DOMAIN g.tables[t], c \in DOMAIN g.tables[u] :
              g.tables[t][b] = g.tables[u][c] => t = u /\ b = c
        BY <2>1, <1>5, <1>16 DEF Apart, IsHeap
  <2>4. \A j \in DOMAIN h.accounts : h.accounts[j].storage # d
        BY <1>1, <1>6 DEF AccountOf
  <2>5. \A j, k \in DOMAIN g.accounts : g.accounts[j].storage = g.accounts[k].storage => j = k
        BY <2>4, <1>3, <1>7, <1>16 DEF Apart
  <2>6. \A t \in DOMAIN g.tables : Sentinel \notin Range(g.tables[t])
        BY <2>1, <2>2, <1>5 DEF Range, IsHeap
  <2>. QED BY <2>3, <2>5, <2>6 DEF Apart
<1>. QED BY <1>13, <1>14, <1>15, <1>16

-----------------------------------------------------------------------------
(* Renaming                                                                  *)

(* What a caller may have of h when cur becomes its world.                   *)
Keepable(h, cur, sv, hd) ==
    /\ cur \in DOMAIN h.tables
    /\ sv = <<>> \/ \E t \in DOMAIN h.tables : sv = <<t>>
    /\ hd = <<>> \/ \E i \in DOMAIN h.accounts : hd = <<i>>

LEMMA KeptParts ==
    ASSUME NEW h, NEW cur, NEW sv, NEW hd, Keepable(h, cur, sv, hd)
    PROVE  /\ Range(sv) \subseteq DOMAIN h.tables
           /\ \A t, u \in Range(sv) : t = u
           /\ sv # <<>> => DOMAIN sv = {1} /\ Range(sv) = {sv[1]}
           /\ sv = <<>> => DOMAIN sv = {} /\ Range(sv) = {}
           /\ Range(hd) \subseteq DOMAIN h.accounts
           /\ DOMAIN hd \subseteq {1}
<1>1. CASE sv = <<>>
      BY <1>1 DEF Keepable, Range
<1>2. CASE sv # <<>>
      BY <1>2 DEF Keepable, Range
<1>3. Range(hd) \subseteq DOMAIN h.accounts /\ DOMAIN hd \subseteq {1}
      BY DEF Keepable, Range
<1>4. /\ Range(sv) \subseteq DOMAIN h.tables
      /\ \A t, u \in Range(sv) : t = u
      BY DEF Keepable, Range
<1>. QED BY <1>1, <1>2, <1>3, <1>4

LEMMA PlacesInTable ==
    ASSUME NEW h, NEW table, IsTable(table, h)
    PROVE  /\ \A i : PlacesIn(table, i) \subseteq 1..Width
           /\ \A a \in DOMAIN table : Position[a] \in PlacesIn(table, table[a])
           /\ \A i, j : \A p \in PlacesIn(table, i) \cap PlacesIn(table, j) : i = j
BY PositionType DEF PlacesIn, IsTable

(* Everything that is found has its places, and no two share one.            *)
LEMMA PlacesApart ==
    ASSUME NEW h, IsHeap(h), NEW cur, NEW sv, NEW hd, Keepable(h, cur, sv, hd)
    PROVE  /\ \A i \in Found(h, cur, sv, hd) :
                 /\ Places(h, cur, sv, hd, i) # {}
                 /\ Places(h, cur, sv, hd, i) \subseteq 0..(2 * Width + 1)
           /\ \A i, j \in Found(h, cur, sv, hd) :
                 Places(h, cur, sv, hd, i) \cap Places(h, cur, sv, hd, j) # {} => i = j
<1>. DEFINE here(i) == PlacesIn(h.tables[cur], i)
            there(i) == UNION {PlacesIn(h.tables[t], i) : t \in Range(sv)}
            P(i) == Places(h, cur, sv, hd, i)
<1>1. /\ IsTable(h.tables[cur], h)
      /\ \A t \in Range(sv) : IsTable(h.tables[t], h)
      BY KeptParts DEF Keepable, IsHeap
<1>2. /\ \A i : here(i) \subseteq 1..Width
      /\ \A i, j : \A p \in here(i) \cap here(j) : i = j
      BY <1>1, PlacesInTable
<1>3. \A i : there(i) \subseteq 1..Width
      BY <1>1, PlacesInTable
<1>4. \A i, j : \A p \in there(i) \cap there(j) : i = j
  <2>. SUFFICES ASSUME NEW i, NEW j, NEW p \in there(i) \cap there(j) PROVE i = j
       OBVIOUS
  <2>1. PICK t \in Range(sv) : p \in PlacesIn(h.tables[t], i)
        OBVIOUS
  <2>2. PICK u \in Range(sv) : p \in PlacesIn(h.tables[u], j)
        OBVIOUS
  <2>3. t = u
        BY KeptParts
  <2>. QED BY <2>1, <2>2, <2>3, <1>1, PlacesInTable
<1>. HIDE DEF here, there
<1>5. \A i : \A p :
         p \in P(i) <=> \/ p = Sentinel /\ p = i
                        \/ p \in here(i)
                        \/ \E q \in there(i) : p = Width + q
                        \/ \E k \in DOMAIN hd : hd[k] = i /\ p = 2 * Width + k
      BY DEF Places, here, there
<1>6. Width \in Nat /\ DOMAIN hd \subseteq {1}
      BY PositionType, KeptParts
<1>7. \A i : P(i) \subseteq 0..(2 * Width + 1)
  <2>. SUFFICES ASSUME NEW i, NEW p, p \in P(i) PROVE p \in 0..(2 * Width + 1)
       OBVIOUS
  <2>. HIDE DEF P
  <2>1. CASE p = Sentinel
        BY <2>1, <1>6 DEF Sentinel
  <2>2. CASE p \in here(i)
        BY <2>2, <1>2, <1>6
  <2>3. ASSUME NEW q \in there(i), p = Width + q PROVE p \in 0..(2 * Width + 1)
    <3>1. q \in 1..Width
          BY <1>3
    <3>. QED BY <3>1, <2>3, <1>6
  <2>4. ASSUME NEW k \in DOMAIN hd, p = 2 * Width + k PROVE p \in 0..(2 * Width + 1)
    <3>1. k = 1
          BY <1>6
    <3>. QED BY <3>1, <2>4, <1>6
  <2>. QED BY <1>5, <2>1, <2>2, <2>3, <2>4
<1>8. \A i \in Found(h, cur, sv, hd) : P(i) # {}
  <2>. TAKE i \in Found(h, cur, sv, hd)
  <2>. HIDE DEF P
  <2>1. CASE i = Sentinel
        BY <2>1, <1>5
  <2>2. ASSUME NEW a \in DOMAIN h.tables[cur], i = h.tables[cur][a] PROVE P(i) # {}
    <3>1. Position[a] \in here(i)
          BY <2>2, <1>1, PlacesInTable DEF here
    <3>. QED BY <3>1, <1>5
  <2>3. ASSUME NEW t \in Range(sv), NEW a \in DOMAIN h.tables[t], i = h.tables[t][a]
        PROVE  P(i) # {}
    <3>1. Position[a] \in there(i)
          BY <2>3, <1>1, PlacesInTable DEF there
    <3>. QED BY <3>1, <1>5
  <2>4. ASSUME NEW k \in DOMAIN hd, i = hd[k] PROVE P(i) # {}
    <3>1. 2 * Width + k \in P(i)
          BY <2>4, <1>5
    <3>. QED BY <3>1
  <2>. QED BY <2>1, <2>2, <2>3, <2>4 DEF Found, Range
<1>9. ASSUME NEW i, NEW j, NEW p, p \in P(i), p \in P(j) PROVE i = j
  <2>. HIDE DEF P
  <2>. DEFINE In(x) == /\ p = 0 => x = Sentinel
                       /\ p \in 1..Width => p \in here(x)
                       /\ p \in (Width + 1)..(2 * Width) => p - Width \in there(x)
                       /\ p = 2 * Width + 1 => 1 \in DOMAIN hd /\ hd[1] = x
                       /\ p \in 0..(2 * Width + 1)
  <2>1. ASSUME NEW x, p \in P(x) PROVE In(x)
    <3>1. CASE p = Sentinel /\ p = x
          BY <3>1, <1>6 DEF Sentinel
    <3>2. CASE p \in here(x)
      <4>1. p \in 1..Width
            BY <3>2, <1>2
      <4>. QED BY <3>2, <4>1, <1>6
    <3>3. ASSUME NEW q \in there(x), p = Width + q PROVE In(x)
      <4>1. q \in 1..Width
            BY <1>3
      <4>2. p - Width = q
            BY <3>3, <4>1, <1>6
      <4>. QED BY <3>3, <4>1, <4>2, <1>6
    <3>4. ASSUME NEW k \in DOMAIN hd, hd[k] = x, p = 2 * Width + k PROVE In(x)
      <4>1. k = 1
            BY <1>6
      <4>. QED BY <3>4, <4>1, <1>6
    <3>. QED BY <2>1, <1>5, <3>1, <3>2, <3>3, <3>4
  <2>2. In(i) /\ In(j)
        BY <1>9, <2>1
  <2>3. p = 0 \/ p \in 1..Width \/ p \in (Width + 1)..(2 * Width) \/ p = 2 * Width + 1
        BY <2>2, <1>6
  <2>. QED BY <2>2, <2>3, <1>2, <1>4
<1>. QED BY <1>7, <1>8, <1>9

(* So the names are names, and EMPTY_ACCOUNT keeps its own.                  *)
LEMMA NamesType ==
    ASSUME NEW h, IsHeap(h), NEW cur, NEW sv, NEW hd, Keepable(h, cur, sv, hd),
           NEW name, name = Names(h, cur, sv, hd)
    PROVE  /\ name \in [Found(h, cur, sv, hd) -> 0..(2 * Width + 1)]
           /\ \A i, j \in DOMAIN name : name[i] = name[j] => i = j
           /\ Sentinel \in DOMAIN name /\ name[Sentinel] = Sentinel
           /\ DOMAIN name \subseteq DOMAIN h.accounts
<1>. DEFINE P(i) == Places(h, cur, sv, hd, i)
            I == Found(h, cur, sv, hd)
<1>1. \A i \in I : P(i) # {} /\ P(i) \subseteq Nat /\ P(i) \subseteq 0..(2 * Width + 1)
      BY PlacesApart, PositionType
<1>2. \A i \in I : Min(P(i)) \in P(i) /\ \A p \in P(i) : Min(P(i)) <= p
      BY <1>1, MinOfNaturals
<1>3. \A i, j \in I : P(i) \cap P(j) # {} => i = j
      BY PlacesApart
<1>4. Sentinel \in I /\ Sentinel \in P(Sentinel)
      BY DEF Found, Places
<1>5. name = [i \in I |-> Min(P(i))]
      BY DEF Names
<1>6. I \subseteq DOMAIN h.accounts
  <2>1. \A t \in DOMAIN h.tables : Range(h.tables[t]) \subseteq DOMAIN h.accounts
        BY DEF IsHeap, IsTable, Range
  <2>2. {cur} \cup Range(sv) \subseteq DOMAIN h.tables
        BY KeptParts DEF Keepable
  <2>. DEFINE U == UNION {Range(h.tables[t]) : t \in {cur} \cup Range(sv)}
  <2>3. U \subseteq DOMAIN h.accounts
        BY <2>1, <2>2
  <2>5. I = {Sentinel} \cup Range(hd) \cup U
        BY DEF Found
  <2>4. Range(hd) \subseteq DOMAIN h.accounts /\ Sentinel \in DOMAIN h.accounts
        BY KeptParts DEF IsHeap
  <2>. HIDE DEF U, I
  <2>. QED BY <2>3, <2>4, <2>5
<1>. HIDE DEF P, I
<1>7. Min(P(Sentinel)) = Sentinel
  <2>1. Min(P(Sentinel)) \in Nat /\ Min(P(Sentinel)) <= 0
        BY <1>1, <1>2, <1>4 DEF Sentinel
  <2>. QED BY <2>1 DEF Sentinel
<1>8. name \in [I -> 0..(2 * Width + 1)]
      BY <1>1, <1>2, <1>5
<1>9. \A i, j \in I : name[i] = name[j] => i = j
      BY <1>2, <1>3, <1>5
<1>. QED BY <1>4, <1>5, <1>6, <1>7, <1>8, <1>9 DEF I

LEMMA AntiFunctionOf ==
    ASSUME NEW f, \A x, y \in DOMAIN f : f[x] = f[y] => x = y
    PROVE  /\ DOMAIN AntiFunction(f) = Range(f)
           /\ \A x \in DOMAIN f : f[x] \in Range(f) /\ AntiFunction(f)[f[x]] = x
<1>. DEFINE inverse(t) == CHOOSE x \in DOMAIN f : t \in Range(f) => f[x] = t
<1>1. AntiFunction(f) = [t \in Range(f) |-> inverse(t)]
      BY DEF AntiFunction, Inverse
<1>2. ASSUME NEW x \in DOMAIN f PROVE f[x] \in Range(f) /\ inverse(f[x]) = x
  <2>1. f[x] \in Range(f)
        BY DEF Range
  <2>2. inverse(f[x]) \in DOMAIN f /\ f[inverse(f[x])] = f[x]
        BY <2>1
  <2>. HIDE DEF inverse
  <2>. QED BY <2>1, <2>2
<1>. QED BY <1>1, <1>2

(* The names of storage dicts are names, too.                                *)
LEMMA DictNamesType ==
    ASSUME NEW h, IsHeap(h), NEW name, NEW b \in Nat, name \in [DOMAIN name -> 0..b],
           \A i, j \in DOMAIN name : name[i] = name[j] => i = j,
           DOMAIN name \subseteq DOMAIN h.accounts,
           NEW dict, dict = DictNames(h, name)
    PROVE  /\ DOMAIN dict = {h.accounts[i].storage : i \in DOMAIN name}
           /\ DOMAIN dict \subseteq DOMAIN h.dicts
           /\ dict \in [DOMAIN dict -> 0..b]
           /\ \A d, e \in DOMAIN dict : dict[d] = dict[e] => d = e
<1>. DEFINE D == {h.accounts[i].storage : i \in DOMAIN name}
            N(d) == {name[i] : i \in {j \in DOMAIN name : h.accounts[j].storage = d}}
<1>1. dict = [d \in D |-> Min(N(d))]
      BY DEF DictNames
<1>2. D \subseteq DOMAIN h.dicts
  <2>1. \A i \in DOMAIN name : h.accounts[i] \in AccountOf(h)
        BY DEF IsHeap
  <2>. QED BY <2>1 DEF AccountOf
<1>3. \A d \in D : N(d) # {} /\ N(d) \subseteq 0..b /\ N(d) \subseteq Nat
      OBVIOUS
<1>4. \A d \in D : Min(N(d)) \in N(d)
      BY <1>3, MinOfNaturals
<1>5. \A d, e : \A n \in N(d) \cap N(e) : d = e
      OBVIOUS
<1>. HIDE DEF N
<1>. QED BY <1>1, <1>2, <1>3, <1>4, <1>5

(* Different names for different accounts, and for the dicts in them.        *)
Naming(h, name, dict, b) ==
    /\ name \in [DOMAIN name -> 0..b]
    /\ \A i, j \in DOMAIN name : name[i] = name[j] => i = j
    /\ Sentinel \in DOMAIN name /\ name[Sentinel] = Sentinel
    /\ DOMAIN name \subseteq DOMAIN h.accounts
    /\ DOMAIN dict = {h.accounts[i].storage : i \in DOMAIN name}
    /\ DOMAIN dict \subseteq DOMAIN h.dicts
    /\ dict \in [DOMAIN dict -> 0..b]
    /\ \A d, e \in DOMAIN dict : dict[d] = dict[e] => d = e

(* A heap under other names is a heap in which everything has the value it   *)
(* had.                                                                      *)
LEMMA RenamedHeap ==
    ASSUME NEW h, IsHeap(h), NEW cur, NEW sv, NEW hd, Keepable(h, cur, sv, hd),
           NEW name, DOMAIN name = Found(h, cur, sv, hd), NEW dict,
           NEW b \in Nat, Naming(h, name, dict, b),
           NEW g, g = Renamed(h, cur, sv, name, dict)
    PROVE  /\ IsHeap(g)
           /\ Apart(h) => Apart(g)
           /\ DOMAIN g.tables = {TableName(t, cur) : t \in {cur} \cup Range(sv)}
           /\ \A t \in {cur} \cup Range(sv) : WorldIn(g, TableName(t, cur)) = WorldIn(h, t)
           /\ \A i \in DOMAIN name : /\ name[i] \in DOMAIN g.accounts
                                     /\ Value(g, name[i]) = Value(h, i)
<1>. DEFINE object == AntiFunction(name)
            storage == AntiFunction(dict)
            T == {cur} \cup Range(sv)
            tableOf(u) == IF u = Current THEN cur ELSE sv[1]
            copy(i) == [h.accounts[i] EXCEPT !.storage = dict[@]]
<1>1. /\ name \in [DOMAIN name -> 0..b]
      /\ \A i, j \in DOMAIN name : name[i] = name[j] => i = j
      /\ Sentinel \in DOMAIN name /\ name[Sentinel] = Sentinel
      /\ DOMAIN name \subseteq DOMAIN h.accounts
      BY DEF Naming
<1>2. /\ DOMAIN dict = {h.accounts[i].storage : i \in DOMAIN name}
      /\ DOMAIN dict \subseteq DOMAIN h.dicts
      /\ dict \in [DOMAIN dict -> 0..b]
      /\ \A d, e \in DOMAIN dict : dict[d] = dict[e] => d = e
      BY DEF Naming
<1>3. g = [tables |-> [u \in {TableName(t, cur) : t \in T} |->
                          [a \in DOMAIN h.tables[tableOf(u)] |-> name[h.tables[tableOf(u)][a]]]],
           accounts |-> [n \in Range(name) |-> copy(object[n])],
           dicts |-> [n \in Range(dict) |-> h.dicts[storage[n]]]]
      BY DEF Renamed
<1>4. /\ \A i \in DOMAIN name : name[i] \in Range(name) /\ object[name[i]] = i
      /\ \A d \in DOMAIN dict : dict[d] \in Range(dict) /\ storage[dict[d]] = d
      BY <1>1, <1>2, AntiFunctionOf
<1>. HIDE DEF object, storage
<1>5. \A i \in DOMAIN name : /\ h.accounts[i] \in AccountOf(h)
                             /\ h.accounts[i].storage \in DOMAIN dict
      BY <1>1, <1>2 DEF IsHeap
<1>6. /\ DOMAIN g.accounts = Range(name)
      /\ \A i \in DOMAIN name :
            g.accounts[name[i]] = [nonce |-> h.accounts[i].nonce, balance |-> h.accounts[i].balance,
                                   code |-> h.accounts[i].code,
                                   storage |-> dict[h.accounts[i].storage]]
  <2>1. DOMAIN g.accounts = Range(name) /\ \A i \in DOMAIN name : g.accounts[name[i]] = copy(i)
        BY <1>3, <1>4
  <2>2. \A i \in DOMAIN name :
           copy(i) = [nonce |-> h.accounts[i].nonce, balance |-> h.accounts[i].balance,
                      code |-> h.accounts[i].code, storage |-> dict[h.accounts[i].storage]]
        BY <1>5 DEF AccountOf
  <2>. QED BY <2>1, <2>2
<1>7. /\ DOMAIN g.dicts = Range(dict)
      /\ \A d \in DOMAIN dict : g.dicts[dict[d]] = h.dicts[d]
      BY <1>3, <1>4
<1>8. /\ DOMAIN g.tables = {TableName(t, cur) : t \in T}
      /\ \A t \in T : g.tables[TableName(t, cur)] = [a \in DOMAIN h.tables[t] |-> name[h.tables[t][a]]]
  <2>1. \A t \in T : tableOf(TableName(t, cur)) = t
        BY KeptParts DEF TableName, Current
  <2>. QED BY <1>3, <2>1
<1>9. \A i \in DOMAIN name : name[i] \in DOMAIN g.accounts /\ Value(g, name[i]) = Value(h, i)
  <2>. TAKE i \in DOMAIN name
  <2>1. name[i] \in DOMAIN g.accounts
        BY <1>4, <1>6
  <2>2. g.dicts[dict[h.accounts[i].storage]] = h.dicts[h.accounts[i].storage]
        BY <1>5, <1>7
  <2>3. Value(h, i) = [nonce |-> h.accounts[i].nonce, balance |-> h.accounts[i].balance,
                       code |-> h.accounts[i].code, storage |-> h.dicts[h.accounts[i].storage]]
        BY <1>1, ValueField
  <2>4. Value(g, name[i]) = [nonce |-> h.accounts[i].nonce, balance |-> h.accounts[i].balance,
                             code |-> h.accounts[i].code,
                             storage |-> g.dicts[dict[h.accounts[i].storage]]]
    <3>1. g.accounts[name[i]] =
             [nonce |-> h.accounts[i].nonce, balance |-> h.accounts[i].balance,
              code |-> h.accounts[i].code, storage |-> dict[h.accounts[i].storage]]
          BY <1>6
    <3>. QED BY <3>1 DEF Value
  <2>. QED BY <2>1, <2>2, <2>3, <2>4
<1>10. \A t \in T : /\ IsTable(h.tables[t], h)
                    /\ Range(h.tables[t]) \subseteq DOMAIN name
  <2>. TAKE t \in T
  <2>1. t \in DOMAIN h.tables
        BY KeptParts DEF Keepable
  <2>2. DOMAIN name = Found(h, cur, sv, hd)
        OBVIOUS
  <2>. QED BY <2>1, <2>2 DEF IsHeap, Found
<1>11. \A t \in T : WorldIn(g, TableName(t, cur)) = WorldIn(h, t)
  <2>. TAKE t \in T
  <2>1. \A a \in DOMAIN h.tables[t] : Value(g, name[h.tables[t][a]]) = Value(h, h.tables[t][a])
        BY <1>9, <1>10 DEF Range
  <2>2. g.tables[TableName(t, cur)] = [a \in DOMAIN h.tables[t] |-> name[h.tables[t][a]]]
        BY <1>8
  <2>. QED BY <2>1, <2>2 DEF WorldIn
<1>12. \A t \in T : IsTable(g.tables[TableName(t, cur)], g)
  <2>. TAKE t \in T
  <2>1. \A a \in DOMAIN h.tables[t] : name[h.tables[t][a]] \in DOMAIN g.accounts
        BY <1>9, <1>10 DEF Range
  <2>2. g.tables[TableName(t, cur)] = [a \in DOMAIN h.tables[t] |-> name[h.tables[t][a]]]
        BY <1>8
  <2>3. DOMAIN h.tables[t] \subseteq Addresses
        BY <1>10 DEF IsTable
  <2>. QED BY <2>1, <2>2, <2>3 DEF IsTable
<1>13. \A n \in DOMAIN g.accounts : \E i \in DOMAIN name : n = name[i]
       BY <1>6 DEF Range
<1>14. g.accounts \in [DOMAIN g.accounts -> AccountOf(g)]
  <2>1. \A i \in DOMAIN name : g.accounts[name[i]] \in AccountOf(g)
    <3>. TAKE i \in DOMAIN name
    <3>1. dict[h.accounts[i].storage] \in DOMAIN g.dicts
          BY <1>4, <1>5, <1>7
    <3>2. h.accounts[i] \in AccountOf(h)
          BY <1>5
    <3>3. g.accounts[name[i]] =
             [nonce |-> h.accounts[i].nonce, balance |-> h.accounts[i].balance,
              code |-> h.accounts[i].code, storage |-> dict[h.accounts[i].storage]]
          BY <1>6
    <3>. QED BY <3>1, <3>2, <3>3 DEF AccountOf
  <2>2. g.accounts = [n \in DOMAIN g.accounts |-> g.accounts[n]]
        BY <1>3
  <2>. QED BY <2>1, <2>2, <1>13
<1>15. Named(DOMAIN g.accounts) /\ Named(DOMAIN g.dicts) /\ Named(DOMAIN g.tables)
  <2>1. DOMAIN g.accounts \subseteq 0..b /\ DOMAIN g.accounts # {}
        BY <1>1, <1>6 DEF Range
  <2>2. DOMAIN g.dicts \subseteq 0..b /\ DOMAIN g.dicts # {}
    <3>1. h.accounts[Sentinel].storage \in DOMAIN dict
          BY <1>1, <1>5
    <3>2. Range(dict) \subseteq 0..b /\ Range(dict) # {}
      <4>1. \A d \in DOMAIN dict : dict[d] \in 0..b
            BY <1>2
      <4>. QED BY <3>1, <4>1 DEF Range
    <3>. QED BY <3>2, <1>7
  <2>3. DOMAIN g.tables \subseteq 0..1 /\ DOMAIN g.tables # {}
        BY <1>8 DEF TableName, Current
  <2>. QED BY <2>1, <2>2, <2>3, <1>1, BoundedIsNamed
<1>16. IsHeap(g)
  <2>1. Current \in DOMAIN g.tables
        BY <1>8 DEF TableName
  <2>2. \A t \in DOMAIN g.tables : IsTable(g.tables[t], g)
        BY <1>8, <1>12
  <2>3. Sentinel \in DOMAIN g.accounts /\ Value(g, Sentinel) = A!EMPTY_ACCOUNT
        BY <1>1, <1>9 DEF IsHeap
  <2>. QED BY <2>1, <2>2, <2>3, <1>3, <1>14, <1>15 DEF IsHeap
<1>17. ASSUME Apart(h) PROVE Apart(g)
  <2>1. \A t, u \in T : TableName(t, cur) = TableName(u, cur) => t = u
        BY KeptParts DEF TableName, Current
  <2>2. T \subseteq DOMAIN h.tables
        BY KeptParts DEF Keepable
  <2>3. \A t, u \in T : \A a \in DOMAIN h.tables[t], c \in DOMAIN h.tables[u] :
           name[h.tables[t][a]] = name[h.tables[u][c]] => t = u /\ a = c
    <3>. TAKE t \in T, u \in T
    <3>. TAKE a \in DOMAIN h.tables[t], c \in DOMAIN h.tables[u]
    <3>1. h.tables[t][a] \in DOMAIN name /\ h.tables[u][c] \in DOMAIN name
          BY <1>10 DEF Range
    <3>2. h.tables[t][a] = h.tables[u][c] => t = u /\ a = c
          BY <2>2, <1>17 DEF Apart
    <3>. QED BY <3>1, <3>2, <1>1
  <2>4. \A t, u \in DOMAIN g.tables :
           \A a \in DOMAIN g.tables[t], c \in DOMAIN g.tables[u] :
              g.tables[t][a] = g.tables[u][c] => t = u /\ a = c
    <3>. TAKE t \in DOMAIN g.tables, u \in DOMAIN g.tables
    <3>1. PICK x \in T : t = TableName(x, cur)
          BY <1>8
    <3>2. PICK y \in T : u = TableName(y, cur)
          BY <1>8
    <3>3. /\ g.tables[t] = [a \in DOMAIN h.tables[x] |-> name[h.tables[x][a]]]
          /\ g.tables[u] = [a \in DOMAIN h.tables[y] |-> name[h.tables[y][a]]]
          BY <1>8, <3>1, <3>2
    <3>. QED BY <3>1, <3>2, <3>3, <2>3
  <2>5. \A i, j \in DOMAIN name :
           g.accounts[name[i]].storage = g.accounts[name[j]].storage => i = j
    <3>. TAKE i \in DOMAIN name, j \in DOMAIN name
    <3>1. /\ g.accounts[name[i]].storage = dict[h.accounts[i].storage]
          /\ g.accounts[name[j]].storage = dict[h.accounts[j].storage]
      <4>1. /\ g.accounts[name[i]] =
                 [nonce |-> h.accounts[i].nonce, balance |-> h.accounts[i].balance,
                  code |-> h.accounts[i].code, storage |-> dict[h.accounts[i].storage]]
            /\ g.accounts[name[j]] =
                 [nonce |-> h.accounts[j].nonce, balance |-> h.accounts[j].balance,
                  code |-> h.accounts[j].code, storage |-> dict[h.accounts[j].storage]]
            BY <1>6
      <4>. QED BY <4>1
    <3>2. h.accounts[i].storage = h.accounts[j].storage => i = j
          BY <1>1, <1>17 DEF Apart
    <3>3. h.accounts[i].storage \in DOMAIN dict /\ h.accounts[j].storage \in DOMAIN dict
          BY <1>5
    <3>. QED BY <3>1, <3>2, <3>3, <1>2
  <2>6. \A t \in DOMAIN g.tables : Sentinel \notin Range(g.tables[t])
    <3>1. ASSUME NEW t \in T, NEW a \in DOMAIN h.tables[t]
          PROVE  name[h.tables[t][a]] # Sentinel
      <4>1. h.tables[t][a] \in DOMAIN name /\ h.tables[t][a] # Sentinel
            BY <2>2, <1>10, <1>17 DEF Range, Apart
      <4>. QED BY <4>1, <1>1
    <3>. TAKE u \in DOMAIN g.tables
    <3>2. PICK t \in T : u = TableName(t, cur)
          BY <1>8
    <3>3. g.tables[u] = [a \in DOMAIN h.tables[t] |-> name[h.tables[t][a]]]
          BY <1>8, <3>2
    <3>. QED BY <3>1, <3>3 DEF Range
  <2>. QED BY <2>4, <2>5, <2>6, <1>13 DEF Apart
<1>. QED BY <1>8, <1>9, <1>11, <1>16, <1>17

(* The end of a step: the caller has what it had, under names that are good  *)
(* for the next.                                                             *)
LEMMA SettledHeap ==
    ASSUME NEW h, IsHeap(h), Apart(h), NEW cur, NEW sv, NEW hd, Keepable(h, cur, sv, hd),
           Settle(h, cur, sv, hd)
    PROVE  /\ ObjectsInv'
           /\ WorldIn(heap', Current) = WorldIn(h, cur)
           /\ saved' = <<Current>> <=> sv = <<cur>>
           /\ DOMAIN saved' = DOMAIN sv
           /\ \A k \in DOMAIN sv : WorldIn(heap', saved'[k]) = WorldIn(h, sv[k])
           /\ DOMAIN held' = DOMAIN hd
           /\ \A k \in DOMAIN hd : Value(heap', held'[k]) = Value(h, hd[k])
<1>. DEFINE name == Names(h, cur, sv, hd)
            dict == DictNames(h, name)
            b == 2 * Width + 1
<1>1. /\ heap' = Renamed(h, cur, sv, name, dict)
      /\ saved' = [k \in DOMAIN sv |-> TableName(sv[k], cur)]
      /\ held' = [k \in DOMAIN hd |-> name[hd[k]]]
      BY DEF Settle
<1>2. b \in Nat
      BY PositionType
<1>3. /\ name \in [Found(h, cur, sv, hd) -> 0..b]
      /\ \A i, j \in DOMAIN name : name[i] = name[j] => i = j
      /\ Sentinel \in DOMAIN name /\ name[Sentinel] = Sentinel
      /\ DOMAIN name \subseteq DOMAIN h.accounts
      BY NamesType
<1>. HIDE DEF name, b
<1>4. DOMAIN name = Found(h, cur, sv, hd) /\ name \in [DOMAIN name -> 0..b]
      BY <1>3
<1>5. /\ DOMAIN dict = {h.accounts[i].storage : i \in DOMAIN name}
      /\ DOMAIN dict \subseteq DOMAIN h.dicts
      /\ dict \in [DOMAIN dict -> 0..b]
      /\ \A d, e \in DOMAIN dict : dict[d] = dict[e] => d = e
      BY <1>2, <1>3, <1>4, DictNamesType
<1>. HIDE DEF dict
<1>6. Naming(h, name, dict, b)
      BY <1>3, <1>4, <1>5 DEF Naming
<1>7. /\ IsHeap(heap') /\ Apart(heap')
      /\ DOMAIN heap'.tables = {TableName(t, cur) : t \in {cur} \cup Range(sv)}
      /\ \A t \in {cur} \cup Range(sv) : WorldIn(heap', TableName(t, cur)) = WorldIn(h, t)
      /\ \A i \in DOMAIN name : /\ name[i] \in DOMAIN heap'.accounts
                                /\ Value(heap', name[i]) = Value(h, i)
      BY <1>1, <1>2, <1>4, <1>6, RenamedHeap
<1>8. \A k \in DOMAIN sv : sv[k] \in Range(sv) /\ TableName(sv[k], cur) \in {Current, 1}
      BY KeptParts DEF Range, TableName
<1>9. \A k \in DOMAIN hd : hd[k] \in DOMAIN name
      BY <1>4 DEF Found, Range
<1>10. WorldIn(heap', Current) = WorldIn(h, cur)
       BY <1>7 DEF TableName
<1>11. \A k \in DOMAIN sv : WorldIn(heap', saved'[k]) = WorldIn(h, sv[k])
       BY <1>1, <1>7, <1>8
<1>12. \A k \in DOMAIN hd : Value(heap', held'[k]) = Value(h, hd[k])
       BY <1>1, <1>7, <1>9
<1>13. DOMAIN heap'.tables = {Current} \cup Range(saved')
  <2>1. \A t \in Range(sv) : \E k \in DOMAIN sv : t = sv[k]
        BY DEF Range
  <2>2. Range(saved') = {TableName(t, cur) : t \in Range(sv)}
        BY <1>1, <2>1, <1>8 DEF Range
  <2>3. TableName(cur, cur) = Current
        BY DEF TableName
  <2>. QED BY <1>7, <2>2, <2>3
<1>14. /\ saved' = <<>> \/ \E t \in {Current, 1} : saved' = <<t>>
       /\ saved' = <<Current>> <=> sv = <<cur>>
  <2>1. CASE sv = <<>>
        BY <2>1, <1>1
  <2>2. CASE sv # <<>>
    <3>1. sv = <<sv[1]>>
          BY <2>2 DEF Keepable
    <3>2. saved' = <<TableName(sv[1], cur)>>
          BY <1>1, <3>1
    <3>3. TableName(sv[1], cur) = Current <=> sv[1] = cur
          BY DEF TableName, Current
    <3>. QED BY <3>1, <3>2, <3>3 DEF TableName
  <2>. QED BY <2>1, <2>2
<1>15. Holds(heap', saved', held')
  <2>1. saved' = <<>> \/ \E t \in DOMAIN heap'.tables : saved' = <<t>>
    <3>1. ASSUME NEW t, saved' = <<t>>
          PROVE  t \in DOMAIN heap'.tables
          BY <3>1, <1>13 DEF Range
    <3>. QED BY <3>1, <1>14
  <2>2. held' = <<>> \/ \E i \in DOMAIN heap'.accounts : held' = <<i>>
    <3>1. CASE hd = <<>>
          BY <3>1, <1>1
    <3>2. CASE hd # <<>>
      <4>1. DOMAIN hd = {1} /\ hd[1] \in DOMAIN name
            BY <3>2, <1>9 DEF Keepable
      <4>2. held' = <<name[hd[1]]>>
            BY <4>1, <1>1
      <4>. QED BY <4>1, <4>2, <1>7
    <3>. QED BY <3>1, <3>2
  <2>. QED BY <2>1, <2>2 DEF Holds
<1>. QED BY <1>1, <1>7, <1>10, <1>11, <1>12, <1>13, <1>14, <1>15 DEF ObjectsInv

-----------------------------------------------------------------------------
(* A snapshot                                                                *)

LEMMA RenamingOf ==
    ASSUME NEW used, Named(used), NEW old, old \subseteq used,
           NEW f, f = Renaming(old, used)
    PROVE  /\ DOMAIN f = old
           /\ \A i \in old : f[i] \in Nat /\ f[i] \notin used
           /\ \A i, j \in old : f[i] = f[j] => i = j
           /\ Named(used \cup Range(f))
<1>. DEFINE m == Fresh(used)
<1>1. m \in Nat /\ used \subseteq Nat /\ \A i \in used : i < m
      BY FreshName DEF Named
<1>2. f = [i \in old |-> m + i]
      BY DEF Renaming
<1>. HIDE DEF m
<1>3. \A i \in old : i \in Nat /\ i < m /\ f[i] = m + i
      BY <1>1, <1>2
<1>4. \A i \in old : f[i] \in Nat /\ f[i] \notin used
  <2>. TAKE i \in old
  <2>1. i \in Nat /\ f[i] = m + i
        BY <1>3
  <2>. QED BY <2>1, <1>1
<1>5. \A i, j \in old : f[i] = f[j] => i = j
      BY <1>1, <1>3
<1>6. Named(used \cup Range(f))
  <2>1. \A n \in used \cup Range(f) : n \in Nat /\ n <= m + m
    <3>. TAKE n \in used \cup Range(f)
    <3>1. CASE n \in used
          BY <3>1, <1>1
    <3>2. ASSUME NEW i \in old, n = m + i PROVE n \in Nat /\ n <= m + m
          BY <3>2, <1>1, <1>3
    <3>. QED BY <3>1, <3>2, <1>2 DEF Range
  <2>2. used \cup Range(f) # {} /\ m + m \in Nat
        BY <1>1 DEF Named
  <2>. QED BY <2>1, <2>2, BoundedIsNamed
<1>. QED BY <1>2, <1>4, <1>5, <1>6

(* The copy is a table of its own with the values of the original.           *)
LEMMA SnapshotHeap ==
    ASSUME NEW h, IsHeap(h), Apart(h), NEW f, f = Fresh(DOMAIN h.tables),
           NEW g, g = deepcopy_table(h, Current)
    PROVE  /\ IsHeap(g) /\ Apart(g)
           /\ f \in DOMAIN g.tables /\ f \notin DOMAIN h.tables
           /\ DOMAIN h.accounts \subseteq DOMAIN g.accounts
           /\ \A i \in DOMAIN h.accounts : Value(g, i) = Value(h, i)
           /\ WorldIn(g, Current) = WorldIn(h, Current)
           /\ WorldIn(g, f) = WorldIn(h, Current)
<1>. DEFINE table == h.tables[Current]
            ids == Range(table)
            account == Renaming(ids, DOMAIN h.accounts)
            shared == {h.accounts[i].storage : i \in ids}
            dict == Renaming(shared, DOMAIN h.dicts)
            copies == {account[i] : i \in ids}
            original(j) == CHOOSE i \in ids : account[i] = j
            source(e) == CHOOSE d \in shared : dict[d] = e
            copy(j) == [h.accounts[original(j)] EXCEPT !.storage = dict[@]]
<1>1. g = [tables |-> With(h.tables, f, [a \in DOMAIN table |-> account[table[a]]]),
           accounts |-> [j \in DOMAIN h.accounts \cup copies |->
                           IF j \in copies THEN copy(j) ELSE h.accounts[j]],
           dicts |-> [e \in DOMAIN h.dicts \cup Range(dict) |->
                        IF e \in Range(dict) THEN h.dicts[source(e)] ELSE h.dicts[e]]]
      BY DEF deepcopy_table
<1>2. /\ f \in Nat /\ f \notin DOMAIN h.tables /\ Named(DOMAIN h.tables \cup {f})
      /\ f # Current
      BY FreshName, OneMoreNamed DEF IsHeap
<1>3. IsTable(table, h) /\ ids \subseteq DOMAIN h.accounts
      BY DEF IsHeap, IsTable, Range
<1>4. \A i \in DOMAIN h.accounts : h.accounts[i] \in AccountOf(h)
      BY DEF IsHeap
<1>5. shared \subseteq DOMAIN h.dicts
      BY <1>3, <1>4 DEF AccountOf
<1>6. /\ DOMAIN account = ids
      /\ \A i \in ids : account[i] \in Nat /\ account[i] \notin DOMAIN h.accounts
      /\ \A i, j \in ids : account[i] = account[j] => i = j
      /\ Named(DOMAIN h.accounts \cup Range(account))
      BY <1>3, RenamingOf DEF IsHeap
<1>7. /\ DOMAIN dict = shared
      /\ \A d \in shared : dict[d] \in Nat /\ dict[d] \notin DOMAIN h.dicts
      /\ \A d, e \in shared : dict[d] = dict[e] => d = e
      /\ Named(DOMAIN h.dicts \cup Range(dict))
  <2>1. Named(DOMAIN h.dicts)
        BY DEF IsHeap
  <2>. HIDE DEF shared
  <2>. QED BY <2>1, <1>5, RenamingOf
<1>. HIDE DEF account, dict
<1>8. copies = Range(account)
      BY <1>6 DEF Range
<1>9. \A i \in ids : account[i] \in copies /\ original(account[i]) = i
      BY <1>6
<1>10. \A d \in shared : dict[d] \in Range(dict) /\ source(dict[d]) = d
       BY <1>7 DEF Range
<1>. HIDE DEF original, source
<1>11. /\ DOMAIN g.tables = DOMAIN h.tables \cup {f}
       /\ g.tables[f] = [a \in DOMAIN table |-> account[table[a]]]
       /\ \A t \in DOMAIN h.tables : g.tables[t] = h.tables[t]
       BY <1>1, <1>2 DEF With
<1>12. /\ DOMAIN g.accounts = DOMAIN h.accounts \cup copies
       /\ \A i \in DOMAIN h.accounts : g.accounts[i] = h.accounts[i]
       /\ \A i \in ids : g.accounts[account[i]] =
                           [nonce |-> h.accounts[i].nonce, balance |-> h.accounts[i].balance,
                            code |-> h.accounts[i].code,
                            storage |-> dict[h.accounts[i].storage]]
  <2>1. DOMAIN g.accounts = DOMAIN h.accounts \cup copies
        BY <1>1
  <2>2. \A i \in DOMAIN h.accounts : i \notin copies
        BY <1>6
  <2>3. \A i \in DOMAIN h.accounts : g.accounts[i] = h.accounts[i]
        BY <1>1, <2>2
  <2>4. \A i \in ids : g.accounts[account[i]] = [h.accounts[i] EXCEPT !.storage = dict[@]]
        BY <1>1, <1>9
  <2>5. \A i \in ids : [h.accounts[i] EXCEPT !.storage = dict[@]] =
                           [nonce |-> h.accounts[i].nonce, balance |-> h.accounts[i].balance,
                            code |-> h.accounts[i].code,
                            storage |-> dict[h.accounts[i].storage]]
        BY <1>3, <1>4 DEF AccountOf
  <2>. QED BY <2>1, <2>3, <2>4, <2>5
<1>13. /\ DOMAIN g.dicts = DOMAIN h.dicts \cup Range(dict)
       /\ \A d \in DOMAIN h.dicts : g.dicts[d] = h.dicts[d]
       /\ \A d \in shared : g.dicts[dict[d]] = h.dicts[d]
  <2>1. \A d \in DOMAIN h.dicts : d \notin Range(dict)
        BY <1>7 DEF Range
  <2>. QED BY <2>1, <1>1, <1>10
<1>14. \A i \in DOMAIN h.accounts : Value(g, i) = Value(h, i)
  <2>. TAKE i \in DOMAIN h.accounts
  <2>1. h.accounts[i] \in AccountOf(h) /\ g.accounts[i] = h.accounts[i]
        BY <1>4, <1>12
  <2>2. g.dicts[h.accounts[i].storage] = h.dicts[h.accounts[i].storage]
        BY <2>1, <1>13 DEF AccountOf
  <2>. QED BY <2>1, <2>2 DEF Value, AccountOf
<1>15. \A i \in ids : Value(g, account[i]) = Value(h, i)
  <2>. TAKE i \in ids
  <2>1. Value(h, i) = [nonce |-> h.accounts[i].nonce, balance |-> h.accounts[i].balance,
                       code |-> h.accounts[i].code, storage |-> h.dicts[h.accounts[i].storage]]
        BY <1>3, ValueField
  <2>2. g.dicts[dict[h.accounts[i].storage]] = h.dicts[h.accounts[i].storage]
        BY <1>13
  <2>3. g.accounts[account[i]] =
           [nonce |-> h.accounts[i].nonce, balance |-> h.accounts[i].balance,
            code |-> h.accounts[i].code, storage |-> dict[h.accounts[i].storage]]
        BY <1>12
  <2>. QED BY <2>1, <2>2, <2>3 DEF Value
<1>16. WorldIn(g, Current) = WorldIn(h, Current)
  <2>1. \A a \in DOMAIN table : Value(g, table[a]) = Value(h, table[a])
        BY <1>14, <1>3 DEF Range
  <2>2. g.tables[Current] = table
        BY <1>11 DEF IsHeap
  <2>. QED BY <2>1, <2>2 DEF WorldIn
<1>17. WorldIn(g, f) = WorldIn(h, Current)
  <2>1. \A a \in DOMAIN table : Value(g, account[table[a]]) = Value(h, table[a])
        BY <1>15 DEF Range
  <2>. QED BY <2>1, <1>11 DEF WorldIn
<1>18. \A i \in DOMAIN g.accounts : g.accounts[i] \in AccountOf(g)
  <2>1. \A i \in DOMAIN h.accounts : g.accounts[i] \in AccountOf(g)
        BY <1>4, <1>12, <1>13 DEF AccountOf
  <2>2. \A i \in ids : g.accounts[account[i]] \in AccountOf(g)
    <3>. TAKE i \in ids
    <3>1. h.accounts[i] \in AccountOf(h)
          BY <1>3, <1>4
    <3>2. dict[h.accounts[i].storage] \in DOMAIN g.dicts
          BY <1>10, <1>13
    <3>3. g.accounts[account[i]] =
             [nonce |-> h.accounts[i].nonce, balance |-> h.accounts[i].balance,
              code |-> h.accounts[i].code, storage |-> dict[h.accounts[i].storage]]
          BY <1>12
    <3>. QED BY <3>1, <3>2, <3>3 DEF AccountOf
  <2>. QED BY <2>1, <2>2, <1>12
<1>19. \A t \in DOMAIN g.tables : IsTable(g.tables[t], g)
  <2>1. \A t \in DOMAIN h.tables : IsTable(g.tables[t], g)
        BY <1>11, <1>12 DEF IsHeap, IsTable
  <2>2. IsTable(g.tables[f], g)
    <3>1. \A a \in DOMAIN table : account[table[a]] \in DOMAIN g.accounts
          BY <1>9, <1>12 DEF Range
    <3>. QED BY <3>1, <1>3, <1>11 DEF IsTable
  <2>. QED BY <2>1, <2>2, <1>11
<1>20. IsHeap(g)
  <2>1. g.accounts \in [DOMAIN g.accounts -> AccountOf(g)]
    <3>1. g.accounts = [j \in DOMAIN g.accounts |-> g.accounts[j]]
          BY <1>1
    <3>. QED BY <3>1, <1>18
  <2>2. Named(DOMAIN g.tables) /\ Named(DOMAIN g.accounts) /\ Named(DOMAIN g.dicts)
        BY <1>2, <1>6, <1>7, <1>8, <1>11, <1>12, <1>13
  <2>3. Sentinel \in DOMAIN g.accounts /\ Value(g, Sentinel) = A!EMPTY_ACCOUNT
        BY <1>12, <1>14 DEF IsHeap
  <2>4. Current \in DOMAIN g.tables
        BY <1>11 DEF IsHeap
  <2>. QED BY <2>1, <2>2, <2>3, <2>4, <1>1, <1>19 DEF IsHeap
<1>21. \A i \in ids : account[i] # Sentinel
       BY <1>6 DEF IsHeap
<1>22. Apart(g)
  <2>1. \A t \in DOMAIN h.tables : \A a \in DOMAIN h.tables[t] : \A c \in DOMAIN table :
           h.tables[t][a] # account[table[c]]
    <3>1. \A t \in DOMAIN h.tables : \A a \in DOMAIN h.tables[t] :
             h.tables[t][a] \in DOMAIN h.accounts
          BY DEF IsHeap, IsTable
    <3>. QED BY <3>1, <1>6 DEF Range
  <2>2. \A a, c \in DOMAIN table : account[table[a]] = account[table[c]] => a = c
    <3>1. \A a, c \in DOMAIN table : table[a] = table[c] => a = c
          BY DEF Apart, IsHeap
    <3>. QED BY <3>1, <1>6 DEF Range
  <2>3. \A t, u \in DOMAIN g.tables :
           \A a \in DOMAIN g.tables[t], c \in DOMAIN g.tables[u] :
              g.tables[t][a] = g.tables[u][c] => t = u /\ a = c
    <3>. TAKE t \in DOMAIN g.tables, u \in DOMAIN g.tables
    <3>1. CASE t = f /\ u = f
          BY <3>1, <2>2, <1>11
    <3>2. CASE t = f /\ u # f
          BY <3>2, <2>1, <1>11
    <3>3. CASE t # f /\ u = f
          BY <3>3, <2>1, <1>11
    <3>4. CASE t # f /\ u # f
          BY <3>4, <1>11 DEF Apart
    <3>. QED BY <3>1, <3>2, <3>3, <3>4
  <2>4. \A i \in DOMAIN h.accounts : g.accounts[i].storage \in DOMAIN h.dicts
        BY <1>4, <1>12 DEF AccountOf
  <2>5. \A i \in ids : /\ g.accounts[account[i]].storage = dict[h.accounts[i].storage]
                       /\ g.accounts[account[i]].storage \notin DOMAIN h.dicts
    <3>. TAKE i \in ids
    <3>1. g.accounts[account[i]] =
             [nonce |-> h.accounts[i].nonce, balance |-> h.accounts[i].balance,
              code |-> h.accounts[i].code, storage |-> dict[h.accounts[i].storage]]
          BY <1>12
    <3>2. h.accounts[i].storage \in shared
          OBVIOUS
    <3>. QED BY <3>1, <3>2, <1>7
  <2>6. \A i, j \in DOMAIN g.accounts : g.accounts[i].storage = g.accounts[j].storage => i = j
    <3>. TAKE i \in DOMAIN g.accounts, j \in DOMAIN g.accounts
    <3>1. CASE i \in DOMAIN h.accounts /\ j \in DOMAIN h.accounts
          BY <3>1, <1>12 DEF Apart
    <3>2. CASE i \in DOMAIN h.accounts /\ j \in copies
          BY <3>2, <2>4, <2>5
    <3>3. CASE i \in copies /\ j \in DOMAIN h.accounts
          BY <3>3, <2>4, <2>5
    <3>4. ASSUME NEW x \in ids, NEW y \in ids, i = account[x], j = account[y],
                 g.accounts[i].storage = g.accounts[j].storage
          PROVE  i = j
      <4>1. dict[h.accounts[x].storage] = dict[h.accounts[y].storage]
            BY <3>4, <2>5
      <4>2. h.accounts[x].storage \in shared /\ h.accounts[y].storage \in shared
            OBVIOUS
      <4>3. h.accounts[x].storage = h.accounts[y].storage
            BY <4>1, <4>2, <1>7
      <4>4. x = y
            BY <4>3, <1>3 DEF Apart
      <4>. QED BY <4>4, <3>4
    <3>. QED BY <3>1, <3>2, <3>3, <3>4, <1>12
  <2>7. \A t \in DOMAIN g.tables : Sentinel \notin Range(g.tables[t])
    <3>1. \A t \in DOMAIN h.tables : Sentinel \notin Range(g.tables[t])
          BY <1>11 DEF Apart
    <3>2. Sentinel \notin Range(g.tables[f])
          BY <1>11, <1>21 DEF Range
    <3>. QED BY <3>1, <3>2, <1>11
  <2>. QED BY <2>3, <2>6, <2>7 DEF Apart
<1>. QED BY <1>2, <1>11, <1>12, <1>14, <1>16, <1>17, <1>20, <1>22

-----------------------------------------------------------------------------
(* Steps                                                                     *)
SavedValues == [k \in DOMAIN Unspent |-> WorldIn(heap, Unspent[k])]

HeldValues == [k \in DOMAIN held |-> Value(heap, held[k])]

(* The operators of Worlds are those of Accounts.                            *)
LEMMA ValuesOperators ==
    /\ Values!EMPTY_ACCOUNT = A!EMPTY_ACCOUNT
    /\ \A w, a : Values!get_account(w, a) = A!get_account(w, a)
    /\ \A w, a, account : Values!set_account(w, a, account) = A!set_account(w, a, account)
    /\ \A s, k, v : Values!Store(s, k, v) = A!Store(s, k, v)
BY DEF Values!EMPTY_ACCOUNT, A!EMPTY_ACCOUNT, Values!get_account, A!get_account,
       Values!set_account, A!set_account, Values!Store, A!Store, Values!EmptyStorage, A!EmptyStorage

LEMMA Keeping ==
    ASSUME ObjectsInv
    PROVE  Keepable(heap, Current, saved, held)
BY DEF ObjectsInv, Holds, Keepable, IsHeap

(* An operation that keeps the heap changes the world, and nothing of what   *)
(* the caller has.                                                           *)
LEMMA EditStep ==
    ASSUME ObjectsInv, NEW g, IsHeap(g), Apart(g), Keeps(heap, g), Becomes(g)
    PROVE  /\ ObjectsInv'
           /\ WorldIn(heap', Current) = WorldIn(g, Current)
           /\ SavedValues' = SavedValues
           /\ HeldValues' = HeldValues
<1>1. Keepable(heap, Current, saved, held)
      BY Keeping
<1>2. Keepable(g, Current, saved, held)
      BY <1>1 DEF Keepable, Keeps
<1>3. Settle(g, Current, saved, held)
      BY DEF Becomes
<1>4. /\ ObjectsInv'
      /\ WorldIn(heap', Current) = WorldIn(g, Current)
      /\ saved' = <<Current>> <=> saved = <<Current>>
      /\ DOMAIN saved' = DOMAIN saved
      /\ \A k \in DOMAIN saved : WorldIn(heap', saved'[k]) = WorldIn(g, saved[k])
      /\ DOMAIN held' = DOMAIN held
      /\ \A k \in DOMAIN held : Value(heap', held'[k]) = Value(g, held[k])
      BY <1>2, <1>3, SettledHeap
<1>5. saved # <<Current>> =>
          \A k \in DOMAIN saved : WorldIn(g, saved[k]) = WorldIn(heap, saved[k])
  <2>1. SUFFICES ASSUME saved # <<Current>>, NEW k \in DOMAIN saved
                 PROVE  WorldIn(g, saved[k]) = WorldIn(heap, saved[k])
        OBVIOUS
  <2>2. PICK t \in DOMAIN heap.tables : saved = <<t>>
        BY <1>1, <2>1 DEF Keepable
  <2>3. t # Current /\ saved[k] = t
        BY <2>1, <2>2
  <2>. QED BY <2>2, <2>3 DEF Keeps
<1>6. \A k \in DOMAIN held : Value(g, held[k]) = Value(heap, held[k])
      BY <1>1, KeptParts DEF Keeps, Range
<1>. QED BY <1>4, <1>5, <1>6 DEF SavedValues, Unspent, HeldValues

(* One modification of an account is one of a value.                         *)
LEMMA ModifyStep ==
    ASSUME ObjectsInv, NEW a \in Addresses, NEW account \in AccountOf(heap), NEW storage,
           Becomes(modify_account(heap, a, account, storage))
    PROVE  /\ ObjectsInv'
           /\ WorldIn(heap', Current) = A!set_account(WorldIn(heap, Current), a,
                                                      [account EXCEPT !.storage = storage])
           /\ SavedValues' = SavedValues
           /\ HeldValues' = HeldValues
<1>. DEFINE g == modify_account(heap, a, account, storage)
<1>1. IsHeap(heap) /\ Apart(heap)
      BY DEF ObjectsInv
<1>2. /\ IsHeap(g) /\ Keeps(heap, g) /\ Apart(g)
      /\ WorldIn(g, Current) = A!set_account(WorldIn(heap, Current), a,
                                             [account EXCEPT !.storage = storage])
      BY <1>1, ModifyHeap
<1>3. Becomes(g)
      OBVIOUS
<1>. HIDE DEF g
<1>. QED BY <1>2, <1>3, EditStep

(* What a field of an account object says is what the account's value says.  *)
LEMMA FieldsOfValue ==
    ASSUME NEW h, IsHeap(h), NEW a
    PROVE  LET value == A!get_account(WorldIn(h, Current), a)
               object == account_at(h, a)
           IN  /\ object \in AccountOf(h)
               /\ storage_at(h, a) = value.storage
               /\ value = [nonce |-> object.nonce, balance |-> object.balance,
                           code |-> object.code, storage |-> storage_at(h, a)]
<1>1. /\ get_account(h, a) \in DOMAIN h.accounts
      /\ account_at(h, a) \in AccountOf(h)
      /\ Value(h, get_account(h, a)) = A!get_account(WorldIn(h, Current), a)
      BY Lookup
<1>2. Value(h, get_account(h, a)) =
         [nonce |-> account_at(h, a).nonce, balance |-> account_at(h, a).balance,
          code |-> account_at(h, a).code, storage |-> storage_at(h, a)]
      BY <1>1, ValueField DEF account_at, storage_at
<1>. QED BY <1>1, <1>2

World == WorldIn(heap, Current)

(* Changing fields of the account object and its dict is changing them in    *)
(* the value.                                                                *)
LEMMA FieldsStep ==
    ASSUME ObjectsInv, NEW a \in Addresses, NEW nonce \in Int, NEW balance \in Int,
           NEW code \in Codes \cup {NoCode}, NEW storage, NEW account,
           account = [nonce |-> nonce, balance |-> balance, code |-> code,
                      storage |-> account_at(heap, a).storage],
           Becomes(modify_account(heap, a, account, storage))
    PROVE  /\ ObjectsInv'
           /\ WorldIn(heap', Current) =
                 A!set_account(World, a, [nonce |-> nonce, balance |-> balance, code |-> code,
                                          storage |-> storage])
           /\ SavedValues' = SavedValues
           /\ HeldValues' = HeldValues
<1>1. account_at(heap, a) \in AccountOf(heap)
      BY FieldsOfValue DEF ObjectsInv
<1>2. account \in AccountOf(heap)
      BY <1>1 DEF AccountOf
<1>3. [account EXCEPT !.storage = storage] =
         [nonce |-> nonce, balance |-> balance, code |-> code, storage |-> storage]
      OBVIOUS
<1>. QED BY <1>2, <1>3, ModifyStep DEF World

LEMMA AddBalanceStep ==
    ASSUME ObjectsInv, NEW a \in Addresses, NEW n \in Amounts, AddBalance(a, n)
    PROVE  ObjectsInv' /\ Values!AddBalance(a, n)
<1>. DEFINE object == account_at(heap, a)
            value == A!get_account(World, a)
            account == [object EXCEPT !.balance = @ + n]
            s == storage_at(heap, a)
<1>1. /\ object \in AccountOf(heap)
      /\ value = [nonce |-> object.nonce, balance |-> object.balance, code |-> object.code,
                  storage |-> s]
      BY FieldsOfValue DEF ObjectsInv, World
<1>2. n \in Int
      BY ObjectsAssumption
<1>3. Becomes(modify_account(heap, a, account, s))
      BY DEF AddBalance, add_balance
<1>4. value.balance + n <= MaxBalance
      BY <1>1 DEF AddBalance, balance_of
<1>5. account = [nonce |-> object.nonce, balance |-> object.balance + n, code |-> object.code,
                 storage |-> object.storage]
      BY <1>1 DEF AccountOf
<1>6. [value EXCEPT !.balance = @ + n] =
         [nonce |-> object.nonce, balance |-> object.balance + n, code |-> object.code,
          storage |-> s]
      BY <1>1
<1>7. /\ object.nonce \in Int /\ object.balance + n \in Int
      /\ object.code \in Codes \cup {NoCode}
      BY <1>1, <1>2 DEF AccountOf
<1>. HIDE DEF s, account
<1>8. /\ ObjectsInv'
      /\ WorldIn(heap', Current) =
            A!set_account(World, a, [nonce |-> object.nonce, balance |-> object.balance + n,
                                     code |-> object.code, storage |-> s])
      /\ SavedValues' = SavedValues
      /\ HeldValues' = HeldValues
      BY <1>3, <1>5, <1>7, FieldsStep
<1>9. WorldIn(heap', Current) = A!set_account(World, a, [value EXCEPT !.balance = @ + n])
      BY <1>6, <1>8
<1>10. Values!AddBalance(a, n)
       BY <1>4, <1>8, <1>9, ValuesOperators
       DEF Values!AddBalance, Values!Becomes, Values!add_balance, SavedValues, HeldValues, World
<1>. QED BY <1>8, <1>10

LEMMA IncrementNonceStep ==
    ASSUME ObjectsInv, NEW a \in Addresses, IncrementNonce(a)
    PROVE  ObjectsInv' /\ Values!IncrementNonce(a)
<1>. DEFINE object == account_at(heap, a)
            value == A!get_account(World, a)
            account == [object EXCEPT !.nonce = @ + 1]
            s == storage_at(heap, a)
<1>1. /\ object \in AccountOf(heap)
      /\ value = [nonce |-> object.nonce, balance |-> object.balance, code |-> object.code,
                  storage |-> s]
      BY FieldsOfValue DEF ObjectsInv, World
<1>2. Becomes(modify_account(heap, a, account, s))
      BY DEF IncrementNonce
<1>3. value.nonce < MaxNonce
      BY <1>1 DEF IncrementNonce
<1>4. account = [nonce |-> object.nonce + 1, balance |-> object.balance, code |-> object.code,
                 storage |-> object.storage]
      BY <1>1 DEF AccountOf
<1>5. [value EXCEPT !.nonce = @ + 1] =
         [nonce |-> object.nonce + 1, balance |-> object.balance, code |-> object.code,
          storage |-> s]
      BY <1>1
<1>6. /\ object.nonce + 1 \in Int /\ object.balance \in Int
      /\ object.code \in Codes \cup {NoCode}
      BY <1>1 DEF AccountOf
<1>. HIDE DEF s, account
<1>7. /\ ObjectsInv'
      /\ WorldIn(heap', Current) =
            A!set_account(World, a, [nonce |-> object.nonce + 1, balance |-> object.balance,
                                     code |-> object.code, storage |-> s])
      /\ SavedValues' = SavedValues
      /\ HeldValues' = HeldValues
      BY <1>2, <1>4, <1>6, FieldsStep
<1>8. WorldIn(heap', Current) = A!set_account(World, a, [value EXCEPT !.nonce = @ + 1])
      BY <1>5, <1>7
<1>9. Values!IncrementNonce(a)
      BY <1>3, <1>7, <1>8, ValuesOperators
      DEF Values!IncrementNonce, Values!Becomes, Values!increment_nonce, SavedValues, HeldValues,
          World
<1>. QED BY <1>7, <1>9

LEMMA SetCodeStep ==
    ASSUME ObjectsInv, NEW a \in Addresses, NEW code \in Codes, SetCode(a, code)
    PROVE  ObjectsInv' /\ Values!SetCode(a, code)
<1>. DEFINE object == account_at(heap, a)
            value == A!get_account(World, a)
            account == [object EXCEPT !.code = code]
            s == storage_at(heap, a)
<1>1. /\ object \in AccountOf(heap)
      /\ value = [nonce |-> object.nonce, balance |-> object.balance, code |-> object.code,
                  storage |-> s]
      BY FieldsOfValue DEF ObjectsInv, World
<1>2. Becomes(modify_account(heap, a, account, s))
      BY DEF SetCode
<1>3. account = [nonce |-> object.nonce, balance |-> object.balance, code |-> code,
                 storage |-> object.storage]
      BY <1>1 DEF AccountOf
<1>4. [value EXCEPT !.code = code] =
         [nonce |-> object.nonce, balance |-> object.balance, code |-> code, storage |-> s]
      BY <1>1
<1>5. object.nonce \in Int /\ object.balance \in Int /\ code \in Codes \cup {NoCode}
      BY <1>1 DEF AccountOf
<1>. HIDE DEF s, account
<1>6. /\ ObjectsInv'
      /\ WorldIn(heap', Current) =
            A!set_account(World, a, [nonce |-> object.nonce, balance |-> object.balance,
                                     code |-> code, storage |-> s])
      /\ SavedValues' = SavedValues
      /\ HeldValues' = HeldValues
      BY <1>2, <1>3, <1>5, FieldsStep
<1>7. WorldIn(heap', Current) = A!set_account(World, a, [value EXCEPT !.code = code])
      BY <1>4, <1>6
<1>8. Values!SetCode(a, code)
      BY <1>6, <1>7, ValuesOperators
      DEF Values!SetCode, Values!Becomes, Values!set_code, SavedValues, HeldValues, World
<1>. QED BY <1>6, <1>8

LEMMA SetStorageStep ==
    ASSUME ObjectsInv, NEW a \in Addresses, NEW k, NEW v, SetStorage(a, k, v)
    PROVE  ObjectsInv' /\ Values!SetStorage(a, k, v)
<1>. DEFINE object == account_at(heap, a)
            value == A!get_account(World, a)
            s == A!Store(storage_at(heap, a), k, v)
<1>1. /\ object \in AccountOf(heap)
      /\ storage_at(heap, a) = value.storage
      /\ value = [nonce |-> object.nonce, balance |-> object.balance, code |-> object.code,
                  storage |-> storage_at(heap, a)]
      BY FieldsOfValue DEF ObjectsInv, World
<1>2. Becomes(modify_account(heap, a, object, s))
      BY DEF SetStorage
<1>3. object = [nonce |-> object.nonce, balance |-> object.balance, code |-> object.code,
                storage |-> object.storage]
      BY <1>1 DEF AccountOf
<1>4. [value EXCEPT !.storage = A!Store(@, k, v)] =
         [nonce |-> object.nonce, balance |-> object.balance, code |-> object.code, storage |-> s]
      BY <1>1
<1>5. /\ object.nonce \in Int /\ object.balance \in Int
      /\ object.code \in Codes \cup {NoCode}
      BY <1>1 DEF AccountOf
<1>. HIDE DEF s
<1>6. /\ ObjectsInv'
      /\ WorldIn(heap', Current) =
            A!set_account(World, a, [nonce |-> object.nonce, balance |-> object.balance,
                                     code |-> object.code, storage |-> s])
      /\ SavedValues' = SavedValues
      /\ HeldValues' = HeldValues
      BY <1>2, <1>3, <1>5, FieldsStep
<1>7. WorldIn(heap', Current) =
         A!set_account(World, a, [value EXCEPT !.storage = A!Store(@, k, v)])
      BY <1>4, <1>6
<1>8. Values!SetStorage(a, k, v)
      BY <1>6, <1>7, ValuesOperators
      DEF Values!SetStorage, Values!Becomes, SavedValues, HeldValues, World
<1>. QED BY <1>6, <1>8

(* Half a transfer.                                                          *)
LEMMA BalanceHeap ==
    ASSUME NEW h, IsHeap(h), Apart(h), NEW a \in Addresses, NEW n \in Int,
           NEW g, g = add_balance(h, a, n)
    PROVE  /\ IsHeap(g) /\ Apart(g) /\ Keeps(h, g)
           /\ A!get_account(WorldIn(h, Current), a).balance \in Int
           /\ WorldIn(g, Current) = A!add_balance(WorldIn(h, Current), a, n)
<1>. DEFINE object == account_at(h, a)
            value == A!get_account(WorldIn(h, Current), a)
            account == [object EXCEPT !.balance = @ + n]
            s == storage_at(h, a)
<1>1. /\ object \in AccountOf(h)
      /\ value = [nonce |-> object.nonce, balance |-> object.balance, code |-> object.code,
                  storage |-> s]
      BY FieldsOfValue
<1>2. account \in AccountOf(h)
      BY <1>1 DEF AccountOf
<1>3. [account EXCEPT !.storage = s] = [value EXCEPT !.balance = @ + n]
  <2>1. account = [nonce |-> object.nonce, balance |-> object.balance + n, code |-> object.code,
                   storage |-> object.storage]
        BY <1>1 DEF AccountOf
  <2>2. [value EXCEPT !.balance = @ + n] =
           [nonce |-> object.nonce, balance |-> object.balance + n, code |-> object.code,
            storage |-> s]
        BY <1>1
  <2>. HIDE DEF account
  <2>. QED BY <2>1, <2>2
<1>4. g = modify_account(h, a, account, s)
      BY DEF add_balance
<1>. HIDE DEF account, s
<1>5. /\ IsHeap(g) /\ Apart(g) /\ Keeps(h, g)
      /\ WorldIn(g, Current) =
            A!set_account(WorldIn(h, Current), a, [account EXCEPT !.storage = s])
      BY <1>2, <1>4, ModifyHeap
<1>. QED BY <1>1, <1>3, <1>5 DEF A!add_balance, AccountOf

LEMMA TransferStep ==
    ASSUME ObjectsInv, NEW a \in Addresses, NEW b \in Addresses, NEW n \in Amounts,
           Transfer(a, b, n)
    PROVE  ObjectsInv' /\ Values!Transfer(a, b, n)
<1>. DEFINE g == add_balance(heap, a, -n)
            k == add_balance(g, b, n)
            valueA == A!get_account(World, a)
            valueB == A!get_account(World, b)
<1>1. n \in Int /\ -n \in Int
      BY ObjectsAssumption
<1>2. IsHeap(heap) /\ Apart(heap)
      BY DEF ObjectsInv
<1>3. /\ IsHeap(g) /\ Apart(g) /\ Keeps(heap, g)
      /\ valueA.balance \in Int
      /\ WorldIn(g, Current) = A!add_balance(World, a, -n)
      BY <1>1, <1>2, BalanceHeap DEF World
<1>4. Becomes(k)
      BY DEF Transfer
<1>5. valueA.balance >= n /\ valueB.balance + n <= MaxBalance /\ n > 0
      BY <1>2, FieldsOfValue DEF Transfer, balance_of, World
<1>. HIDE DEF g
<1>6. /\ IsHeap(k) /\ Apart(k) /\ Keeps(g, k)
      /\ WorldIn(k, Current) = A!add_balance(WorldIn(g, Current), b, n)
      BY <1>1, <1>3, BalanceHeap
<1>. HIDE DEF k
<1>7. Keeps(heap, k)
      BY <1>3, <1>6 DEF Keeps
<1>8. /\ ObjectsInv'
      /\ WorldIn(heap', Current) = WorldIn(k, Current)
      /\ SavedValues' = SavedValues
      /\ HeldValues' = HeldValues
      BY <1>4, <1>6, <1>7, EditStep
<1>9. [valueA EXCEPT !.balance = @ + (-n)] = [valueA EXCEPT !.balance = @ - n]
      BY <1>1, <1>3
<1>10. WorldIn(g, Current) = Values!deduct_balance(World, a, n)
       BY <1>3, <1>9, ValuesOperators DEF A!add_balance, Values!deduct_balance
<1>11. WorldIn(heap', Current) = Values!transfer(World, a, b, n)
  <2>1. n # 0
        BY <1>1, <1>5
  <2>. QED BY <2>1, <1>6, <1>8, <1>10, ValuesOperators
           DEF Values!transfer, Values!add_balance, A!add_balance
<1>12. Values!can_deduct(World, a, n)
       BY <1>5, ValuesOperators DEF Values!can_deduct
<1>13. Values!Transfer(a, b, n)
       BY <1>5, <1>8, <1>11, <1>12, ValuesOperators
       DEF Values!Transfer, Values!Becomes, SavedValues, HeldValues, World
<1>. QED BY <1>8, <1>13

LEMMA SnapshotStep ==
    ASSUME ObjectsInv, Snapshot
    PROVE  ObjectsInv' /\ Values!Snapshot
<1>. DEFINE f == Fresh(DOMAIN heap.tables)
            g == deepcopy_table(heap, Current)
<1>1. IsHeap(heap) /\ Apart(heap)
      BY DEF ObjectsInv
<1>2. saved = <<>> /\ Settle(g, Current, <<f>>, held)
      BY DEF Snapshot
<1>. HIDE DEF f, g
<1>3. /\ IsHeap(g) /\ Apart(g)
      /\ f \in DOMAIN g.tables /\ f \notin DOMAIN heap.tables
      /\ DOMAIN heap.accounts \subseteq DOMAIN g.accounts
      /\ \A i \in DOMAIN heap.accounts : Value(g, i) = Value(heap, i)
      /\ WorldIn(g, Current) = World
      /\ WorldIn(g, f) = World
      BY <1>1, SnapshotHeap DEF f, g, World
<1>4. Keepable(heap, Current, saved, held)
      BY Keeping
<1>5. Keepable(g, Current, <<f>>, held)
  <2>1. Current # f
        BY <1>1, <1>3 DEF IsHeap
  <2>2. Current \in DOMAIN g.tables
        BY <1>3 DEF IsHeap
  <2>. QED BY <2>1, <2>2, <1>3, <1>4 DEF Keepable
<1>6. /\ ObjectsInv'
      /\ WorldIn(heap', Current) = World
      /\ saved' # <<Current>>
      /\ DOMAIN saved' = {1}
      /\ WorldIn(heap', saved'[1]) = World
      /\ DOMAIN held' = DOMAIN held
      /\ \A k \in DOMAIN held : Value(heap', held'[k]) = Value(g, held[k])
  <2>1. /\ ObjectsInv'
        /\ WorldIn(heap', Current) = WorldIn(g, Current)
        /\ saved' = <<Current>> <=> <<f>> = <<Current>>
        /\ DOMAIN saved' = DOMAIN <<f>>
        /\ \A k \in DOMAIN <<f>> : WorldIn(heap', saved'[k]) = WorldIn(g, <<f>>[k])
        /\ DOMAIN held' = DOMAIN held
        /\ \A k \in DOMAIN held : Value(heap', held'[k]) = Value(g, held[k])
        BY <1>2, <1>3, <1>5, SettledHeap
  <2>2. DOMAIN <<f>> = {1} /\ <<f>>[1] = f
        OBVIOUS
  <2>3. f # Current
        BY <1>1, <1>3 DEF IsHeap
  <2>. QED BY <2>1, <2>2, <2>3, <1>3
<1>7. HeldValues' = HeldValues
  <2>1. \A k \in DOMAIN held : Value(g, held[k]) = Value(heap, held[k])
        BY <1>3, <1>4, KeptParts DEF Range
  <2>. QED BY <2>1, <1>6 DEF HeldValues
<1>8. SavedValues = <<>> /\ SavedValues' = <<World>>
      BY <1>2, <1>6 DEF SavedValues, Unspent
<1>. QED BY <1>6, <1>7, <1>8 DEF Values!Snapshot, SavedValues, HeldValues, World

(* A step that changes no object: the world becomes the table cur.           *)
LEMMA SameHeap ==
    ASSUME ObjectsInv, NEW cur, NEW sv, NEW hd, Keepable(heap, cur, sv, hd),
           Settle(heap, cur, sv, hd)
    PROVE  /\ ObjectsInv'
           /\ WorldIn(heap', Current) = WorldIn(heap, cur)
           /\ sv = <<cur>> => SavedValues' = <<>>
           /\ sv # <<cur>> => SavedValues' = [k \in DOMAIN sv |-> WorldIn(heap, sv[k])]
           /\ HeldValues' = [k \in DOMAIN hd |-> Value(heap, hd[k])]
<1>1. IsHeap(heap) /\ Apart(heap)
      BY DEF ObjectsInv
<1>2. /\ ObjectsInv'
      /\ WorldIn(heap', Current) = WorldIn(heap, cur)
      /\ saved' = <<Current>> <=> sv = <<cur>>
      /\ DOMAIN saved' = DOMAIN sv
      /\ \A k \in DOMAIN sv : WorldIn(heap', saved'[k]) = WorldIn(heap, sv[k])
      /\ DOMAIN held' = DOMAIN hd
      /\ \A k \in DOMAIN hd : Value(heap', held'[k]) = Value(heap, hd[k])
      BY <1>1, SettledHeap
<1>. QED BY <1>2 DEF SavedValues, Unspent, HeldValues

(* Reverting to a snapshot uses it up; doing so again changes nothing.       *)
LEMMA RevertStep ==
    ASSUME ObjectsInv, Revert
    PROVE  /\ ObjectsInv'
           /\ Values!Revert \/ UNCHANGED <<World, SavedValues, HeldValues>>
<1>1. saved # <<>> /\ Settle(heap, saved[1], saved, held)
      BY DEF Revert
<1>2. Keepable(heap, Current, saved, held)
      BY Keeping
<1>3. saved = <<saved[1]>> /\ saved[1] \in DOMAIN heap.tables
      BY <1>1, <1>2 DEF Keepable
<1>4. Keepable(heap, saved[1], saved, held)
      BY <1>2, <1>3 DEF Keepable
<1>5. /\ ObjectsInv'
      /\ WorldIn(heap', Current) = WorldIn(heap, saved[1])
      /\ SavedValues' = <<>>
      /\ HeldValues' = HeldValues
  <2>1. /\ ObjectsInv'
        /\ WorldIn(heap', Current) = WorldIn(heap, saved[1])
        /\ saved = <<saved[1]>> => SavedValues' = <<>>
        /\ HeldValues' = [k \in DOMAIN held |-> Value(heap, held[k])]
        BY <1>1, <1>4, SameHeap
  <2>. QED BY <2>1, <1>3 DEF HeldValues
<1>6. CASE saved = <<Current>>
  <2>1. saved[1] = Current /\ SavedValues = <<>>
        BY <1>6 DEF SavedValues, Unspent
  <2>. QED BY <1>5, <2>1 DEF World
<1>7. CASE saved # <<Current>>
  <2>1. SavedValues # <<>> /\ SavedValues[1] = WorldIn(heap, saved[1])
        BY <1>3, <1>7 DEF SavedValues, Unspent
  <2>. QED BY <1>5, <2>1 DEF Values!Revert, SavedValues, HeldValues
<1>. QED BY <1>6, <1>7

LEMMA ForgetStep ==
    ASSUME ObjectsInv, Forget
    PROVE  /\ ObjectsInv'
           /\ Values!Forget \/ UNCHANGED <<World, SavedValues, HeldValues>>
<1>1. saved # <<>> /\ Settle(heap, Current, <<>>, held)
      BY DEF Forget
<1>2. Keepable(heap, Current, saved, held)
      BY Keeping
<1>3. Keepable(heap, Current, <<>>, held) /\ DOMAIN saved = {1}
      BY <1>1, <1>2 DEF Keepable
<1>4. /\ ObjectsInv'
      /\ WorldIn(heap', Current) = World
      /\ SavedValues' = <<>>
      /\ HeldValues' = HeldValues
  <2>1. /\ ObjectsInv'
        /\ WorldIn(heap', Current) = WorldIn(heap, Current)
        /\ <<>> # <<Current>> => SavedValues' = [k \in DOMAIN <<>> |-> WorldIn(heap, <<>>[k])]
        /\ HeldValues' = [k \in DOMAIN held |-> Value(heap, held[k])]
        BY <1>1, <1>3, SameHeap
  <2>. QED BY <2>1 DEF HeldValues, World
<1>5. CASE saved = <<Current>>
  <2>1. SavedValues = <<>>
        BY <1>5 DEF SavedValues, Unspent
  <2>. QED BY <1>4, <2>1 DEF World
<1>6. CASE saved # <<Current>>
  <2>1. SavedValues # <<>>
        BY <1>3, <1>6 DEF SavedValues, Unspent
  <2>. QED BY <1>4, <2>1 DEF Values!Forget, SavedValues, HeldValues, World
<1>. QED BY <1>5, <1>6

LEMMA LookStep ==
    ASSUME ObjectsInv, NEW a, Look(a)
    PROVE  ObjectsInv' /\ Values!Look(a)
<1>. DEFINE i == get_account(heap, a)
<1>1. Settle(heap, Current, saved, <<i>>)
      BY DEF Look
<1>2. i \in DOMAIN heap.accounts /\ Value(heap, i) = A!get_account(World, a)
      BY Lookup DEF ObjectsInv, World
<1>. HIDE DEF i
<1>3. Keepable(heap, Current, saved, <<i>>)
  <2>1. Keepable(heap, Current, saved, held)
        BY Keeping
  <2>. QED BY <2>1, <1>2 DEF Keepable
<1>4. /\ ObjectsInv'
      /\ WorldIn(heap', Current) = World
      /\ SavedValues' = SavedValues
      /\ HeldValues' = <<A!get_account(World, a)>>
  <2>1. /\ ObjectsInv'
        /\ WorldIn(heap', Current) = WorldIn(heap, Current)
        /\ saved = <<Current>> => SavedValues' = <<>>
        /\ saved # <<Current>> => SavedValues' = [k \in DOMAIN saved |-> WorldIn(heap, saved[k])]
        /\ HeldValues' = [k \in DOMAIN <<i>> |-> Value(heap, <<i>>[k])]
        BY <1>1, <1>3, SameHeap
  <2>2. [k \in DOMAIN <<i>> |-> Value(heap, <<i>>[k])] = <<Value(heap, i)>>
        OBVIOUS
  <2>. QED BY <2>1, <2>2, <1>2 DEF SavedValues, Unspent, World
<1>. QED BY <1>4, ValuesOperators DEF Values!Look, SavedValues, HeldValues, World

-----------------------------------------------------------------------------
(* The beginning                                                             *)
LEMMA GenesisHeap ==
    ASSUME NEW alloc, DOMAIN alloc \subseteq Addresses, alloc \in [DOMAIN alloc -> Amounts],
           NEW h, h = Genesis(alloc)
    PROVE  /\ IsHeap(h) /\ Apart(h) /\ DOMAIN h.tables = {Current}
           /\ WorldIn(h, Current) = [a \in DOMAIN alloc |-> Values!GenesisAccount(alloc[a])]
<1>. DEFINE names == [a \in DOMAIN alloc |-> Position[a]]
            owner == AntiFunction(names)
            ids == {Sentinel} \cup Range(names)
            balance(i) == IF i = Sentinel THEN 0 ELSE alloc[owner[i]]
            account(i) == [A!EMPTY_ACCOUNT EXCEPT !.balance = balance(i), !.storage = i]
<1>1. h = [tables |-> [t \in {Current} |-> names],
           accounts |-> [i \in ids |-> account(i)],
           dicts |-> [d \in ids |-> A!EmptyStorage]]
      BY DEF Genesis
<1>2. \A a \in DOMAIN alloc : names[a] \in 1..Width
      BY PositionType
<1>3. \A a, b \in DOMAIN names : names[a] = names[b] => a = b
      BY PositionType
<1>4. DOMAIN names = DOMAIN alloc
      OBVIOUS
<1>. HIDE DEF names
<1>5. \A a \in DOMAIN alloc : names[a] \in Range(names) /\ owner[names[a]] = a
      BY <1>3, <1>4, AntiFunctionOf
<1>6. \A i \in Range(names) : i \in 1..Width /\ \E a \in DOMAIN alloc : i = names[a]
      BY <1>2, <1>4 DEF Range
<1>. HIDE DEF owner
<1>7. \A a \in DOMAIN alloc : balance(names[a]) = alloc[a]
      BY <1>2, <1>5 DEF Sentinel
<1>8. balance(Sentinel) = 0 /\ \A i \in ids : balance(i) \in Int
  <2>1. \A a \in DOMAIN alloc : alloc[a] \in Int
        BY ObjectsAssumption
  <2>. QED BY <2>1, <1>6, <1>7 DEF Sentinel
<1>. HIDE DEF balance
<1>9. ids \subseteq Nat /\ Named(ids)
  <2>1. ids \subseteq Nat /\ \A i \in ids : i <= Width
        BY <1>6, PositionType DEF Sentinel
  <2>. QED BY <2>1, BoundedIsNamed, PositionType
<1>10. /\ DOMAIN h.tables = {Current} /\ h.tables[Current] = names
       /\ DOMAIN h.accounts = ids /\ DOMAIN h.dicts = ids
       /\ \A i \in ids : h.accounts[i] = account(i)
       /\ \A i \in ids : h.dicts[i] = A!EmptyStorage
  <2>. HIDE DEF ids, account
  <2>. QED BY <1>1
<1>11. \A i : account(i) = [nonce |-> 0, balance |-> balance(i), code |-> NoCode, storage |-> i]
  <2>1. \A i, n : [A!EMPTY_ACCOUNT EXCEPT !.balance = n, !.storage = i] =
                     [nonce |-> 0, balance |-> n, code |-> NoCode, storage |-> i]
    <3>. TAKE i, n
    <3>1. [A!EMPTY_ACCOUNT EXCEPT !.balance = n] =
             [nonce |-> 0, balance |-> n, code |-> NoCode, storage |-> A!EmptyStorage]
          BY DEF A!EMPTY_ACCOUNT
    <3>2. \A x, s : x = [nonce |-> 0, balance |-> n, code |-> NoCode, storage |-> s] =>
             [x EXCEPT !.storage = i] =
                [nonce |-> 0, balance |-> n, code |-> NoCode, storage |-> i]
          OBVIOUS
    <3>. QED BY <3>1, <3>2
  <2>. QED BY <2>1
<1>. HIDE DEF account
<1>12. \A i \in ids : Value(h, i) = [nonce |-> 0, balance |-> balance(i), code |-> NoCode,
                                     storage |-> A!EmptyStorage]
       BY <1>10, <1>11 DEF Value
<1>13. names \in [DOMAIN alloc -> ids] /\ Sentinel \in ids
       BY <1>1, <1>4, <1>5 DEF names
<1>. HIDE DEF ids
<1>14. IsHeap(h)
  <2>1. h = [tables |-> h.tables, accounts |-> h.accounts, dicts |-> h.dicts]
        BY <1>1
  <2>2. Named({Current})
        BY DEF Named, Current
  <2>3. \A t \in DOMAIN h.tables : IsTable(h.tables[t], h)
        BY <1>4, <1>10, <1>13 DEF IsTable
  <2>4. \A i \in ids : h.accounts[i] \in AccountOf(h)
        BY <1>8, <1>10, <1>11 DEF AccountOf
  <2>5. h.accounts \in [DOMAIN h.accounts -> AccountOf(h)]
        BY <1>1, <1>10, <2>4
  <2>6. Value(h, Sentinel) = A!EMPTY_ACCOUNT
        BY <1>8, <1>12, <1>13 DEF A!EMPTY_ACCOUNT
  <2>. QED BY <2>1, <2>2, <2>3, <2>5, <2>6, <1>9, <1>10, <1>13 DEF IsHeap
<1>15. Apart(h)
  <2>1. Sentinel \notin Range(names)
        BY <1>6 DEF Sentinel
  <2>2. \A i, j \in DOMAIN h.accounts : h.accounts[i].storage = h.accounts[j].storage => i = j
        BY <1>10, <1>11
  <2>. QED BY <2>1, <2>2, <1>3, <1>10 DEF Apart
<1>16. WorldIn(h, Current) = [a \in DOMAIN alloc |-> Values!GenesisAccount(alloc[a])]
  <2>1. \A a \in DOMAIN alloc : Value(h, names[a]) = Values!GenesisAccount(alloc[a])
    <3>. TAKE a \in DOMAIN alloc
    <3>1. Value(h, names[a]) = [nonce |-> 0, balance |-> alloc[a], code |-> NoCode,
                                storage |-> A!EmptyStorage]
          BY <1>7, <1>12, <1>13
    <3>. QED BY <3>1 DEF Values!GenesisAccount, Values!EMPTY_ACCOUNT, Values!EmptyStorage,
                         A!EmptyStorage
  <2>. QED BY <2>1, <1>4, <1>10 DEF WorldIn
<1>. QED BY <1>10, <1>14, <1>15, <1>16

LEMMA InitStep ==
    ASSUME Init
    PROVE  ObjectsInv /\ Values!Init
<1>. PICK D \in SUBSET Addresses : \E alloc \in [D -> Amounts] : heap = Genesis(alloc)
     BY DEF Init
<1>1. PICK alloc \in [D -> Amounts] : heap = Genesis(alloc)
      OBVIOUS
<1>2. saved = <<>> /\ held = <<>>
      BY DEF Init
<1>3. /\ IsHeap(heap) /\ Apart(heap) /\ DOMAIN heap.tables = {Current}
      /\ WorldIn(heap, Current) = [a \in DOMAIN alloc |-> Values!GenesisAccount(alloc[a])]
      BY <1>1, GenesisHeap
<1>4. ObjectsInv
      BY <1>2, <1>3 DEF ObjectsInv, Holds, Range
<1>5. alloc \in Values!Allocations
      BY DEF Values!Allocations
<1>6. Values!Init
      BY <1>2, <1>3, <1>5 DEF Values!Init, Unspent
<1>. QED BY <1>4, <1>6

-----------------------------------------------------------------------------
(* The specification                                                         *)
LEMMA NextStep ==
    ASSUME ObjectsInv, Next
    PROVE  /\ ObjectsInv'
           /\ Values!Next \/ UNCHANGED <<World, SavedValues, HeldValues>>
<1>1. ASSUME NEW a \in Addresses, NEW n \in Amounts, AddBalance(a, n)
      PROVE  ObjectsInv' /\ Values!Next
      BY <1>1, AddBalanceStep DEF Values!Next
<1>2. ASSUME NEW a \in Addresses, NEW b \in Addresses, NEW n \in Amounts, Transfer(a, b, n)
      PROVE  ObjectsInv' /\ Values!Next
      BY <1>2, TransferStep DEF Values!Next
<1>3. ASSUME NEW a \in Addresses, IncrementNonce(a)
      PROVE  ObjectsInv' /\ Values!Next
      BY <1>3, IncrementNonceStep DEF Values!Next
<1>4. ASSUME NEW a \in Addresses, NEW code \in Codes, SetCode(a, code)
      PROVE  ObjectsInv' /\ Values!Next
      BY <1>4, SetCodeStep DEF Values!Next
<1>5. ASSUME NEW a \in Addresses, NEW k \in Slots, NEW v \in Words, SetStorage(a, k, v)
      PROVE  ObjectsInv' /\ Values!Next
      BY <1>5, SetStorageStep DEF Values!Next
<1>6. ASSUME NEW a \in Addresses, Look(a)
      PROVE  ObjectsInv' /\ Values!Next
      BY <1>6, LookStep DEF Values!Next
<1>7. CASE Snapshot
      BY <1>7, SnapshotStep DEF Values!Next
<1>8. CASE Revert
      BY <1>8, RevertStep DEF Values!Next
<1>9. CASE Forget
      BY <1>9, ForgetStep DEF Values!Next
<1>. QED BY <1>1, <1>2, <1>3, <1>4, <1>5, <1>6, <1>7, <1>8, <1>9 DEF Next

LEMMA StutterStep ==
    ASSUME ObjectsInv, UNCHANGED vars
    PROVE  /\ ObjectsInv'
           /\ UNCHANGED <<WorldIn(heap, Current), SavedValues, HeldValues>>
<1>1. heap' = heap /\ saved' = saved /\ held' = held
      BY DEF vars
<1>2. ObjectsInv'
      BY <1>1 DEF ObjectsInv
<1>3. UNCHANGED <<WorldIn(heap, Current), SavedValues, HeldValues>>
      BY <1>1 DEF SavedValues, Unspent, HeldValues, WorldIn, Value
<1>. QED BY <1>2, <1>3

LEMMA ObjectsInvariant == Spec => []ObjectsInv
<1>1. Init => ObjectsInv
      BY InitStep
<1>2. ObjectsInv /\ [Next]_vars => ObjectsInv'
      BY NextStep, StutterStep
<1>. QED BY <1>1, <1>2, PTL DEF Spec

(* No account object is ever in two tables or at two addresses, none shares  *)
(* its storage dict and EMPTY_ACCOUNT is in no table, however many           *)
(* operations, snapshots and reverts there are: what modify_account, which   *)
(* copies before it changes, and snapshot, which copies everything, are for. *)
THEOREM ObjectsStayApart == Spec => []NothingShared
<1>1. ObjectsInv => NothingShared
      BY DEF ObjectsInv, Apart, NothingShared
<1>. QED BY <1>1, ObjectsInvariant, PTL

(* The objects behave as the values of Worlds: every operation of WorldState *)
(* changes the value of the one world as its name says and no value that     *)
(* get_account returned or a snapshot still has to bring back, and the first *)
(* revert to a snapshot brings back the very values that snapshot saw.       *)
THEOREM ObjectsAreValues == Spec => ValueSemantics
<1>. DEFINE mapped == <<WorldIn(heap, Current),
                        [i \in DOMAIN Unspent |-> WorldIn(heap, Unspent[i])],
                        [i \in DOMAIN held |-> Value(heap, held[i])]>>
<1>1. Init => Values!Init
      BY InitStep
<1>2. ObjectsInv /\ [Next]_vars => [Values!Next]_mapped
      BY NextStep, StutterStep DEF SavedValues, HeldValues, World
<1>. QED BY <1>1, <1>2, ObjectsInvariant, PTL DEF Spec, ValueSemantics, Values!Spec
=============================================================================
