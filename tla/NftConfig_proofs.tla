-------------------------- MODULE NftConfig_proofs --------------------------
(***************************************************************************)
(* Theorems about NftConfig.tla, for tables of any length and bytes of any   *)
(* range: every item has the share of the lotteries that its rate gives it,  *)
(* what is read of the cell is what was composed, and each reveal draws every *)
(* nft by a lottery of its own, however many hashes it takes.               *)
(***************************************************************************)
EXTENDS NftConfigProperties, FiniteSetTheorems, SequenceTheorems, WellFoundedInduction,
        TLAPS

Item == [nft : Blake160, rate : Byte]

(* A set of naturals that is not empty has a least element.                 *)
LEMMA LeastOf ==
  ASSUME NEW T \in SUBSET Nat, T # {}
  PROVE  \E x \in T : \A y \in T : x <= y
<1>1. PICK x \in T : \A y \in T : ~ (<<y, x>> \in OpToRel(<, Nat))
  BY NatLessThanWellFounded, WFMin, Zenon
<1>2. ASSUME NEW y \in T
      PROVE  x <= y
  <2>1. x \in Nat /\ y \in Nat
    OBVIOUS
  <2>2. ~ (y < x)
    BY <1>1, <2>1 DEF OpToRel
  <2>3. QED
    BY <2>1, <2>2
<1>3. QED
  BY <1>2

(* Rates are bytes.                                                         *)
LEMMA Rates ==
  ASSUME NEW table \in Seq(Item)
  PROVE  \A k \in 1 .. Len(table) : table[k].rate \in 0 .. Base - 1
<1>1. ASSUME NEW k \in 1 .. Len(table)
      PROVE  table[k] \in Item
  OBVIOUS
<1>2. \A item \in Item : item.rate \in Byte
  BY DEF Item
<1>3. QED
  BY <1>1, <1>2 DEF Byte

(* NFTConfig::new compares neighbours only (types.rs:26-33): that orders the  *)
(* whole table.                                                             *)
LEMMA Ordered ==
  ASSUME NEW table \in Seq(Item), Ascending(table),
         NEW i \in DOMAIN table, NEW j \in DOMAIN table, i <= j
  PROVE  table[i].rate <= table[j].rate
<1> DEFINE T == {k \in i .. Len(table) : table[k].rate < table[i].rate}
<1>1. DOMAIN table = 1 .. Len(table) /\ Len(table) \in Nat /\ Base \in Nat
  BY ConfigAssumption
<1>2. \A k \in 1 .. Len(table) : table[k].rate \in 0 .. Base - 1
  BY Rates
<1>3. SUFFICES ASSUME T # {} PROVE FALSE
  <2>1. j \in i .. Len(table)
    BY <1>1
  <2>2. T = {} => ~ (table[j].rate < table[i].rate)
    BY <2>1
  <2>3. QED
    BY <1>1, <1>2, <2>2
<1>4. T \in SUBSET Nat
  BY <1>1
<1>5. PICK m \in T : \A k \in T : m <= k
  BY <1>3, <1>4, LeastOf, Zenon
<1>6. m # i /\ m \in i .. Len(table) /\ table[m].rate < table[i].rate
  BY <1>1, <1>2, <1>5
<1>7. m - 1 \in i .. Len(table) /\ m \in 2 .. Len(table) /\ ~ (m - 1 \in T)
  BY <1>1, <1>5, <1>6
<1>8. table[m - 1].rate >= table[i].rate
  BY <1>1, <1>2, <1>7
<1>9. table[m - 1].rate <= table[m].rate
  BY <1>7 DEF Ascending
<1>10. QED
  BY <1>1, <1>2, <1>6, <1>7, <1>8, <1>9

(* A lottery is taken by the item in whose share it lies, and by no other     *)
(* (types.rs:56-67).                                                        *)
LEMMA ExpectInShare ==
  ASSUME NEW table \in Seq(Item), Ascending(table),
         NEW i \in DOMAIN table, NEW lottery \in Byte
  PROVE  Expect(table, lottery) = i
           <=> lottery \in Lower(table, i) .. Upper(table, i) - 1
<1>1. DOMAIN table = 1 .. Len(table) /\ Len(table) \in Nat /\ Base \in Nat
  BY ConfigAssumption
<1>2. \A k \in 1 .. Len(table) : table[k].rate \in 0 .. Base - 1
  BY Rates
<1>3. lottery \in 0 .. Base - 1 /\ i \in 1 .. Len(table)
  BY <1>1 DEF Byte
<1>4. CASE Above(table, lottery) = {}
  <2>1. Expect(table, lottery) = Len(table)
    BY <1>4 DEF Expect
  <2>2. \A k \in 1 .. Len(table) : table[k].rate <= lottery
    BY <1>1, <1>2, <1>3, <1>4 DEF Above
  <2>3. CASE i = Len(table)
    BY <1>1, <1>2, <1>3, <2>1, <2>2, <2>3 DEF Lower, Upper
  <2>4. CASE i # Len(table)
    BY <1>1, <1>2, <1>3, <2>1, <2>2, <2>4 DEF Lower, Upper
  <2>5. QED
    BY <2>3, <2>4
<1>5. CASE Above(table, lottery) # {}
  <2> DEFINE first == Expect(table, lottery)
  <2>1. Above(table, lottery) \in SUBSET Nat
    BY <1>1 DEF Above
  <2>2. \E k \in Above(table, lottery) : \A j \in Above(table, lottery) : k <= j
    BY <1>5, <2>1, LeastOf, Zenon
  <2>3. first \in Above(table, lottery) /\ \A j \in Above(table, lottery) : first <= j
    BY <1>5, <2>2 DEF Expect
  <2>4. first \in 1 .. Len(table) /\ lottery < table[first].rate
    BY <1>1, <2>3 DEF Above
  <2>5. \A j \in 1 .. Len(table) : j < first => table[j].rate <= lottery
    <3>1. ASSUME NEW j \in 1 .. Len(table), j < first
          PROVE  table[j].rate <= lottery
      <4>1. ~ (j \in Above(table, lottery))
        BY <1>1, <2>3, <2>4, <3>1
      <4>2. QED
        BY <1>1, <1>2, <1>3, <4>1 DEF Above
    <3>2. QED
      BY <3>1
  <2> HIDE DEF first
  <2>6. CASE i = first
    <3>1. Lower(table, i) <= lottery
      BY <1>1, <1>2, <1>3, <2>4, <2>5, <2>6 DEF Lower
    <3>2. lottery <= Upper(table, i) - 1 /\ Lower(table, i) \in Int /\ Upper(table, i) \in Int
      BY <1>1, <1>2, <1>3, <2>4, <2>6 DEF Lower, Upper
    <3>3. QED
      BY <1>3, <2>6, <3>1, <3>2 DEF first
  <2>7. CASE i < first
    <3>1. Upper(table, i) = table[i].rate /\ table[i].rate <= lottery
      BY <1>1, <1>3, <2>4, <2>5, <2>7 DEF Upper
    <3>2. QED
      BY <1>2, <1>3, <2>4, <2>7, <3>1 DEF first
  <2>8. CASE i > first
    <3>1. i - 1 \in DOMAIN table /\ first \in DOMAIN table /\ first <= i - 1
      BY <1>1, <1>3, <2>4, <2>8
    <3>2. table[first].rate <= table[i - 1].rate
      BY <3>1, Ordered
    <3>3. Lower(table, i) = table[i - 1].rate
      BY <1>1, <1>3, <2>4, <2>8 DEF Lower
    <3>4. lottery < Lower(table, i)
      BY <1>1, <1>2, <1>3, <2>4, <3>1, <3>2, <3>3
    <3>5. QED
      BY <1>1, <1>2, <1>3, <2>4, <2>8, <3>1, <3>3, <3>4 DEF first
  <2>9. QED
    BY <1>3, <2>4, <2>6, <2>7, <2>8
<1>6. QED
  BY <1>4, <1>5

(* Each item of a table has as many lotteries as its rate gives it.          *)
LEMMA Shares ==
  ASSUME NEW table \in Seq(Item), Ascending(table), NEW i \in DOMAIN table
  PROVE  Cardinality({lottery \in Byte : Expect(table, lottery) = i})
           = Upper(table, i) - Lower(table, i)
<1>1. DOMAIN table = 1 .. Len(table) /\ Len(table) \in Nat /\ Base \in Nat
  BY ConfigAssumption
<1>2. \A k \in 1 .. Len(table) : table[k].rate \in 0 .. Base - 1
  BY Rates
<1>3. /\ Lower(table, i) \in 0 .. Base - 1 /\ Upper(table, i) \in 0 .. Base
  BY <1>1, <1>2, ConfigAssumption DEF Lower, Upper
<1>4. Lower(table, i) <= Upper(table, i)
  <2>1. CASE i = 1
    BY <1>3, <2>1 DEF Lower
  <2>2. CASE i = Len(table)
    BY <1>1, <1>3, <2>2 DEF Upper
  <2>3. CASE i # 1 /\ i # Len(table)
    <3>1. table[i - 1].rate <= table[i].rate
      BY <1>1, <2>3 DEF Ascending
    <3>2. QED
      BY <2>3, <3>1 DEF Lower, Upper
  <2>4. QED
    BY <2>1, <2>2, <2>3
<1>5. {lottery \in Byte : Expect(table, lottery) = i}
        = Lower(table, i) .. Upper(table, i) - 1
  <2>1. Lower(table, i) .. Upper(table, i) - 1 \subseteq Byte
    BY <1>1, <1>3 DEF Byte
  <2>2. QED
    BY <2>1, ExpectInShare
<1>6. Cardinality(Lower(table, i) .. Upper(table, i) - 1)
        = Upper(table, i) - Lower(table, i)
  <2>1. \A a \in Int, b \in Int : Cardinality(a .. b) = IF a > b THEN 0 ELSE b - a + 1
    BY FS_Interval
  <2>2. Lower(table, i) \in Int /\ Upper(table, i) - 1 \in Int
    BY <1>1, <1>3
  <2>3. Cardinality(Lower(table, i) .. Upper(table, i) - 1)
          = IF Lower(table, i) > Upper(table, i) - 1 THEN 0
            ELSE Upper(table, i) - 1 - Lower(table, i) + 1
    BY <2>1, <2>2, Zenon
  <2>4. \A a \in Int, b \in Int :
          a <= b => (IF a > b - 1 THEN 0 ELSE b - 1 - a + 1) = b - a
    OBVIOUS
  <2>5. Lower(table, i) \in Int /\ Upper(table, i) \in Int
    BY <1>1, <1>3
  <2>6. QED
    BY <1>4, <2>3, <2>4, <2>5, Zenon
<1>7. QED
  BY <1>5, <1>6

(* What a reveal may draw from has been through NFTConfig::new.              *)
Composable == composed.table \in Seq(Item) /\ Ascending(composed.table)

(* Rates divide the lotteries among the items of every table that is ever     *)
(* composed (types.rs:16-37 and 56-67).                                      *)
THEOREM ShareCorrect == Spec => []ShareOfLotteries
<1>1. Init => Composable
  BY DEF Init, Composable, Ascending
<1>2. Composable /\ [Next]_vars => Composable'
  <2> SUFFICES ASSUME Composable, [Next]_vars PROVE Composable'
    OBVIOUS
  <2>1. ASSUME NEW c \in Configs, Compose(c)
        PROVE  Composable'
    <3>1. c.table \in Seq(Item)
      BY ConfigAssumption DEF Config, Item
    <3>2. QED
      BY <2>1, <3>1 DEF Compose, Valid, Composable
  <2>2. ASSUME NEW count \in Counts, NEW hash \in BlockHashes, Purchase(count, hash)
        PROVE  Composable'
    BY <2>2 DEF Purchase, Composable
  <2>3. CASE Reveal
    BY <2>3 DEF Reveal, Composable
  <2>4. CASE UNCHANGED vars
    BY <2>4 DEF vars, Composable
  <2>5. QED
    BY <2>1, <2>2, <2>3, <2>4 DEF Next
<1>3. Composable => ShareOfLotteries
  BY Shares DEF Composable, ShareOfLotteries
<1>4. QED
  BY <1>1, <1>2, <1>3, PTL DEF Spec

-----------------------------------------------------------------------------
(* Recursive functions, and sequences behind one another.                   *)

(* Induction over the naturals, with a set in place of a predicate.         *)
LEMMA Induct ==
  ASSUME NEW T, 0 \in T, \A n \in Nat : n \in T => n + 1 \in T
  PROVE  \A n \in Nat : n \in T
<1> SUFFICES ASSUME Nat \ T # {} PROVE FALSE
  OBVIOUS
<1>1. PICK x \in Nat \ T : \A y \in Nat \ T : x <= y
  BY LeastOf
<1>2. x - 1 \in Nat /\ x - 1 \in T
  BY <1>1
<1> QED BY <1>1, <1>2

(* A function by recursion over the first naturals: G gives each value from the *)
(* one before.                                                              *)
Recursive(f, D, b, n, G) ==
  /\ f \in [0 .. n -> D]
  /\ f[0] = b
  /\ \A i \in 1 .. n : f[i] = G[i][f[i - 1]]

(* Such a function exists.                                                  *)
LEMMA Recursion ==
  ASSUME NEW D, NEW b \in D, NEW n \in Nat, NEW G \in [Nat -> [D -> D]]
  PROVE  \E f : Recursive(f, D, b, n, G)
<1> DEFINE T == {k \in Nat : \E f : Recursive(f, D, b, k, G)}
<1>1. 0 \in T
  <2> DEFINE f == [i \in 0 .. 0 |-> b]
  <2>1. f \in [0 .. 0 -> D] /\ f[0] = b
    OBVIOUS
  <2> HIDE DEF f
  <2>2. Recursive(f, D, b, 0, G)
    BY <2>1 DEF Recursive
  <2>3. QED
    BY <2>2
<1>2. ASSUME NEW k \in Nat, k \in T
      PROVE  k + 1 \in T
  <2>0. PICK f : Recursive(f, D, b, k, G)
    BY <1>2
  <2>1. f \in [0 .. k -> D] /\ f[0] = b /\ \A i \in 1 .. k : f[i] = G[i][f[i - 1]]
    BY <2>0 DEF Recursive
  <2> DEFINE v == G[k + 1][f[k]]
             g == [i \in 0 .. k + 1 |-> IF i = k + 1 THEN v ELSE f[i]]
  <2>2. v \in D
    <3>1. k + 1 \in Nat /\ f[k] \in D
      BY <2>1
    <3>2. G[k + 1] \in [D -> D]
      BY <3>1
    <3>3. QED
      BY <3>1, <3>2
  <2>3. g[k + 1] = v /\ \A i \in 0 .. k : g[i] = f[i]
    OBVIOUS
  <2>4. g \in [0 .. k + 1 -> D]
    <3> HIDE DEF v
    <3>1. \A i \in 0 .. k + 1 : i # k + 1 => i \in 0 .. k
      OBVIOUS
    <3>2. QED
      BY <2>1, <2>2, <3>1
  <2> HIDE DEF g
  <2>5. ASSUME NEW i \in 1 .. k + 1
        PROVE  g[i] = G[i][g[i - 1]]
    <3>1. CASE i = k + 1
      BY <2>3, <3>1
    <3>2. CASE i # k + 1
      <4>1. i \in 1 .. k /\ i \in 0 .. k /\ i - 1 \in 0 .. k
        BY <3>2
      <4>2. QED
        BY <2>1, <2>3, <4>1
    <3>3. QED
      BY <3>1, <3>2
  <2>6. g[0] = b
    BY <2>1, <2>3
  <2>7. Recursive(g, D, b, k + 1, G)
    BY <2>4, <2>5, <2>6 DEF Recursive
  <2>8. QED
    BY <2>7
<1> HIDE DEF T
<1>3. n \in T
  BY <1>1, <1>2, Induct
<1>4. QED
  BY <1>3 DEF T

(* A number and its lowest digit.                                           *)
LEMMA Digit ==
  ASSUME NEW n \in Nat
  PROVE  /\ n % Base \in Byte /\ n \div Base \in Nat
         /\ n = (n % Base) + Base * (n \div Base)
         /\ \A m \in Nat : n < Base * m => n \div Base < m
<1>1. Base \in Nat /\ Base > 0
  BY ConfigAssumption
<1>2. n % Base \in Byte /\ n \div Base \in Nat /\ n = (n % Base) + Base * (n \div Base)
  BY <1>1 DEF Byte
<1> DEFINE q == n \div Base
           r == n % Base
<1>3. ASSUME NEW m \in Nat, n < Base * m
      PROVE  q < m
  <2>1. r \in Nat /\ q \in Nat /\ n = r + Base * q
    BY <1>2 DEF Byte
  <2> HIDE DEF q, r
  <2>2. SUFFICES ASSUME m <= q PROVE FALSE
    BY <2>1
  <2>3. Base * m <= Base * q
    BY <1>1, <2>1, <2>2
  <2>4. Base * m \in Nat /\ Base * q \in Nat
    BY <1>1, <2>1
  <2>5. QED
    BY <1>3, <2>1, <2>3, <2>4
<1>4. QED
  BY <1>2, <1>3

(* A number is divided in one way.                                          *)
LEMMA Divided ==
  ASSUME NEW m \in Nat, m > 0, NEW d \in Nat, d < m, NEW q \in Nat
  PROVE  (d + m * q) \div m = q
<1> DEFINE n == d + m * q
           u == n \div m
           e == n % m
<1>1. m * q \in Nat /\ n \in Nat
  OBVIOUS
<1>2. e + m * u = d + m * q /\ e \in Nat /\ e < m /\ u \in Nat
  <2>1. n \div m \in Nat /\ n % m \in 0 .. m - 1 /\ n = (n % m) + m * (n \div m)
    <3> HIDE DEF n
    <3>1. QED
      BY <1>1
  <2>2. QED
    BY <2>1
<1> HIDE DEF n, u, e
<1>3. ASSUME u < q PROVE FALSE
  <2>1. u + 1 <= q
    BY <1>2, <1>3
  <2>2. m * (u + 1) <= m * q
    BY <1>2, <2>1
  <2>3. m * (u + 1) = m * u + m
    BY <1>2
  <2>4. m * u \in Nat /\ m * q \in Nat
    BY <1>2
  <2>5. QED
    BY <1>2, <2>2, <2>3, <2>4
<1>4. ASSUME q < u PROVE FALSE
  <2>1. q + 1 <= u
    BY <1>2, <1>4
  <2>2. m * (q + 1) <= m * u
    BY <1>2, <2>1
  <2>3. m * (q + 1) = m * q + m
    BY <1>2
  <2>4. m * u \in Nat /\ m * q \in Nat
    BY <1>2
  <2>5. QED
    BY <1>2, <2>2, <2>3, <2>4
<1>5. u = q
  BY <1>2, <1>3, <1>4
<1>6. QED
  BY <1>5 DEF u, n

(* What FlattenSeq does, unrolled.                                          *)
LEMMA FlattenIs ==
  ASSUME NEW S, NEW parts \in Seq(Seq(S)), parts # << >>
  PROVE  \E f : /\ f[1] = parts[1]
                /\ \A i \in 2 .. Len(parts) : f[i] = f[i - 1] \o parts[i]
                /\ FlattenSeq(parts) = f[Len(parts)]
<1> DEFINE n == Len(parts)
           D == Seq(S)
           G == [i \in Nat |-> [v \in D |-> IF i \in 1 .. n THEN v \o parts[i] ELSE v]]
           Def(f) == [i \in 1 .. n |-> IF i = 1 THEN parts[1] ELSE f[i - 1] \o parts[i]]
           flatten == CHOOSE f : f = Def(f)
<1>1. n \in Nat /\ n # 0 /\ \A i \in 1 .. n : parts[i] \in D
  OBVIOUS
<1>2. << >> \in D
  OBVIOUS
<1>3. G \in [Nat -> [D -> D]]
  <2>1. ASSUME NEW i \in Nat, NEW v \in D
        PROVE  (IF i \in 1 .. n THEN v \o parts[i] ELSE v) \in D
    <3>1. CASE i \in 1 .. n
      <4>1. parts[i] \in Seq(S)
        BY <1>1, <3>1
      <4>2. QED
        BY <3>1, <4>1, ConcatProperties
    <3>2. QED
      BY <3>1
  <2>2. QED
    BY <2>1
<1>4. \A i \in Nat, v \in D : G[i][v] = IF i \in 1 .. n THEN v \o parts[i] ELSE v
  OBVIOUS
<1> HIDE DEF G, n, D
<1>5. PICK g : Recursive(g, D, << >>, n, G)
  BY <1>1, <1>2, <1>3, Recursion
<1>6. g \in [0 .. n -> D] /\ g[0] = << >> /\ \A i \in 1 .. n : g[i] = G[i][g[i - 1]]
  BY <1>5 DEF Recursive
<1> USE DEF D
<1> DEFINE f == [i \in 1 .. n |-> g[i]]
<1>7. \A i \in 1 .. n : f[i] = IF i = 1 THEN parts[1] ELSE f[i - 1] \o parts[i]
  <2>1. ASSUME NEW i \in 1 .. n
        PROVE  g[i] = g[i - 1] \o parts[i] /\ g[i - 1] \in D /\ parts[i] \in D
    <3>1. i \in Nat /\ i - 1 \in 0 .. n
      BY <1>1
    <3>2. g[i - 1] \in D
      BY <1>6, <3>1
    <3>3. QED
      BY <1>1, <1>4, <1>6, <3>1, <3>2
  <2>2. ASSUME NEW i \in 1 .. n, i = 1
        PROVE  f[i] = parts[1]
    <3>1. g[1] = << >> \o parts[1] /\ parts[1] \in Seq(S)
      <4>1. 1 - 1 = 0
        OBVIOUS
      <4>2. QED
        BY <1>6, <2>1, <2>2, <4>1
    <3>2. QED
      BY <2>2, <3>1, ConcatEmptySeq
  <2>3. ASSUME NEW i \in 1 .. n, i # 1
        PROVE  f[i] = f[i - 1] \o parts[i]
    <3>1. i - 1 \in 1 .. n
      BY <1>1, <2>3
    <3>2. QED
      BY <2>1, <3>1
  <2>4. QED
    BY <2>2, <2>3
<1>8. f = Def(f)
  <2>1. f = [i \in 1 .. n |-> f[i]]
    OBVIOUS
  <2> HIDE DEF f
  <2>2. QED
    BY <1>7, <2>1
<1>9. flatten = Def(flatten)
  <2> HIDE DEF f
  <2>1. QED
    BY <1>8, Zenon
<1>10. FlattenSeq(parts) = flatten[n]
  BY <1>1, Zenon DEF FlattenSeq, n
<1> HIDE DEF flatten
<1>11. flatten[1] = parts[1] /\ \A i \in 2 .. n : flatten[i] = flatten[i - 1] \o parts[i]
  <2>1. \A i \in 1 .. n : flatten[i] = IF i = 1 THEN parts[1] ELSE flatten[i - 1] \o parts[i]
    <3>1. \A i \in 1 .. n : flatten[i] = Def(flatten)[i]
      BY <1>9, Zenon
    <3>2. QED
      BY <3>1
  <2>2. 1 \in 1 .. n /\ \A i \in 2 .. n : i \in 1 .. n /\ i # 1
    BY <1>1
  <2>3. QED
    BY <2>1, <2>2
<1>12. QED
  BY <1>10, <1>11 DEF n

(* Functions whose values follow from the one before in the same way are the   *)
(* same as far as they go.                                                  *)
LEMMA Agree ==
  ASSUME NEW n \in Nat, NEW f, NEW g, f[0] = g[0],
         \A i \in 1 .. n : f[i - 1] = g[i - 1] => f[i] = g[i]
  PROVE  \A k \in 0 .. n : f[k] = g[k]
<1> DEFINE T == {k \in Nat : k <= n => f[k] = g[k]}
<1>1. 0 \in T
  OBVIOUS
<1>2. ASSUME NEW k \in Nat, k \in T
      PROVE  k + 1 \in T
  <2> SUFFICES ASSUME k + 1 <= n PROVE f[k + 1] = g[k + 1]
    OBVIOUS
  <2>1. k + 1 \in 1 .. n /\ (k + 1) - 1 = k /\ f[k] = g[k]
    BY <1>2
  <2>2. QED
    BY <2>1
<1>3. \A k \in Nat : k \in T
  <2> HIDE DEF T
  <2>1. QED
    BY <1>1, <1>2, Induct
<1>4. QED
  BY <1>3

(* Positions in rows of one width.                                          *)
LEMMA Rows ==
  ASSUME NEW k \in Nat, NEW m \in Nat, NEW i \in 1 .. m, NEW j \in 1 .. k
  PROVE  /\ (i - 1) * k \in Nat /\ m * k \in Nat
         /\ (i - 1) * k + j \in 1 .. m * k
<1>1. i \in Nat /\ i - 1 \in Nat /\ i <= m /\ j \in Nat /\ 1 <= j /\ j <= k
  OBVIOUS
<1>2. (i - 1) * k \in Nat /\ m * k \in Nat /\ i * k \in Nat
  BY <1>1
<1>3. (i - 1) * k + k = i * k
  BY <1>1
<1>4. i * k <= m * k
  BY <1>1
<1>5. QED
  BY <1>1, <1>2, <1>3, <1>4

(* Each position is in one row.                                             *)
LEMMA RowOf ==
  ASSUME NEW k \in Nat, k > 0, NEW m \in Nat, NEW p \in 1 .. m * k
  PROVE  \E i \in 1 .. m, j \in 1 .. k : p = (i - 1) * k + j
<1> DEFINE q == (p - 1) \div k
           r == (p - 1) % k
<1>1. m * k \in Nat /\ p \in Nat /\ p - 1 \in Nat /\ p <= m * k
  OBVIOUS
<1>2. q \in Nat /\ r \in 0 .. k - 1 /\ p - 1 = k * q + r
  BY <1>1
<1> HIDE DEF q, r
<1>3. k * q \in Nat /\ k * q = q * k
  BY <1>2
<1>4. q < m
  <2>1. ASSUME m <= q PROVE FALSE
    <3>1. m * k <= q * k
      BY <1>2, <2>1
    <3>2. QED
      BY <1>1, <1>2, <1>3, <3>1
  <2>2. QED
    BY <1>2, <2>1
<1>5. q + 1 \in 1 .. m /\ r + 1 \in 1 .. k /\ (q + 1) - 1 = q
  BY <1>2, <1>4
<1>6. p = q * k + (r + 1)
  BY <1>1, <1>2, <1>3
<1>7. QED
  BY <1>5, <1>6

(* The position of the j-th of a row.                                       *)
Row(k, i, j) == (i - 1) * k + j

(* Parts of one length, one behind the other, are the rows of the whole.     *)
LEMMA FlattenEqual ==
  ASSUME NEW S, NEW k \in Nat, NEW parts \in Seq(Seq(S)),
         \A i \in 1 .. Len(parts) : Len(parts[i]) = k
  PROVE  /\ FlattenSeq(parts) \in Seq(S) /\ Len(FlattenSeq(parts)) = Len(parts) * k
         /\ \A i \in 1 .. Len(parts), j \in 1 .. k :
              FlattenSeq(parts)[Row(k, i, j)] = parts[i][j]
<1>1. CASE parts = << >>
  <2>1. FlattenSeq(parts) = << >> /\ Len(parts) = 0
    BY <1>1 DEF FlattenSeq
  <2>2. QED
    BY <2>1
<1>2. CASE parts # << >>
  <2> DEFINE n == Len(parts)
  <2>1. n \in Nat /\ n >= 1 /\ \A i \in 1 .. n : parts[i] \in Seq(S) /\ Len(parts[i]) = k
    BY <1>2
  <2>2. PICK f : /\ f[1] = parts[1]
                 /\ \A i \in 2 .. n : f[i] = f[i - 1] \o parts[i]
                 /\ FlattenSeq(parts) = f[n]
    BY <1>2, FlattenIs
  <2> HIDE DEF n
  <2> DEFINE Whole(m) == /\ f[m] \in Seq(S) /\ Len(f[m]) = m * k
                         /\ \A i \in 1 .. m, j \in 1 .. k : f[m][(i - 1) * k + j] = parts[i][j]
             T == {m \in Nat : m + 1 <= n => Whole(m + 1)}
  <2>3. 0 \in T
    <3>1. \A j \in 1 .. k : (1 - 1) * k + j = j
      OBVIOUS
    <3>2. 1 \in 1 .. n /\ 1 * k = k
      BY <2>1
    <3>3. \A i \in 1 .. 1 : i = 1
      OBVIOUS
    <3>4. Whole(1)
      BY <2>1, <2>2, <3>1, <3>2, <3>3
    <3>5. QED
      BY <3>4
  <2>4. ASSUME NEW m0 \in Nat, m0 \in T
        PROVE  m0 + 1 \in T
    <3> SUFFICES ASSUME m0 + 1 + 1 <= n PROVE Whole(m0 + 1 + 1)
      OBVIOUS
    <3> DEFINE m == m0 + 1
    <3>1. m \in Nat /\ m + 1 \in 2 .. n /\ m + 1 \in 1 .. n /\ (m + 1) - 1 = m
      BY <2>1
    <3>2. Whole(m)
      BY <2>1, <2>4
    <3> HIDE DEF m
    <3>3. f[m + 1] = f[m] \o parts[m + 1]
      BY <2>2, <3>1
    <3>4. parts[m + 1] \in Seq(S) /\ Len(parts[m + 1]) = k
      BY <2>1, <3>1
    <3>5. m * k \in Nat /\ (m + 1) * k = m * k + k
      BY <3>1
    <3>6. /\ f[m + 1] \in Seq(S) /\ Len(f[m + 1]) = (m + 1) * k
          /\ \A p \in 1 .. m * k : f[m + 1][p] = f[m][p]
          /\ \A j \in 1 .. k : f[m + 1][m * k + j] = parts[m + 1][j]
      <4>1. f[m] \in Seq(S) /\ Len(f[m]) = m * k
        BY <3>2
      <4>2. /\ f[m] \o parts[m + 1] \in Seq(S)
            /\ Len(f[m] \o parts[m + 1]) = Len(f[m]) + Len(parts[m + 1])
            /\ \A p \in 1 .. Len(f[m]) + Len(parts[m + 1]) :
                 (f[m] \o parts[m + 1])[p] =
                   IF p <= Len(f[m]) THEN f[m][p] ELSE parts[m + 1][p - Len(f[m])]
        BY <3>4, <4>1, ConcatProperties
      <4>3. \A p \in 1 .. m * k + k :
              (f[m] \o parts[m + 1])[p] = IF p <= m * k THEN f[m][p] ELSE parts[m + 1][p - m * k]
        BY <3>4, <4>1, <4>2, Zenon
      <4>4. \A p \in 1 .. m * k : p \in 1 .. m * k + k /\ p <= m * k
        BY <3>5
      <4>5. \A j \in 1 .. k : /\ m * k + j \in 1 .. m * k + k /\ ~ (m * k + j <= m * k)
                              /\ (m * k + j) - m * k = j
        BY <3>5
      <4> DEFINE w == f[m] \o parts[m + 1]
      <4>6. w \in Seq(S) /\ Len(w) = m * k + k
        BY <3>4, <4>1, <4>2
      <4>7. \A p \in 1 .. m * k + k : w[p] = IF p <= m * k THEN f[m][p] ELSE parts[m + 1][p - m * k]
        BY <4>3
      <4> HIDE DEF w
      <4>8. \A p \in 1 .. m * k : w[p] = f[m][p]
        BY <4>4, <4>7, Zenon
      <4>9. \A j \in 1 .. k : w[m * k + j] = parts[m + 1][j]
        BY <4>5, <4>7, Zenon
      <4>10. f[m + 1] = w
        BY <3>3 DEF w
      <4>11. QED
        BY <3>5, <4>6, <4>8, <4>9, <4>10, Zenon
    <3>7. ASSUME NEW i \in 1 .. m + 1, NEW j \in 1 .. k
          PROVE  f[m + 1][(i - 1) * k + j] = parts[i][j]
      <4>1. CASE i = m + 1
        BY <3>1, <3>6, <4>1
      <4>2. CASE i # m + 1
        <5>1. i \in 1 .. m
          BY <3>1, <4>2
        <5>2. (i - 1) * k + j \in 1 .. m * k
          BY <3>1, <5>1, Rows
        <5>3. f[m][(i - 1) * k + j] = parts[i][j]
          BY <3>2, <5>1
        <5>4. QED
          BY <3>6, <5>2, <5>3
      <4>3. QED
        BY <4>1, <4>2
    <3>8. Whole(m + 1)
      BY <3>6, <3>7
    <3>9. QED
      BY <3>8 DEF m
  <2>5. \A m \in Nat : m \in T
    <3> HIDE DEF T
    <3>1. QED
      BY <2>3, <2>4, Induct
  <2>6. Whole(n)
    <3>1. (n - 1) + 1 = n /\ n - 1 \in Nat
      BY <2>1
    <3>2. n - 1 \in T
      BY <2>5, <3>1
    <3>3. (n - 1) + 1 <= n => Whole((n - 1) + 1)
      BY <3>2
    <3>4. n <= n
      BY <2>1
    <3> HIDE DEF Whole, T
    <3>5. QED
      BY <3>1, <3>3, <3>4, Zenon
  <2>7. QED
    BY <2>2, <2>6, Zenon DEF n, Row
<1>3. QED
  BY <1>1, <1>2

(* The same for bytes.                                                      *)
LEMMA FlattenBytes ==
  \A parts \in Seq(Seq(Byte)), k \in Nat :
    (\A i \in 1 .. Len(parts) : Len(parts[i]) = k)
      => \A i \in 1 .. Len(parts), j \in 1 .. k : FlattenSeq(parts)[Row(k, i, j)] = parts[i][j]
<1>1. ASSUME NEW parts \in Seq(Seq(Byte)), NEW k \in Nat,
             \A i \in 1 .. Len(parts) : Len(parts[i]) = k
      PROVE  \A i \in 1 .. Len(parts), j \in 1 .. k : FlattenSeq(parts)[Row(k, i, j)] = parts[i][j]
  BY <1>1, FlattenEqual
<1>2. QED
  BY <1>1

-----------------------------------------------------------------------------
(* The numbers of the cell's bytes.                                         *)

(* U64Values is the last power of the base.                                 *)
LEMMA Powers ==
  \E power : /\ power \in [0 .. U64Size -> Nat] /\ power[0] = 1
             /\ \A i \in 1 .. U64Size : power[i] = Base * power[i - 1]
             /\ U64Values = power[U64Size]
<1> DEFINE G == [i \in Nat |-> [v \in Nat |-> Base * v]]
           Def(f) == [i \in 0 .. U64Size |-> IF i = 0 THEN 1 ELSE Base * f[i - 1]]
           power == CHOOSE f : f = Def(f)
<1>1. U64Size \in Nat /\ Base \in Nat
  BY ConfigAssumption DEF U64Size
<1>2. G \in [Nat -> [Nat -> Nat]] /\ \A i \in Nat, v \in Nat : G[i][v] = Base * v
  BY <1>1
<1> HIDE DEF G
<1>3. PICK g : Recursive(g, Nat, 1, U64Size, G)
  BY <1>1, <1>2, Recursion
<1>4. /\ g \in [0 .. U64Size -> Nat] /\ g[0] = 1
      /\ \A i \in 1 .. U64Size : g[i] = G[i][g[i - 1]]
  BY <1>3 DEF Recursive
<1>5. \A i \in 1 .. U64Size : g[i] = Base * g[i - 1]
  <2>1. ASSUME NEW i \in 1 .. U64Size
        PROVE  g[i] = Base * g[i - 1]
    <3>1. i \in Nat /\ i - 1 \in 0 .. U64Size
      BY <1>1
    <3>2. g[i - 1] \in Nat
      BY <1>4, <3>1
    <3>3. QED
      BY <1>2, <1>4, <3>1, <3>2
  <2>2. QED
    BY <2>1
<1>6. g = Def(g)
  <2>1. g = [i \in 0 .. U64Size |-> g[i]]
    BY <1>4
  <2>2. \A i \in 0 .. U64Size : i # 0 => i \in 1 .. U64Size
    BY <1>1
  <2>3. \A i \in 0 .. U64Size : g[i] = IF i = 0 THEN 1 ELSE Base * g[i - 1]
    BY <1>4, <1>5, <2>2, Zenon
  <2>4. QED
    BY <2>1, <2>3, Zenon
<1>7. power = Def(power)
  BY <1>6, Zenon
<1>8. U64Values = power[U64Size]
  BY Zenon DEF U64Values
<1>9. \A k \in 0 .. U64Size : power[k] = g[k]
  <2> HIDE DEF power
  <2>1. \A i \in 0 .. U64Size : power[i] = IF i = 0 THEN 1 ELSE Base * power[i - 1]
    BY <1>7, Zenon
  <2>2. power[0] = 1 /\ \A i \in 1 .. U64Size : power[i] = Base * power[i - 1]
    BY <1>1, <2>1
  <2>3. \A i \in 1 .. U64Size : power[i - 1] = g[i - 1] => power[i] = g[i]
    BY <1>5, <2>2, Zenon
  <2>4. power[0] = g[0]
    BY <1>4, <2>2
  <2>5. QED
    BY <1>1, <2>3, <2>4, Agree
<1>10. U64Values = g[U64Size]
  BY <1>1, <1>8, <1>9
<1>11. QED
  BY <1>4, <1>5, <1>10

(* The bytes of a number are the remainders of what is left of it.          *)
LEMMA BytesOf ==
  ASSUME NEW m \in Nat
  PROVE  \E rest : /\ rest \in [0 .. U64Size -> Nat] /\ rest[0] = m
                   /\ \A i \in 1 .. U64Size : rest[i] = rest[i - 1] \div Base
                   /\ ToLeBytes(m) = [i \in 1 .. U64Size |-> rest[i - 1] % Base]
<1> DEFINE G == [i \in Nat |-> [v \in Nat |-> v \div Base]]
           Def(f) == [i \in 0 .. U64Size |-> IF i = 0 THEN m ELSE f[i - 1] \div Base]
           rest == CHOOSE f : f = Def(f)
<1>1. U64Size \in Nat
  BY DEF U64Size
<1>2. G \in [Nat -> [Nat -> Nat]] /\ \A i \in Nat, v \in Nat : G[i][v] = v \div Base
  BY Digit
<1> HIDE DEF G
<1>3. PICK g : Recursive(g, Nat, m, U64Size, G)
  BY <1>1, <1>2, Recursion
<1>4. /\ g \in [0 .. U64Size -> Nat] /\ g[0] = m
      /\ \A i \in 1 .. U64Size : g[i] = G[i][g[i - 1]]
  BY <1>3 DEF Recursive
<1>5. \A i \in 1 .. U64Size : g[i] = g[i - 1] \div Base
  <2>1. ASSUME NEW i \in 1 .. U64Size
        PROVE  g[i] = g[i - 1] \div Base
    <3>1. i \in Nat /\ i - 1 \in 0 .. U64Size
      BY <1>1
    <3>2. g[i - 1] \in Nat
      BY <1>4, <3>1
    <3>3. QED
      BY <1>2, <1>4, <3>1, <3>2
  <2>2. QED
    BY <2>1
<1>6. g = Def(g)
  <2>1. g = [i \in 0 .. U64Size |-> g[i]]
    BY <1>4
  <2>2. \A i \in 0 .. U64Size : i # 0 => i \in 1 .. U64Size
    BY <1>1
  <2>3. \A i \in 0 .. U64Size : g[i] = IF i = 0 THEN m ELSE g[i - 1] \div Base
    BY <1>4, <1>5, <2>2, Zenon
  <2>4. QED
    BY <2>1, <2>3, Zenon
<1>7. rest = Def(rest)
  BY <1>6, Zenon
<1>8. ToLeBytes(m) = [i \in 1 .. U64Size |-> rest[i - 1] % Base]
  BY Zenon DEF ToLeBytes
<1>9. \A k \in 0 .. U64Size : rest[k] = g[k]
  <2> HIDE DEF rest
  <2>1. \A i \in 0 .. U64Size : rest[i] = IF i = 0 THEN m ELSE rest[i - 1] \div Base
    BY <1>7, Zenon
  <2>2. rest[0] = m /\ \A i \in 1 .. U64Size : rest[i] = rest[i - 1] \div Base
    BY <1>1, <2>1
  <2>3. \A i \in 1 .. U64Size : rest[i - 1] = g[i - 1] => rest[i] = g[i]
    BY <1>5, <2>2, Zenon
  <2>4. rest[0] = g[0]
    BY <1>4, <2>2
  <2>5. QED
    BY <1>1, <2>3, <2>4, Agree
<1>10. ToLeBytes(m) = [i \in 1 .. U64Size |-> g[i - 1] % Base]
  <2> HIDE DEF rest
  <2>1. \A i \in 1 .. U64Size : i - 1 \in 0 .. U64Size
    BY <1>1
  <2>2. \A i \in 1 .. U64Size : rest[i - 1] = g[i - 1]
    BY <1>9, <2>1, Zenon
  <2>3. QED
    BY <1>8, <2>2, Zenon
<1>11. QED
  BY <1>4, <1>5, <1>10

(* The number of bytes, from the last one on.                               *)
LEMMA NumberOf ==
  ASSUME NEW s \in [1 .. U64Size -> Byte]
  PROVE  \E from : /\ from[U64Size + 1] = 0
                   /\ \A i \in 1 .. U64Size : from[i] = s[i] + Base * from[i + 1]
                   /\ FromLeBytes(s) = from[1]
<1> DEFINE step(i, v) == IF i \in 1 .. U64Size THEN s[U64Size + 1 - i] + Base * v ELSE v
           G == [i \in Nat |-> [v \in Nat |-> step(i, v)]]
           Def(f) == [i \in 1 .. U64Size + 1 |-> IF i > U64Size THEN 0 ELSE s[i] + Base * f[i + 1]]
           from == CHOOSE f : f = Def(f)
<1>1. U64Size \in Nat /\ Base \in Nat
  BY ConfigAssumption DEF U64Size
<1>2. \A i \in Nat, v \in Nat : step(i, v) \in Nat
  <2>1. ASSUME NEW i \in 1 .. U64Size, NEW v \in Nat
        PROVE  s[U64Size + 1 - i] + Base * v \in Nat
    <3>1. U64Size + 1 - i \in 1 .. U64Size
      BY <1>1
    <3>2. s[U64Size + 1 - i] \in Nat
      BY <1>1, <3>1 DEF Byte
    <3>3. QED
      BY <1>1, <3>2
  <2>2. QED
    BY <2>1
<1>3. /\ G \in [Nat -> [Nat -> Nat]]
      /\ \A i \in 1 .. U64Size, v \in Nat : G[i][v] = s[U64Size + 1 - i] + Base * v
  <2>1. \A i \in 1 .. U64Size, v \in Nat :
          i \in Nat /\ step(i, v) = s[U64Size + 1 - i] + Base * v
    BY <1>1
  <2> HIDE DEF step
  <2>2. G \in [Nat -> [Nat -> Nat]] /\ \A i \in Nat, v \in Nat : G[i][v] = step(i, v)
    BY <1>2
  <2> HIDE DEF G
  <2>3. QED
    BY <2>1, <2>2
<1> HIDE DEF G
<1>4. PICK g : Recursive(g, Nat, 0, U64Size, G)
  BY <1>1, <1>3, Recursion
<1>5. /\ g \in [0 .. U64Size -> Nat] /\ g[0] = 0
      /\ \A i \in 1 .. U64Size : g[i] = G[i][g[i - 1]]
  BY <1>4 DEF Recursive
<1> DEFINE f == [i \in 1 .. U64Size + 1 |-> g[U64Size + 1 - i]]
<1>6. \A i \in 1 .. U64Size + 1 : f[i] = IF i > U64Size THEN 0 ELSE s[i] + Base * f[i + 1]
  <2>1. ASSUME NEW i \in 1 .. U64Size
        PROVE  f[i] = s[i] + Base * f[i + 1]
    <3> DEFINE k == U64Size + 1 - i
    <3>1. /\ k \in 1 .. U64Size /\ k - 1 \in 0 .. U64Size /\ U64Size + 1 - k = i
          /\ i \in 1 .. U64Size + 1 /\ i + 1 \in 1 .. U64Size + 1
          /\ U64Size + 1 - (i + 1) = k - 1
      BY <1>1
    <3>2. f[i] = g[k] /\ f[i + 1] = g[k - 1]
      BY <3>1
    <3> HIDE DEF k, f
    <3>3. g[k - 1] \in Nat /\ g[k] = G[k][g[k - 1]]
      BY <1>5, <3>1
    <3>4. G[k][g[k - 1]] = s[U64Size + 1 - k] + Base * g[k - 1]
      BY <1>3, <3>1, <3>3
    <3>5. QED
      BY <3>1, <3>2, <3>3, <3>4
  <2>2. U64Size + 1 \in 1 .. U64Size + 1 /\ U64Size + 1 - (U64Size + 1) = 0
    BY <1>1
  <2>3. f[U64Size + 1] = 0
    BY <1>5, <2>2
  <2>4. \A i \in 1 .. U64Size + 1 : IF i > U64Size THEN i = U64Size + 1 ELSE i \in 1 .. U64Size
    BY <1>1
  <2> HIDE DEF f
  <2>5. QED
    BY <2>1, <2>3, <2>4
<1>7. f = Def(f)
  <2>1. f = [i \in 1 .. U64Size + 1 |-> f[i]]
    OBVIOUS
  <2> HIDE DEF f
  <2>2. QED
    BY <1>6, <2>1, Zenon
<1>8. from = Def(from)
  <2> HIDE DEF f
  <2>1. QED
    BY <1>7, Zenon
<1>9. FromLeBytes(s) = from[1]
  BY Zenon DEF FromLeBytes
<1> HIDE DEF from
<1>10. \A i \in 1 .. U64Size + 1 : from[i] = IF i > U64Size THEN 0 ELSE s[i] + Base * from[i + 1]
  BY <1>8, Zenon
<1>11. QED
  BY <1>1, <1>9, <1>10

(* A price is read as it was written (types.rs:74 and 116-119).              *)
LEMMA PriceKept ==
  ASSUME NEW m \in 0 .. U64Values - 1
  PROVE  ToLeBytes(m) \in [1 .. U64Size -> Byte] /\ FromLeBytes(ToLeBytes(m)) = m
<1>1. PICK power : /\ power \in [0 .. U64Size -> Nat] /\ power[0] = 1
                   /\ \A i \in 1 .. U64Size : power[i] = Base * power[i - 1]
                   /\ U64Values = power[U64Size]
  BY Powers
<1>2. U64Size = 8 /\ Base \in Nat /\ m \in Nat
  BY <1>1, ConfigAssumption DEF U64Size
<1>3. PICK rest : /\ rest \in [0 .. U64Size -> Nat] /\ rest[0] = m
                  /\ \A i \in 1 .. U64Size : rest[i] = rest[i - 1] \div Base
                  /\ ToLeBytes(m) = [i \in 1 .. U64Size |-> rest[i - 1] % Base]
  BY <1>2, BytesOf
<1>4. ToLeBytes(m) \in [1 .. U64Size -> Byte]
  <2>1. ASSUME NEW i \in 1 .. U64Size
        PROVE  rest[i - 1] % Base \in Byte
    <3>1. i - 1 \in 0 .. U64Size
      BY <1>2
    <3>2. rest[i - 1] \in Nat
      BY <1>3, <3>1
    <3>3. QED
      BY <3>2, Digit
  <2>2. QED
    BY <1>3, <2>1
<1>5. PICK from : /\ from[U64Size + 1] = 0
                  /\ \A i \in 1 .. U64Size :
                       from[i] = ToLeBytes(m)[i] + Base * from[i + 1]
                  /\ FromLeBytes(ToLeBytes(m)) = from[1]
  BY <1>4, NumberOf
<1>6. \A i \in 0 .. 8 : rest[i] \in Nat /\ power[i] \in Nat
  BY <1>1, <1>2, <1>3
<1>7. \A i \in 0 .. 8 : rest[i] < power[8 - i]
  <2> DEFINE T == {k \in Nat : k <= 8 => rest[k] < power[8 - k]}
  <2>1. 0 \in T
    BY <1>1, <1>2, <1>3
  <2>2. ASSUME NEW k \in Nat, k \in T
        PROVE  k + 1 \in T
    <3> SUFFICES ASSUME k + 1 <= 8 PROVE rest[k + 1] < power[8 - (k + 1)]
      OBVIOUS
    <3>1. rest[k] < power[8 - k]
      BY <2>2
    <3>2. /\ k \in 0 .. 8 /\ k + 1 \in 1 .. 8 /\ (k + 1) - 1 = k
          /\ 8 - k \in 1 .. 8 /\ (8 - k) - 1 = 8 - (k + 1) /\ 8 - (k + 1) \in 0 .. 8
      OBVIOUS
    <3>3. power[8 - k] = Base * power[8 - (k + 1)]
      BY <1>1, <1>2, <3>2
    <3>4. rest[k + 1] = rest[k] \div Base
      BY <1>2, <1>3, <3>2
    <3>5. rest[k] \in Nat /\ power[8 - (k + 1)] \in Nat
      BY <1>6, <3>2
    <3>6. QED
      BY <3>1, <3>3, <3>4, <3>5, Digit
  <2>3. \A k \in Nat : k \in T
    <3> HIDE DEF T
    <3>1. QED
      BY <2>1, <2>2, Induct
  <2>4. QED
    BY <2>3
<1>8. rest[8] = 0
  <2>1. rest[8] < power[8 - 8] /\ 8 - 8 = 0 /\ power[0] = 1
    BY <1>1, <1>7
  <2>2. QED
    BY <1>6, <2>1
<1>9. \A k \in 0 .. 8 : from[9 - k] = rest[8 - k]
  <2> DEFINE T == {k \in Nat : k <= 8 => from[9 - k] = rest[8 - k]}
  <2>1. 0 \in T
    BY <1>2, <1>5, <1>8
  <2>2. ASSUME NEW k \in Nat, k \in T
        PROVE  k + 1 \in T
    <3> SUFFICES ASSUME k + 1 <= 8 PROVE from[9 - (k + 1)] = rest[8 - (k + 1)]
      OBVIOUS
    <3> DEFINE i == 8 - k
    <3>1. /\ i \in 1 .. 8 /\ i - 1 \in 0 .. 8 /\ i + 1 = 9 - k
          /\ 9 - (k + 1) = i /\ 8 - (k + 1) = i - 1
      OBVIOUS
    <3>2. from[i + 1] = rest[i]
      BY <2>2, <3>1
    <3> HIDE DEF i
    <3>3. from[i] = (rest[i - 1] % Base) + Base * from[i + 1]
      BY <1>2, <1>3, <1>5, <3>1
    <3>4. rest[i] = rest[i - 1] \div Base
      BY <1>2, <1>3, <3>1
    <3>5. rest[i - 1] = (rest[i - 1] % Base) + Base * (rest[i - 1] \div Base)
      <4>1. rest[i - 1] \in Nat
        BY <1>6, <3>1
      <4>2. QED
        BY <4>1, Digit
    <3>6. from[i] = rest[i - 1]
      BY <3>2, <3>3, <3>4, <3>5, Zenon
    <3>7. QED
      BY <3>1, <3>6
  <2>3. \A k \in Nat : k \in T
    <3> HIDE DEF T
    <3>1. QED
      BY <2>1, <2>2, Induct
  <2>4. QED
    BY <2>3
<1>10. from[1] = m
  <2>1. from[9 - 8] = rest[8 - 8]
    BY <1>9
  <2>2. 9 - 8 = 1 /\ 8 - 8 = 0
    OBVIOUS
  <2>3. QED
    BY <1>3, <2>1, <2>2
<1>11. QED
  BY <1>4, <1>5, <1>10

-----------------------------------------------------------------------------
(* The cell's bytes.                                                        *)

(* Arrays of bytes are sequences.                                           *)
LEMMA ArrayIs ==
  ASSUME NEW n \in Nat, NEW a \in [1 .. n -> Byte]
  PROVE  a \in Seq(Byte) /\ Len(a) = n
OBVIOUS

(* An item as it is written.                                                *)
LEMMA ItemWritten ==
  ASSUME NEW item \in Item
  PROVE  /\ Append(item.nft, item.rate) \in Seq(Byte)
         /\ Len(Append(item.nft, item.rate)) = Blake160Size + 1
         /\ \A j \in 1 .. Blake160Size : Append(item.nft, item.rate)[j] = item.nft[j]
         /\ Append(item.nft, item.rate)[Blake160Size + 1] = item.rate
<1>1. Blake160Size \in Nat
  BY ConfigAssumption
<1>2. item.nft \in [1 .. Blake160Size -> Byte] /\ item.rate \in Byte
  BY DEF Item, Blake160
<1> DEFINE a == item.nft
           r == item.rate
<1>3. a \in Seq(Byte) /\ Len(a) = Blake160Size
  BY <1>1, <1>2, ArrayIs
<1> HIDE DEF a
<1>4. /\ Append(a, r) \in Seq(Byte) /\ Len(Append(a, r)) = Len(a) + 1
      /\ \A i \in 1 .. Len(a) : Append(a, r)[i] = a[i]
      /\ Append(a, r)[Len(a) + 1] = r
  BY <1>2, <1>3, AppendProperties
<1>5. QED
  BY <1>3, <1>4 DEF a

(* The table as it is written.                                              *)
Written(table) == FlattenSeq([i \in DOMAIN table |-> Append(table[i].nft, table[i].rate)])

(* Each item is at its place in it.                                         *)
LEMMA TableWritten ==
  ASSUME NEW table \in Seq(Item)
  PROVE  /\ Written(table) \in Seq(Byte)
         /\ Len(Written(table)) = Len(table) * (Blake160Size + 1)
         /\ \A i \in 1 .. Len(table), j \in 1 .. Blake160Size :
              Written(table)[(i - 1) * (Blake160Size + 1) + j] = table[i].nft[j]
         /\ \A i \in 1 .. Len(table) :
              Written(table)[(i - 1) * (Blake160Size + 1) + (Blake160Size + 1)] = table[i].rate
<1> DEFINE n == Len(table)
           part(i) == Append(table[i].nft, table[i].rate)
           parts == [i \in 1 .. n |-> part(i)]
           k == Blake160Size + 1
<1>1. k \in Nat /\ n \in Nat /\ DOMAIN table = 1 .. n /\ Blake160Size \in Nat
  BY ConfigAssumption
<1>2. \A i \in 1 .. n : table[i] \in Item
  OBVIOUS
<1>3. \A i \in 1 .. n : /\ part(i) \in Seq(Byte) /\ Len(part(i)) = k
                        /\ \A j \in 1 .. Blake160Size : part(i)[j] = table[i].nft[j]
                        /\ part(i)[k] = table[i].rate
  BY <1>2, ItemWritten
<1>4. Written(table) = FlattenSeq(parts)
  BY <1>1, Zenon DEF Written
<1> HIDE DEF n, k, part
<1>5. parts \in Seq(Seq(Byte)) /\ Len(parts) = n
  BY <1>1, <1>3
<1>6. \A i \in 1 .. n : parts[i] = part(i)
  OBVIOUS
<1> HIDE DEF parts
<1>7. \A i \in 1 .. Len(parts) : Len(parts[i]) = k
  BY <1>3, <1>5, <1>6
<1>8. /\ FlattenSeq(parts) \in Seq(Byte) /\ Len(FlattenSeq(parts)) = n * k
      /\ \A i \in 1 .. n, j \in 1 .. k : FlattenSeq(parts)[Row(k, i, j)] = part(i)[j]
  <2>1. /\ FlattenSeq(parts) \in Seq(Byte) /\ Len(FlattenSeq(parts)) = Len(parts) * k
        /\ \A i \in 1 .. Len(parts), j \in 1 .. k : FlattenSeq(parts)[Row(k, i, j)] = parts[i][j]
    <3>1. k \in Nat
      BY <1>1
    <3>2. FlattenSeq(parts) \in Seq(Byte) /\ Len(FlattenSeq(parts)) = Len(parts) * k
      BY <1>5, <1>7, <3>1, FlattenEqual
    <3>3. \A i \in 1 .. Len(parts), j \in 1 .. k : FlattenSeq(parts)[Row(k, i, j)] = parts[i][j]
      BY <1>5, <1>7, <3>1, FlattenBytes, Zenon
    <3>4. QED
      BY <3>2, <3>3
  <2>2. Len(FlattenSeq(parts)) = n * k
    BY <1>5, <2>1
  <2>3. 1 .. Len(parts) = 1 .. n
    BY <1>5
  <2>4. \A i \in 1 .. n, j \in 1 .. k : FlattenSeq(parts)[Row(k, i, j)] = part(i)[j]
    BY <1>6, <2>1, <2>3, Zenon
  <2>5. QED
    BY <2>1, <2>2, <2>4
<1>9. k \in 1 .. k /\ \A j \in 1 .. Blake160Size : j \in 1 .. k
  BY <1>1 DEF k
<1>10. /\ \A i \in 1 .. n, j \in 1 .. Blake160Size :
            FlattenSeq(parts)[Row(k, i, j)] = table[i].nft[j]
       /\ \A i \in 1 .. n : FlattenSeq(parts)[Row(k, i, k)] = table[i].rate
  BY <1>3, <1>8, <1>9, Zenon
<1>11. QED
  BY <1>4, <1>8, <1>10 DEF n, k, Row

(* One sequence behind the other.                                           *)
LEMMA Behind ==
  ASSUME NEW S, NEW s \in Seq(S), NEW t \in Seq(S)
  PROVE  /\ s \o t \in Seq(S) /\ Len(s \o t) = Len(s) + Len(t)
         /\ \A p \in 1 .. Len(s) : (s \o t)[p] = s[p]
         /\ \A p \in 1 .. Len(t) : (s \o t)[Len(s) + p] = t[p]
<1> DEFINE w == s \o t
           a == Len(s)
           b == Len(t)
<1>1. /\ w \in Seq(S) /\ Len(w) = a + b
      /\ \A p \in 1 .. a + b : w[p] = IF p <= a THEN s[p] ELSE t[p - a]
  BY ConcatProperties
<1>2. a \in Nat /\ b \in Nat
  OBVIOUS
<1> HIDE DEF w, a, b
<1>3. \A p \in 1 .. a : w[p] = s[p]
  <2>1. \A p \in 1 .. a : p \in 1 .. a + b /\ p <= a
    BY <1>2
  <2>2. QED
    BY <1>1, <2>1, Zenon
<1>4. \A p \in 1 .. b : w[a + p] = t[p]
  <2>1. \A p \in 1 .. b : a + p \in 1 .. a + b /\ ~ (a + p <= a) /\ (a + p) - a = p
    BY <1>2
  <2>2. QED
    BY <1>1, <2>1
<1>5. QED
  BY <1>1, <1>3, <1>4 DEF w, a, b

(* What is written of a config is read again (types.rs:72-100).             *)
LEMMA ConfigRead ==
  ASSUME NEW c \in Config
  PROVE  FromBytes(ToCkbBytes(c)) = c
<1> DEFINE price == ToLeBytes(c.price)
           written == Written(c.table)
           bytes == ToCkbBytes(c)
           k == Blake160Size + 1
           n == Len(c.table)
<1>1. /\ c.price \in 0 .. U64Values - 1 /\ c.capacity \in Byte /\ c.table \in Seq(Item)
      /\ c = [price |-> c.price, capacity |-> c.capacity, table |-> c.table]
  BY DEF Config, Item
<1>2. Blake160Size \in Nat /\ k \in Nat /\ k > 0 /\ n \in Nat /\ U64Size = 8 /\ HeadSize = 9
  BY <1>1, ConfigAssumption DEF U64Size, HeadSize
<1>3. price \in [1 .. 8 -> Byte] /\ FromLeBytes(price) = c.price
  BY <1>1, <1>2, PriceKept
<1>4. price \in Seq(Byte) /\ Len(price) = 8
  BY <1>3, ArrayIs
<1>5. /\ written \in Seq(Byte) /\ Len(written) = n * k
      /\ \A i \in 1 .. n, j \in 1 .. Blake160Size : written[(i - 1) * k + j] = c.table[i].nft[j]
      /\ \A i \in 1 .. n : written[(i - 1) * k + k] = c.table[i].rate
  BY <1>1, TableWritten
<1>6. bytes = price \o <<c.capacity>> \o written
  BY Zenon DEF ToCkbBytes, Written
<1> HIDE DEF price, written, bytes
<1>7. n * k \in Nat /\ n * k = k * n
  <2> HIDE DEF n, k
  <2>1. QED
    BY <1>2
<1>8. /\ bytes \in Seq(Byte) /\ Len(bytes) = 9 + n * k
      /\ \A p \in 1 .. 8 : bytes[p] = price[p]
      /\ bytes[9] = c.capacity
      /\ \A p \in 1 .. n * k : bytes[9 + p] = written[p]
  <2> DEFINE one == <<c.capacity>>
             head == price \o one
             l == n * k
  <2>1. one \in Seq(Byte) /\ Len(one) = 1 /\ one[1] = c.capacity
    BY <1>1
  <2> HIDE DEF one
  <2>2. /\ head \in Seq(Byte) /\ Len(head) = 8 + 1
        /\ \A p \in 1 .. 8 : head[p] = price[p]
        /\ \A p \in 1 .. 1 : head[8 + p] = one[p]
    <3>1. /\ head \in Seq(Byte) /\ Len(head) = Len(price) + Len(one)
          /\ \A p \in 1 .. Len(price) : head[p] = price[p]
          /\ \A p \in 1 .. Len(one) : head[Len(price) + p] = one[p]
      <4>1. price \in Seq(Byte) /\ one \in Seq(Byte)
        BY <1>4, <2>1
      <4>2. QED
        BY <4>1, Behind
    <3> HIDE DEF head
    <3>2. QED
      BY <1>4, <2>1, <3>1
  <2>3. bytes = head \o written
    BY <1>6 DEF one
  <2> HIDE DEF head
  <2>4. head[9] = c.capacity
    BY <2>1, <2>2
  <2>5. l \in Nat /\ Len(written) = l
    BY <1>5, <1>7
  <2> HIDE DEF l
  <2>6. Len(head) = 9 /\ 9 \in Nat
    BY <2>2
  <2>7. /\ bytes \in Seq(Byte) /\ Len(bytes) = 9 + l
        /\ \A p \in 1 .. 9 : bytes[p] = head[p]
        /\ \A p \in 1 .. l : bytes[9 + p] = written[p]
    <3>1. /\ head \o written \in Seq(Byte)
          /\ Len(head \o written) = Len(head) + Len(written)
          /\ \A p \in 1 .. Len(head) : (head \o written)[p] = head[p]
          /\ \A p \in 1 .. Len(written) : (head \o written)[Len(head) + p] = written[p]
      <4>1. head \in Seq(Byte) /\ written \in Seq(Byte)
        BY <1>5, <2>2
      <4>2. QED
        BY <4>1, Behind
    <3>2. QED
      BY <2>3, <2>5, <2>6, <3>1, Zenon
  <2>8. \A p \in 1 .. 8 : p \in 1 .. 9
    OBVIOUS
  <2>9. \A p \in 1 .. 8 : bytes[p] = price[p]
    BY <2>2, <2>7, <2>8
  <2>10. bytes[9] = c.capacity
    BY <2>4, <2>7
  <2>11. QED
    BY <2>7, <2>9, <2>10 DEF l
<1>9. SubSeq(bytes, 1, U64Size) = price
  <2>1. SubSeq(bytes, 1, 8) = [p \in 1 .. 8 |-> bytes[p]]
    BY <1>8
  <2>2. price = [p \in 1 .. 8 |-> price[p]]
    BY <1>3
  <2>3. [p \in 1 .. 8 |-> bytes[p]] = [p \in 1 .. 8 |-> price[p]]
    BY <1>8, Zenon
  <2>4. QED
    BY <1>2, <2>1, <2>2, <2>3
<1>10. (Len(bytes) - HeadSize) \div ItemSize(bytes) = n
  <2>1. ItemSize(bytes) = k
    BY DEF ItemSize
  <2> HIDE DEF k, n
  <2>0. Len(bytes) - HeadSize = 0 + k * n
    BY <1>2, <1>7, <1>8
  <2>2. (0 + k * n) \div k = n
    BY <1>2, Divided
  <2>3. QED
    BY <2>0, <2>1, <2>2
<1> DEFINE start(i) == HeadSize + (i - 1) * (Blake160Size + 1)
           read(i) == [nft  |-> SubSeq(bytes, start(i) + 1, start(i) + Blake160Size),
                       rate |-> bytes[start(i) + Blake160Size + 1]]
<1>11. ASSUME NEW i \in 1 .. n
       PROVE  read(i) = c.table[i]
  <2>1. start(i) = 9 + (i - 1) * k /\ (i - 1) * k \in Nat
    BY <1>2
  <2> DEFINE s == (i - 1) * k
             nft == c.table[i].nft
  <2>2. c.table[i] \in Item
    BY <1>1
  <2>3. nft \in [1 .. Blake160Size -> Byte] /\ c.table[i] = [nft |-> nft, rate |-> c.table[i].rate]
    BY <2>2 DEF Item, Blake160
  <2>4. \A j \in 1 .. k : s + j \in 1 .. n * k
    BY <1>2, Rows
  <2>5. \A j \in 1 .. k : bytes[9 + (s + j)] = written[s + j]
    BY <1>8, <2>4
  <2>6. k \in 1 .. k /\ \A j \in 1 .. Blake160Size : j \in 1 .. k
    BY <1>2
  <2>7. \A j \in 1 .. Blake160Size : bytes[9 + (s + j)] = nft[j]
    BY <1>5, <2>5, <2>6
  <2>8. bytes[9 + (s + k)] = c.table[i].rate
    BY <1>5, <2>5, <2>6
  <2>9. s \in Nat /\ start(i) = 9 + s
    BY <2>1
  <2> HIDE DEF s, nft, start
  <2>10. SubSeq(bytes, start(i) + 1, start(i) + Blake160Size) = nft
    <3>1. SubSeq(bytes, 9 + s + 1, 9 + s + Blake160Size)
            = [j \in 1 .. Blake160Size |-> bytes[9 + (s + j)]]
      BY <1>2, <2>9
    <3>2. nft = [j \in 1 .. Blake160Size |-> nft[j]]
      BY <2>3
    <3>3. QED
      BY <2>7, <2>9, <3>1, <3>2
  <2>11. bytes[start(i) + Blake160Size + 1] = c.table[i].rate
    <3>1. start(i) + Blake160Size + 1 = 9 + (s + k)
      BY <1>2, <2>9
    <3>2. QED
      BY <2>8, <3>1
  <2>12. QED
    BY <2>3, <2>10, <2>11, Zenon DEF read
<1>12. FromBytes(bytes) = [price |-> c.price, capacity |-> c.capacity,
                           table |-> [i \in 1 .. n |-> read(i)]]
  BY <1>2, <1>3, <1>8, <1>9, <1>10, Zenon DEF FromBytes
<1> HIDE DEF read, n
<1>13. [i \in 1 .. n |-> read(i)] = c.table
  <2>1. c.table = [i \in 1 .. n |-> c.table[i]]
    BY <1>1 DEF n
  <2>2. QED
    BY <1>11, <2>1, Zenon
<1>14. QED
  BY <1>1, <1>12, <1>13 DEF bytes

(* What is in the cells: a valid config in bytes that read as it, and a store's  *)
(* packages with the hash of a block.                                       *)
CellInv == cell # NoBytes => FromBytes(cell) = composed /\ composed \in Config /\ Valid(composed)
StoreInv == store.packages \in Nat /\ (store.packages # 0 => store.hash \in Hash)
ConfigInv == CellInv /\ StoreInv

(* Composing, buying and revealing keep it.                                  *)
LEMMA ConfigInvCorrect == Spec => []ConfigInv
<1>1. Init => ConfigInv
  BY DEF Init, ConfigInv, CellInv, StoreInv
<1>2. ConfigInv /\ [Next]_vars => ConfigInv'
  <2> SUFFICES ASSUME ConfigInv, [Next]_vars PROVE ConfigInv'
    OBVIOUS
  <2>1. ASSUME NEW c \in Configs, Compose(c)
        PROVE  ConfigInv'
    <3>1. c \in Config
      BY ConfigAssumption
    <3>2. FromBytes(cell') = composed' /\ composed' = c /\ Valid(c) /\ store' = store
      BY <2>1, <3>1, ConfigRead DEF Compose
    <3>3. CellInv'
      <4> HIDE DEF CellInv
      <4>1. QED
        BY <3>1, <3>2 DEF CellInv
    <3>4. StoreInv'
      BY <3>2 DEF ConfigInv, StoreInv
    <3>5. QED
      BY <3>3, <3>4 DEF ConfigInv
  <2>2. ASSUME NEW count \in Counts, NEW hash \in BlockHashes, Purchase(count, hash)
        PROVE  ConfigInv'
    <3>1. count \in Nat /\ hash \in Hash
      BY ConfigAssumption DEF Byte
    <3>2. CellInv'
      BY <2>2 DEF Purchase, ConfigInv, CellInv
    <3>3. StoreInv'
      BY <2>2, <3>1 DEF Purchase, StoreInv
    <3>4. QED
      BY <3>2, <3>3 DEF ConfigInv
  <2>3. CASE Reveal
    <3>1. CellInv'
      BY <2>3 DEF Reveal, ConfigInv, CellInv
    <3>2. StoreInv'
      BY <2>3 DEF Reveal, StoreInv
    <3>3. QED
      BY <3>1, <3>2 DEF ConfigInv
  <2>4. CASE UNCHANGED vars
    BY <2>4 DEF vars, ConfigInv, CellInv, StoreInv
  <2>5. QED
    BY <2>1, <2>2, <2>3, <2>4 DEF Next
<1>3. QED
  BY <1>1, <1>2, PTL DEF Spec

(* What purchases and reveals read is what was composed (types.rs:72-100).   *)
THEOREM ConfigKeptCorrect == Spec => []ConfigKept
<1>1. ConfigInv => ConfigKept
  BY DEF ConfigInv, CellInv, ConfigKept
<1>2. QED
  BY <1>1, ConfigInvCorrect, PTL

-----------------------------------------------------------------------------
(* The lotteries.                                                           *)

(* Everything that has been hashed, after each hash.                        *)
Chain(u, hash, n) ==
  /\ u \in [0 .. n -> Seq(Byte)] /\ u[0] = hash
  /\ \A k \in 1 .. n : u[k] = u[k - 1] \o Blake2b[u[k - 1]]

(* blake2b_256 makes a hash of any bytes.                                   *)
Hashing == Blake2b \in [Seq(Byte) -> Hash]

(* A hash put behind bytes leaves them as they are.                         *)
LEMMA HashIs ==
  ASSUME Hashing
  PROVE  /\ HashSize \in Nat /\ HashSize > 0
         /\ \A h \in Hash : h \in Seq(Byte) /\ Len(h) = HashSize
         /\ \A v \in Seq(Byte) :
              /\ v \o Blake2b[v] \in Seq(Byte) /\ Len(v \o Blake2b[v]) = Len(v) + HashSize
              /\ \A p \in 1 .. Len(v) : (v \o Blake2b[v])[p] = v[p]
<1>1. HashSize \in Nat /\ HashSize > 0
  BY ConfigAssumption
<1>2. \A h \in Hash : h \in Seq(Byte) /\ Len(h) = HashSize
  BY <1>1, ArrayIs DEF Hash
<1>3. ASSUME NEW v \in Seq(Byte)
      PROVE  /\ v \o Blake2b[v] \in Seq(Byte) /\ Len(v \o Blake2b[v]) = Len(v) + HashSize
             /\ \A p \in 1 .. Len(v) : (v \o Blake2b[v])[p] = v[p]
  <2> DEFINE h == Blake2b[v]
  <2>1. h \in Hash
    BY DEF Hashing
  <2> HIDE DEF h
  <2>2. h \in Seq(Byte) /\ Len(h) = HashSize
    BY <1>2, <2>1
  <2>3. /\ v \o h \in Seq(Byte) /\ Len(v \o h) = Len(v) + Len(h)
        /\ \A p \in 1 .. Len(v) : (v \o h)[p] = v[p]
    <3>1. h \in Seq(Byte)
      BY <2>2
    <3>2. QED
      BY <3>1, Behind
  <2>4. QED
    BY <2>2, <2>3 DEF h
<1>4. QED
  BY <1>1, <1>2, <1>3

(* There is such a chain, from every hash and of every length.               *)
LEMMA ChainIs ==
  ASSUME Hashing, NEW hash \in Hash, NEW n \in Nat
  PROVE  \E u : Chain(u, hash, n)
<1> DEFINE D == Seq(Byte)
           G == [i \in Nat |-> [v \in D |-> v \o Blake2b[v]]]
<1>1. G \in [Nat -> [D -> D]] /\ \A i \in Nat, v \in D : G[i][v] = v \o Blake2b[v]
  BY HashIs
<1>2. hash \in D
  BY HashIs
<1> HIDE DEF G, D
<1>3. PICK g : Recursive(g, D, hash, n, G)
  BY <1>1, <1>2, Recursion
<1>4. g \in [0 .. n -> D] /\ g[0] = hash /\ \A i \in 1 .. n : g[i] = G[i][g[i - 1]]
  BY <1>3 DEF Recursive
<1>5. ASSUME NEW k \in 1 .. n
      PROVE  g[k] = g[k - 1] \o Blake2b[g[k - 1]]
  <2>1. k \in Nat /\ k - 1 \in 0 .. n
    OBVIOUS
  <2>2. g[k - 1] \in D
    BY <1>4, <2>1
  <2>3. QED
    BY <1>1, <1>4, <2>1, <2>2
<1>6. QED
  BY <1>4, <1>5 DEF Chain, D

(* How long it is after k more hashes.                                      *)
Size(k) == (k + 1) * HashSize

(* It only grows at its end.                                                *)
LEMMA ChainGrows ==
  ASSUME Hashing, NEW hash \in Hash, NEW n \in Nat, NEW u, Chain(u, hash, n)
  PROVE  \A k \in 0 .. n :
           /\ Len(u[k]) = Size(k)
           /\ \A j \in 0 .. k : /\ Len(u[j]) <= Len(u[k])
                                /\ \A p \in 1 .. Len(u[j]) : u[k][p] = u[j][p]
<1>1. /\ u \in [0 .. n -> Seq(Byte)] /\ u[0] = hash
      /\ \A k \in 1 .. n : u[k] = u[k - 1] \o Blake2b[u[k - 1]]
  BY DEF Chain
<1> DEFINE Good(k) == /\ Len(u[k]) = Size(k)
                      /\ \A j \in 0 .. k : /\ Len(u[j]) <= Len(u[k])
                                           /\ \A p \in 1 .. Len(u[j]) : u[k][p] = u[j][p]
           T == {k \in Nat : k <= n => Good(k)}
<1>2. 0 \in T
  <2>1. Len(u[0]) = HashSize /\ HashSize \in Nat
    BY <1>1, HashIs
  <2>2. Size(0) = HashSize
    BY <2>1 DEF Size
  <2>3. \A j \in 0 .. 0 : j = 0
    OBVIOUS
  <2>4. QED
    BY <2>1, <2>2, <2>3
<1>3. ASSUME NEW k \in Nat, k \in T
      PROVE  k + 1 \in T
  <2> SUFFICES ASSUME k + 1 <= n PROVE Good(k + 1)
    OBVIOUS
  <2>1. k + 1 \in 1 .. n /\ (k + 1) - 1 = k /\ k \in 0 .. n /\ k <= n
    OBVIOUS
  <2>2. Good(k)
    BY <1>3, <2>1
  <2>3. u[k] \in Seq(Byte) /\ u[k + 1] = u[k] \o Blake2b[u[k]]
    BY <1>1, <2>1
  <2> DEFINE v == u[k]
             w == v \o Blake2b[v]
  <2>4. /\ Len(u[k + 1]) = Len(u[k]) + HashSize
        /\ \A p \in 1 .. Len(u[k]) : u[k + 1][p] = u[k][p]
    <3>1. /\ Len(w) = Len(v) + HashSize
          /\ \A p \in 1 .. Len(v) : w[p] = v[p]
      <4>1. v \in Seq(Byte)
        BY <2>3
      <4> HIDE DEF v
      <4>2. QED
        BY <4>1, HashIs
    <3>2. u[k + 1] = w
      BY <2>3
    <3> HIDE DEF w
    <3>3. QED
      BY <3>1, <3>2
  <2>5. Size(k + 1) = Size(k) + HashSize
    BY HashIs DEF Size
  <2>6. ASSUME NEW j \in 0 .. k + 1
        PROVE  /\ Len(u[j]) <= Len(u[k + 1])
               /\ \A p \in 1 .. Len(u[j]) : u[k + 1][p] = u[j][p]
    <3>1. CASE j = k + 1
      <4>1. Len(u[k + 1]) \in Nat
        BY <2>3, <2>4, HashIs
      <4>2. QED
        BY <3>1, <4>1
    <3>2. CASE j # k + 1
      <4>1. j \in 0 .. k /\ j \in 0 .. n
        BY <2>1, <3>2
      <4>2. Len(u[j]) <= Len(u[k]) /\ \A p \in 1 .. Len(u[j]) : u[k][p] = u[j][p]
        BY <2>2, <4>1
      <4>3. Len(u[j]) \in Nat /\ Len(u[k]) \in Nat /\ HashSize \in Nat
        <5>1. u[j] \in Seq(Byte)
          BY <1>1, <4>1
        <5>2. QED
          BY <2>3, <5>1, HashIs
      <4>4. \A p \in 1 .. Len(u[j]) : p \in 1 .. Len(u[k])
        BY <4>2, <4>3
      <4>5. \A p \in 1 .. Len(u[j]) : u[k + 1][p] = u[j][p]
        BY <2>4, <4>2, <4>4
      <4>6. Len(u[j]) <= Len(u[k + 1])
        BY <2>4, <4>2, <4>3
      <4>7. QED
        BY <4>5, <4>6
    <3>3. QED
      BY <3>1, <3>2
  <2>7. QED
    BY <2>2, <2>4, <2>5, <2>6
<1>4. \A k \in Nat : k \in T
  <2> HIDE DEF T
  <2>1. QED
    BY <1>2, <1>3, Induct
<1>5. QED
  BY <1>4

(* The n-th hash of Lottery is the one the chain has there.                 *)
LEMMA UptoIs ==
  ASSUME Hashing, NEW hash \in Hash, NEW n \in Nat, NEW u, Chain(u, hash, n), NEW k \in 0 .. n
  PROVE  LotteryBlock(hash, k) = SubSeq(u[k], k * HashSize + 1, (k + 1) * HashSize)
<1> DEFINE Def(f) == [i \in 0 .. k |-> IF i = 0 THEN hash ELSE f[i - 1] \o Blake2b[f[i - 1]]]
           upto == CHOOSE f : f = Def(f)
<1>1. /\ u \in [0 .. n -> Seq(Byte)] /\ u[0] = hash
      /\ \A i \in 1 .. n : u[i] = u[i - 1] \o Blake2b[u[i - 1]]
  BY DEF Chain
<1>2. k \in Nat /\ \A i \in 1 .. k : i \in 1 .. n
  OBVIOUS
<1>3. \A i \in 1 .. k : u[i] = u[i - 1] \o Blake2b[u[i - 1]]
  BY <1>1, <1>2, Zenon
<1> DEFINE g == [i \in 0 .. k |-> u[i]]
<1>4. g = Def(g)
  <2>1. ASSUME NEW i \in 0 .. k
        PROVE  g[i] = IF i = 0 THEN hash ELSE g[i - 1] \o Blake2b[g[i - 1]]
    <3>1. CASE i = 0
      BY <1>1, <3>1
    <3>2. CASE i # 0
      <4>1. i \in 1 .. k /\ i - 1 \in 0 .. k
        BY <3>2
      <4>2. g[i] = u[i] /\ g[i - 1] = u[i - 1]
        BY <4>1
      <4>3. QED
        BY <1>3, <3>2, <4>1, <4>2
    <3>3. QED
      BY <3>1, <3>2
  <2>2. g = [i \in 0 .. k |-> g[i]]
    OBVIOUS
  <2> HIDE DEF g
  <2>3. QED
    BY <2>1, <2>2, Zenon
<1>5. upto = Def(upto)
  <2> HIDE DEF g
  <2>1. QED
    BY <1>4, Zenon
<1>6. LotteryBlock(hash, k) = SubSeq(upto[k], k * HashSize + 1, (k + 1) * HashSize)
  BY Zenon DEF LotteryBlock
<1> HIDE DEF upto, g
<1>7. \A i \in 0 .. k : upto[i] = IF i = 0 THEN hash ELSE upto[i - 1] \o Blake2b[upto[i - 1]]
  BY <1>5, Zenon
<1>8. upto[0] = hash /\ \A i \in 1 .. k : upto[i] = upto[i - 1] \o Blake2b[upto[i - 1]]
  <2>1. 0 \in 0 .. k /\ \A i \in 1 .. k : i \in 0 .. k /\ i # 0
    BY <1>2
  <2>2. QED
    BY <1>7, <2>1, Zenon
<1>9. \A i \in 1 .. k : upto[i - 1] = u[i - 1] => upto[i] = u[i]
  BY <1>3, <1>8, Zenon
<1>10. upto[0] = u[0]
  BY <1>1, <1>8
<1>11. \A i \in 0 .. k : upto[i] = u[i]
  BY <1>2, <1>9, <1>10, Agree
<1>12. upto[k] = u[k]
  BY <1>2, <1>11
<1>13. QED
  BY <1>6, <1>12

(* The lotteries of a reveal are as much of the chain as it takes.          *)
LEMMA LotteriesAre ==
  ASSUME Hashing, NEW hash \in Hash, NEW n \in Nat, NEW u, Chain(u, hash, n)
  PROVE  \E k \in 0 .. n : n <= Len(u[k]) /\ Lotteries(hash, n) = u[k]
<1> DEFINE D == Seq(Byte)
           step(v, i) == IF i > Len(v) THEN v \o Blake2b[v] ELSE v
           G == [i \in Nat |-> [v \in D |-> step(v, i)]]
           Def(f) == [i \in 0 .. n |-> IF i = 0 THEN hash ELSE step(f[i - 1], i)]
           at == CHOOSE f : f = Def(f)
<1>1. \A i \in Nat, v \in D : step(v, i) \in D
  BY HashIs
<1>2. at = Def(at) /\ Lotteries(hash, n) = at[n]
  <2>1. Lotteries(hash, n) = at[n]
    BY Zenon DEF Lotteries
  <2>2. hash \in D
    BY HashIs
  <2> HIDE DEF step, D
  <2>3. G \in [Nat -> [D -> D]] /\ \A i \in Nat, v \in D : G[i][v] = step(v, i)
    BY <1>1
  <2> HIDE DEF G
  <2>4. PICK g : Recursive(g, D, hash, n, G)
    BY <2>2, <2>3, Recursion
  <2>5. g \in [0 .. n -> D] /\ g[0] = hash /\ \A i \in 1 .. n : g[i] = G[i][g[i - 1]]
    BY <2>4 DEF Recursive
  <2>6. ASSUME NEW i \in 0 .. n
        PROVE  g[i] = IF i = 0 THEN hash ELSE step(g[i - 1], i)
    <3>1. CASE i = 0
      BY <2>5, <3>1
    <3>2. CASE i # 0
      <4>1. i \in 1 .. n /\ i \in Nat /\ i - 1 \in 0 .. n
        BY <3>2
      <4>2. g[i - 1] \in D /\ g[i] = G[i][g[i - 1]]
        BY <2>5, <4>1
      <4>3. QED
        BY <2>3, <3>2, <4>1, <4>2
    <3>3. QED
      BY <3>1, <3>2
  <2>7. g = [i \in 0 .. n |-> g[i]]
    BY <2>5
  <2>8. g = Def(g)
    BY <2>6, <2>7, Zenon
  <2>9. at = Def(at)
    BY <2>8, Zenon
  <2>10. QED
    BY <2>1, <2>9
<1> HIDE DEF at
<1>3. at[0] = hash /\ \A i \in 1 .. n : at[i] = step(at[i - 1], i)
  <2>1. \A i \in 0 .. n : at[i] = IF i = 0 THEN hash ELSE step(at[i - 1], i)
    BY <1>2, Zenon
  <2>2. 0 \in 0 .. n /\ \A i \in 1 .. n : i \in 0 .. n /\ i # 0
    OBVIOUS
  <2>3. QED
    BY <2>1, <2>2, Zenon
<1>4. /\ u \in [0 .. n -> Seq(Byte)] /\ u[0] = hash
      /\ \A k \in 1 .. n : u[k] = u[k - 1] \o Blake2b[u[k - 1]]
  BY DEF Chain
<1> DEFINE Good(i) == \E k \in 0 .. i : i <= Len(u[k]) /\ at[i] = u[k]
           T == {i \in Nat : i <= n => Good(i)}
<1>5. 0 \in T
  <2>1. Len(u[0]) \in Nat /\ at[0] = u[0] /\ 0 \in 0 .. 0
    BY <1>3, <1>4, HashIs
  <2>2. QED
    BY <2>1
<1>6. ASSUME NEW m \in Nat, m \in T
      PROVE  m + 1 \in T
  <2> SUFFICES ASSUME m + 1 <= n PROVE Good(m + 1)
    OBVIOUS
  <2>1. m + 1 \in 1 .. n /\ (m + 1) - 1 = m /\ m <= n
    OBVIOUS
  <2>2. PICK k \in 0 .. m : m <= Len(u[k]) /\ at[m] = u[k]
    BY <1>6, <2>1
  <2>3. /\ k \in 0 .. n /\ k \in 0 .. m + 1 /\ k + 1 \in 1 .. n /\ k + 1 \in 0 .. m + 1
        /\ (k + 1) - 1 = k
    BY <2>1
  <2>4. u[k] \in Seq(Byte) /\ Len(u[k]) \in Nat
    BY <1>4, <2>3
  <2>5. at[m + 1] = step(u[k], m + 1)
    BY <1>3, <2>1, <2>2
  <2>6. CASE m + 1 > Len(u[k])
    <3>1. at[m + 1] = u[k + 1] /\ u[k + 1] = u[k] \o Blake2b[u[k]]
      <4>1. u[k + 1] = u[k] \o Blake2b[u[k]]
        BY <1>4, <2>3
      <4>2. at[m + 1] = u[k] \o Blake2b[u[k]]
        BY <2>5, <2>6, Zenon
      <4>3. QED
        BY <4>1, <4>2
    <3>2. Len(u[k + 1]) = Len(u[k]) + HashSize /\ HashSize \in Nat /\ HashSize > 0
      BY <2>4, <3>1, HashIs
    <3>3. m + 1 <= Len(u[k + 1])
      BY <2>2, <2>4, <3>2
    <3>4. QED
      BY <2>3, <3>1, <3>3
  <2>7. CASE ~ (m + 1 > Len(u[k]))
    <3>1. at[m + 1] = u[k] /\ m + 1 <= Len(u[k])
      BY <2>4, <2>5, <2>7
    <3>2. QED
      BY <2>3, <3>1
  <2>8. QED
    BY <2>6, <2>7
<1>7. \A i \in Nat : i \in T
  <2> HIDE DEF T
  <2>1. QED
    BY <1>5, <1>6, Induct
<1>8. Good(n)
  BY <1>7
<1>9. QED
  BY <1>2, <1>8

(* However far a reveal has hashed, a lottery is the byte at its place of the   *)
(* hash that has that place (types.rs:47-53).                               *)
LEMMA LotteryIs ==
  ASSUME Hashing, NEW hash \in Hash, NEW n \in Nat, NEW i \in 1 .. n
  PROVE  Lotteries(hash, n)[i] = Lottery(hash, i) /\ Lottery(hash, i) \in Byte
<1>1. PICK u : Chain(u, hash, n)
  BY ChainIs
<1>2. PICK k \in 0 .. n : n <= Len(u[k]) /\ Lotteries(hash, n) = u[k]
  BY <1>1, LotteriesAre
<1>3. u \in [0 .. n -> Seq(Byte)]
  BY <1>1 DEF Chain
<1>4. HashSize \in Nat /\ HashSize > 0
  BY HashIs
<1> DEFINE b == (i - 1) \div HashSize
           r == (i - 1) % HashSize
<1>5. b \in Nat /\ r \in 0 .. HashSize - 1 /\ i - 1 = HashSize * b + r
  BY <1>4
<1>6. Lottery(hash, i) = LotteryBlock(hash, b)[1 + r]
  BY DEF Lottery
<1> HIDE DEF b, r
<1>7. HashSize * b \in Nat /\ HashSize * b = b * HashSize /\ i = b * HashSize + (1 + r)
  BY <1>4, <1>5
<1>8. /\ Len(u[k]) = Size(k)
      /\ \A j \in 0 .. k : \A p \in 1 .. Len(u[j]) : u[k][p] = u[j][p]
  BY <1>1, ChainGrows
<1>9. b <= k
  <2>1. Size(k) = k * HashSize + HashSize /\ k * HashSize \in Nat
    BY <1>4 DEF Size
  <2>2. b * HashSize < k * HashSize + HashSize
    BY <1>2, <1>4, <1>5, <1>7, <1>8, <2>1
  <2>3. ASSUME k + 1 <= b PROVE FALSE
    <3>1. (k + 1) * HashSize <= b * HashSize
      BY <1>4, <1>5, <2>3
    <3>2. (k + 1) * HashSize = k * HashSize + HashSize
      BY <1>4
    <3>3. b * HashSize \in Nat
      BY <1>4, <1>5
    <3> DEFINE x == k * HashSize
               y == b * HashSize
    <3>4. x + HashSize <= y /\ y < x + HashSize /\ x \in Nat /\ y \in Nat
      BY <2>1, <2>2, <3>1, <3>2, <3>3
    <3> HIDE DEF x, y
    <3>5. QED
      BY <1>4, <3>4
  <2>4. QED
    BY <1>5, <2>3
<1>10. b \in 0 .. n /\ b \in 0 .. k
  BY <1>5, <1>9
<1>11. Len(u[b]) = Size(b) /\ Size(b) = b * HashSize + HashSize
  <2>1. Len(u[b]) = Size(b)
    BY <1>1, <1>10, ChainGrows
  <2>2. Size(b) = b * HashSize + HashSize
    BY <1>4, <1>5 DEF Size
  <2>3. QED
    BY <2>1, <2>2
<1>12. u[b] \in Seq(Byte)
  BY <1>3, <1>10
<1>13. i \in 1 .. Len(u[b])
  BY <1>4, <1>5, <1>7, <1>11
<1>14. u[k][i] = u[b][i] /\ u[b][i] \in Byte
  BY <1>8, <1>10, <1>12, <1>13
<1>15. LotteryBlock(hash, b)[1 + r] = u[b][i]
  <2>1. LotteryBlock(hash, b) = SubSeq(u[b], b * HashSize + 1, (b + 1) * HashSize)
    BY <1>1, <1>10, UptoIs
  <2> DEFINE s == b * HashSize
             w == u[b]
  <2>2. (b + 1) * HashSize = s + HashSize /\ s \in Nat
    BY <1>4, <1>5, <1>7
  <2>3. w \in Seq(Byte) /\ Len(w) = s + HashSize /\ i = s + (1 + r)
    BY <1>7, <1>11, <1>12
  <2> HIDE DEF s, w
  <2>4. SubSeq(w, s + 1, s + HashSize)[1 + r] = w[s + (1 + r)]
    BY <1>4, <1>5, <2>2, <2>3
  <2>5. QED
    BY <2>1, <2>2, <2>3, <2>4 DEF s, w
<1>16. QED
  BY <1>2, <1>6, <1>14, <1>15

(* What the i-th lottery draws from a config's table.                       *)
Drawn(c, hash, i) == c.table[Expect(c.table, Lottery(hash, i))]

(* The table has an item for every lottery, with the lottery in its share.    *)
LEMMA DrawnIs ==
  ASSUME NEW table \in Seq(Item), Ascending(table), table # << >>, NEW lottery \in Byte
  PROVE  /\ Expect(table, lottery) \in DOMAIN table
         /\ lottery \in Lower(table, Expect(table, lottery)) .. Upper(table, Expect(table, lottery)) - 1
<1>1. DOMAIN table = 1 .. Len(table) /\ Len(table) \in Nat /\ Len(table) \in 1 .. Len(table)
  OBVIOUS
<1>2. Expect(table, lottery) \in DOMAIN table
  <2>1. CASE Above(table, lottery) = {}
    BY <1>1, <2>1 DEF Expect
  <2>2. CASE Above(table, lottery) # {}
    <3>1. Above(table, lottery) \in SUBSET Nat /\ Above(table, lottery) \subseteq DOMAIN table
      BY <1>1 DEF Above
    <3>2. \E k \in Above(table, lottery) : \A j \in Above(table, lottery) : k <= j
      BY <2>2, <3>1, LeastOf, Zenon
    <3>3. Expect(table, lottery) \in Above(table, lottery)
      BY <2>2, <3>2 DEF Expect
    <3>4. QED
      BY <3>1, <3>3
  <2>3. QED
    BY <2>1, <2>2
<1>3. QED
  BY <1>2, ExpectInShare

(* The nfts of a reveal, one behind the other.                              *)
LEMMA RipIs ==
  ASSUME Hashing, NEW c \in Config, Valid(c), NEW hash \in Hash, NEW count \in Nat
  PROVE  LET R == RipPackage(c, hash, count)
             n == count * c.capacity IN
           /\ n \in Nat /\ R \in Seq(Byte) /\ Len(R) = n * Blake160Size
           /\ \A i \in 1 .. n : Drawn(c, hash, i).nft \in Blake160
           /\ \A i \in 1 .. n, j \in 1 .. Blake160Size :
                R[Row(Blake160Size, i, j)] = Drawn(c, hash, i).nft[j]
<1> DEFINE R == RipPackage(c, hash, count)
           n == count * c.capacity
           B == Blake160Size
           parts == [i \in 1 .. n |-> Drawn(c, hash, i).nft]
<1>1. B \in Nat
  BY ConfigAssumption
<1>2. /\ c.table \in Seq(Item) /\ c.capacity \in Nat
      /\ Ascending(c.table) /\ c.table # << >>
  BY ConfigAssumption DEF Config, Item, Valid, Byte
<1>3. n \in Nat
  BY <1>2
<1> HIDE DEF n
<1>4. \A i \in 1 .. n : Lotteries(hash, n)[i] = Lottery(hash, i) /\ Lottery(hash, i) \in Byte
  BY <1>3, LotteryIs
<1>5. R = FlattenSeq(parts)
  <2>1. R = FlattenSeq([i \in 1 .. n |-> c.table[Expect(c.table, Lotteries(hash, n)[i])].nft])
    BY Zenon DEF RipPackage, n
  <2>2. \A i \in 1 .. n : c.table[Expect(c.table, Lotteries(hash, n)[i])].nft = Drawn(c, hash, i).nft
    BY <1>4, Zenon DEF Drawn
  <2>3. [i \in 1 .. n |-> c.table[Expect(c.table, Lotteries(hash, n)[i])].nft] = parts
    BY <2>2, Zenon
  <2>4. QED
    BY <2>1, <2>3
<1>6. \A i \in 1 .. n : Drawn(c, hash, i).nft \in Blake160
  <2>1. ASSUME NEW i \in 1 .. n
        PROVE  Drawn(c, hash, i) \in Item
    <3>1. Expect(c.table, Lottery(hash, i)) \in DOMAIN c.table
      BY <1>2, <1>4, DrawnIs
    <3>2. QED
      BY <1>2, <3>1 DEF Drawn
  <2>2. \A item \in Item : item.nft \in Blake160
    BY DEF Item
  <2>3. QED
    BY <2>1, <2>2
<1>7. \A i \in 1 .. n : Drawn(c, hash, i).nft \in Seq(Byte) /\ Len(Drawn(c, hash, i).nft) = B
  <2>1. \A a \in Blake160 : a \in Seq(Byte) /\ Len(a) = B
    BY <1>1, ArrayIs DEF Blake160
  <2>2. QED
    BY <1>6, <2>1
<1>8. /\ parts \in Seq(Seq(Byte)) /\ Len(parts) = n
      /\ \A i \in 1 .. n : parts[i] = Drawn(c, hash, i).nft
  BY <1>3, <1>7
<1> HIDE DEF parts, B, R
<1>9. \A i \in 1 .. Len(parts) : Len(parts[i]) = B
  BY <1>7, <1>8
<1>10. FlattenSeq(parts) \in Seq(Byte) /\ Len(FlattenSeq(parts)) = Len(parts) * B
  BY <1>1, <1>8, <1>9, FlattenEqual
<1>11. \A i \in 1 .. Len(parts), j \in 1 .. B : FlattenSeq(parts)[Row(B, i, j)] = parts[i][j]
  <2>1. parts \in Seq(Seq(Byte))
    BY <1>8
  <2>2. QED
    BY <1>1, <1>9, <2>1, FlattenBytes, Zenon
<1>12. \A i \in 1 .. n, j \in 1 .. B : R[Row(B, i, j)] = Drawn(c, hash, i).nft[j]
  BY <1>5, <1>8, <1>11, Zenon
<1>13. R \in Seq(Byte) /\ Len(R) = n * B
  BY <1>5, <1>8, <1>10
<1>14. QED
  BY <1>3, <1>6, <1>12, <1>13 DEF n, B, R

-----------------------------------------------------------------------------
(* The reveals.                                                             *)

(* Fewer packages of a block are the first of more.                         *)
LEMMA RipPrefix ==
  ASSUME Hashing, NEW c \in Config, Valid(c), NEW hash \in Hash,
         NEW count \in Nat, NEW fewer \in Nat, fewer <= count
  PROVE  IsPrefix(RipPackage(c, hash, fewer), RipPackage(c, hash, count))
<1> DEFINE F == RipPackage(c, hash, fewer)
           R == RipPackage(c, hash, count)
           m == fewer * c.capacity
           n == count * c.capacity
           B == Blake160Size
<1>1. /\ n \in Nat /\ R \in Seq(Byte) /\ Len(R) = n * B
      /\ \A i \in 1 .. n, j \in 1 .. B : R[Row(B, i, j)] = Drawn(c, hash, i).nft[j]
  BY RipIs
<1>2. /\ m \in Nat /\ F \in Seq(Byte) /\ Len(F) = m * B
      /\ \A i \in 1 .. m, j \in 1 .. B : F[Row(B, i, j)] = Drawn(c, hash, i).nft[j]
  BY RipIs
<1>3. m <= n
  <2>1. c.capacity \in Nat
    BY ConfigAssumption DEF Config, Byte
  <2>2. QED
    BY <2>1
<1>4. B \in Nat /\ B > 0
  BY ConfigAssumption
<1> HIDE DEF F, R, m, n, B
<1>5. m * B <= n * B /\ m * B \in Nat /\ n * B \in Nat
  BY <1>1, <1>2, <1>3, <1>4
<1>6. ASSUME NEW p \in 1 .. m * B
      PROVE  F[p] = R[p]
  <2>1. PICK i \in 1 .. m, j \in 1 .. B : p = (i - 1) * B + j
    BY <1>2, <1>4, RowOf
  <2>2. p = Row(B, i, j) /\ i \in 1 .. n
    BY <1>1, <1>2, <1>3, <2>1 DEF Row
  <2>3. QED
    BY <1>1, <1>2, <2>2
<1> DEFINE l == m * B
<1>7. l \in Nat /\ Len(F) = l /\ l <= Len(R) /\ \A p \in 1 .. l : F[p] = R[p]
  BY <1>1, <1>2, <1>5, <1>6
<1> HIDE DEF l
<1>8. SubSeq(F, 1, l) = [p \in 1 .. l |-> F[p]] /\ SubSeq(R, 1, l) = [p \in 1 .. l |-> R[p]]
  BY <1>1, <1>2, <1>7
<1>9. [p \in 1 .. l |-> F[p]] = [p \in 1 .. l |-> R[p]]
  BY <1>7, Zenon
<1>10. IsPrefix(F, R)
  BY <1>7, <1>8, <1>9 DEF IsPrefix
<1>11. QED
  BY <1>10 DEF F, R

(* What is taken out of a sequence.                                         *)
LEMMA Taken ==
  ASSUME NEW w \in Seq(Byte), NEW a \in Nat, NEW b \in Nat, a + b <= Len(w)
  PROVE  SubSeq(w, a + 1, a + b) = [j \in 1 .. b |-> w[a + j]]
OBVIOUS

(* Each reveal gives every package in full, each nft by a lottery of its own    *)
(* within its share, and fewer packages would have been the first of these     *)
(* (types.rs:45-70, builder.rs:305-309).                                    *)
THEOREM OpensCorrect ==
  ASSUME Hashing
  PROVE  Spec => OpensByLottery
<1> DEFINE Opens ==
      LET n == store.packages * composed.capacity IN
        /\ Len(opened') = n * Blake160Size
        /\ \A i \in 1 .. n : \E k \in DOMAIN composed.table :
             /\ SubSeq(opened', (i - 1) * Blake160Size + 1, i * Blake160Size)
                  = composed.table[k].nft
             /\ Lottery(store.hash, i) \in
                  Lower(composed.table, k) .. Upper(composed.table, k) - 1
        /\ \A fewer \in 1 .. store.packages - 1 :
             IsPrefix(RipPackage(composed, store.hash, fewer), opened')
<1>1. ASSUME ConfigInv, Reveal
      PROVE  Opens
  <2> DEFINE c == composed
             hash == store.hash
             count == store.packages
             n == count * c.capacity
             B == Blake160Size
             R == RipPackage(c, hash, count)
  <2>1. /\ c \in Config /\ Valid(c) /\ hash \in Hash /\ count \in Nat /\ opened' = R
    BY <1>1 DEF Reveal, ConfigInv, CellInv, StoreInv
  <2>2. c.table \in Seq(Item) /\ Ascending(c.table) /\ c.table # << >>
    BY <2>1 DEF Config, Item, Valid
  <2> HIDE DEF c, hash, count
  <2>3. /\ n \in Nat /\ R \in Seq(Byte) /\ Len(R) = n * B
        /\ \A i \in 1 .. n : Drawn(c, hash, i).nft \in Blake160
        /\ \A i \in 1 .. n, j \in 1 .. B : R[Row(B, i, j)] = Drawn(c, hash, i).nft[j]
    BY <2>1, RipIs
  <2>4. B \in Nat /\ B > 0
    BY ConfigAssumption
  <2>5. \A fewer \in 1 .. count - 1 : IsPrefix(RipPackage(c, hash, fewer), R)
    BY <2>1, RipPrefix
  <2> HIDE DEF n, R
  <2>6. ASSUME NEW i \in 1 .. n
        PROVE  \E k \in DOMAIN c.table :
                 /\ SubSeq(R, (i - 1) * B + 1, i * B) = c.table[k].nft
                 /\ Lottery(hash, i) \in Lower(c.table, k) .. Upper(c.table, k) - 1
    <3> DEFINE k == Expect(c.table, Lottery(hash, i))
               s == (i - 1) * B
    <3>1. Lottery(hash, i) \in Byte
      BY <2>1, <2>3, LotteryIs
    <3>2. /\ k \in DOMAIN c.table
          /\ Lottery(hash, i) \in Lower(c.table, k) .. Upper(c.table, k) - 1
      BY <2>2, <3>1, DrawnIs
    <3> DEFINE nft == c.table[k].nft
    <3>3. nft = Drawn(c, hash, i).nft
      BY DEF Drawn
    <3> HIDE DEF k, nft
    <3>4. nft \in [1 .. B -> Byte]
      BY <2>3, <3>3 DEF Blake160
    <3>5. s \in Nat /\ i * B = s + B /\ \A j \in 1 .. B : s + j \in 1 .. n * B
      BY <2>3, <2>4, Rows
    <3>6. \A j \in 1 .. B : R[s + j] = nft[j]
      BY <2>3, <3>3 DEF Row
    <3> DEFINE l == n * B
    <3>7. Len(R) = l /\ l \in Nat
      BY <2>3, <2>4
    <3> HIDE DEF s, l
    <3>8. SubSeq(R, s + 1, s + B) = [j \in 1 .. B |-> R[s + j]]
      <4>1. s + B <= Len(R)
        <5>1. B \in 1 .. B /\ \A j \in 1 .. B : s + j \in 1 .. l
          BY <2>4, <3>5 DEF l
        <5>2. QED
          BY <3>5, <3>7, <5>1
      <4>2. QED
        BY <2>3, <2>4, <3>5, <4>1, Taken
    <3>9. nft = [j \in 1 .. B |-> nft[j]]
      BY <3>4
    <3>10. SubSeq(R, s + 1, s + B) = nft
      BY <3>6, <3>8, <3>9
    <3>11. QED
      BY <3>2, <3>5, <3>10 DEF s, nft
  <2>7. QED
    BY <2>1, <2>3, <2>5, <2>6 DEF c, hash, count, n
<1>2. ConfigInv /\ [Next]_vars => [Reveal => Opens]_vars
  BY <1>1
<1>3. QED
  BY <1>2, ConfigInvCorrect, PTL DEF Spec, OpensByLottery
=============================================================================
