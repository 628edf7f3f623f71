------------------------------ MODULE NftConfig -----------------------------
(***************************************************************************)
(* The composer's configuration as the bytes of its cell                   *)
(* (helper/types.rs), and what the purchases and reveals of builder.rs     *)
(* compute from them: the price of packages, and the nfts that come out of *)
(* them by the hash of a block.  NftStore has the same steps with their    *)
(* cells, their ckb and their races.                                       *)
(***************************************************************************)
EXTENDS Integers, SequencesExt

CONSTANTS
  Base,            \* how many values a byte has: 256
  Blake160Size,    \* bytes of an nft: 20
  HashSize,        \* bytes of a hash: 32
  Blake2b,         \* blake2b_256
  Configs,         \* what the composer may compose
  Counts,          \* packages a user may buy at once: a u8
  BlockHashes,     \* hashes of the blocks that take purchases
  StoreCkb,        \* ckb of a store without purchases
  MaxPurchases     \* bound

Byte == 0 .. Base - 1
Blake160 == [1 .. Blake160Size -> Byte]
Hash == [1 .. HashSize -> Byte]
U64Size == 8
U64Values ==
  LET power[i \in 0 .. U64Size] == IF i = 0 THEN 1 ELSE Base * power[i - 1]
  IN  power[U64Size]
Config == [price : 0 .. U64Values - 1, capacity : Byte, table : Seq([nft : Blake160, rate : Byte])]

ASSUME ConfigAssumption ==
  /\ Base \in Nat \ {0, 1} /\ Blake160Size \in Nat \ {0} /\ HashSize \in Nat \ {0}
  /\ Configs \subseteq Config
  /\ Counts \subseteq Byte /\ BlockHashes \subseteq Hash
  /\ StoreCkb \in 0 .. U64Values - 1 /\ MaxPurchases \in Nat

VARIABLES
  composed,        \* history: the config that is in the cell
  cell,            \* the bytes of the composer's cell
  store,           \* a user's store, and the hash of the block of its purchase
  opened,          \* the bytes of the nft cell the last reveal has made
  purchases        \* history: how often packages were bought

vars == <<composed, cell, store, opened, purchases>>

NoBytes == << >>

-----------------------------------------------------------------------------
(* NFTConfig::new panics on a config that is not valid.                      *)

Ascending(table) == \A i \in 2 .. Len(table) : table[i - 1].rate <= table[i].rate

Valid(c) ==
  /\ c.price # 0 /\ c.capacity # 0 /\ c.table # << >>
  /\ Ascending(c.table)

-----------------------------------------------------------------------------
(* to_ckb_bytes, and From<Bytes>, which takes the bytes one after another;     *)
(* bytes after the last whole item are left.                                 *)

ToLeBytes(n) ==
  LET rest[i \in 0 .. U64Size] == IF i = 0 THEN n ELSE rest[i - 1] \div Base
  IN  [i \in 1 .. U64Size |-> rest[i - 1] % Base]
FromLeBytes(s) ==
  LET from[i \in 1 .. U64Size + 1] ==
        IF i > U64Size THEN 0 ELSE s[i] + Base * from[i + 1]
  IN  from[1]

ToCkbBytes(c) ==
  ToLeBytes(c.price) \o <<c.capacity>>
    \o FlattenSeq([i \in DOMAIN c.table |-> Append(c.table[i].nft, c.table[i].rate)])

HeadSize == U64Size + 1

\* Slip: the rate has two bytes, as builder.rs:37 says.
ItemSizeSlip(bytes) == Blake160Size + 2
ItemSize(bytes) == Blake160Size + 1

FromBytes(bytes) ==
  LET start(i) == HeadSize + (i - 1) * (Blake160Size + 1)
      count == (Len(bytes) - HeadSize) \div ItemSize(bytes) IN
  [price    |-> FromLeBytes(SubSeq(bytes, 1, U64Size)),
   capacity |-> bytes[HeadSize],
   table    |-> [i \in 1 .. count |->
                   [nft  |-> SubSeq(bytes, start(i) + 1, start(i) + Blake160Size),
                    rate |-> bytes[start(i) + Blake160Size + 1]]]]

-----------------------------------------------------------------------------
(* rip_package: one lottery byte for each nft. When there are not enough, the  *)
(* hash of all there are so far is added.                                    *)

\* Slip: the hash of the block alone is hashed, each time again.
LotteriesSlip(hash, n) ==
  LET at[i \in 0 .. n] ==
        IF i = 0 THEN hash
        ELSE IF i > Len(at[i - 1]) THEN at[i - 1] \o Blake2b[hash]
        ELSE at[i - 1]
  IN  at[n]

Lotteries(hash, n) ==
  LET at[i \in 0 .. n] ==
        IF i = 0 THEN hash
        ELSE IF i > Len(at[i - 1]) THEN at[i - 1] \o Blake2b[at[i - 1]]
        ELSE at[i - 1]
  IN  at[n]

Above(table, lottery) == {i \in DOMAIN table : lottery < table[i].rate}

\* Slip: a lottery that equals the rate is taken as well.
ExpectSlip(table, lottery) ==
  LET above == {i \in DOMAIN table : lottery <= table[i].rate} IN
  IF above = {} THEN Len(table) ELSE CHOOSE i \in above : \A j \in above : i <= j

\* The first nft whose rate is above the lottery, else the last one.
Expect(table, lottery) ==
  LET above == Above(table, lottery) IN
  IF above = {} THEN Len(table) ELSE CHOOSE i \in above : \A j \in above : i <= j

RipPackage(c, hash, count) ==
  LET n == count * c.capacity
      lotteries == Lotteries(hash, n) IN
  FlattenSeq([i \in 1 .. n |-> c.table[Expect(c.table, lotteries[i])].nft])

\* A debug build panics where the product or the sum leaves u64, and a release
\* build goes on with what is left of it.
Wrapped(n) == n % U64Values
BuyPackage(c, count) == Wrapped(c.price * count)

-----------------------------------------------------------------------------
(* The transactions of builder.rs.                                           *)

Init ==
  /\ composed = [price |-> 0, capacity |-> 0, table |-> << >>] /\ cell = NoBytes
  /\ store = [ckb |-> StoreCkb, packages |-> 0, hash |-> NoBytes]
  /\ opened = NoBytes /\ purchases = 0

Compose(c) ==
  /\ Valid(c)
  /\ composed' = c /\ cell' = ToCkbBytes(c)
  /\ opened' = NoBytes
  /\ UNCHANGED <<store, purchases>>

Purchase(count, hash) ==
  LET c == FromBytes(cell) IN
  /\ cell # NoBytes /\ store.packages = 0 /\ purchases < MaxPurchases
  /\ store' = [ckb |-> Wrapped(store.ckb + BuyPackage(c, count)),
               packages |-> count, hash |-> hash]
  /\ purchases' = purchases + 1
  /\ opened' = NoBytes
  /\ UNCHANGED <<composed, cell>>

Reveal ==
  /\ cell # NoBytes /\ store.packages # 0
  /\ opened' = RipPackage(FromBytes(cell), store.hash, store.packages)
  /\ store' = [store EXCEPT !.packages = 0]
  /\ UNCHANGED <<composed, cell, purchases>>

Next ==
  \/ \E c \in Configs : Compose(c)
  \/ \E count \in Counts, hash \in BlockHashes : Purchase(count, hash)
  \/ Reveal

Spec == Init /\ [][Next]_vars
=============================================================================
