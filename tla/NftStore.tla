------------------------------ MODULE NftStore ------------------------------
(* The composer and the users of an nft store, as the transactions of          *)
(* src/src/ckb/transaction/builder.rs move the cells: the composer's config    *)
(* cell, each user's store, nft cells, and the plain cells that pay. Each      *)
(* transaction is built from the cells live at one time and sent at another.   *)
EXTENDS Integers, Sequences, FiniteSets, FiniteSetsExt, Functions

CONSTANTS
  Users, Composer,
  Nfts,
  Configs,         \* what the composer may compose: price, count, table
  Counts,          \* packages a user may buy at once
  Wishes,          \* nfts a user may ask to have issued, sent or discarded
  Seeds,           \* lottery bytes a block's hash may give
  Wallet,          \* ckb of the plain cells of each key at first, oldest first
  Base, Fee,       \* bytes a cell occupies without data, fee("0.1")
  MaxPool,         \* bound: transactions built and not yet taken or refused
  MaxTxs           \* bound: transactions the chain takes

Keys == Users \cup {Composer}
Config == [price : Nat, count : Nat, table : Seq([nft : Nfts, rate : Nat])]

ASSUME StoreAssumption ==
  /\ Composer \notin Users /\ IsFiniteSet(Users) /\ IsFiniteSet(Nfts)
  /\ Configs \subseteq Config
  /\ Counts \subseteq Nat
  /\ Wishes \subseteq [Nfts -> Nat]
  /\ Seeds \subseteq Seq(Nat)
  /\ Wallet \in [Keys -> Seq(Nat)]
  /\ Base \in Nat /\ Fee \in Nat /\ MaxPool \in Nat /\ MaxTxs \in Nat

VARIABLES
  live,        \* the live cells; an older cell has a smaller id
  pool,        \* transactions that are built and not taken or refused yet
  txs,         \* history: transactions taken
  bought,      \* history: packages each user has paid for
  revealed     \* history: packages each user has revealed

vars == <<live, pool, txs, bought, revealed>>

Empty == [n \in Nfts |-> 0]
Count(b) == SumFunction(b)
Total(cells) == [n \in Nfts |-> SumFunction([c \in cells |-> c.nfts[n]])]
Ckb(cells) == SumFunction([c \in cells |-> c.ckb])

----------------------------------------------------------------------------
(* Cells *)

Exact(bytes) == Base + bytes
Plain(u, ckb) ==
  [id |-> 0, seed |-> <<>>, kind |-> "plain", user |-> u, ckb |-> ckb,
   config |-> [price |-> 0, count |-> 0, table |-> <<>>], packages |-> 0, nfts |-> Empty]
ConfigCell(c) ==
  [Plain(Composer, Exact(Len(c.table))) EXCEPT !.kind = "config", !.config = c]
StoreCell(u, ckb, n) == [Plain(u, ckb) EXCEPT !.kind = "store", !.packages = n]
NftCell(u, ckb, b) == [Plain(u, ckb) EXCEPT !.kind = IF b = Empty THEN "plain" ELSE "nft", !.nfts = b]

Bytes(c) == Len(c.config.table) + Count(c.nfts) + IF c.kind = "store" THEN 1 ELSE 0

Of(kind, u) == {c \in live : c.kind = kind /\ c.user = u}
First(cells) == {c \in cells : \A d \in cells : c.id <= d.id}
ConfigFound == First(Of("config", Composer))
StoreFound(u) == First(Of("store", u))

Init ==
  /\ live = UNION {{[Plain(u, Wallet[u][i]) EXCEPT !.id = i] : i \in DOMAIN Wallet[u]} : u \in Keys}
  /\ pool = {} /\ txs = 0
  /\ bought = [u \in Users |-> 0] /\ revealed = [u \in Users |-> 0]

----------------------------------------------------------------------------
(* complete_tx_with_sighash_cells: plain cells of the builder, oldest first,    *)
(* until they cover the outputs and the fee; what is too much comes back.     *)

Taken(u, short) == {c \in Of("plain", u) : Ckb({d \in Of("plain", u) : d.id < c.id}) < short}

(* Slip: the fee is not part of what is required. *)
OutOnly(outs) == SumFunction([i \in DOMAIN outs |-> outs[i].ckb])
Required(outs) == Fee + SumFunction([i \in DOMAIN outs |-> outs[i].ckb])

Enough(change) == change >= 0

Build(kind, u, in, deps, outs, n) ==
  LET short == Required(outs) - Ckb(in)
      taken == Taken(u, short)
      change == Ckb(taken) - short IN
  /\ Cardinality(pool) < MaxPool
  /\ Enough(change)
  /\ pool' = pool \cup
       {[kind |-> kind, by |-> u, ins |-> in \cup taken, deps |-> deps, packages |-> n,
         outs |-> outs \o (IF change # 0 THEN <<Plain(u, change)>> ELSE <<>>)]}
  /\ UNCHANGED <<live, txs, bought, revealed>>

----------------------------------------------------------------------------
(* The composer *)

(* NFTConfig::new panics otherwise. *)
Valid(c) ==
  /\ c.price > 0 /\ c.count > 0 /\ c.table # <<>>
  /\ \A i \in 2..Len(c.table) : c.table[i - 1].rate <= c.table[i].rate

Replaced == ConfigFound

Compose(c) ==
  /\ Valid(c)
  /\ Build("compose", Composer, Replaced, {}, <<ConfigCell(c)>>, 0)

Issue(v, w) ==
  \E c \in ConfigFound :
    Build("issue", Composer, {c}, {},
          <<NftCell(v, Exact(Count(w)), w), [c EXCEPT !.id = 0]>>, 0)

----------------------------------------------------------------------------
(* The users' stores: a store with packages in it waits to be revealed. *)

(* Slips: a user may have several stores, buy before revealing, or build on a   *)
(* config that is gone.                                                      *)
AnyTime(u) == TRUE
MayCreate(u) == Of("store", u) = {}
Rich(s) == s.ckb > 0
MayBuy(s) == s.packages = 0
NoDeps(c) == {}
Deps(c) == {c}

CreateStore(u) ==
  /\ MayCreate(u)
  /\ \E c \in ConfigFound :
       Build("create", u, {}, Deps(c), <<StoreCell(u, Exact(1), 0)>>, 0)

(* Slip: the store only keeps the price of the packages. *)
PriceOnly(s, price) == price
Paid(s, price) == s.ckb + price

Purchase(u, n) ==
  \E c \in ConfigFound, s \in StoreFound(u) :
    /\ MayBuy(s)
    /\ Build("purchase", u, {s}, Deps(c),
             <<StoreCell(u, Paid(s, c.config.price * n), n)>>, n)

(* The first nft whose rate is above the lottery byte, else the last one *)
Draw(table, byte) ==
  LET above == {i \in DOMAIN table : byte < table[i].rate} IN
    table[IF above = {} THEN Len(table) ELSE Min(above)].nft
Ripped(c, seed, n) ==
  [x \in Nfts |-> Cardinality({i \in 1..(n * c.count) : Draw(c.table, seed[i]) = x})]

Reveal(u) ==
  \E c \in ConfigFound, s \in StoreFound(u) :
    /\ s.packages > 0
    /\ LET nfts == Ripped(c.config, s.seed, s.packages) IN
         Build("reveal", u, {s}, Deps(c),
               <<StoreCell(u, s.ckb, 0), NftCell(u, Exact(Count(nfts)), nfts)>>, s.packages)

----------------------------------------------------------------------------
(* complete_tx_with_nft_cells: nft cells of the user, oldest first, each one    *)
(* that holds something still required; what is not required comes back in    *)
(* one cell with all of their ckb.                                           *)

Holding(u, w) ==
  {c \in Of("nft", u) : \E n \in Nfts :
     c.nfts[n] > 0 /\ Total({d \in Of("nft", u) : d.id < c.id})[n] < w[n]}
Covers(u, w) == \A n \in Nfts : w[n] <= Total(Of("nft", u))[n]

(* Slip: each cell loses what is required, found in another or not. *)
RestOfEach(cells, w) ==
  [n \in Nfts |-> SumFunction([c \in cells |-> IF c.nfts[n] > w[n] THEN c.nfts[n] - w[n] ELSE 0])]
Rest(cells, w) == [n \in Nfts |-> Total(cells)[n] - w[n]]
Back(u, cells, w) == NftCell(u, Ckb(cells), Rest(cells, w))

Discard(u, w) ==
  /\ Covers(u, w)
  /\ Build("discard", u, Holding(u, w), {}, <<Back(u, Holding(u, w), w)>>, 0)

Transfer(u, v, w) ==
  /\ Covers(u, w)
  /\ Build("transfer", u, Holding(u, w), {},
           <<NftCell(v, Exact(Count(w)), w), Back(u, Holding(u, w), w)>>, 0)

----------------------------------------------------------------------------
(* The chain takes a transaction whose inputs and deps are live and whose       *)
(* outputs pay for the bytes they occupy. The hash of its block is only looked  *)
(* at when packages are revealed.                                            *)

Live(tx) == tx.ins \cup tx.deps \subseteq live
Pays(tx) == \A i \in DOMAIN tx.outs : Exact(Bytes(tx.outs[i])) <= tx.outs[i].ckb

(* No cell is newer: a transaction has at most three outputs.                *)
Newest == Max({Len(Wallet[u]) : u \in Keys}) + 3 * txs
Created(tx, seed) ==
  {[tx.outs[i] EXCEPT !.id = Newest + i, !.seed = seed] : i \in DOMAIN tx.outs}

Commit(tx) ==
  /\ Live(tx) /\ Pays(tx) /\ txs < MaxTxs
  /\ \E seed \in IF tx.kind = "purchase" THEN Seeds ELSE {<<>>} :
       live' = (live \ tx.ins) \cup Created(tx, seed)
  /\ pool' = pool \ {tx}
  /\ txs' = txs + 1
  /\ bought' = [u \in Users |->
       bought[u] + IF tx.kind = "purchase" /\ tx.by = u THEN tx.packages ELSE 0]
  /\ revealed' = [u \in Users |->
       revealed[u] + IF tx.kind = "reveal" /\ tx.by = u THEN tx.packages ELSE 0]

Refuse(tx) ==
  /\ ~(Live(tx) /\ Pays(tx))
  /\ pool' = pool \ {tx}
  /\ UNCHANGED <<live, txs, bought, revealed>>

Next ==
  \/ \E c \in Configs : Compose(c)
  \/ \E u \in Users : CreateStore(u) \/ Reveal(u)
  \/ \E u \in Users, n \in Counts : Purchase(u, n)
  \/ \E u \in Users, w \in Wishes : Issue(u, w) \/ Discard(u, w)
  \/ \E u \in Users, v \in Users, w \in Wishes : Transfer(u, v, w)
  \/ \E tx \in pool : Commit(tx) \/ Refuse(tx)

Spec == Init /\ [][Next]_vars
=============================================================================
