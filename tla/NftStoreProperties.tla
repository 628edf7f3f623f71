------------------------- MODULE NftStoreProperties -------------------------
(* What the store of NftStore.tla has to get right, whatever transactions are   *)
(* built on cells that are gone by the time they are sent.                   *)
EXTENDS NftStore

(* There is one config, and a user has one store, although two transactions      *)
(* may be built when there is none. "target output cell should only have one in *)
(* CKB" (builder.rs:33): both configs are paid for from the composer's oldest   *)
(* cell (47-82, tx_extends.rs:105-135). "user has already created this NFT      *)
(* store" (129): nobody gets a second one by building before one is taken.    *)
OneOfEach ==
  /\ Cardinality(Of("config", Composer)) <= 1
  /\ \A u \in Users : Cardinality(Of("store", u)) <= 1

(* Every package a user has paid for is revealed once or waits in the user's    *)
(* store (builder.rs:199, 293-295).                                          *)
PackagesAccounted ==
  \A u \in Users :
    bought[u] = revealed[u] + SumFunction([s \in Of("store", u) |-> s.packages])

(* Ckb is neither made nor lost: cells and fees add up (tx_extends.rs:92-160).  *)
CkbAccounted ==
  Ckb(live) + Fee * txs
    = SumFunction([u \in Keys |-> SumFunction(Wallet[u])])

(* What a purchase pays and what a reveal draws is what the config in force when *)
(* the chain takes it says, although it was read before: the config cell is a   *)
(* dep (builder.rs:235, 337). A store keeps its ckb.                         *)
ConfigInForce ==
  [][\A u \in Users : \A s \in Of("store", u) : \A t \in Of("store", u)' \ {s} :
       s \notin live' =>
         IF t.packages > 0
         THEN \E c \in Of("config", Composer) : t.ckb = s.ckb + c.config.price * t.packages
         ELSE /\ t.ckb = s.ckb
              /\ \E c \in Of("config", Composer) :
                   Total(Of("nft", u))' = [n \in Nfts |->
                     Total(Of("nft", u))[n] + Ripped(c.config, s.seed, s.packages)[n]]]_vars

(* The store implements NftLedger: nfts only move as their owners ask          *)
(* (builder.rs:349-387, tx_extends.rs:166-252).                              *)
Ledger == INSTANCE NftLedger WITH
  owned <- [u \in Users |-> Total(Of("nft", u))],
  Draws <- {Ripped(c, s, n) : c \in {d \in Configs : Valid(d)}, s \in Seeds, n \in Counts}
NftsKept == Ledger!Spec
=============================================================================
