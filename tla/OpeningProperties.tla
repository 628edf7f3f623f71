------------------------- MODULE OpeningProperties -------------------------
(* What the users of Opening.tla may rely on when they sign.                  *)
EXTENDS Opening

(* The cells an opening transaction may not be able to pay for.               *)
WithoutNfts(tx) == \E u \in ToSet(tx.args.users) : tx.args.nfts[u] = Empty
SmallChange(tx) == \E i \in DOMAIN tx.outs :
  /\ tx.outs[i].kind = "plain" /\ tx.outs[i].ckb \in 1..(Base - 1)
TooManyNfts(tx) == OccupiedBy(tx.args) > 2 * Half(ask[Players[1]])

(* A transaction that both users have signed, in whichever order, and whose     *)
(* cells are still there, opens the channel, with three exceptions: a user     *)
(* without nfts makes a cell of no capacity (tx_extends.rs:228), change may be *)
(* below what its cell occupies (143), and what the second user's list adds is *)
(* not looked at (interact.rs:66-77). No signature is spoilt by the other's.   *)
SignedOpens ==
  \A tx \in offers : tx.signers = Users /\ Fresh(tx) =>
    Accepts(tx) \/ WithoutNfts(tx) \/ SmallChange(tx) \/ TooManyNfts(tx)

(* What a user signs costs that user stake and bet, and the first one the fee,  *)
(* whatever cells the other user has put in, each cell once; it returns the    *)
(* user's nfts, all of them, and names those the user asked for               *)
(* (interact.rs:150-216, tx_extends.rs:92-252). A user who signs an offer of   *)
(* others, which nothing forbids, has nothing in it and pays nothing.         *)
Share(tx, u) ==
  IF u \notin ToSet(tx.args.users) THEN 0
  ELSE Half(ask[u]) + IF u = Players[1] THEN OpenFee ELSE 0
SignsOwnShare ==
  \A tx \in offers : \A u \in tx.signers :
    LET back == NftsAt(tx.outs, NftCells(tx.outs, u)) IN
      /\ IsInjective(tx.ins)
      /\ CkbAt(tx.ins, Owned(tx.ins, u)) - CkbAt(tx.outs, Owned(tx.outs, u)) = Share(tx, u)
      /\ NftsAt(tx.ins, NftCells(tx.ins, u)) = back
      /\ u \in ToSet(tx.args.users) =>
           /\ tx.args.nfts[u] = ask[u].nfts
           /\ \A n \in Nfts : ask[u].nfts[n] <= back[n]

(* Opening a channel moves no nft: the users own what they owned, except for    *)
(* what they transfer, although openings merge nft cells that were collected    *)
(* while transfers spent some (tx_extends.rs:166-252).                       *)
Holds == [u \in Users |-> Total(Of("nft", u))]
Moves == INSTANCE NftLedger WITH owned <- Holds, Draws <- {}
NftsStay ==
  [][Holds' # Holds =>
       \E u \in Users, v \in Users, w \in Wishes : Moves!Transfer(u, v, w)]_live
=============================================================================
