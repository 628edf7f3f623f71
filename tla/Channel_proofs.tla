--------------------------- MODULE Channel_proofs ---------------------------
(* Proofs about the channel cell: its type invariant, that ckb is accounted    *)
(* for, that stakes stay covered and that challengers take turns, for every   *)
(* set of wishes, every wallet and any number of challenges.                 *)
EXTENDS ChannelProperties, TLAPS

(* The offer that the users pass to and fro: what it holds at each step. *)
Offers == [step : {"prepared", "completed", "open", "settled"}, stake : Nat, deck : Nat,
           hashes : Nat, nfts : Seq(Nat), capacity : Nat, paid : Seq(Int), signed : SUBSET Users]
OfferInv ==
  \/ offer = NoOffer
  \/ /\ offer \in Offers
     /\ offer.step = "prepared" =>
          offer.capacity = Half(ask[1]) /\ offer.paid = <<Half(ask[1]) + OpenFee>>
     /\ offer.step # "prepared" => offer.capacity = 2 * Half(ask[1])
     /\ offer.step = "completed" =>
          Len(offer.paid) = 2 /\ offer.paid[1] = Half(ask[1]) + OpenFee /\ offer.paid[2] = Half(ask[1])
     /\ offer.step \in {"prepared", "completed"} => Half(ask[1]) + OpenFee <= Funds

(* Nothing has happened on the chain before the channel is opened. *)
WaitInv ==
  offer.step \in {"none", "prepared", "completed"} =>
    /\ cell = NoCell /\ log = <<>> /\ built = [u \in Users |-> None]
    /\ wallet = [u \in Users |-> Funds] /\ refunded = Zero /\ spent = Zero

(* The live cell tells how often and by whom it has been challenged. *)
CellInv ==
  /\ cell.id = 0 => cell = NoCell
  /\ cell.id > 0 =>
       /\ offer.step = "open"
       /\ cell.id = Len(log) + 1 /\ cell.count = Len(log)
       /\ log = <<>> => cell.size = 0
       /\ log # <<>> => cell.size \in DataSizes /\ cell.challenger = log[Len(log)]
       /\ cell.capacity - cell.size * Byte >= 2 * Half(ask[1])

TakesTurns == \A n \in 1..(Len(log) - 1) : log[n + 1] = Other(log[n])

(* What a user has built was built from the live cell or from one before it. *)
FromLive(u) ==
  \/ /\ built[u].kind = "challenge" /\ MayChallenge(u)
     /\ \E d \in DataSizes : built[u].next = ChallengeCell(u, d)
     /\ built[u].cost = Cost(Refund + built[u].next.capacity, Fee, cell.capacity)
     /\ built[u].refunds = RefundsOf(u)
  \/ /\ built[u].kind = "close" /\ ChannelCkb > 2 * cell.stake
     /\ built[u].pays = [v \in Users |-> Payout(v)]
     /\ built[u].cost = Cost(built[u].pays[1] + built[u].pays[2], Fee, cell.capacity)
BuiltInv ==
  \A u \in Users : built[u] # None =>
    /\ built[u].spends > 0 /\ built[u].cost <= wallet[u]
    /\ cell.id > 0 => built[u].spends <= cell.id
    /\ built[u].spends = cell.id => FromLive(u)

ChannelInv ==
  /\ TypeOK /\ OfferInv /\ WaitInv /\ CellInv /\ TakesTurns /\ BuiltInv /\ Accounted

----------------------------------------------------------------------------
(* What the operators of the model give back. *)

LEMMA Amounts ==
  ASSUME TypeOK
  PROVE  /\ ask[1] \in Ask /\ ask[2] \in Ask
         /\ Half(ask[1]) \in Nat
         /\ cell.size * Byte \in Nat /\ Refund \in Nat
         /\ \A d \in DataSizes : d * Byte \in Nat /\ d \in Nat /\ d > 0
<1>1. ask[1] \in Ask /\ ask[2] \in Ask
  BY ChannelAssumption DEF TypeOK, Users
<1>2. Half(ask[1]) \in Nat
  BY <1>1 DEF Half, Ask
<1>3. cell.size \in Nat
  BY DEF TypeOK, Cells
<1>4. Byte \in Nat /\ DataSizes \subseteq Nat /\ 0 \notin DataSizes
  BY ChannelAssumption
<1>5. \A d \in Nat : d * Byte \in Nat
  BY <1>4
<1> QED BY <1>1, <1>2, <1>3, <1>4, <1>5 DEF Refund

(* The channel as its initial state leaves it. *)
LEMMA ChannelInit == Init => ChannelInv
<1> SUFFICES ASSUME Init PROVE ChannelInv
  OBVIOUS
<1>1. TypeOK
  BY ChannelAssumption DEF Init, TypeOK, NoOffer, NoCell, Cells, Txs, Users, Zero
<1>2. OfferInv /\ WaitInv /\ CellInv /\ TakesTurns
  BY DEF Init, OfferInv, WaitInv, CellInv, TakesTurns, NoCell
<1>3. BuiltInv
  BY DEF Init, BuiltInv
<1>4. Accounted
  BY ChannelAssumption DEF Init, Accounted, Zero, NoCell, Users
<1> QED BY <1>1, <1>2, <1>3, <1>4 DEF ChannelInv

(* Opening the channel: the steps that only touch the offer. *)
LEMMA OfferStep ==
  ASSUME ChannelInv,
         UNCHANGED <<ask, winner, cell, wallet, refunded, built, log, spent>>,
         offer.step \in {"none", "prepared", "completed"},
         offer'.step \in {"prepared", "completed"},
         OfferInv'
  PROVE  ChannelInv'
<1>1. TypeOK'
  BY DEF ChannelInv, TypeOK, Txs, Cells
<1>2. WaitInv' /\ CellInv' /\ TakesTurns' /\ Accounted'
  BY DEF ChannelInv, WaitInv, CellInv, TakesTurns, Accounted, NoCell, Half
<1>3. BuiltInv'
  BY DEF ChannelInv, WaitInv, BuiltInv, Users
<1> QED BY <1>1, <1>2, <1>3 DEF ChannelInv

LEMMA PrepareStep == ASSUME ChannelInv, Prepare PROVE ChannelInv'
<1>1. ask[1] \in Ask /\ Half(ask[1]) \in Nat
  BY Amounts DEF ChannelInv
<1>2. /\ OpenFee \in Nat /\ Funds \in Nat
      /\ wallet[1] = Funds
  BY ChannelAssumption DEF ChannelInv, WaitInv, Prepare, NoOffer, Users
<1>3. offer' \in Offers
  BY <1>1, <1>2 DEF Prepare, Offers, Ask, Cost, Half
<1>4. offer'.paid = <<Half(ask[1]) + OpenFee>> /\ Half(ask[1]) + OpenFee <= Funds
  BY <1>1, <1>2 DEF Prepare, Cost, Affords
<1>5. OfferInv'
  BY <1>3, <1>4 DEF OfferInv, Prepare, Half
<1> QED BY <1>5, OfferStep DEF Prepare, NoOffer

LEMMA CompleteStep == ASSUME ChannelInv, Complete PROVE ChannelInv'
<1>1. /\ ask[1] \in Ask /\ ask[2] \in Ask /\ Half(ask[1]) \in Nat
      /\ OpenFee \in Nat /\ Funds \in Nat
  BY Amounts, ChannelAssumption DEF ChannelInv
<1>2. /\ offer \in Offers /\ offer.capacity = Half(ask[1])
      /\ offer.paid = <<Half(ask[1]) + OpenFee>> /\ Half(ask[1]) + OpenFee <= Funds
  BY DEF ChannelInv, OfferInv, Complete, NoOffer
<1> DEFINE cost == Cost(2 * offer.capacity, OpenFee, offer.paid[1])
<1>3. cost = Half(ask[1])
  BY <1>1, <1>2 DEF Cost
<1>4. /\ Append(offer.paid, cost) \in Seq(Int) /\ Len(Append(offer.paid, cost)) = 2
      /\ Append(offer.paid, cost)[1] = Half(ask[1]) + OpenFee
      /\ Append(offer.paid, cost)[2] = Half(ask[1])
  BY <1>1, <1>2, <1>3
<1>5. Append(offer.nfts, ask[2].nfts) \in Seq(Nat)
  BY <1>1, <1>2 DEF Offers, Ask
<1>6. offer' = [offer EXCEPT !.step = "completed", !.nfts = Append(offer.nfts, ask[2].nfts),
                   !.capacity = 2 * Half(ask[1]), !.paid = Append(offer.paid, cost)]
  BY <1>2 DEF Complete
<1>7. /\ offer'.step = "completed" /\ offer'.capacity = 2 * Half(ask[1])
      /\ offer'.paid = Append(offer.paid, cost)
  BY <1>2, <1>6 DEF Offers
<1>8. offer' \in Offers
  <2>1. 2 * Half(ask[1]) \in Nat
    BY <1>1
  <2> QED BY <1>2, <1>4, <1>5, <1>6, <2>1 DEF Offers
<1>9. OfferInv'
  BY <1>2, <1>4, <1>7, <1>8 DEF OfferInv, Complete, Half
<1> QED BY <1>7, <1>9, <1>2, OfferStep DEF Complete

LEMMA SignStep == ASSUME ChannelInv, NEW u \in Users, Sign(u) PROVE ChannelInv'
<1>1. offer \in Offers
  BY DEF ChannelInv, OfferInv, Sign, NoOffer
<1>2. offer' \in Offers /\ offer'.step = offer.step /\ offer'.capacity = offer.capacity
        /\ offer'.paid = offer.paid
  BY <1>1 DEF Sign, Offers
<1>3. OfferInv'
  BY <1>2 DEF ChannelInv, OfferInv, Sign, NoOffer, Half
<1> QED BY <1>2, <1>3, OfferStep DEF Sign

(* The chain takes the opening transaction: the first channel cell. *)
LEMMA OpenStep == ASSUME ChannelInv, Open PROVE ChannelInv'
<1>1. /\ ask[1] \in Ask /\ Half(ask[1]) \in Nat
      /\ OpenFee \in Nat /\ Funds \in Nat
  BY Amounts, ChannelAssumption DEF ChannelInv
<1>2. /\ offer \in Offers /\ offer.capacity = 2 * Half(ask[1])
      /\ offer.paid[1] = Half(ask[1]) + OpenFee /\ offer.paid[2] = Half(ask[1])
      /\ Half(ask[1]) + OpenFee <= Funds
  BY DEF ChannelInv, OfferInv, Open, NoOffer
<1>3. /\ cell = NoCell /\ log = <<>> /\ built = [u \in Users |-> None]
      /\ wallet = [u \in Users |-> Funds] /\ refunded = Zero /\ spent = Zero
  BY DEF ChannelInv, WaitInv, Open
<1>4. offer' \in Offers /\ offer'.step = "open" /\ offer'.capacity = 2 * Half(ask[1])
  BY <1>2 DEF Open, Offers
<1>5. /\ cell' = [id |-> 1, stake |-> offer.stake, capacity |-> 2 * Half(ask[1]),
                  size |-> 0, count |-> 0, challenger |-> 0]
      /\ cell' \in Cells
  <2>1. offer.stake \in Nat /\ 2 * Half(ask[1]) \in Nat
    BY <1>1, <1>2 DEF Offers
  <2>2. cell' = [id |-> 1, stake |-> offer.stake, capacity |-> 2 * Half(ask[1]),
                 size |-> 0, count |-> 0, challenger |-> 0]
    BY <1>2 DEF Open, NoCell
  <2> QED BY <2>1, <2>2 DEF Cells
<1>6. wallet'[1] = Funds - (Half(ask[1]) + OpenFee) /\ wallet'[2] = Funds - Half(ask[1])
  BY <1>2, <1>3 DEF Open, Users
<1>7. spent'[1] = OpenFee /\ spent'[2] = 0
  BY <1>1, <1>2 DEF Open, Users
<1>8. wallet' \in [Users -> Nat]
  <2>1. wallet' = [u \in Users |-> wallet'[u]]
    BY DEF Open
  <2> QED BY <1>1, <1>2, <1>6, <2>1 DEF Users
<1>9. spent' \in [Users -> Nat]
  <2>1. spent' = [u \in Users |-> spent'[u]]
    BY DEF Open
  <2> QED BY <1>1, <1>7, <2>1 DEF Users
<1>10. TypeOK'
  BY <1>4, <1>5, <1>8, <1>9 DEF ChannelInv, TypeOK, Open, Txs, Cells
<1>11. OfferInv' /\ WaitInv'
  BY <1>4 DEF OfferInv, WaitInv, Open, Half
<1>12. CellInv'
  <2>1. cell'.size * Byte = 0
    BY <1>5, ChannelAssumption
  <2>2. ask' = ask /\ log' = <<>> /\ offer'.step = "open"
    BY <1>3, <1>4 DEF Open
  <2>3. cell'.id = 1 /\ cell'.count = 0 /\ cell'.size = 0 /\ cell'.capacity = 2 * Half(ask[1])
    BY <1>5
  <2>4. Half(ask[1])' = Half(ask[1])
    BY <2>2 DEF Half
  <2> QED BY <1>1, <2>1, <2>2, <2>3, <2>4 DEF CellInv
<1>13. TakesTurns'
  BY <1>3 DEF TakesTurns, Open
<1>14. BuiltInv'
  BY <1>3 DEF BuiltInv, Open
<1>15. Accounted'
  <2>1. refunded'[1] = 0 /\ refunded'[2] = 0 /\ cell'.capacity = 2 * Half(ask[1])
    <3>1. refunded' = Zero
      BY <1>3 DEF Open
    <3>2. Zero[1] = 0 /\ Zero[2] = 0
      BY DEF Zero, Users
    <3> QED BY <1>5, <3>1, <3>2
  <2> QED BY <1>1, <1>6, <1>7, <2>1 DEF Accounted
<1> QED BY <1>10, <1>11, <1>12, <1>13, <1>14, <1>15 DEF ChannelInv

(* Whether a transaction is built from the live cell depends on nothing else. *)
LEMMA FromLiveSame ==
  ASSUME NEW v \in Users, UNCHANGED <<cell, winner>>, built'[v] = built[v]
  PROVE  FromLive(v)' <=> FromLive(v)
<1>1. ChannelCkb' = ChannelCkb /\ [w \in Users |-> Payout(w)]' = [w \in Users |-> Payout(w)]
  BY DEF Payout, BetCkb, ChannelCkb, Deposit, Challenged
<1>2. Refund' = Refund /\ RefundsOf(v)' = RefundsOf(v) /\ MayChallenge(v)' = MayChallenge(v)
  BY DEF Refund, RefundsOf, MayChallenge, Challenged
<1>3. \A d : ChallengeCell(v, d)' = ChallengeCell(v, d)
  BY DEF ChallengeCell, ChallengeCapacity, Challenged
<1>4. (cell.stake)' = cell.stake
  OBVIOUS
<1> QED BY <1>1, <1>2, <1>3, <1>4 DEF FromLive, Cost

(* Building a transaction: only what the user has built changes. *)
LEMMA BuildStep ==
  ASSUME ChannelInv, NEW u \in Users, NEW tx \in Txs,
         built' = [built EXCEPT ![u] = tx],
         UNCHANGED <<ask, winner, offer, cell, wallet, refunded, log, spent>>,
         offer.step \notin {"none", "prepared", "completed"},
         tx # None =>
           /\ tx.spends > 0 /\ tx.cost <= wallet[u]
           /\ cell.id > 0 => tx.spends <= cell.id
           /\ tx.spends = cell.id => FromLive(u)'
  PROVE  ChannelInv'
<1>1. TypeOK'
  BY DEF ChannelInv, TypeOK, Txs, Cells
<1>2. OfferInv' /\ WaitInv' /\ CellInv' /\ TakesTurns' /\ Accounted'
  BY DEF ChannelInv, OfferInv, WaitInv, CellInv, TakesTurns, Accounted, Half
<1>3. BuiltInv'
  <2> SUFFICES ASSUME NEW v \in Users, built'[v] # None
               PROVE  /\ built'[v].spends > 0 /\ built'[v].cost <= wallet'[v]
                      /\ cell'.id > 0 => built'[v].spends <= cell'.id
                      /\ built'[v].spends = cell'.id => FromLive(v)'
    BY DEF BuiltInv
  <2>1. CASE v = u
    <3>1. built'[u] = tx
      BY DEF ChannelInv, TypeOK
    <3> QED BY <2>1, <3>1
  <2>2. CASE v # u
    <3>1. built'[v] = built[v]
      BY <2>2 DEF ChannelInv, TypeOK
    <3>2. FromLive(v)' <=> FromLive(v)
      BY <3>1, FromLiveSame
    <3> QED BY <3>1, <3>2 DEF ChannelInv, BuiltInv
  <2> QED BY <2>1, <2>2
<1> QED BY <1>1, <1>2, <1>3 DEF ChannelInv

LEMMA RejectStep == ASSUME ChannelInv, NEW u \in Users, Reject(u) PROVE ChannelInv'
<1>1. offer.step \notin {"none", "prepared", "completed"}
  BY DEF ChannelInv, WaitInv, Reject
<1>2. None \in Txs
  BY DEF Txs
<1> QED BY <1>1, <1>2, BuildStep DEF Reject

LEMMA BuildChallengeStep ==
  ASSUME ChannelInv, NEW u \in Users, NEW d \in DataSizes, BuildChallenge(u, d)
  PROVE  ChannelInv'
<1> DEFINE next == ChallengeCell(u, d)
           cost == Cost(Refund + next.capacity, Fee, cell.capacity)
           tx == [kind |-> "challenge", spends |-> cell.id, cost |-> cost, next |-> next,
                  refunds |-> RefundsOf(u)]
<1>1. /\ cell \in Cells /\ Refund \in Nat /\ d * Byte \in Nat /\ d \in Nat /\ Fee \in Nat
  BY Amounts, ChannelAssumption DEF ChannelInv, TypeOK
<1>2. next \in Cells /\ next.capacity = cell.capacity + d * Byte
  <2>1. next = [cell EXCEPT !.id = cell.id + 1, !.capacity = cell.capacity + d * Byte, !.size = d,
                  !.count = IF Challenged THEN cell.count + 1 ELSE 1, !.challenger = u]
    BY DEF ChallengeCell, ChallengeCapacity
  <2>2. /\ cell.id + 1 \in Nat /\ cell.capacity + d * Byte \in Nat
        /\ (IF Challenged THEN cell.count + 1 ELSE 1) \in Nat /\ u \in 0..2
    BY <1>1 DEF Cells, Users
  <2> HIDE DEF next
  <2> QED BY <1>1, <2>1, <2>2 DEF Cells
<1>3. cost \in Int
  BY <1>1, <1>2 DEF Cost, Cells
<1>4. RefundsOf(u) \in [Users -> Nat]
  BY <1>1 DEF RefundsOf, Zero, Users
<1>5. tx \in Txs
  BY <1>1, <1>2, <1>3, <1>4 DEF Txs, Cells
<1>6. /\ built' = [built EXCEPT ![u] = tx] /\ cell.id > 0 /\ MayChallenge(u) /\ cost <= wallet[u]
      /\ UNCHANGED <<ask, winner, offer, cell, wallet, refunded, log, spent>>
  BY DEF BuildChallenge, Affords
<1>7. built'[u] = tx
  BY <1>6 DEF ChannelInv, TypeOK
<1>8. FromLive(u)'
  <2>1. /\ MayChallenge(u)' /\ ChallengeCell(u, d)' = next /\ Refund' = Refund
        /\ RefundsOf(u)' = RefundsOf(u)
    BY <1>6 DEF MayChallenge, Challenged, ChallengeCell, ChallengeCapacity, Refund, RefundsOf
  <2>2. Cost(Refund + next.capacity, Fee, cell.capacity)' = cost
    BY <1>6, <2>1 DEF Cost
  <2>3. /\ built'[u].kind = "challenge" /\ built'[u].next = next
        /\ built'[u].cost = cost /\ built'[u].refunds = RefundsOf(u)
    BY <1>7
  <2> QED BY <1>6, <2>1, <2>2, <2>3 DEF FromLive, Cost
<1>9. offer.step \notin {"none", "prepared", "completed"}
  BY <1>6 DEF ChannelInv, WaitInv, NoCell
<1>10. tx.spends > 0 /\ tx.spends <= cell.id /\ tx.cost <= wallet[u]
  BY <1>1, <1>6 DEF Cells
<1> HIDE DEF tx
<1> QED BY <1>5, <1>6, <1>8, <1>9, <1>10, BuildStep

(* What a settlement pays is not negative. *)
LEMMA PayoutNat ==
  ASSUME ChannelInv, ChannelCkb > 2 * cell.stake, NEW v \in Users
  PROVE  Payout(v) \in Nat
<1>1. cell \in Cells /\ cell.size * Byte \in Nat
  BY Amounts DEF ChannelInv, TypeOK
<1>2. ChannelCkb \in Int
  BY <1>1 DEF ChannelCkb, Cells
<1>3. BetCkb \in Nat
  BY <1>1, <1>2 DEF BetCkb, Cells
<1>4. Deposit(v) \in Nat
  BY <1>1 DEF Deposit
<1> QED BY <1>1, <1>3, <1>4 DEF Payout, Cells

LEMMA BuildCloseStep == ASSUME ChannelInv, NEW u \in Users, BuildClose(u) PROVE ChannelInv'
<1> DEFINE pays == [v \in Users |-> Payout(v)]
           cost == Cost(Payout(1) + Payout(2), Fee, cell.capacity)
           tx == [kind |-> "close", spends |-> cell.id, cost |-> cost, pays |-> pays]
<1>1. /\ built' = [built EXCEPT ![u] = tx] /\ cell.id > 0 /\ ChannelCkb > 2 * cell.stake
      /\ cost <= wallet[u]
      /\ UNCHANGED <<ask, winner, offer, cell, wallet, refunded, log, spent>>
  BY DEF BuildClose, Affords
<1>2. cell \in Cells /\ Fee \in Nat /\ 1 \in Users /\ 2 \in Users
  BY ChannelAssumption DEF ChannelInv, TypeOK, Users
<1>3. Payout(1) \in Nat /\ Payout(2) \in Nat /\ pays \in [Users -> Nat]
  BY <1>1, <1>2, PayoutNat
<1>4. pays[1] = Payout(1) /\ pays[2] = Payout(2)
  BY <1>2
<1>0. pays = [v \in Users |-> Payout(v)]' /\ ChannelCkb' = ChannelCkb
  BY <1>1 DEF Payout, BetCkb, ChannelCkb, Deposit, Challenged
<1> HIDE DEF pays
<1>5. cost \in Int
  BY <1>2, <1>3 DEF Cost, Cells
<1>6. tx \in Txs
  BY <1>2, <1>3, <1>5 DEF Txs, Cells
<1>7. built'[u] = tx
  BY <1>1 DEF ChannelInv, TypeOK
<1>8. FromLive(u)'
  <2>1. built'[u].kind = "close" /\ built'[u].cost = cost /\ built'[u].pays = pays
    BY <1>7
  <2> QED BY <1>0, <1>1, <1>4, <2>1 DEF FromLive, Cost
<1>9. offer.step \notin {"none", "prepared", "completed"}
  BY <1>1 DEF ChannelInv, WaitInv, NoCell
<1>10. tx.spends > 0 /\ tx.spends <= cell.id /\ tx.cost <= wallet[u]
  BY <1>1, <1>2 DEF Cells
<1> HIDE DEF tx
<1> QED BY <1>1, <1>6, <1>8, <1>9, <1>10, BuildStep

(* The chain takes a challenge built from the live cell. *)
LEMMA CommitChallengeStep ==
  ASSUME ChannelInv, NEW u \in Users, CommitChallenge(u) PROVE ChannelInv'
<1> DEFINE tx == built[u]
<1>1. tx # None /\ tx.spends = cell.id /\ tx.kind = "challenge"
  BY DEF CommitChallenge, Live
<1>2. /\ cell.id > 0 /\ FromLive(u) /\ tx.cost <= wallet[u]
  BY <1>1 DEF ChannelInv, BuiltInv
<1>3. PICK d \in DataSizes : tx.next = ChallengeCell(u, d)
  BY <1>1, <1>2 DEF FromLive
<1>4. /\ MayChallenge(u) /\ tx.cost = Cost(Refund + tx.next.capacity, Fee, cell.capacity)
      /\ tx.refunds = RefundsOf(u)
  BY <1>1, <1>2 DEF FromLive
<1>5. /\ cell' = tx.next /\ log' = Append(log, u) /\ built' = [built EXCEPT ![u] = None]
      /\ refunded' = [v \in Users |-> refunded[v] + tx.refunds[v]]
      /\ spent' = [spent EXCEPT ![u] = @ + Fee]
      /\ UNCHANGED <<ask, winner, offer>>
  BY DEF CommitChallenge
<1>6. /\ wallet' = [v \in Users |-> wallet'[v]]
      /\ \A v \in Users : wallet'[v] = IF v = u THEN wallet[v] - tx.cost ELSE wallet[v]
  <2>1. wallet' = [v \in Users |-> wallet[v] + Zero[v] - (IF v = u THEN tx.cost ELSE 0)]
    BY DEF CommitChallenge, Leaves
  <2>2. \A v \in Users : wallet[v] \in Nat /\ Zero[v] = 0
    BY DEF ChannelInv, TypeOK, Zero
  <2>3. tx.cost \in Int
    BY <1>1 DEF ChannelInv, TypeOK, Txs
  <2> QED BY <2>1, <2>2, <2>3
<1>7. /\ cell \in Cells /\ wallet \in [Users -> Nat] /\ refunded \in [Users -> Nat]
      /\ spent \in [Users -> Nat] /\ built \in [Users -> Txs] /\ log \in Seq(Users)
      /\ Fee \in Nat /\ Refund \in Nat /\ d * Byte \in Nat /\ d \in Nat /\ d > 0
      /\ cell.size * Byte \in Nat /\ Half(ask[1]) \in Nat
      /\ \A e \in DataSizes : e \in Nat /\ e > 0
  BY Amounts, ChannelAssumption DEF ChannelInv, TypeOK
<1>8. tx \in Txs /\ tx.cost \in Int /\ tx.next \in Cells /\ tx.refunds \in [Users -> Nat]
  <2>1. tx \in Txs
    BY <1>7
  <2> QED BY <1>1, <2>1 DEF Txs
<1> HIDE DEF tx
<1>9. /\ cell'.id = cell.id + 1 /\ cell'.capacity = cell.capacity + d * Byte /\ cell'.size = d
      /\ cell'.count = (IF Challenged THEN cell.count + 1 ELSE 1) /\ cell'.challenger = u
  BY <1>3, <1>5, <1>7 DEF ChallengeCell, ChallengeCapacity, Cells
<1>10. TypeOK'
  <2>1. wallet' \in [Users -> Nat]
    <3>1. wallet[u] - tx.cost \in Nat
      BY <1>2, <1>7, <1>8
    <3>2. \A v \in Users : wallet'[v] \in Nat
      BY <1>6, <1>7, <3>1
    <3> QED BY <1>6, <3>2
  <2>2. refunded' \in [Users -> Nat]
    <3>1. \A v \in Users : refunded[v] + tx.refunds[v] \in Nat
      BY <1>7, <1>8
    <3> QED BY <1>5, <3>1
  <2>3. spent' \in [Users -> Nat]
    BY <1>5, <1>7
  <2>4. built' \in [Users -> Txs] /\ log' \in Seq(Users)
    BY <1>5, <1>7 DEF Txs
  <2> QED BY <1>5, <1>8, <2>1, <2>2, <2>3, <2>4 DEF ChannelInv, TypeOK
<1>11. OfferInv' /\ WaitInv'
  BY <1>2, <1>5 DEF ChannelInv, OfferInv, WaitInv, CellInv, Half
<1>12. /\ offer.step = "open" /\ cell.id = Len(log) + 1 /\ cell.count = Len(log)
       /\ log = <<>> => cell.size = 0
       /\ log # <<>> => cell.size \in DataSizes /\ cell.challenger = log[Len(log)]
       /\ cell.capacity - cell.size * Byte >= 2 * Half(ask[1])
  BY <1>2 DEF ChannelInv, CellInv
<1>13. Challenged <=> log # <<>>
  <2>1. \A e \in DataSizes : e \in Nat /\ e > 0
    BY <1>7
  <2>2. CASE log = <<>>
    BY <1>12, <2>2 DEF Challenged
  <2>3. CASE log # <<>>
    BY <1>12, <2>1, <2>3 DEF Challenged
  <2> QED BY <2>2, <2>3
<1>14. /\ Len(log') = Len(log) + 1 /\ log'[Len(log) + 1] = u /\ log' # <<>>
       /\ \A n \in 1..Len(log) : log'[n] = log[n]
  <2>1. log \in Seq(Users) /\ log' = Append(log, u)
    BY <1>5, <1>7
  <2>2. Len(log') = Len(log) + 1 /\ log'[Len(log) + 1] = u
    BY <2>1
  <2>3. \A n \in 1..Len(log) : log'[n] = log[n]
    BY <2>1
  <2>4. Len(log) \in Nat /\ Len(<<>>) = 0
    BY <2>1
  <2> QED BY <2>2, <2>3, <2>4
<1>15. CellInv'
  <2>1. cell'.count = Len(log')
    BY <1>7, <1>9, <1>12, <1>13, <1>14
  <2>2. cell'.capacity - cell'.size * Byte >= 2 * Half(ask[1])
    BY <1>7, <1>9, <1>12 DEF Cells
  <2>3. Half(ask[1])' = Half(ask[1])
    BY <1>5 DEF Half
  <2>4. cell'.id = Len(log') + 1 /\ Len(log') \in Nat
    BY <1>7, <1>9, <1>12, <1>14
  <2>5. offer'.step = "open" /\ cell'.size \in DataSizes /\ cell'.challenger = log'[Len(log')]
    BY <1>5, <1>7, <1>9, <1>12, <1>14
  <2> QED BY <1>14, <2>1, <2>2, <2>3, <2>4, <2>5 DEF CellInv
<1>16. TakesTurns'
  <2> SUFFICES ASSUME NEW n \in 1..(Len(log') - 1) PROVE log'[n + 1] = Other(log'[n])
    BY DEF TakesTurns
  <2>1. n \in 1..Len(log) /\ Len(log) \in Nat
    BY <1>7, <1>14
  <2>2. CASE n < Len(log)
    <3>1. n \in 1..(Len(log) - 1) /\ n + 1 \in 1..Len(log)
      BY <2>1, <2>2
    <3> QED BY <1>14, <2>1, <3>1 DEF ChannelInv, TakesTurns
  <2>3. CASE n = Len(log)
    <3>1. log # <<>> /\ log[n] \in Users /\ cell.challenger = log[n]
      BY <1>7, <1>12, <2>1, <2>3
    <3>2. log[n] # u
      BY <1>4, <1>13, <3>1 DEF MayChallenge
    <3>3. u = Other(log[n])
      BY <3>1, <3>2 DEF Other, Users
    <3> QED BY <1>14, <2>1, <2>3, <3>3
  <2> QED BY <2>1, <2>2, <2>3
<1>17. BuiltInv'
  <2> SUFFICES ASSUME NEW v \in Users, built'[v] # None
               PROVE  /\ built'[v].spends > 0 /\ built'[v].cost <= wallet'[v]
                      /\ built'[v].spends \in Nat /\ cell'.id \in Nat
                      /\ built'[v].spends < cell'.id
    BY DEF BuiltInv
  <2>1. v # u /\ built'[v] = built[v]
    BY <1>5, <1>7
  <2>2. wallet'[v] = wallet[v]
    BY <1>6, <1>7, <2>1
  <2>3. /\ built[v].spends > 0 /\ built[v].cost <= wallet[v] /\ built[v].spends <= cell.id
    BY <1>2, <2>1 DEF ChannelInv, BuiltInv
  <2>4. built[v].spends \in Nat /\ cell.id \in Nat
    BY <1>7, <2>1 DEF Txs, Cells
  <2> QED BY <1>9, <1>2, <2>1, <2>2, <2>3, <2>4
<1>18. Accounted'
  <2>1. tx.cost = Refund + (cell.capacity + d * Byte) + Fee - cell.capacity
    BY <1>4, <1>5, <1>9 DEF Cost
  <2>2. refunded'[1] + refunded'[2] = refunded[1] + refunded[2] + Refund
    <3>1. \A v \in Users : refunded'[v] = refunded[v] + RefundsOf(u)[v]
      BY <1>4, <1>5
    <3>2. RefundsOf(u)[u] = 0 /\ RefundsOf(u)[Other(u)] = Refund
      BY DEF RefundsOf, Zero, Other, Users
    <3>3. CASE u = 1
      BY <1>7, <3>1, <3>2, <3>3 DEF Other, Users
    <3>4. CASE u = 2
      BY <1>7, <3>1, <3>2, <3>4 DEF Other, Users
    <3> QED BY <3>3, <3>4 DEF Users
  <2>3. wallet'[1] + wallet'[2] = wallet[1] + wallet[2] - tx.cost
    <3>1. CASE u = 1
      BY <1>6, <1>7, <1>8, <3>1 DEF Users
    <3>2. CASE u = 2
      BY <1>6, <1>7, <1>8, <3>2 DEF Users
    <3> QED BY <3>1, <3>2 DEF Users
  <2>4. spent'[1] + spent'[2] = spent[1] + spent[2] + Fee
    BY <1>5, <1>7 DEF Users
  <2>5. Accounted
    BY DEF ChannelInv
  <2>6. /\ wallet[1] \in Nat /\ wallet[2] \in Nat /\ spent[1] \in Nat /\ spent[2] \in Nat
        /\ refunded[1] \in Nat /\ refunded[2] \in Nat /\ cell.capacity \in Nat
        /\ wallet'[1] \in Nat /\ wallet'[2] \in Nat /\ spent'[1] \in Nat /\ spent'[2] \in Nat
        /\ refunded'[1] \in Nat /\ refunded'[2] \in Nat
    BY <1>7, <1>10 DEF Users, Cells, TypeOK
  <2>7. cell'.capacity = cell.capacity + d * Byte /\ d * Byte \in Nat /\ Refund \in Nat /\ Fee \in Nat
        /\ Funds \in Nat
    BY <1>7, <1>9, ChannelAssumption
  <2>8. wallet[1] + wallet[2] + (refunded[1] + refunded[2]) + (spent[1] + spent[2]) + cell.capacity = 2 * Funds
    BY <2>5, <2>6, <2>7 DEF Accounted
  <2>9. tx.cost = Refund + d * Byte + Fee
    BY <2>1, <2>6, <2>7
  <2>10. wallet'[1] + wallet'[2] + (refunded'[1] + refunded'[2]) + (spent'[1] + spent'[2]) + cell'.capacity
           = 2 * Funds
    BY <2>2, <2>3, <2>4, <2>6, <2>7, <2>8, <2>9
  <2> QED BY <2>6, <2>7, <2>10 DEF Accounted
<1> QED BY <1>10, <1>11, <1>15, <1>16, <1>17, <1>18 DEF ChannelInv

(* The chain takes a settlement built from the live cell. *)
LEMMA CommitCloseStep ==
  ASSUME ChannelInv, NEW u \in Users, CommitClose(u) PROVE ChannelInv'
<1> DEFINE tx == built[u]
<1>1. tx # None /\ tx.spends = cell.id /\ tx.kind = "close"
  BY DEF CommitClose, Live
<1>2. /\ cell.id > 0 /\ tx.cost <= wallet[u]
      /\ tx.cost = Cost(tx.pays[1] + tx.pays[2], Fee, cell.capacity)
  BY <1>1 DEF ChannelInv, BuiltInv, FromLive
<1>3. /\ cell' = NoCell /\ built' = [built EXCEPT ![u] = None]
      /\ offer' = [offer EXCEPT !.step = "settled"]
      /\ spent' = [spent EXCEPT ![u] = @ + Fee]
      /\ wallet' = [v \in Users |-> wallet[v] + tx.pays[v] - (IF v = u THEN tx.cost ELSE 0)]
      /\ UNCHANGED <<ask, winner, refunded, log>>
  BY DEF CommitClose, Leaves
<1>4. /\ cell \in Cells /\ wallet \in [Users -> Nat] /\ refunded \in [Users -> Nat]
      /\ spent \in [Users -> Nat] /\ built \in [Users -> Txs] /\ Fee \in Nat /\ Funds \in Nat
  BY ChannelAssumption DEF ChannelInv, TypeOK
<1>5. tx.cost \in Int /\ tx.pays \in [Users -> Nat]
  <2>1. tx \in Txs
    BY <1>4
  <2> QED BY <1>1, <2>1 DEF Txs
<1> HIDE DEF tx
<1>6. \A v \in Users : wallet[v] + tx.pays[v] - (IF v = u THEN tx.cost ELSE 0) \in Nat
  BY <1>2, <1>4, <1>5
<1>7. /\ wallet' \in [Users -> Nat] /\ spent' \in [Users -> Nat] /\ built' \in [Users -> Txs]
  BY <1>3, <1>4, <1>6 DEF Txs
<1>8. offer \in Offers /\ offer' \in Offers /\ offer.step = "open" /\ offer'.step = "settled"
        /\ offer'.capacity = offer.capacity
  <2>1. offer.step = "open"
    BY <1>2 DEF ChannelInv, CellInv
  <2>2. offer \in Offers
    BY <2>1 DEF ChannelInv, OfferInv, NoOffer
  <2> QED BY <1>3, <2>1, <2>2 DEF Offers
<1>9. TypeOK'
  BY <1>3, <1>7, <1>8 DEF ChannelInv, TypeOK, NoCell, Cells
<1>10. OfferInv' /\ WaitInv' /\ TakesTurns'
  BY <1>3, <1>8 DEF ChannelInv, OfferInv, WaitInv, TakesTurns, NoOffer, Half
<1>11. CellInv'
  BY <1>3 DEF CellInv, NoCell
<1>12. BuiltInv'
  <2> SUFFICES ASSUME NEW v \in Users, built'[v] # None
               PROVE  /\ built'[v].spends > 0 /\ built'[v].spends \in Nat
                      /\ built'[v].cost <= wallet'[v] /\ cell'.id = 0
    BY DEF BuiltInv
  <2>1. v # u /\ built'[v] = built[v]
    BY <1>3, <1>4
  <2>2. built[v].spends > 0 /\ built[v].cost <= wallet[v]
    BY <2>1 DEF ChannelInv, BuiltInv
  <2>3. built[v] \in Txs /\ built[v] # None
    BY <1>4, <2>1
  <2>4. built[v].spends \in Nat /\ built[v].cost \in Int
    BY <2>3 DEF Txs
  <2>5. wallet'[v] = wallet[v] + tx.pays[v] /\ wallet[v] \in Nat /\ tx.pays[v] \in Nat
    BY <1>3, <1>4, <1>5, <2>1
  <2>6. cell'.id = 0
    BY <1>3 DEF NoCell
  <2> QED BY <2>1, <2>2, <2>4, <2>5, <2>6
<1>13. Accounted'
  <2>1. /\ wallet[1] \in Nat /\ wallet[2] \in Nat /\ spent[1] \in Nat /\ spent[2] \in Nat
        /\ refunded[1] \in Nat /\ refunded[2] \in Nat /\ cell.capacity \in Nat
        /\ tx.pays[1] \in Nat /\ tx.pays[2] \in Nat
    BY <1>4, <1>5 DEF Users, Cells
  <2>2. tx.cost = tx.pays[1] + tx.pays[2] + Fee - cell.capacity
    BY <1>2 DEF Cost
  <2>3. wallet'[1] + wallet'[2] = wallet[1] + wallet[2] + (tx.pays[1] + tx.pays[2]) - tx.cost
    <3>1. CASE u = 1
      BY <1>3, <1>5, <2>1, <3>1 DEF Users
    <3>2. CASE u = 2
      BY <1>3, <1>5, <2>1, <3>2 DEF Users
    <3> QED BY <3>1, <3>2 DEF Users
  <2>4. spent'[1] + spent'[2] = spent[1] + spent[2] + Fee
    BY <1>3, <1>4 DEF Users
  <2>5. cell'.capacity = 0 /\ refunded' = refunded
    BY <1>3 DEF NoCell
  <2>6. wallet[1] + wallet[2] + (refunded[1] + refunded[2]) + (spent[1] + spent[2]) + cell.capacity = 2 * Funds
    BY <1>4, <2>1 DEF ChannelInv, Accounted
  <2>7. wallet'[1] \in Nat /\ wallet'[2] \in Nat /\ spent'[1] \in Nat /\ spent'[2] \in Nat
    BY <1>7 DEF Users
  <2>8. wallet'[1] + wallet'[2] + (refunded[1] + refunded[2]) + (spent'[1] + spent'[2]) = 2 * Funds
    BY <1>4, <1>5, <2>1, <2>2, <2>3, <2>4, <2>6, <2>7
  <2> QED BY <1>4, <2>1, <2>5, <2>7, <2>8 DEF Accounted
<1> QED BY <1>9, <1>10, <1>11, <1>12, <1>13 DEF ChannelInv

----------------------------------------------------------------------------
(* The invariant is inductive. *)
LEMMA ChannelStep == ChannelInv /\ [Next]_vars => ChannelInv'
<1> SUFFICES ASSUME ChannelInv, [Next]_vars PROVE ChannelInv'
  OBVIOUS
<1>1. CASE Prepare
  BY <1>1, PrepareStep
<1>2. CASE Complete
  BY <1>2, CompleteStep
<1>3. CASE Open
  BY <1>3, OpenStep
<1>4. ASSUME NEW u \in Users, Sign(u) PROVE ChannelInv'
  BY <1>4, SignStep
<1>5. ASSUME NEW u \in Users, BuildClose(u) PROVE ChannelInv'
  BY <1>5, BuildCloseStep
<1>6. ASSUME NEW u \in Users, CommitChallenge(u) PROVE ChannelInv'
  BY <1>6, CommitChallengeStep
<1>7. ASSUME NEW u \in Users, CommitClose(u) PROVE ChannelInv'
  BY <1>7, CommitCloseStep
<1>8. ASSUME NEW u \in Users, Reject(u) PROVE ChannelInv'
  BY <1>8, RejectStep
<1>9. ASSUME NEW u \in Users, NEW d \in DataSizes, BuildChallenge(u, d) PROVE ChannelInv'
  BY <1>9, BuildChallengeStep
<1>10. CASE UNCHANGED vars
  <2>1. UNCHANGED vars
    BY <1>10
  <2>2. \A u \in Users : FromLive(u)' <=> FromLive(u)
    BY <2>1, FromLiveSame DEF vars
  <2>3. BuiltInv'
    BY <2>1, <2>2 DEF ChannelInv, BuiltInv, vars
  <2> QED BY <2>1, <2>3 DEF vars, ChannelInv, TypeOK, OfferInv, WaitInv, CellInv, TakesTurns,
     Accounted, Half
<1> QED BY <1>1, <1>2, <1>3, <1>4, <1>5, <1>6, <1>7, <1>8, <1>9, <1>10 DEF Next

(* The invariant holds of every state the channel reaches. *)
THEOREM ChannelInvariant == Spec => []ChannelInv
BY ChannelInit, ChannelStep, PTL DEF Spec

(* Every variable stays in its range: no transaction that is sent spends more  *)
(* than its builder has, whoever else pays into or out of that wallet since     *)
(* it was built (tx_extends.rs:92-160).                                      *)
THEOREM TypeCorrect == Spec => []TypeOK
<1>1. ChannelInv => TypeOK
  BY DEF ChannelInv
<1> QED BY <1>1, ChannelInvariant, PTL

(* No transaction of the channel makes or loses ckb: complete_tx_with_sighash  *)
(* charges its builder the difference (tx_extends.rs:92-160).                *)
THEOREM AccountedCorrect == Spec => []Accounted
<1>1. ChannelInv => Accounted
  BY DEF ChannelInv
<1> QED BY <1>1, ChannelInvariant, PTL

(* After any number of challenges of any size, both stakes and both bets are    *)
(* in the cell on top of the deposit for its data (builder.rs:538-545).      *)
THEOREM StakesCorrect == Spec => []StakesSafe
<1>1. ChannelInv => StakesSafe
  BY DEF ChannelInv, CellInv, StakesSafe, ChannelCkb
<1> QED BY <1>1, ChannelInvariant, PTL

(* Challengers take turns and the cell counts them, whoever was first with a     *)
(* transaction both had built (builder.rs:484-508).                          *)
THEOREM TurnsCorrect == Spec => []TurnsCounted
<1>1. ChannelInv => TurnsCounted
  BY DEF ChannelInv, CellInv, TakesTurns, TurnsCounted
<1> QED BY <1>1, ChannelInvariant, PTL

(* A refund goes to the user who made the challenge it undoes, and is what     *)
(* that challenge put in (builder.rs:482-506).                               *)
THEOREM RefundsCorrect == Spec => RefundsDepositor
<1> DEFINE Depositor(u) == refunded'[u] # refunded[u] =>
             /\ log # <<>> /\ log[Len(log)] = u
             /\ refunded'[u] = refunded[u] + cell.size * Byte
<1>1. ASSUME ChannelInv, NEW v \in Users, CommitChallenge(v), NEW u \in Users,
             refunded'[u] # refunded[u]
      PROVE  log # <<>> /\ log[Len(log)] = u /\ refunded'[u] = refunded[u] + cell.size * Byte
  <2>1. cell.id > 0 /\ MayChallenge(v) /\ built[v].refunds = RefundsOf(v)
    BY <1>1 DEF CommitChallenge, Live, ChannelInv, BuiltInv, FromLive
  <2>2. refunded'[u] = refunded[u] + RefundsOf(v)[u] /\ refunded[u] \in Nat
    BY <1>1, <2>1 DEF CommitChallenge, ChannelInv, TypeOK
  <2>3. u = Other(v) /\ RefundsOf(v)[u] = Refund /\ Refund # 0
    BY <1>1, <2>2 DEF RefundsOf, Zero, Other, Users
  <2>4. Challenged /\ Refund = cell.size * Byte
    BY <2>3 DEF Refund
  <2>5. log # <<>> /\ cell.challenger = log[Len(log)]
    BY <1>1, <2>1, <2>4 DEF ChannelInv, CellInv, Challenged
  <2>6. log[Len(log)] \in Users
    BY <1>1, <2>5 DEF ChannelInv, TypeOK
  <2>7. log[Len(log)] = u
    BY <2>1, <2>3, <2>4, <2>5, <2>6 DEF MayChallenge, Other, Users
  <2> QED BY <2>2, <2>3, <2>4, <2>5, <2>7
<1>2. ChannelInv /\ [Next]_vars => [\A u \in Users : Depositor(u)]_vars
  <2> SUFFICES ASSUME ChannelInv, [Next]_vars, NEW u \in Users PROVE Depositor(u)
    OBVIOUS
  <2>1. CASE \E v \in Users : CommitChallenge(v)
    BY <1>1, <2>1
  <2>2. CASE ~ \E v \in Users : CommitChallenge(v)
    <3>1. refunded' = refunded
      BY <2>2 DEF Next, vars, Prepare, Complete, Open, Sign, BuildClose, CommitClose, Reject,
         BuildChallenge
    <3> QED BY <3>1
  <2> QED BY <2>1, <2>2
<1> QED BY <1>2, ChannelInvariant, PTL DEF Spec, RefundsDepositor

----------------------------------------------------------------------------
(* What the users have agreed on by the time both have looked at the offer. *)
Terms(a) == offer.stake = a.stake /\ offer.deck = a.deck /\ offer.hashes = a.hashes
AgreeInv ==
  /\ offer.step # "none" => Terms(ask[1])
  /\ offer.step \notin {"none", "prepared"} => Terms(ask[2]) /\ Half(ask[1]) = Half(ask[2])

LEMMA AgreeInit == Init => AgreeInv
BY DEF Init, AgreeInv, NoOffer

LEMMA AgreeStep == ChannelInv /\ AgreeInv /\ [Next]_vars => AgreeInv'
<1> SUFFICES ASSUME ChannelInv, AgreeInv, [Next]_vars PROVE AgreeInv'
  OBVIOUS
<1>1. offer.step # "none" => offer \in Offers
  BY DEF ChannelInv, OfferInv, NoOffer
<1>2. ask' = ask
  BY DEF Next, vars, Prepare, Complete, Open, Sign, BuildClose, CommitChallenge, CommitClose,
     Reject, BuildChallenge
<1>3. CASE Prepare
  BY <1>2, <1>3 DEF Prepare, AgreeInv, Terms, Half
<1>4. CASE Complete
  <2>1. offer.capacity = Half(ask[1]) /\ offer.capacity = Half(ask[2]) /\ offer \in Offers
    BY <1>1, <1>4 DEF Complete, ChannelInv, OfferInv, NoOffer
  <2>2. Terms(ask[1]) /\ Terms(ask[2])
    BY <1>4 DEF Complete, AgreeInv, Terms, SameArgs
  <2>3. offer'.stake = offer.stake /\ offer'.deck = offer.deck /\ offer'.hashes = offer.hashes
    BY <1>4, <2>1 DEF Complete, Offers
  <2> QED BY <1>2, <2>1, <2>2, <2>3 DEF AgreeInv, Terms, Half
<1>5. ASSUME NEW u \in Users, Sign(u) PROVE AgreeInv'
  <2>1. /\ offer'.stake = offer.stake /\ offer'.deck = offer.deck
        /\ offer'.hashes = offer.hashes /\ offer'.step = offer.step
    BY <1>1, <1>5 DEF Sign, Offers
  <2> QED BY <1>2, <2>1 DEF AgreeInv, Terms, Half
<1>6. CASE Open \/ \E u \in Users : CommitClose(u)
  <2>1. offer.step = "open" \/ offer.step = "completed"
    BY <1>6 DEF Open, CommitClose, Live, ChannelInv, BuiltInv, CellInv
  <2>2. /\ offer'.stake = offer.stake /\ offer'.deck = offer.deck
        /\ offer'.hashes = offer.hashes
    BY <1>1, <1>6, <2>1 DEF Open, CommitClose, Offers
  <2> QED BY <1>2, <2>1, <2>2 DEF AgreeInv, Terms, Half
<1>7. CASE offer' = offer
  BY <1>2, <1>7 DEF AgreeInv, Terms, Half
<1> QED BY <1>3, <1>4, <1>5, <1>6, <1>7 DEF Next, vars, BuildClose, CommitChallenge, Reject,
   BuildChallenge

LEMMA Agreed == ChannelInv /\ AgreeInv => Agreement
<1> SUFFICES ASSUME ChannelInv, AgreeInv, offer.step \in {"open", "settled"}
             PROVE  /\ ask[1].stake = ask[2].stake /\ ask[1].bet = ask[2].bet
                    /\ ask[1].deck = ask[2].deck /\ ask[1].hashes = ask[2].hashes
  BY DEF Agreement
<1>1. ask[1] \in Ask /\ ask[2] \in Ask
  BY Amounts DEF ChannelInv
<1>2. Terms(ask[1]) /\ Terms(ask[2]) /\ Half(ask[1]) = Half(ask[2])
  BY DEF AgreeInv
<1>3. ask[1].bet \in Nat /\ ask[2].bet \in Nat /\ ask[1].stake \in Nat
  BY <1>1 DEF Ask
<1>4. ask[1].stake = ask[2].stake /\ ask[1].deck = ask[2].deck /\ ask[1].hashes = ask[2].hashes
  BY <1>2 DEF Terms
<1>5. ask[1].stake + ask[1].bet = ask[2].stake + ask[2].bet
  BY <1>2 DEF Half
<1> QED BY <1>3, <1>4, <1>5

(* No channel gets onto the chain on terms one of its users has not asked for   *)
(* (interact.rs:108-130, 164-178).                                           *)
THEOREM AgreementCorrect == Spec => []Agreement
BY AgreeInit, AgreeStep, Agreed, ChannelInvariant, PTL DEF Spec

----------------------------------------------------------------------------
(* Capacities are even: a byte of data occupies an even amount. *)
LEMMA EvenBytes == ASSUME NEW d \in Nat PROVE (d * Byte) % 2 = 0
<1>1. PICK k \in Nat : Byte = 2 * k
  <2>1. Byte \in Nat /\ Byte % 2 = 0
    BY ChannelAssumption
  <2>2. Byte = 2 * (Byte \div 2) /\ Byte \div 2 \in Nat
    BY <2>1
  <2> QED BY <2>2
<1>2. d * Byte = 2 * (d * k)
  BY <1>1
<1>3. d * k \in Nat
  BY <1>1
<1> QED BY <1>2, <1>3

EvenInv == cell.capacity % 2 = 0

LEMMA EvenStep == ChannelInv /\ EvenInv /\ [Next]_vars => EvenInv'
<1> SUFFICES ASSUME ChannelInv, EvenInv, [Next]_vars PROVE EvenInv'
  OBVIOUS
<1>1. CASE Open
  <2>1. offer \in Offers /\ offer.capacity = 2 * Half(ask[1]) /\ Half(ask[1]) \in Nat
    BY <1>1, Amounts DEF Open, ChannelInv, OfferInv, NoOffer
  <2>2. cell'.capacity = 2 * Half(ask[1])
    BY <1>1, <2>1 DEF Open, NoCell
  <2> QED BY <2>1, <2>2 DEF EvenInv
<1>2. ASSUME NEW u \in Users, CommitChallenge(u) PROVE EvenInv'
  <2>1. PICK d \in DataSizes : cell' = ChallengeCell(u, d)
    BY <1>2 DEF CommitChallenge, Live, ChannelInv, BuiltInv, FromLive
  <2>2. d \in Nat /\ d * Byte \in Nat /\ cell \in Cells
    BY Amounts DEF ChannelInv, TypeOK
  <2>3. cell'.capacity = cell.capacity + d * Byte /\ cell.capacity \in Nat
    BY <2>1, <2>2 DEF ChallengeCell, ChallengeCapacity, Cells
  <2>4. (d * Byte) % 2 = 0
    BY <2>2, EvenBytes
  <2> QED BY <2>2, <2>3, <2>4 DEF EvenInv
<1>3. ASSUME NEW u \in Users, CommitClose(u) PROVE EvenInv'
  BY <1>3 DEF CommitClose, NoCell, EvenInv
<1>4. CASE cell' = cell
  BY <1>4 DEF EvenInv
<1> QED BY <1>1, <1>2, <1>3, <1>4 DEF Next, vars, Prepare, Complete, Sign, BuildClose, Reject,
   BuildChallenge

LEMMA EvenInit == Init => EvenInv
BY DEF Init, EvenInv, NoCell

(* Halving the channel loses nothing, so that what is paid adds up to the cell. *)
LEMMA Whole == ChannelInv /\ EvenInv => SettlesWhole
<1> SUFFICES ASSUME ChannelInv, EvenInv, NEW u \in Users, Live(u), built[u].kind = "close"
             PROVE  built[u].cost = Fee
  BY DEF SettlesWhole
<1>1. /\ cell.id > 0 /\ built[u].cost = Cost(built[u].pays[1] + built[u].pays[2], Fee, cell.capacity)
      /\ built[u].pays = [v \in Users |-> Payout(v)]
  BY DEF Live, ChannelInv, BuiltInv, FromLive
<1>2. built[u].pays[1] = Payout(1) /\ built[u].pays[2] = Payout(2)
  BY <1>1 DEF Users
<1>3. /\ cell \in Cells /\ cell.size * Byte \in Nat /\ cell.size \in Nat
      /\ cell.capacity \in Nat /\ cell.stake \in Nat /\ Fee \in Nat /\ Half(ask[1]) \in Nat
  BY Amounts, ChannelAssumption DEF ChannelInv, TypeOK, Cells
<1>4. (cell.size * Byte) % 2 = 0
  BY <1>3, EvenBytes
<1>5. 2 * (ChannelCkb \div 2) = ChannelCkb /\ ChannelCkb \in Int /\ ChannelCkb \div 2 \in Int
  BY <1>3, <1>4 DEF EvenInv, ChannelCkb
<1>6. Deposit(1) + Deposit(2) = cell.size * Byte
  <2>1. CASE Challenged
    <3>1. cell.challenger \in {1, 2}
      BY <1>1, <2>1 DEF ChannelInv, CellInv, TypeOK, Users, Challenged
    <3> QED BY <1>3, <2>1, <3>1 DEF Deposit
  <2>2. CASE ~Challenged
    <3>1. cell.size = 0 /\ cell.size * Byte = 0
      BY <1>3, <2>2, ChannelAssumption DEF Challenged
    <3> QED BY <2>2, <3>1 DEF Deposit
  <2> QED BY <2>1, <2>2
<1>7. BetCkb \in Int /\ 2 * cell.stake + 2 * BetCkb = ChannelCkb
  BY <1>3, <1>5 DEF BetCkb
<1>8. /\ Deposit(1) \in Nat /\ Deposit(2) \in Nat
      /\ Payout(1) + Payout(2) = 2 * cell.stake + 2 * BetCkb + (Deposit(1) + Deposit(2))
  <2>1. Deposit(1) \in Nat /\ Deposit(2) \in Nat
    BY <1>3 DEF Deposit
  <2>2. winner = 1 \/ winner = 2
    BY DEF ChannelInv, TypeOK, Users
  <2> QED BY <1>3, <1>7, <2>1, <2>2 DEF Payout
<1>9. ChannelCkb + cell.size * Byte = cell.capacity
  BY <1>3 DEF ChannelCkb
<1>10. Payout(1) + Payout(2) = cell.capacity
  BY <1>3, <1>5, <1>6, <1>7, <1>8, <1>9
<1> QED BY <1>1, <1>2, <1>3, <1>10 DEF Cost

(* A settlement hands out the whole cell and its builder pays the fee, whatever  *)
(* the deposit and whoever challenged last (builder.rs:659-683).             *)
THEOREM SettlesWholeCorrect == Spec => []SettlesWhole
BY EvenInit, EvenStep, Whole, ChannelInvariant, PTL DEF Spec

----------------------------------------------------------------------------
(* As long as the channel has been challenged once at most, the cell holds the  *)
(* stakes, the bets and one deposit, and what each user has put into it is     *)
(* what that user lacks.                                                     *)
OnceInv ==
  cell.id > 0 =>
    /\ cell.stake = ask[1].stake
    /\ Len(log) <= 1 =>
         /\ ChannelCkb = 2 * Half(ask[1])
         /\ \A u \in Users : Owned(u) = Funds - Half(ask[1]) - Deposit(u)

LEMMA OpenOnce == ASSUME ChannelInv, AgreeInv, Open PROVE OnceInv'
<1>1. /\ Half(ask[1]) \in Nat /\ OpenFee \in Nat /\ Funds \in Nat
      /\ ask[1] \in Ask
  BY Amounts, ChannelAssumption DEF ChannelInv
<1>2. /\ offer \in Offers /\ offer.capacity = 2 * Half(ask[1]) /\ offer.stake = ask[1].stake
      /\ offer.paid[1] = Half(ask[1]) + OpenFee /\ offer.paid[2] = Half(ask[1])
  BY DEF ChannelInv, OfferInv, Open, NoOffer, AgreeInv, Terms
<1>3. wallet = [u \in Users |-> Funds] /\ refunded = Zero
  BY DEF ChannelInv, WaitInv, Open
<1>4. ask' = ask /\ Half(ask[1])' = Half(ask[1])
  BY DEF Open, Half
<1>5. cell'.stake = ask[1].stake /\ cell'.capacity = 2 * Half(ask[1]) /\ cell'.size = 0
  BY <1>2 DEF Open, NoCell
<1>6. ChannelCkb' = 2 * Half(ask[1])
  BY <1>1, <1>5, ChannelAssumption DEF ChannelCkb
<1>7. \A u \in Users : Deposit(u)' = 0
  BY <1>5 DEF Deposit, Challenged
<1>8. \A u \in Users : Owned(u)' = Funds - Half(ask[1])
  <2>1. wallet'[1] = Funds - (Half(ask[1]) + OpenFee) /\ wallet'[2] = Funds - Half(ask[1])
    BY <1>2, <1>3 DEF Open, Users
  <2>2. spent'[1] = OpenFee /\ spent'[2] = 0
    BY <1>1, <1>2 DEF Open, Users
  <2>3. refunded'[1] = 0 /\ refunded'[2] = 0
    BY <1>3 DEF Open, Zero, Users
  <2> QED BY <1>1, <2>1, <2>2, <2>3 DEF Owned, Users
<1> QED BY <1>1, <1>4, <1>5, <1>6, <1>7, <1>8 DEF OnceInv

LEMMA ChallengeOnce ==
  ASSUME ChannelInv, OnceInv, NEW u \in Users, CommitChallenge(u)
  PROVE  OnceInv'
<1>1. /\ built[u] # None /\ built[u].spends = cell.id /\ built[u].kind = "challenge"
      /\ cell' = built[u].next /\ log' = Append(log, u)
      /\ refunded' = [v \in Users |-> refunded[v] + built[u].refunds[v]]
      /\ wallet' = [v \in Users |-> wallet[v] + Zero[v] - (IF v = u THEN built[u].cost ELSE 0)]
      /\ spent' = [spent EXCEPT ![u] = @ + Fee]
      /\ ask' = ask
  BY DEF CommitChallenge, Live, Leaves
<1>2. PICK d \in DataSizes : built[u].next = ChallengeCell(u, d)
  BY <1>1 DEF ChannelInv, BuiltInv, FromLive
<1>3. /\ cell.id > 0
      /\ built[u].cost = Cost(Refund + built[u].next.capacity, Fee, cell.capacity)
      /\ built[u].refunds = RefundsOf(u)
  BY <1>1 DEF ChannelInv, BuiltInv, FromLive
<1>4. /\ cell \in Cells /\ d \in Nat /\ d > 0 /\ d * Byte \in Nat /\ Fee \in Nat
      /\ log \in Seq(Users) /\ Half(ask[1]) \in Nat /\ Funds \in Nat
      /\ wallet \in [Users -> Nat] /\ refunded \in [Users -> Nat] /\ spent \in [Users -> Nat]
  BY Amounts, ChannelAssumption DEF ChannelInv, TypeOK
<1>5. /\ cell'.stake = cell.stake /\ cell'.capacity = cell.capacity + d * Byte
      /\ cell'.size = d /\ cell'.challenger = u
  BY <1>1, <1>2, <1>4 DEF ChallengeCell, ChallengeCapacity, Cells
<1>6. cell'.stake = ask'[1].stake
  BY <1>1, <1>3, <1>5 DEF OnceInv
<1>7. ASSUME Len(log') <= 1
      PROVE  /\ ChannelCkb' = 2 * Half(ask[1])'
             /\ \A v \in Users : Owned(v)' = Funds - Half(ask[1])' - Deposit(v)'
  <2>1. log = <<>>
    BY <1>1, <1>4, <1>7
  <2>2. cell.size = 0
    BY <1>3, <2>1 DEF ChannelInv, CellInv
  <2>3. Refund = 0 /\ \A v \in Users : Deposit(v) = 0 /\ RefundsOf(u)[v] = 0
    BY <2>2 DEF Refund, Deposit, RefundsOf, Zero, Challenged, Users, Other
  <2>4. ChannelCkb = 2 * Half(ask[1]) /\ \A v \in Users : Owned(v) = Funds - Half(ask[1])
    BY <1>3, <1>4, <2>1, <2>3 DEF OnceInv
  <2>5. Half(ask[1])' = Half(ask[1])
    BY <1>1 DEF Half
  <2>6. cell.capacity = 2 * Half(ask[1]) /\ cell.capacity \in Nat
    BY <1>4, <2>2, <2>4, ChannelAssumption DEF ChannelCkb, Cells
  <2>7. ChannelCkb' = 2 * Half(ask[1])'
    BY <1>4, <1>5, <2>5, <2>6 DEF ChannelCkb
  <2>8. built[u].cost = d * Byte + Fee
    BY <1>1, <1>3, <1>4, <1>5, <2>3, <2>6 DEF Cost
  <2>9. ASSUME NEW v \in Users
        PROVE  Owned(v)' = Funds - Half(ask[1])' - Deposit(v)'
    <3>1. /\ wallet[v] \in Nat /\ refunded[v] \in Nat /\ spent[v] \in Nat
          /\ wallet[v] + refunded[v] + spent[v] = Funds - Half(ask[1])
      BY <1>4, <2>4 DEF Owned
    <3>2. refunded'[v] = refunded[v]
      BY <1>1, <1>3, <2>3, <3>1
    <3>3. CASE v = u
      <4>1. wallet'[v] = wallet[v] - (d * Byte + Fee) /\ spent'[v] = spent[v] + Fee
        BY <1>1, <1>4, <2>8, <3>1, <3>3 DEF Zero
      <4>2. Deposit(v)' = d * Byte
        BY <1>4, <1>5, <3>3 DEF Deposit, Challenged
      <4>3. PICK paid \in Nat : paid = d * Byte
        BY <1>4
      <4>4. wallet'[v] = wallet[v] - (paid + Fee) /\ Deposit(v)' = paid
        BY <4>1, <4>2, <4>3
      <4>5. wallet'[v] + refunded'[v] + spent'[v] = Funds - Half(ask[1]) - paid
        <5>1. Fee \in Nat /\ Funds \in Nat /\ Half(ask[1]) \in Nat
          BY <1>4
        <5>2. spent'[v] = spent[v] + Fee
          BY <4>1
        <5> QED BY <3>1, <3>2, <4>4, <5>1, <5>2
      <4> QED BY <2>5, <4>4, <4>5 DEF Owned
    <3>4. CASE v # u
      <4>1. wallet'[v] = wallet[v] /\ spent'[v] = spent[v]
        BY <1>1, <1>4, <3>1, <3>4 DEF Zero
      <4>2. Deposit(v)' = 0
        BY <1>5, <3>4 DEF Deposit
      <4> QED BY <1>4, <2>5, <3>1, <3>2, <4>1, <4>2 DEF Owned
    <3> QED BY <3>3, <3>4
  <2> QED BY <2>7, <2>9
<1> QED BY <1>6, <1>7 DEF OnceInv

(* The settlement of a channel that was challenged once at most is fair.      *)
LEMMA CloseOnce ==
  ASSUME ChannelInv, AgreeInv, EvenInv, OnceInv, NEW u \in Users, CommitClose(u)
  PROVE  FairIfChallengedOnce'
<1>1. /\ built[u] # None /\ built[u].spends = cell.id /\ built[u].kind = "close" /\ Live(u)
      /\ wallet' = [v \in Users |-> wallet[v] + built[u].pays[v] - (IF v = u THEN built[u].cost ELSE 0)]
      /\ spent' = [spent EXCEPT ![u] = @ + Fee]
      /\ UNCHANGED <<ask, winner, refunded, log>>
  BY DEF CommitClose, Live, Leaves
<1>2. /\ cell.id > 0 /\ built[u].pays = [v \in Users |-> Payout(v)]
      /\ ChannelCkb > 2 * cell.stake
  BY <1>1 DEF ChannelInv, BuiltInv, FromLive
<1>3. built[u].cost = Fee
  BY <1>1, Whole DEF SettlesWhole
<1>4. /\ cell \in Cells /\ Fee \in Nat /\ Funds \in Nat /\ Half(ask[1]) \in Nat
      /\ ask[1] \in Ask /\ ask[2] \in Ask /\ winner \in Users
      /\ wallet \in [Users -> Nat] /\ refunded \in [Users -> Nat] /\ spent \in [Users -> Nat]
      /\ cell.size * Byte \in Nat
  BY Amounts, ChannelAssumption DEF ChannelInv, TypeOK
<1>5. ask[1].bet = ask[2].bet /\ ask[1].bet \in Nat /\ ask[1].stake \in Nat
  <2>1. offer.step = "open"
    BY <1>2 DEF ChannelInv, CellInv
  <2> QED BY <1>4, <2>1, Agreed DEF Agreement, Ask
<1>6. SUFFICES ASSUME Len(log) <= 1
               PROVE  /\ Owned(winner)' = Funds + ask[winner].bet
                      /\ Owned(Other(winner))' = Funds - ask[winner].bet
  BY <1>1 DEF FairIfChallengedOnce, Fair
<1>7. /\ cell.stake = ask[1].stake /\ ChannelCkb = 2 * Half(ask[1])
      /\ \A v \in Users : Owned(v) = Funds - Half(ask[1]) - Deposit(v)
  BY <1>2, <1>6 DEF OnceInv
<1>8. BetCkb = ask[1].bet
  BY <1>4, <1>5, <1>7 DEF BetCkb, Half
<1>9. ASSUME NEW v \in Users
      PROVE  Owned(v)' = Owned(v) + Payout(v)
  <2>1. Payout(v) \in Nat
    BY <1>2, PayoutNat
  <2>2. wallet[v] \in Nat /\ refunded[v] \in Nat /\ spent[v] \in Nat /\ refunded' = refunded
    BY <1>1, <1>4
  <2>3. CASE v = u
    <3>1. wallet'[v] = wallet[v] + Payout(v) - Fee /\ spent'[v] = spent[v] + Fee
      BY <1>1, <1>2, <1>3, <1>4, <2>3
    <3> QED BY <1>4, <2>1, <2>2, <3>1 DEF Owned
  <2>4. CASE v # u
    <3>1. wallet'[v] = wallet[v] + Payout(v) /\ spent'[v] = spent[v]
      BY <1>1, <1>2, <1>4, <2>1, <2>2, <2>4
    <3> QED BY <2>1, <2>2, <3>1 DEF Owned
  <2> QED BY <2>3, <2>4
<1>10. ASSUME NEW v \in Users
       PROVE  Owned(v)' = Funds - ask[1].bet + (IF v = winner THEN 2 * ask[1].bet ELSE 0)
  <2>1. Deposit(v) \in Nat
    BY <1>4 DEF Deposit
  <2>2. Payout(v) = ask[1].stake + (IF v = winner THEN 2 * ask[1].bet ELSE 0) + Deposit(v)
    BY <1>7, <1>8 DEF Payout
  <2>3. Owned(v) = Funds - (ask[1].stake + ask[1].bet) - Deposit(v)
    BY <1>7 DEF Half
  <2>4. Owned(v)' = Owned(v) + Payout(v)
    BY <1>9
  <2> QED BY <1>4, <1>5, <2>1, <2>2, <2>3, <2>4
<1>11. Other(winner) \in Users /\ Other(winner) # winner /\ ask[winner].bet = ask[1].bet
  BY <1>4, <1>5 DEF Other, Users
<1>12. Owned(winner)' = Funds - ask[1].bet + 2 * ask[1].bet
  BY <1>1, <1>4, <1>10 DEF Owned
<1>13. Owned(Other(winner))' = Funds - ask[1].bet
  <2>1. PICK loser \in Users : loser = Other(winner) /\ loser # winner
    BY <1>11
  <2>2. Owned(loser)' = Funds - ask[1].bet
    BY <1>4, <1>5, <1>10, <2>1
  <2>3. Other(winner)' = loser
    BY <1>1, <2>1 DEF Other
  <2> QED BY <2>2, <2>3 DEF Owned
<1> QED BY <1>4, <1>5, <1>11, <1>12, <1>13

LEMMA OnceStep ==
  ASSUME ChannelInv, AgreeInv, EvenInv, OnceInv, FairIfChallengedOnce, [Next]_vars
  PROVE  OnceInv' /\ FairIfChallengedOnce'
<1>1. CASE Open
  <2>1. offer'.step = "open"
    BY <1>1 DEF Open, ChannelInv, OfferInv, NoOffer, Offers
  <2> QED BY <1>1, <2>1, OpenOnce DEF FairIfChallengedOnce, Fair
<1>2. ASSUME NEW u \in Users, CommitChallenge(u)
      PROVE  OnceInv' /\ FairIfChallengedOnce'
  <2>1. offer'.step = "open"
    BY <1>2 DEF CommitChallenge, Live, ChannelInv, BuiltInv, CellInv
  <2> QED BY <1>2, <2>1, ChallengeOnce DEF FairIfChallengedOnce, Fair
<1>3. ASSUME NEW u \in Users, CommitClose(u)
      PROVE  OnceInv' /\ FairIfChallengedOnce'
  <2>1. cell'.id = 0
    BY <1>3 DEF CommitClose, NoCell
  <2> QED BY <1>3, <2>1, CloseOnce DEF OnceInv
<1>4. CASE Prepare \/ Complete \/ \E u \in Users : Sign(u)
  <2>1. /\ offer'.step # "settled" /\ cell = NoCell /\ cell' = cell
    <3>1. CASE Prepare
      BY <3>1 DEF Prepare, ChannelInv, WaitInv, NoOffer
    <3>2. CASE Complete
      BY <3>2 DEF Complete, ChannelInv, WaitInv, OfferInv, NoOffer, Offers
    <3>3. ASSUME NEW u \in Users, Sign(u)
          PROVE  offer'.step # "settled" /\ cell = NoCell /\ cell' = cell
      BY <3>3 DEF Sign, ChannelInv, WaitInv, OfferInv, NoOffer, Offers
    <3> QED BY <1>4, <3>1, <3>2, <3>3
  <2> QED BY <2>1 DEF FairIfChallengedOnce, Fair, OnceInv, NoCell
<1>5. CASE UNCHANGED <<ask, winner, offer, cell, wallet, refunded, log, spent>>
  <2>1. \A u \in Users : Owned(u)' = Owned(u) /\ Deposit(u)' = Deposit(u)
    BY <1>5 DEF Owned, Deposit, Challenged
  <2>2. ChannelCkb' = ChannelCkb /\ Half(ask[1])' = Half(ask[1])
    BY <1>5 DEF ChannelCkb, Half
  <2>3. OnceInv'
    BY <1>5, <2>1, <2>2 DEF OnceInv
  <2>4. FairIfChallengedOnce'
    BY <1>5 DEF FairIfChallengedOnce, Fair, Owned, Other
  <2> QED BY <2>3, <2>4
<1> QED BY <1>1, <1>2, <1>3, <1>4, <1>5 DEF Next, vars, BuildClose, Reject, BuildChallenge

(* If a channel was challenged at most once, by whoever of the two, its winner   *)
(* wins the bet and its loser loses it, and nothing else but fees changes hands *)
(* (builder.rs:501-545, 659-683). After a second challenge this is not so       *)
(* (FairSettlement).                                                         *)
THEOREM FairCorrect == Spec => []FairIfChallengedOnce
<1>1. Init => OnceInv /\ FairIfChallengedOnce
  BY DEF Init, OnceInv, NoCell, FairIfChallengedOnce, Fair, NoOffer
<1> QED BY <1>1, OnceStep, AgreeInit, AgreeStep, EvenInit, EvenStep, ChannelInvariant, PTL DEF Spec
=============================================================================
