------------------------------- MODULE Channel -------------------------------
(* The kabletop channel cell from its opening to its settlement, as the two   *)
(* users build its transactions: channel/interact.rs opens it, builder.rs     *)
(* challenges and closes it, helper/tx_extends.rs pays for each transaction   *)
(* from the wallet of the user who builds it.                                 *)
EXTENDS Integers, Sequences

CONSTANTS
  Asks,            \* what a user may ask of the channel, see Ask below
  Funds,           \* ckb each user's wallet starts with
  OpenFee, Fee,    \* fee("0.05") when opening, fee("0.1") afterwards
  Byte,            \* capacity one byte of cell data occupies, Capacity::bytes(1)
  ArgsBytes,       \* bytes the channel cell occupies without its nft lists
  DataSizes,       \* bytes a Challenge occupies; operations make it longer
  MaxChallenges    \* bound: challenges that reach the chain

Users == 1..2
Other(u) == 3 - u
Ask == [stake : Nat, bet : Nat, deck : Nat, nfts : Nat, hashes : Nat]

ASSUME ChannelAssumption ==
  /\ Asks \subseteq Ask
  /\ Funds \in Nat /\ OpenFee \in Nat /\ Fee \in Nat /\ ArgsBytes \in Nat
  /\ Byte \in Nat /\ Byte > 0 /\ Byte % 2 = 0
  /\ DataSizes \subseteq Nat /\ 0 \notin DataSizes
  /\ MaxChallenges \in Nat

VARIABLES
  ask,        \* what each user wants: stake, bet, deck size, own nfts, lua hashes
  winner,     \* who wins the game; what the contract makes of the rounds
  offer,      \* the opening transaction the users pass to and fro
  cell,       \* the live cell with the channel's lock, id 0 if there is none
  wallet,     \* ckb in cells locked by sighash_script(user)
  refunded,   \* ckb in the outputs a challenge makes for the last challenger
  built,      \* the transaction a user has built and not sent yet
  log,        \* history: who challenged
  spent       \* history: fees each user has paid

vars == <<ask, winner, offer, cell, wallet, refunded, built, log, spent>>

None == [kind |-> "none"]
NoOffer == [step |-> "none", signed |-> {}]
NoCell == [id |-> 0, stake |-> 0, capacity |-> 0, size |-> 0, count |-> 0, challenger |-> 0]
Zero == [u \in Users |-> 0]

Init ==
  /\ ask \in [Users -> Asks]
  /\ winner \in Users
  /\ offer = NoOffer
  /\ cell = NoCell
  /\ wallet = [u \in Users |-> Funds]
  /\ refunded = Zero
  /\ built = [u \in Users |-> None]
  /\ log = <<>>
  /\ spent = Zero

(* complete_tx_with_sighash_cells: the builder adds cells of its own until the *)
(* inputs cover the outputs and the fee, and takes back what is too much. An   *)
(* error if its cells are not enough.                                        *)
NoFee(out, fee, in) == out - in    \* slip
Cost(out, fee, in) == out + fee - in
Owns(u, cost) == wallet[u] > 0     \* slip
Affords(u, cost) == cost <= wallet[u]

----------------------------------------------------------------------------
(* Opening: user 1 prepares, user 2 completes, both sign. *)

(* nfts.len() as u8 keeps the low byte of the length. *)
FitsDeck(a) == a.deck >= a.nfts % 256
Half(a) == a.stake + a.bet
(* What the cell occupies, with the nfts of the users that are filled in *)
Occupied(n) == (ArgsBytes + 20 * n) * Byte

Prepare ==
  LET a == ask[1]
      cost == Cost(Half(a), OpenFee, 0) IN
  /\ offer = NoOffer
  /\ FitsDeck(a)
  /\ Occupied(a.nfts) <= 2 * Half(a)
  /\ Affords(1, cost)
  /\ offer' = [step |-> "prepared", stake |-> a.stake, deck |-> a.deck, hashes |-> a.hashes,
               nfts |-> <<a.nfts>>, capacity |-> Half(a), paid |-> <<cost>>, signed |-> {}]
  /\ UNCHANGED <<ask, winner, cell, wallet, refunded, built, log, spent>>

(* Slip: the lua code hashes are not compared. *)
SameStakes(a) == offer.stake = a.stake /\ offer.deck = a.deck
SameArgs(a) == offer.stake = a.stake /\ offer.deck = a.deck /\ offer.hashes = a.hashes

Complete ==
  LET a == ask[2]
      cost == Cost(2 * offer.capacity, OpenFee, offer.paid[1]) IN
  /\ offer.step = "prepared"
  /\ SameArgs(a)
  /\ FitsDeck(a)
  /\ offer.capacity = Half(a)
  /\ Affords(2, cost)
  /\ offer' = [offer EXCEPT !.step = "completed", !.nfts = Append(@, a.nfts),
                            !.capacity = 2 * @, !.paid = Append(@, cost)]
  /\ UNCHANGED <<ask, winner, cell, wallet, refunded, built, log, spent>>

Sign(u) ==
  LET a == ask[u] IN
  /\ offer.step = "completed" /\ u \notin offer.signed
  /\ offer.stake = a.stake /\ offer.deck = a.deck /\ offer.nfts[u] = a.nfts
  /\ offer.capacity = 2 * Half(a)
  /\ offer' = [offer EXCEPT !.signed = @ \cup {u}]
  /\ UNCHANGED <<ask, winner, cell, wallet, refunded, built, log, spent>>

(* The chain takes what both have signed, if the cell is paid for. *)
Open ==
  /\ offer.step = "completed" /\ offer.signed = Users
  /\ Occupied(offer.nfts[1] + offer.nfts[2]) <= offer.capacity
  /\ offer' = [offer EXCEPT !.step = "open"]
  /\ cell' = [NoCell EXCEPT !.id = 1, !.stake = offer.stake, !.capacity = offer.capacity]
  /\ wallet' = [u \in Users |-> wallet[u] - offer.paid[u]]
  /\ spent' = [u \in Users |-> offer.paid[u] - offer.capacity \div 2]
  /\ UNCHANGED <<ask, winner, refunded, built, log>>

----------------------------------------------------------------------------
(* build_tx_challenge_channel and build_tx_close_channel read the live cell    *)
(* and build a transaction that spends it; by the time it is sent the other   *)
(* user may have spent the cell.                                             *)

Challenged == cell.size > 0

(* The deposit of the last challenge, which the output for its challenger     *)
(* repeats; the other user is the one who challenged last.                   *)
Refund == IF Challenged THEN cell.size * Byte ELSE 0

(* Slips: the deposit goes to the challenger; the check is dropped. *)
RefundsBuilder(u) == [Zero EXCEPT ![u] = Refund]
RefundsOf(u) == [Zero EXCEPT ![Other(u)] = Refund]
MayAlways(u) == TRUE
MayChallenge(u) == Challenged => cell.challenger # u

(* Slip: the new cell only keeps the old capacity. *)
SameCapacity(d) == cell.capacity
ChallengeCapacity(d) == cell.capacity + d * Byte

ChallengeCell(u, d) ==
  [cell EXCEPT !.id = @ + 1, !.capacity = ChallengeCapacity(d), !.size = d,
               !.count = IF Challenged THEN @ + 1 ELSE 1, !.challenger = u]

BuildChallenge(u, d) ==
  LET next == ChallengeCell(u, d)
      cost == Cost(Refund + next.capacity, Fee, cell.capacity) IN
  /\ cell.id > 0 /\ built[u] = None
  /\ MayChallenge(u)
  /\ Affords(u, cost)
  /\ built' = [built EXCEPT ![u] =
       [kind |-> "challenge", spends |-> cell.id, cost |-> cost, next |-> next,
        refunds |-> RefundsOf(u)]]
  /\ UNCHANGED <<ask, winner, offer, cell, wallet, refunded, log, spent>>

(* Stakes and bets are what the deposit of the last challenge leaves over. *)
ChannelCkb == cell.capacity - cell.size * Byte
BetCkb == ChannelCkb \div 2 - cell.stake
Deposit(u) == IF Challenged /\ cell.challenger = u THEN cell.size * Byte ELSE 0

(* Slips: the winner takes one bet only; the deposit is not given back. *)
OneBet(u) == cell.stake + (IF u = winner THEN BetCkb ELSE 0) + Deposit(u)
NoDeposit(u) == cell.stake + (IF u = winner THEN 2 * BetCkb ELSE 0)
Payout(u) == cell.stake + (IF u = winner THEN 2 * BetCkb ELSE 0) + Deposit(u)

BuildClose(u) ==
  LET cost == Cost(Payout(1) + Payout(2), Fee, cell.capacity) IN
  /\ cell.id > 0 /\ built[u] = None
  /\ ChannelCkb > 2 * cell.stake
  /\ Affords(u, cost)
  /\ built' = [built EXCEPT ![u] =
       [kind |-> "close", spends |-> cell.id, cost |-> cost, pays |-> [v \in Users |-> Payout(v)]]]
  /\ UNCHANGED <<ask, winner, offer, cell, wallet, refunded, log, spent>>

(* The chain takes a transaction whose input is live. *)
Live(u) == built[u] # None /\ built[u].spends = cell.id

Leaves(u, gains) == wallet' = [v \in Users |-> wallet[v] + gains[v] - (IF v = u THEN built[u].cost ELSE 0)]

CommitChallenge(u) ==
  /\ Live(u) /\ built[u].kind = "challenge" /\ Len(log) < MaxChallenges
  /\ cell' = built[u].next
  /\ refunded' = [v \in Users |-> refunded[v] + built[u].refunds[v]]
  /\ Leaves(u, Zero)
  /\ log' = Append(log, u)
  /\ spent' = [spent EXCEPT ![u] = @ + Fee]
  /\ built' = [built EXCEPT ![u] = None]
  /\ UNCHANGED <<ask, winner, offer>>

CommitClose(u) ==
  /\ Live(u) /\ built[u].kind = "close"
  /\ cell' = NoCell
  /\ Leaves(u, built[u].pays)
  /\ offer' = [offer EXCEPT !.step = "settled"]
  /\ spent' = [spent EXCEPT ![u] = @ + Fee]
  /\ built' = [built EXCEPT ![u] = None]
  /\ UNCHANGED <<ask, winner, refunded, log>>

Reject(u) ==
  /\ built[u] # None /\ ~Live(u)
  /\ built' = [built EXCEPT ![u] = None]
  /\ UNCHANGED <<ask, winner, offer, cell, wallet, refunded, log, spent>>

Next ==
  \/ Prepare \/ Complete \/ Open
  \/ \E u \in Users :
       \/ Sign(u) \/ BuildClose(u) \/ CommitChallenge(u) \/ CommitClose(u) \/ Reject(u)
       \/ \E d \in DataSizes : BuildChallenge(u, d)

Spec == Init /\ [][Next]_vars
==============================================================================
