------------------------- MODULE ChannelProperties -------------------------
(* What a kabletop channel has to get right.                                *)
EXTENDS Channel

(* Every variable stays in its range. Wallets do not go below zero: no         *)
(* transaction is sent that spends more than its builder has.                *)
Cells == [id : Nat, stake : Nat, capacity : Nat, size : Nat, count : Nat, challenger : 0..2]
Txs ==
  {None}
  \cup [kind : {"challenge"}, spends : Nat, cost : Int, next : Cells, refunds : [Users -> Nat]]
  \cup [kind : {"close"}, spends : Nat, cost : Int, pays : [Users -> Nat]]
TypeOK ==
  /\ ask \in [Users -> Asks]
  /\ winner \in Users
  /\ offer.step \in {"none", "prepared", "completed", "open", "settled"}
  /\ cell \in Cells
  /\ wallet \in [Users -> Nat]
  /\ refunded \in [Users -> Nat]
  /\ built \in [Users -> Txs]
  /\ log \in Seq(Users)
  /\ spent \in [Users -> Nat]

(* No channel is on the chain, or was, whose terms one of the users has not    *)
(* asked for: complete_channel_tx and sign_channel_tx compare them piece by   *)
(* piece (interact.rs:108-130, 164-178).                                     *)
Agreement ==
  offer.step \in {"open", "settled"} =>
    /\ ask[1].stake = ask[2].stake /\ ask[1].bet = ask[2].bet
    /\ ask[1].deck = ask[2].deck /\ ask[1].hashes = ask[2].hashes

(* Ckb is neither made nor lost: what users, refunds and the channel hold and   *)
(* the fees add up to what the users started with (tx_extends.rs:92-160).     *)
Accounted ==
  wallet[1] + wallet[2] + refunded[1] + refunded[2] + spent[1] + spent[2] + cell.capacity
    = 2 * Funds

(* However often the channel is challenged, both stakes and both bets are in    *)
(* the cell on top of the deposit for its data: the code adds the data's       *)
(* capacity each time (builder.rs:538-545), where the comment above it has     *)
(* the new cell as large as the old one (455-456).                           *)
StakesSafe ==
  cell.id > 0 => ChannelCkb >= 2 * (Half(ask[1]))

(* Challengers take turns and the cell counts them, although each challenge is  *)
(* built from a cell that may be spent before it is sent (builder.rs:484-508). *)
TurnsCounted ==
  /\ \A n \in 1..(Len(log) - 1) : log[n + 1] = Other(log[n])
  /\ cell.id > 0 => cell.count = Len(log)
  /\ cell.id > 0 /\ log # <<>> => cell.challenger = log[Len(log)]

(* A refund goes to the user who made the challenge it undoes, and is what      *)
(* that challenge put in (builder.rs:482-506).                               *)
RefundsDepositor ==
  [][\A u \in Users : refunded'[u] # refunded[u] =>
       /\ log # <<>> /\ log[Len(log)] = u
       /\ refunded'[u] = refunded[u] + cell.size * Byte]_vars

(* A settlement hands out the whole cell: its builder adds the fee and gets     *)
(* nothing of it (builder.rs:659-683).                                       *)
SettlesWhole ==
  \A u \in Users : Live(u) /\ built[u].kind = "close" => built[u].cost = Fee

(* The winner has won the bet, the loser has lost it, and nothing else has      *)
(* changed hands but fees.                                                   *)
Owned(u) == wallet[u] + refunded[u] + spent[u]
Fair ==
  offer.step = "settled" =>
    /\ Owned(winner) = Funds + ask[winner].bet
    /\ Owned(Other(winner)) = Funds - ask[winner].bet
(* This is so as long as the channel is challenged at most once.              *)
FairIfChallengedOnce == Len(log) <= 1 => Fair

(* "pay back the extra ckb to last challenger which is exactly equal to the     *)
(* SIZE of cell output_data" (builder.rs:482-483): what is paid back is the   *)
(* extra ckb of the cell, so that settlements are fair after any number of     *)
(* challenges.                                                               *)
FairSettlement == Fair
=============================================================================
