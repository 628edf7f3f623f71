------------------------------ MODULE Opening ------------------------------
(* The transaction that opens a channel, cell by cell: channel/interact.rs    *)
(* with the collection of nft and plain cells of helper/tx_extends.rs, page by *)
(* page as the indexer answers, and the signatures of wallet/signer.rs. Next   *)
(* to it the users transfer nfts as in NftStore, so that cells are spent while *)
(* they are collected, and while an offer is under way. Offers are passed to   *)
(* and fro, and may come late or never; a user whose offer leads to nothing   *)
(* prepares another, and both are then under way.                            *)
EXTENDS NftStore, SequencesExt

S == INSTANCE Signer

CONSTANTS
  Players,         \* the user who prepares and the user who completes
  Cards,           \* nft cells each user has at first, oldest first
  Asks,            \* what each user may ask of the channel
  OpenFee,         \* fee("0.05")
  ArgsBytes,       \* what the channel cell occupies without its nft lists
  CkbPage, NftPage,\* cells in a page of the indexer: 5 and 10
  MaxOffers        \* bound: how often an offer is prepared

Bag == [Nfts -> Nat]
Ask == [stake : Nat, bet : Nat, deck : Nat, hashes : Nat, nfts : Bag]

ASSUME OpeningAssumption ==
  /\ Players \in Seq(Users) /\ Len(Players) = 2 /\ Players[1] # Players[2]
  /\ Cards \in [Users -> Seq(Bag)]
  /\ Asks \in [Users -> SUBSET Ask]
  /\ OpenFee \in Nat /\ ArgsBytes \in Nat \ {0} /\ MaxOffers \in Nat
  /\ CkbPage \in Nat \ {0} /\ NftPage \in Nat \ {0}

VARIABLES
  ask,         \* what each user wants
  offers,      \* the transactions users pass to each other; history: their signers
  task,        \* the transaction each user is collecting cells for
  prepared,    \* how many offers were prepared
  opened       \* the transactions the chain has taken

openingVars == <<ask, offers, task, prepared, opened>>
allVars == <<vars, openingVars>>

Idle == [at |-> "idle"]

OpeningInit ==
  /\ live = UNION {{[Plain(u, Wallet[u][i]) EXCEPT !.id = i] : i \in DOMAIN Wallet[u]}
                     \cup {[NftCell(u, Exact(Count(Cards[u][i])), Cards[u][i]) EXCEPT !.id = -i]
                             : i \in DOMAIN Cards[u]} : u \in Users}
  /\ pool = {} /\ txs = 0
  /\ bought = [u \in Users |-> 0] /\ revealed = [u \in Users |-> 0]
  /\ ask \in {a \in [Users -> UNION {Asks[u] : u \in Users}] : \A u \in Users : a[u] \in Asks[u]}
  /\ offers = {} /\ prepared = 0 /\ opened = {}
  /\ task = [u \in Users |-> Idle]

----------------------------------------------------------------------------
(* Transactions: the channel's cell is the first output.                      *)

Half(a) == a.stake + a.bet
FitsDeck(a) == a.deck >= Count(a.nfts) % 256
OccupiedBy(args) == ArgsBytes + SumFunction([u \in Users |-> Count(args.nfts[u])])
ChannelCell(capacity) == [Plain(Players[1], capacity) EXCEPT !.kind = "channel"]

(* What some of the cells of a list hold, or all of them; which are a user's. *)
CkbAt(cells, at) == SumFunctionOnSet([i \in DOMAIN cells |-> cells[i].ckb], at)
NftsAt(cells, at) ==
  [n \in Nfts |-> SumFunctionOnSet([i \in DOMAIN cells |-> cells[i].nfts[n]], at)]
CkbOf(cells) == CkbAt(cells, DOMAIN cells)
NftsOf(cells) == NftsAt(cells, DOMAIN cells)
Owned(cells, u) == {i \in DOMAIN cells : cells[i].user = u /\ cells[i].kind # "channel"}
NftCells(cells, u) == {i \in DOMAIN cells : cells[i].user = u /\ cells[i].kind = "nft"}

Locks(tx) == [i \in DOMAIN tx.ins |-> tx.ins[i].user]
Hash(tx) == <<tx.ins, tx.outs, tx.args>>

----------------------------------------------------------------------------
(* prepare_channel_tx and complete_channel_tx: their checks, then the cells.  *)

Collect(u, tx, nfts) ==
  task' = [task EXCEPT ![u] = [at |-> "nfts", tx |-> tx, cursor |-> {}, missing |-> nfts]]

Prepare ==
  LET u == Players[1]
      a == ask[u]
      args == [stake |-> a.stake, deck |-> a.deck, hashes |-> a.hashes, begin |-> prepared,
               users |-> <<u>>, nfts |-> [v \in Users |-> IF v = u THEN a.nfts ELSE Empty]] IN
  /\ task[u] = Idle /\ prepared < MaxOffers
  /\ FitsDeck(a)
  /\ OccupiedBy(args) <= 2 * Half(a)
  /\ Collect(u, [args |-> args, ins |-> <<>>, outs |-> <<ChannelCell(Half(a))>>,
                 witnesses |-> <<>>, signers |-> {}], a.nfts)
  /\ prepared' = prepared + 1
  /\ UNCHANGED <<vars, ask, offers, opened>>

Joined(tx, u, nfts) ==
  LET args == [tx.args EXCEPT !.users = Append(@, u), !.nfts[u] = nfts]
      cell == [tx.outs[1] EXCEPT !.ckb = 2 * @] IN
  [tx EXCEPT !.args = args, !.outs[1] = cell]

Complete(tx) ==
  LET u == Players[2]
      a == ask[u] IN
  /\ task[u] = Idle
  /\ tx.args.stake = a.stake /\ tx.args.deck = a.deck /\ tx.args.hashes = a.hashes
  /\ FitsDeck(a)
  /\ tx.outs[1].ckb = Half(a)
  /\ Collect(u, Joined(tx, u, a.nfts), a.nfts)
  /\ offers' = offers \ {tx}
  /\ UNCHANGED <<vars, ask, prepared, opened>>

----------------------------------------------------------------------------
(* The cells of a user, typed or not, that the indexer answers with after     *)
(* those it has answered with before.                                        *)

Older(cells, c) == {d \in cells : d.id < c.id}
OldestFirst(cells) ==
  [i \in 1..Cardinality(cells) |-> CHOOSE c \in cells : Cardinality(Older(cells, c)) = i - 1]
Ahead(u, kinds, cursor) ==
  {c \in live : c.user = u /\ c.kind \in kinds /\ \A d \in cursor : d.id < c.id}
PageOf(cells, size) == SubSeq(OldestFirst(cells), 1, Min({size, Cardinality(cells)}))
Earlier(page, i) == {page[j] : j \in 1..(i - 1)}

\* Slip: the next page is the first one again.
SamePage(page) == {}
Cursor(page) == {Last(page)}

Less(a, b) == [n \in Nfts |-> Max({0, a[n] - b[n]})]

\* The error of a collection that does not suffice.
Fail(u) == task' = [task EXCEPT ![u] = Idle]

ReadNfts(u) ==
  LET t == task[u]
      page == PageOf(Ahead(u, {"nft"}, t.cursor), NftPage)
      needed(i) == \E n \in Nfts : page[i].nfts[n] > 0
                                     /\ Total(Earlier(page, i))[n] < t.missing[n]
      taken == OldestFirst({page[i] : i \in {j \in DOMAIN page : needed(j)}}) IN
  /\ t.at = "nfts" /\ t.missing # Empty
  /\ IF page = <<>> THEN Fail(u)
     ELSE task' = [task EXCEPT ![u].tx.ins = @ \o taken, ![u].cursor = Cursor(page),
                               ![u].missing = Less(@, NftsOf(page))]
  /\ UNCHANGED <<vars, ask, offers, prepared, opened>>

\* Slip: as if the nfts that were not asked for were discarded.
AskedFor(u, cells) == NftCell(u, CkbAt(cells, NftCells(cells, u)), ask[u].nfts)
Merged(u, cells) ==
  NftCell(u, CkbAt(cells, NftCells(cells, u)), NftsAt(cells, NftCells(cells, u)))

(* All nft cells become one; a cell without anything, if there were none.     *)
AddNfts(u) ==
  LET t == task[u] IN
  /\ t.at = "nfts" /\ t.missing = Empty
  /\ task' = [task EXCEPT ![u].at = "ckb", ![u].cursor = {},
                          ![u].tx.outs = Append(@, Merged(u, t.tx.ins))]
  /\ UNCHANGED <<vars, ask, offers, prepared, opened>>

Short(u, tx) == OpenFee + CkbOf(tx.outs) - CkbOf(tx.ins)

ReadCkb(u) ==
  LET t == task[u]
      page == PageOf(Ahead(u, {"plain", "nft"}, t.cursor), CkbPage)
      plain(cells) == {c \in cells : c.kind = "plain"}
      taken == {page[i] : i \in {j \in DOMAIN page :
                  Ckb(plain(Earlier(page, j))) < Short(u, t.tx)}} IN
  /\ t.at = "ckb" /\ Short(u, t.tx) > 0
  /\ IF page = <<>> THEN Fail(u)
     ELSE task' = [task EXCEPT ![u].tx.ins = @ \o OldestFirst(plain(taken)),
                               ![u].cursor = Cursor(page)]
  /\ UNCHANGED <<vars, ask, offers, prepared, opened>>

AddCkb(u) ==
  LET t == task[u]
      change == -Short(u, t.tx)
      outs == IF change > 0 THEN Append(t.tx.outs, Plain(u, change)) ELSE t.tx.outs IN
  /\ t.at = "ckb" /\ change >= 0
  /\ offers' = offers \cup {[t.tx EXCEPT !.outs = outs]}
  /\ task' = [task EXCEPT ![u] = Idle]
  /\ UNCHANGED <<vars, ask, prepared, opened>>

----------------------------------------------------------------------------
(* sign_channel_tx: the lists in the args are backed by nft cells among the    *)
(* outputs, whoever the other user is.                                       *)

Backed(tx) ==
  \A i \in DOMAIN tx.args.users : LET u == tx.args.users[i] IN
    \A n \in Nfts : tx.args.nfts[u][n] <= NftsAt(tx.outs, NftCells(tx.outs, u))[n]

SignTx(u, tx) ==
  LET a == ask[u] IN
  /\ tx.args.stake = a.stake /\ tx.args.deck = a.deck
  /\ u \in ToSet(tx.args.users) => tx.args.nfts[u] = a.nfts
  /\ tx.outs[1].ckb = 2 * Half(a)
  /\ Backed(tx)
  /\ offers' = (offers \ {tx}) \cup
       {[tx EXCEPT !.witnesses = S!sign(Locks(tx), Hash(tx), @, u, {u}, <<>>),
                   !.signers = @ \cup {u}]}
  /\ UNCHANGED <<vars, ask, task, prepared, opened>>

----------------------------------------------------------------------------
(* The chain                                                                 *)

Fresh(tx) == ToSet(tx.ins) \subseteq live
Occupies(tx, i) == IF i = 1 THEN OccupiedBy(tx.args) ELSE Exact(Bytes(tx.outs[i]))
PaysFor(tx, i) == Occupies(tx, i) <= tx.outs[i].ckb
Signed(tx, u) == S!Unlocks(Locks(tx), Hash(tx), tx.witnesses, u)
Accepts(tx) ==
  /\ IsInjective(tx.ins) /\ CkbOf(tx.outs) <= CkbOf(tx.ins)
  /\ \A i \in DOMAIN tx.outs : PaysFor(tx, i)
  /\ \A u \in ToSet(Locks(tx)) : Signed(tx, u)

(* An opening has more outputs than other transactions: ids go on by twice as  *)
(* much.                                                                     *)
Open(tx) ==
  /\ Fresh(tx) /\ Accepts(tx) /\ txs + 2 <= MaxTxs
  /\ live' = (live \ ToSet(tx.ins)) \cup Created(tx, <<>>)
  /\ txs' = txs + 2
  /\ opened' = opened \cup {tx}
  /\ offers' = offers \ {tx}
  /\ UNCHANGED <<pool, bought, revealed, ask, task, prepared>>

Ordinary ==
  /\ \/ \E u \in Users, v \in Users, w \in Wishes : Transfer(u, v, w)
     \/ \E tx \in pool : Commit(tx) \/ Refuse(tx)
  /\ UNCHANGED openingVars

OpeningNext ==
  \/ Prepare
  \/ \E tx \in offers : Complete(tx) \/ Open(tx) \/ \E u \in Users : SignTx(u, tx)
  \/ \E u \in Users : ReadNfts(u) \/ AddNfts(u) \/ ReadCkb(u) \/ AddCkb(u)
  \/ Ordinary

OpeningSpec == OpeningInit /\ [][OpeningNext]_allVars
=============================================================================
