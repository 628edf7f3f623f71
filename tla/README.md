# Verification of the kabletop ckb sdk

The sdk lets two players of the kabletop card game open a *channel* — a cell on the
Nervos CKB chain that holds both players' stakes and bets — play the game over a
websocket connection, and challenge or settle the channel on the chain. It also builds
the transactions of the nft store the cards come from. This directory holds TLA+
modules of its concurrent and stateful parts, TLC configurations that check them on
small instances, and TLAPS proofs of theorems about them for all instances. Paths below
are relative to `src/src/` unless they start with `src/`.

## 1. The system

| Component | Source | State it keeps | Operations |
|---|---|---|---|
| p2p server | `p2p/server.rs` | `CLIENTS`, `SERVER_CLIENTS`, `RESPONSE_RECEIVERS`, `HEARTBEATS`, `CALLBACK` (process-wide, each behind an `RwLock`), `STOP`, channels between threads | `listen` (a controller thread, a worker thread that accepts, a read and a write thread per client, a thread per request), `ServerClient::call`, `shutdown`, `set_id` |
| p2p client | `p2p/client.rs` | `SERVER`, `HEARTBEAT`, `CALLBACK` (process-wide), channels of each connection | `connect` (a write and a read thread, a thread per request), `ClientSender::call`, `shutdown` |
| p2p wire format | `p2p/mod.rs` | none | `Wrapper::Send` and `Wrapper::Reply` with a method name and a body, as json |
| channel opening | `ckb/transaction/channel/interact.rs` | the transaction the two users pass to and fro | `prepare_channel_tx`, `complete_channel_tx`, `sign_channel_tx` |
| rounds | `channel/interact.rs:225-294` | none; each user's game keeps the list of signed rounds | `check_channel_round`, `sign_channel_round`, `make_round` |
| challenge and settlement | `ckb/transaction/builder.rs:441-716` | the live channel cell on the chain | `build_tx_challenge_channel`, `build_tx_close_channel` |
| nft store | `ckb/transaction/builder.rs:27-438` | config, store, nft and plain cells on the chain | compose, issue, create, purchase, reveal, discard, transfer |
| transaction completion | `ckb/transaction/helper/tx_extends.rs` | none (reads the indexer) | complete with sighash cells, nft cells, cell deps |
| nft configuration | `helper/types.rs` | the composer's table of nfts and rates, as the bytes of a cell | `new`, `to_ckb_bytes`, `from`, `buy_package`, `rip_package` |
| helpers | `helper/utils.rs` | none | script and argument constructors |
| signer | `ckb/wallet/signer.rs` | none | group inputs by lock, sign each group |
| keystore | `ckb/wallet/keystore.rs` | keys from the configuration | lookups |
| rpc | `ckb/rpc/` | a connection to a node and an indexer | queries, `send_transaction` |
| genesis, configuration | `transaction/genesis.rs`, `config/` | read once at start | lookups |
| molecule types | `channel/protocol.rs`, `channel/convert.rs` | none; the args of a channel's lock, the data of its cell and the witnesses of a challenge are such bytes | `from_slice`, getters, `as_builder`, builders, conversions |

**How they interact.** Two users' processes talk through one websocket connection, one as
server and one as client; each calls methods registered by the other (`Wrapper::Send`)
and waits for a `Wrapper::Reply` that carries the *method's name* and no request number.
Over it they pass the opening transaction until both have signed it. From then on each
user builds transactions alone from what the indexer says is the live channel cell, and
sends them; the chain decides whose is first.

**What is hard.** In the p2p parts: up to a dozen threads over shared tables, each table
locked for as long as a statement lasts — or, by the lifetime of a temporary, for as
long as the body of an `if let` does; unwraps that panic when another thread has gone;
close handling that any of the threads may start. In the channel: state read before and
used after another user has changed it, capacity arithmetic over any number of
challenges, and terms checked piece by piece by two different functions. In its data:
bytes of another program, some of them verified before they are read and some not; a
chain of digests of which only the last is checked; two users who sign one transaction
in whichever order; cells collected page by page while they are spent. The list with
each place is `hazards` in `PROJECT.json`.

**What makes each correct.**

- *server*: the application hears of each client once and of its going at most once,
  afterwards; closing leaves no table entry behind; a call returns the reply to the
  request it sent; no thread unwraps a failure another thread caused; the limit of
  connections holds; hangups and shutdowns are eventually carried out; calls return.
- *client*: no thread gives up silently; calls return and threads end once the client is
  closed; a server is only taken for dead when its last pong is older than a period of pings,
  pongs undone by a ping, and the time spent waiting for a pong explain.
- *channel*: nobody is bound to terms they did not ask for; ckb is conserved; both stakes
  and bets stay in the cell through any number of challenges; challengers alternate and
  the refund goes to the right one; settlement moves the bet and nothing else.
- *opening, cell by cell*: what both have signed opens; a signature costs its signer what
  was agreed; no nft is lost on the way.
- *rounds*: the last signature stands for the whole list; nobody is held to a round they
  did not sign; two users hold one history.
- *data*: what is written is read back, by either user's program and one way only; what
  was verified is read without a panic.
- *nft store*: there is one config and each user has at most one store; every package
  paid for is revealed once or waits; purchases and reveals go by the config in force; ckb
  is conserved, and no nft is lost or made but as its owner asks; every nft of a table
  comes out of packages as often as its rate says.

## 2. The modules

| Module | Models | Notes |
|---|---|---|
| `ClientReports` | what `listen` promises its callback | abstract specification |
| `P2PServer` | `server.rs` after one call of `listen`, with the client's end as environment | implements `ClientReports` |
| `P2PServerProperties`, `MCP2PServer` | its properties; constants for TLC | |
| `P2PServer_proofs` | theorems about its threads, tables and calls | 6 theorems |
| `P2PClient` | `client.rs`, with the server's end as environment | several connections in turn |
| `P2PClientProperties`, `MCP2PClient` | its properties; constants for TLC | |
| `P2PClient_proofs` | theorems about it | 2 theorems |
| `Channel` | `interact.rs:47-222`, `builder.rs:466-716`, `tx_extends.rs:92-160` | two users and the chain |
| `ChannelProperties`, `MCChannel` | its properties; constants for TLC | |
| `Channel_proofs` | theorems about it | 8 theorems |
| `NftLedger` | who owns which nfts, whatever cells they lie in | abstract specification |
| `NftStore` | `builder.rs:27-438`, `tx_extends.rs:92-252`, `types.rs:10-70` | implements `NftLedger` |
| `NftStoreProperties`, `MCNftStore` | its properties; constants for TLC | |
| `NftStore_proofs` | theorems about it | 6 theorems |
| `NftConfig` | `types.rs`, as the config's bytes and what is computed from them | numbers of eight bytes overflow |
| `NftConfigProperties`, `MCNftConfig` | its properties; constants for TLC | |
| `NftConfig_proofs` | theorems about it | 3 theorems |
| `Molecule` | what the copies of generated code in `protocol.rs` have in common | no state |
| `ChannelTypes` | the message types of `protocol.rs`, the conversions of `convert.rs` | no state |
| `ChannelRecords` | what users see of a channel's data, as records | abstract specification |
| `ChannelData` | the same steps as `Channel`, on bytes, with slices of other programs | implements `ChannelRecords` |
| `ChannelDataProperties`, `MCChannelData` | its properties; constants for TLC | |
| `ChannelData_proofs` | theorems about it, about the layouts and the types | 9 theorems |
| `ChannelRounds` | `interact.rs:225-294`, with the game as environment | |
| `ChannelRoundsProperties`, `MCChannelRounds` | its properties; constants for TLC | |
| `ChannelRounds_proofs` | theorems about it | 3 theorems |
| `Signer` | `signer.rs`, and how the lock script checks what it leaves | no state |
| `Opening` | `interact.rs:47-222`, `tx_extends.rs`, over cells and pages, next to `NftStore`'s transfers | uses `NftStore`, `Signer` |
| `OpeningProperties`, `MCOpening` | its properties; constants for TLC | |
| `Opening_proofs` | theorems about it and about `Signer` | 6 theorems |

Some modules define, right before an operator, an alternative marked *slip*: the same
operator with a plausible mistake. Nothing uses the slips; replacing the operator by its
slip makes the property that `mutants` of `PROJECT.json` names fail, which shows that
the property depends on that line of the code.

### P2PServer

One variable per table (`clients`, `heartbeats`, `serverClients`, `receivers`), one
program counter per thread (`pc[role][connection]` for the read, write and request
threads; `controller`, `worker`, `caller[k]` for the others), and one per queue.

- *Atomicity.* An action is what a thread does between two lock operations on shared
  tables. `close_client` is five actions (`CloseClients` … `CloseReceivers`) since it
  takes four locks in turn and runs the callback in between.
- *Locks held across steps* are modelled where the code holds them: `ReadLocked` is the
  guard `Caller::call` keeps on `RESPONSE_RECEIVERS` while it waits for the reply
  (326-338); `beatGuard` is the guard the `if let` of line 269 keeps on `HEARTBEATS`
  while its body calls `close_client`.
- *Panics.* `unwrap` and `expect` on what can fail are actions (`ControllerPanics`,
  `ReaderPanics`, `WorkerPanics`, `LockPanics`), and a panic poisons the locks it holds
  (`poisoned`).
- *The other end* (`Peer*`) pings, asks, answers, hangs up, is lost with what it had sent
  cut off anywhere, or sends a frame the server panics on. `Events` says which of these
  may happen in a run.
- `ups`, `downs` and `answers` are history variables.

### P2PClient

The same shape, for `connect` called again and again. `server` is the static `SERVER`,
which belongs to the process and not to a connection: each thread works on whichever
connection it finds there. `close_server` is three actions, since it looks at
`SERVER` under one lock (42), runs the callback, and clears it under another (45).
`update_heartbeat` is two, since it reads both times under one lock (65) and writes them
under another; `times` is what a thread has read, the time of a pong being taken when it is
received (193). Ages are counted in sleeps of a write thread (150), up to the point where
they make no more difference. A sleep ends at any time, whatever the other threads
and the server are doing; the read thread's own sleep (211) is its delay, so frames pile up
in front of a pong for as long as one likes. `events` says what may happen and
is chosen at the start among `Environments`, so that one run has several. `lost` and `waited` are
history variables: how many pongs in a row a ping's update has undone, and how many sleeps
have ended, since the last pong came, with another `Outstanding` (asked for by a ping,
and not yet in HEARTBEAT).

### Channel

`offer` is the transaction users pass to each other, `cell` the live cell with the
channel's lock, `wallet[u]` the ckb in the user's own cells, `refunded[u]` the ckb in the
outputs that pay back a challenge's deposit. Those are kept apart because their lock is
made with another hash type than wallets use (builder.rs:498 as against 692).

- `Prepare`, `Complete`, `Sign` follow `interact.rs`; `Cost` and `Affords` are what
  `complete_tx_with_sighash_cells` charges the builder; `Open` is the chain.
- `BuildChallenge` and `BuildClose` read the live cell and leave a transaction in
  `built[u]`; the chain takes it (`CommitChallenge`, `CommitClose`) only if its input is
  still live, and otherwise refuses it (`Reject`).
- The winner is what the lock script makes of the rounds, and any outcome is possible.

### NftStore

`live` is the set of live cells, each a record of its kind, owner, ckb and what its data
holds; a smaller `id` is an older cell, and the indexer answers with the oldest first.

- Each of the seven builders is an action that reads `live` and puts a transaction into
  `pool`; all of them end in `Build`, which is `complete_tx_with_sighash_cells`. `Holding`
  and `Back` are what `complete_tx_with_nft_cells` collects and gives back.
- `Commit` is the chain: it takes a transaction while its inputs *and deps* are live and
  each output pays for the bytes it occupies; otherwise it may `Refuse` it. Two things the
  code relies on without saying so are in the model and make the properties hold: a
  transaction that spends the config, or names it as a dep, is void once the config is
  replaced; and two transactions built by the same key at the same time share its oldest
  plain cell, so that two first configs, or two first stores, cannot both be made.
- `bought` and `revealed` are history variables. A seed is the lottery bytes of the block
  a purchase is taken in.

### NftConfig

The composer's cell as bytes (`cell`), a user's store, and the nft cell a reveal makes
(`opened`), as bytes too. `Compose`, `Purchase` and `Reveal` are the lines of the builders
that go through `NFTConfig`; what they read is what `FromBytes` makes of the cell, while
`composed` keeps what was meant. `Blake2b` is a parameter, any function of bytes to
hashes. `Wrapped` is what a release build makes of a number beyond u64 (a debug build
panics, and nothing happens).

### Molecule, ChannelTypes, ChannelData

`protocol.rs` is generated: the same verification, getters and builder are written out
for each of its types. `Molecule` has them once per *layout* (array, vector of items of
one size, vector of items of any size, table) and `ChannelTypes` once per *type*, so that
each type says which layout its parts have and which fields it has, in which order.

- Slices are sequences of bytes, and reading past the end, which panics in the code, is a
  predicate (`FieldInBounds`, `FixvecInBounds`, `HasNumber`). A getter does not verify
  anything: `Field` is what the code returns of any slice, and the order of the checks of
  `complete_channel_tx` and `sign_channel_tx` is kept, since an unverified slice may be
  refused before the field that panics is read (`CompleteOutcomes`, `SignOutcomes`).
- `ChannelData` takes the steps of `Channel` on those bytes, without ckb and without
  stale reads: the chain takes a transaction at once. `ForeignOffer` and
  `ForeignChallenge` are another program, which may put any slice in place of its own.
- `ChannelRecords` is the abstract specification: the offer, the channel's terms and the
  challenge are records of numbers and lists. The refinement mapping reads the bytes with
  `from_slice` and the getters (`ArgsIn`, `ChallengeIn`, `RoundsIn`).

### ChannelRounds

Two users hold a list of signed rounds of each of their channels. `Digest`,
`check_channel_round`, `sign_channel_round` and `make_round` are the code's; who sends
what to whom is the game's, which is not in the repository, and marked external: a user
makes a round (`Make`), the other signs it over its own list (`SignRound`), the first
takes the signature if it checks (`Accept`). Messages stay in `messages`, so they are
delayed, repeated and taken for another channel's. A user may lose everything (`Crash`)
and then imports a list the other sent (`Export`, `Import`), which may have been altered.
Digests are tuples of what was hashed, and signatures are key and digest: hashes have no
collisions and nobody forges a signature.

### Signer and Opening

`Signer` is `sign` and `sign_input`, over the locks of the inputs, the witnesses and a hash
of the transaction; `Unlocks` is what the lock script of ckb recomputes. `Opening` is the
opening transaction over cells: `offers` are the transactions users pass to and fro,
`task[u]` is the collection a user is in the middle of. `ReadNfts` and `ReadCkb` are one
answer of the indexer each, between which the chain goes on (`Ordinary` is `NftStore`'s
`Transfer`, `Commit` and `Refuse`); the cursor is the last cell of the page. `SignTx` is
`sign_channel_tx`, and may be taken by any user at any time: offers may be signed and
then completed, signed twice, or signed by a user who has no part in them (the code asks
for no more than equal terms). `Open` is the chain, which checks inputs, capacities and signatures.

## 3. The runs

All runs turn the deadlock check off: a bounded run legitimately stops when the
connections and calls it may make are used up, and threads do end.

| Run | Question | Instance |
|---|---|---|
| `P2PServerCalls` | `TypeOK`, `ClosedLeavesNothing`, `OwnReply`, `ReplyHasReceiver`, `ConnectionLimit`; does the server implement `ClientReports` (`ReportsKept`)? | 2 connections under a limit of 1; 2 callers, a method each, 2 calls each; pings, hangups, losses, bad frames, late answers |
| `P2PServerLive` | `HangupReported`, `CallReturns` under fairness | 2 connections, a caller for each, one call each; hangups |
| `P2PServerShutdown` | `ShutdownCloses` under fairness | 1 connection, a call each way, hangup, shutdown and failed handshakes |
| `P2PServerHeartbeat` | *violated*: is a silent client removed? | 1 connection |
| `P2PClient` | `ToldWhenClosed`, `PongAgeExplained`; `CallEnds`, `ThreadsEnd` under fairness | 1 connection, 1 call, 1 request thread; a ping at each sleep, dead after 2; hangup, loss and shutdown with a call and time, with a call and a request, and time with a request alone |
| `Channel` | `TypeOK`, `Agreement`, `Accounted`, `StakesSafe`, `TurnsCounted`, `SettlesWhole`, `FairIfChallengedOnce`, `RefundsDepositor` | 7 × 7 wishes, up to 3 challenges of 2 sizes |
| `ChannelSettlement` | *violated*: is the settlement fair after two challenges? | 2 challenges |
| `ChannelData` | `TypeOK`, `ReadsInBounds`, `Canonical`, `CountTellsTurn`; do the bytes implement `ChannelRecords`? | bytes of 4 values; 2 terms, 2 users' hashes, lists of 0 and 2 nfts, 1 and 4 rounds; any number of challenges; one foreign slice |
| `ChannelRounds` | `RoundsVerify`, `SignedAsHeld`, `SameHistory` | 2 channels of 3 and 2 rounds, 2 operations; 1 crash, 2 exports |
| `Opening` | `SignedOpens`, `SignsOwnShare`, `NftsStay` | 2 users, 2 plain and 1 or 2 nft cells each, pages of 2 and 1 cells; 2 offers, 1 ordinary transaction waiting |
| `NftStore` | `OneOfEach`, `PackagesAccounted`, `CkbAccounted`, `ConfigInForce`; does the store implement `NftLedger` (`NftsKept`)? | a composer, a user with ckb and one without; 3 configs (one not valid), 2 nfts; 2 transactions waiting, 5 taken |
| `NftConfig` | `ConfigKept`, `ShareOfLotteries`, `OpensByLottery` | bytes of 4 values, hashes of 2 bytes; every ascending table of 1 to 3 items; up to 9 nfts at once; 2 purchases |

**Why the bounds are enough.** *Server*: two connections are needed for a close to race
with an accept and for the limit to matter; two callers with two calls each for a late
reply of an earlier call and for another caller's; a connection has all of its threads in
every run. With two connections a call to one client can deadlock with its read thread while
the worker is registering the other client, and a message to a client that is just
leaving can panic the controller while the other client's call waits: `HangupReported` and
`CallReturns` fail in `P2PServerLive` without the exceptions that name these cases. That
the worker waits for a call which a panicked controller will not forward takes a third
connection; that exception is not reached. `ShutdownCloses` has one connection, since a shutdown
of two with all that may interfere is too large for TLC. *Client*: a write thread that pings at each
sleep and gives up after the second leaves room for several pings, for pongs undone by them and
for a pong that waits unread. Time passes with a call and all ways to
end, or with a request thread, whose close may interfere with any step of the others.
*Channel*: three challenges are one more than the two that make the
deposits of different users overlap; the wishes differ pairwise in each
field, and two of them have the same sum of stake and bet; the wallets are large enough
to open and small enough that a refund or a challenge may not be affordable; a
transaction may be built at any time and sent after any number of others. *Nft store*:
five transactions take a user from a composed config through store, purchase and reveal to
a transfer, a discard or the next purchase, or let the config be replaced between a
purchase and its reveal; two waiting transactions race. The plain cells are chosen so that
one does and does not suffice, and that change may be too small for a cell; the second user
has no ckb, so it owns nfts and sends none (a transfer needs a fee). *Channel data*: with four values to a byte, four rounds and the fourth challenge
wrap their count as 256 would, and a header's numbers need two of their four bytes. Foreign
slices differ from good ones in pairs of header bytes or in length, since what may go
wrong is in how two offsets compare, and one has a field more. One foreign slice is enough: a
step reads one offer, or one cell. *Rounds*: three rounds are the first that have
a digest of a digest; two channels have a signature or a list reach the wrong one; one
user's crash makes it depend on what the other sends. *Opening*: each user needs more
than one cell, in more than one page; one user's nfts lie in two cells and it wants one of
each; the second user may want none, one or both of its nfts, or another bet than the first one,
so that it does not complete the offer; the channel's list
may then occupy more than the channel has. *Nft config*: nine nfts take
five hashes; one price times three leaves eight bytes. The theorems of section
4 do not depend on bounds.

**Fairness.** Only in the runs of liveness properties. Each thread that can take a step
takes one eventually (`WF` of its actions): the loops of the code sleep and come back,
and the operating system schedules threads. The other end answers a request, a ping and a
close, which is what the sdk's own other half does; it need not connect, call, ping
or hang up. No property needs strong fairness, and `HangupReported`, `CallReturns`, `CallEnds`,
`ThreadsEnd` and `ShutdownCloses` name the cases in which the code really does wait on.
`HangupReported` and `CallReturns` are stated as `[]<>` of what is to come: a client that is gone
stays gone, and a caller that is idle needs nothing, so it is the same as leads-to.

## 4. What is proved

TLAPS checks these for *every* value of the constants that the assumptions the modules
name allow. They are types (`ServerAssumption`, `ClientAssumption`, `ChannelAssumption`,
`BaseAssumption`, `SizesAssumption`, `ConfigAssumption`, `RoundsAssumption`; `StoreAssumption`
adds that there are finitely many users and nfts), and for the opening and the channel's data what the text
below names (`DataAssumption`, `LengthAssumption`, `NoneAssumption`).

**Server** (`P2PServer_proofs`; any number of connections, callers,
requests, methods and calls). All its safety properties are proved.

- `TypeCorrect`: `Spec => []TypeOK`. `TypeOK` is not inductive: `CallReturn` would
  number an idle caller's call beyond `MaxCalls`, and the worker would use an id it had
  not assigned. The invariant adds `CallsCounted` and `IdAssigned`.
- `ReportsCorrect`: the server implements `ClientReports`. The invariant
  (`ReportInv`) ties what has been reported of a client to its entry in `CLIENTS` and to
  where the worker and the client's threads are: at most one thread is between
  the insert of `None` that returned a writer (56) and the callback (58), because the
  insert that finds the writer is atomic.

- `LimitCorrect`: the table is never larger than `max_connection`. The worker's check (168)
  and its insert (185) are far apart, but between them only the worker adds clients and
  nothing leaves the table, so a place found free stays free (`LimitInv`).
- `LeavesNothing`: when the threads of a connection have returned nothing of it is left and
  its end is reported. `LeftInv`: as long as a closed client has an entry left in
  a table, some thread stands at a step from which it will remove it, or has panicked;
  the read thread that enters the heartbeat again (66) is at one, since its pong will be
  refused. A thread that starts for a request cannot be one that was on its way: a request
  not read yet has no thread (`OnceInWire`).
- `OwnReplyCorrect`: a call returns the reply to what it sent, or to a caller that shares its
  method and client. A call on its way is in one of five places, and there once
  (`FlightInv`), so a reply that is received is gone, and what an unshared caller waits
  for is all that is on its way for it (`OwnInv`).
- `ReceiversCorrect`: the read thread never panics on a reply whose receivers are gone.
  Callers that share may get each other's replies, so a caller can be idle while its
  call is still on its way; but each call on its way can be matched with a caller of its own that
  waits (`AwaitInv`, a function that the proof corrects when a reply goes to another). Since a
  waiting caller keeps the table locked (326-338), receivers are only removed when no
  call is on its way.

**Client** (`P2PClient_proofs`; any number of connections one after another, calls and
requests). `ToldCorrect`: no thread of the first connection ends before the application has been
told, however many connections follow and whatever their threads do to the statics.
The invariant (`TellInv`) says that threads only run once a callback is set (112, before
they are spawned), that SERVER is only empty once it has been told, and that a thread that
is about to clear it, having found it cleared, is too late to be the first. Of later connections
it says nothing, and there would be nothing true to say: threads of the first may clear their
SERVER before theirs has looked.

`PongAgeCorrect`: `Spec => []PongAgeExplained`, for any ping and pong times and any delays of
threads, frames and server. HEARTBEAT is read and written under two locks (64-73), so a pong that
comes between them is undone, and the question is what else can make the pong on record old. The
invariant (`BeatInv`) joins three parts, while the server is there: `Held`, the pong that the
read thread is about to store is no older than the sleeps during which it was waiting; `Timing`, at
each step of the write thread the age on record, and the age in its own copy of HEARTBEAT, is
within its bound (`OnTime` has a disjunct for each), where it grows by more than `waited`
only in the sleeps before a ping is sent; and `Threads`, the write thread alone can close.
A pong that is undone is counted before the age it should have reset is
read again. The theorem assumes `NumConns = 1`, a client that connects once: times are
counted in sleeps of its write thread, and after a reconnect that of the old connection may go on
(hazard at client.rs:113), so that two sleep at once and their count is no measure of time.

**Channel** (`Channel_proofs`; any wishes, wallets, fees, data sizes, any number of
challenges). One invariant, `ChannelInv`, carries all of it:

- `OfferInv`: what the offer's capacity and payments are at each step of opening;
- `WaitInv`: nothing has happened on the chain before the channel opens;
- `CellInv`: the live cell's id, count and challenger say how often and by whom it was
  challenged, and its capacity covers stakes, bets and the last deposit;
- `TakesTurns`: challengers alternate;
- `BuiltInv`: a built transaction spends a cell not newer than the live one, and *if it
  spends the live one* (ids are never used twice) everything in it was computed from the
  live cell. This is what makes stale reads harmless, and why the properties survive them;
- `Accounted`.

From it follow `TypeCorrect` (no transaction that is sent overdraws a wallet),
`AccountedCorrect`, `StakesCorrect`, `TurnsCorrect` and the action property
`RefundsCorrect`. `AgreementCorrect` adds `AgreeInv` (which terms of whose wish the offer
carries after which step) and `SettlesWholeCorrect` adds `EvenInv` (capacities are even,
so halving the channel loses nothing). `FairCorrect` rests on all of them: with at most one
challenge the capacity is known to the shannon until the settlement (`OnceInv`).
The one assumption beyond types is that `Byte`, the capacity of a byte of data, is even
and positive (it is 10^8 shannons), and that a challenge's data is not empty.

**Rounds** (`ChannelRounds_proofs`; any channels, operations, number of rounds, restarts and
imports). `RoundsInv` holds of all steps:

- `SignedOnce`, `AllGenuine`: every signature in a list, and in a list on its way, is under
  that round and *this very list before it*, by the user who had to sign. A user signs, or
  takes a signature, only after checking the last one; that this covers the rest is
  the chain of digests, which says the whole list (`DigestInjective`: a digest of a list
  cannot be one of another list, by induction over its length). An altered list that is
  imported has the same last signature, hence the same digest, hence is the list that
  was sent (`ImportSame`).
- `OwnPending`: a signature is awaited under a round of one's own only.
- `NothingLost`, `Together`: until a user loses a list, all it signed is in its list, a round on
  its way is at most one ahead, and the two lists differ by that round.

From it follow `HeldAsSigned`, `RoundsVerifyCorrect` and `SameHistoryCorrect`: all properties
of the rounds. Hashes are tuples here, so that they have no collisions.

**Nft store** (`NftStore_proofs`; any users, nfts, configs, prices, cells, transactions
waiting). `StoreInvCorrect` is the inductive invariant `StoreInv`:

- `CellsOK`: what live cells hold; a store that waits for a reveal has a seed;
- `Sole`: one config and one store of each user. A transaction that makes one spends the one
  there is; if there is none it spends the builder's *oldest plain cell* (`Replaces`), so of
  two first stores built at once the chain takes one. This is why `complete_tx_with_sighash_cells`
  must collect in one order for `OneOfEach` to hold;
- of every transaction waiting: it gives the ckb it takes less the fee (`Paying`), packages
  are paid for, revealed or kept (`Packed`), a store is replaced as the config among its deps
  says (`Priced`), and nfts move as in one step of `NftLedger` (`Moved`). These speak of the
  transaction's own cells only, so no later step on the chain disturbs them.

`CkbAccountedCorrect`, `PackagesAccountedCorrect`, `OneOfEachCorrect`, the action property
`ConfigInForceCorrect` and the refinement `NftsKeptCorrect` follow from what the chain's
`Commit` does to sums over the live cells. The sums are folds; `SumIterates` shows, by
induction over the size of a set, that the fold exists, and `SumRemove`, `SumUnion`,
`SumImage` that its order does not matter.

**Channel data** (`ChannelData_proofs`; slices of any length, bytes of any even number of values,
arrays of any size, any terms, lists, rounds and operations)

- `VerifiedParts`: verification compares each offset with the next one only, and the last one
  with the length. Taking the slice apart never leaves it all the same: take the last offset
  beyond the slice's end (`LastOf`). Its part would end at an offset that is not beyond, so it
  would be cut backwards, which verification refuses; or it is the last one, and its part ends
  at the slice's length.
- `VerifiedFields`: the getters, which verify nothing, read a verified table within its
  slice, and return the parts that were verified. `ArgsAreSafe` and `ChallengesAreSafe` are
  that of the two tables a program reads of others.
- Each layout and each type round-trips both ways: what is built is verified and read back
  as it was meant (`DynvecWritten`, `ArgsWritten`, ...), and what is verified is what would
  be built of its parts (`DynvecRewritten`, `ArgsRewritten`, ...). The first needs
  that the bytes of a length are its digits, the second that they are the only ones. From the second
  follows `CanonicalCorrect`: nobody finds two lock args of the same terms.
- `DataInv`, the inductive invariant, is `TypeOK`, `ReadsInBounds`, and three facts: an
  offer may be completed again without growing beyond what a header's numbers hold
  (`Fitting`); while no other program wrote anything, an offer is verified; and a challenge is
  verified and its count says who made it (`Turns`, which the count's wrap at an even number
  keeps). `TypeCorrect`, `ReadsInBoundsCorrect` and `CountTellsTurnCorrect` are its parts.
- `RecordsCorrect`: `Spec => RecordsImplemented`. Each step maps to the step of
  `ChannelRecords` of its name, by the round trips; a foreign slice maps to `Unreadable`, or to the
  record it happens to be.

What is assumed beyond types: a byte has an even number of values, and 2 is one of
them; what the users write fits into a header's four-byte length (`LengthAssumption`: 4 GiB
in the code, more than a transaction may have); and no record is one of the two values
that stand for none (`NoneAssumption`).

**Signer** (`Opening_proofs`; any inputs, any witnesses). `SignUnlocks`: what `sign` leaves opens every
input of the signer's lock, whatever was there before. `SignKeeps`: what opened the inputs
of another lock still does, so the order of the two signatures does not matter. Both rest
on a group's first input being one and the same for the signer and the lock script.

**Opening** (`Opening_proofs`; any users, cells, nfts, asks, page sizes, offers under way, and
transfers of the store between any two steps). All its properties are proved.
`OpeningInvCorrect` is the inductive invariant `OpeningInv`, which adds to `NftStore`'s
invariant (`Core`, whose lemmas are used again):

- `LiveOK`: what is on the chain. No two cells of a user have the same age (`Ordinals`), so the
  indexer's order is one order (`InOrder`) and a page is its beginning (`PageIs`); an nft cell
  pays for its nfts, so cells merged pay for what they held together (`MergedPays`).
- `Collecting`, of a collection a user is in the middle of: the inputs are distinct because
  those of the user are all *behind the cursor* (`Behind`, `Sought`), and the next page is
  ahead of it, though cells are spent and made between two pages. That is why a cell is not
  taken twice; a cell that was spent meanwhile makes the transaction void and no worse.
- `Formed`, of a collection and of an offer: it is of the first user alone or of both
  (`Alone`, `Joint`), its first output is the channel's cell and the only one; a cell that does not
  pay for itself (`Funded`) is change, or is of a user who has no nft among the inputs (`Void`).
- `Balanced`: each user's nfts among inputs and outputs are the same. It holds of a
  collection for all users but the one collecting, and for that one once the nfts are merged.
- `PaidBy`, `PaidUp`: the first user pays stake, bet and fee, and all inputs pay for all outputs
  and the fee. That the second user pays stake and bet is the difference (`TwoPays`).
- `SignedOK`: what a user checked when signing, and that its signature is good. Signing and
  completing are the only steps that touch an offer; `SignKeeps` is needed for the one, and the
  other makes a new transaction without signers.

From it follow `SignedOpensCorrect` (that a user without nfts among the inputs is one whose
list is empty comes from `Backed`, the check of `sign_channel_tx`), `SignsOwnShareCorrect`, and
with the sums over live cells of `NftStore_proofs` the action property `NftsStayCorrect`. The
one assumption beyond types is that a channel's cell occupies some bytes
(`OpeningAssumption`): without it a channel with neither stake nor bet could be opened, whose
capacity does not tell whether the second user has completed it.

**Nft config** (`NftConfig_proofs`; bytes of any range, nfts and hashes of any size, tables of any
length). All its properties are proved.

- `ShareCorrect`: `Spec => []ShareOfLotteries`. The
  invariant is that the table is ascending (`Composable`); `Ordered` shows that comparing
  neighbours orders the whole table (the first item below an earlier one would be below its
  neighbour), `ExpectInShare` that an item takes the lotteries of its share and no others.
- `ConfigKeptCorrect`: what is read of the cell is what was composed. `PriceKept`: what is left
  of a number after k of its bytes is below the power of the bytes that follow, so nothing is
  left after the eighth, and reading back from there gives each remainder again.
  `TableWritten`: items of one width lie in rows (`FlattenEqual`), so the i-th is found where
  the reader counts (`ConfigRead`), and the count is the whole quotient (`Divided`).
- `OpensCorrect`: `Spec => OpensByLottery`, an action property. `Chain` is all that is hashed, hash
  by hash, and only grows at its end (`ChainGrows`). A reveal stops as soon as it has
  lotteries enough, so it has some link of the chain (`LotteriesAre`); its i-th byte is that of
  the first link that has one (`LotteryIs`), whatever the count of packages. With `ExpectInShare` each nft
  is drawn by a lottery of its share (`DrawnIs`, `RipIs`), and of fewer packages by the same
  ones (`RipPrefix`). The invariant is `ConfigInv`: the cell reads as a valid config, and a store with
  packages has a block's hash. The theorem assumes `Hashing`, that `Blake2b` makes a hash of
  any bytes; it is a hypothesis and no `ASSUME`, since TLC cannot evaluate it (the function's
  domain is infinite). That it is hard to invert or to collide is not used.

**Model-checked only.** Liveness, of the server and the client, which is beyond the prover. Every
invariant, action property and refinement that a passing run checks is a theorem.

**Induction over data.** The library states induction with an operator as a parameter, which the
installed provers cannot instantiate. The proofs state it with a *set* in place of the predicate
(`Induct`: a set that has 0 and the successor of each of its numbers has every number) and
put the predicate into the set. Recursive functions are first shown to exist
(`Recursion`, `ChainExists`, `SumIterates`), since a function defined by recursion is a choice of
one that satisfies its equation.

## 5. What the checks found

Two runs violate what a comment of the code states; each is a finding of `PROJECT.json`
with its place.

1. *Settlement after two challenges* (`ChannelSettlement`). A challenge adds its data's
   capacity to the cell's whole capacity (builder.rs:543) while the refund of the last
   deposit comes out of the challenger's own cells (501-506), so deposits pile up
   in the cell; the settlement subtracts one of them (659-663) and shares the rest as
   bets. With at most one challenge settlements are fair (`FairIfChallengedOnce`), and
   stakes and bets are never short (`StakesSafe`); both are proved. The comment at
   builder.rs:455-456 has the challenge cell's capacity "(same as channel_cell)", which is not what
   538-545 do; written as the comment says, a second challenge would leave stakes and bets short
   (it is the slip of `StakesSafe`), so here the comment is wrong and the code is right.
2. *A silent client deadlocks the server* (`P2PServerHeartbeat`, server.rs:269): the
   thread that finds it waits for the write lock of the table it is reading.
   `NotAliveRemoved` starts from the thread that has found the client late and holds the table, so
   no ping that is handled before it has looked makes a difference.

What was met while modelling and has no run:

- a rate is one byte in a config's data (types.rs:78), where the comment at builder.rs:37
  documents two; writer and reader of the sdk agree (`ConfigKept`), a program written from
  the comment would not;
- the price of packages (types.rs:41) is an unchecked product: beyond u64 it wraps in a release
  build (`Wrapped`) and panics in a debug build;
- SERVER, CALLBACK and HEARTBEAT are shared by all connections of a client's process: after a
  reconnect (client.rs:113) the threads of the old connection find the new one in SERVER and
  close it (45). `P2PClient` has this with two connections; the runs have one, since
  nothing says when an application may connect again;
- accepting a connection waits for a call that waits for its reply (server.rs:326, 183). If that
  call is itself in a deadlock with its client's read thread (62), which can be another
  client's, the new one stays half registered and its hangup is never reported:
  `HangupReported` excepts it;
- a send to a client that is just leaving panics the controller (139), and no call to any client is
  forwarded from then on: `CallReturns` and `ShutdownCloses` except it, and
  `HangupReported` for a client whose registration waits for such a call or when
  the panic has poisoned CLIENTS (143-152);
- clients that have gone stay in CLIENTS as `None` (server.rs:56) and count for `max_connection`
  (168): a server with a limit refuses every connection once that many have ever come.
  `ConnectionLimit` is about the upper bound and holds;
- a channel opened without a bet cannot be closed (builder.rs:665 refuses it);
- packages are revealed by the config of the time of the reveal, which need not be the one
  they were bought under (305);
- a transaction both users signed may still not open, for the reasons `SignedOpens` excepts:
  change below what a cell occupies, a user without nfts, a second list that makes the
  channel's cell too large;
- an offer of another program can make the reader panic (interact.rs:106, 157), since offers
  are not verified;
- an empty list of rounds checks for anyone (interact.rs:254), so that a restarted user can be
  given one.

## 6. What is not modelled, and why

- *Server*: `register` and `register_call` run before `listen` and are constants; a
  second `listen` in one process would run a second set of threads over the same tables
  (hazard at server.rs:42). A call of a method that is not registered returns before it
  changes anything. Json text, logging, and the callback's own work are left out.
- *Client*: likewise registration and json. The bounds are that a queue holds at most one
  shutdown, that one pong is unread at a time and answers all pings so far, and that ages are not
  counted beyond what makes a difference. A reconnect is in the
  model and in no run (section 5).
- *Channel*: in `Channel` wallets are amounts and not cells, and nobody else spends from
  them; `Opening` has the cells, up to the channel's opening. What witnesses a challenge
  carries besides its rounds is left to the lock script, which is external.
- *Channel data*: the readers (`...Reader`), which repeat the getters over borrowed
  slices, `Display`, and `from_compatible_slice`, which nothing calls; arrays are two or
  three bytes long where the code's have 20, 32 or 65: their copies differ in nothing else.
  The hash of rounds is a parameter, so what is hashed is in `ChannelRounds`.
- *Opening*: header deps and the cell deps of contracts; a user who cheats in the offer (the
  other user is this program, the data of another is in `ChannelData`).
- *Nft store*: pages of the indexer's answers (collected as one; `Opening` has pages);
  contracts, whose code is not in this repository, as no more than the chain's own rules:
  a transaction the scripts would refuse as well is taken here, so what holds does not
  depend on them; discarding or sending no nfts at all; `discard = false` (in `Opening`).
- *Wallet keystore, rpc types, genesis, configuration, utilities*: constants, pure I/O,
  start-up reads, or functions without state; of the rpc methods only what cells a
  query answers is modelled, and the totals `get_total_capacity` and `get_live_nfts` are
  for display.

## 7. Plan

Done: the server, the client, the channel from opening to settlement as amounts, as cells
and as bytes, its rounds, the signer, the nft store and its config; proofs of all safety
properties that the runs check; the refinements
of `ClientReports`, `NftLedger` and `ChannelRecords`. Left, in this order:

1. A second `listen` of the server, whose threads share the tables of the first.
2. A client that connects again while threads of its last connection still run, with a property
   that says when an application may do so; then `PongAgeCorrect` without
   `NumConns = 1`, and `ToldWhenClosed` of every connection.
