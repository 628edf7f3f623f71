------------------------- MODULE NftConfigProperties ------------------------
(* What composer and users may expect of the config's bytes and of the nfts   *)
(* that come out of packages.                                                *)
EXTENDS NftConfig, FiniteSets

\* What a purchase or a reveal reads of the cell is what was composed, whatever
\* the length of the table and the values of its bytes (types.rs:72-100).
ConfigKept == cell # NoBytes => FromBytes(cell) = composed

\* The lowest lottery an item of the table is drawn by, and the one after it.
Lower(table, i) == IF i = 1 THEN 0 ELSE table[i - 1].rate
Upper(table, i) == IF i = Len(table) THEN Base ELSE table[i].rate

\* Rates divide the lotteries among the items of the table: each gets as many as
\* its rate exceeds the one before, the last one all that are left, and an item
\* with the rate of the one before none (types.rs:56-67).
ShareOfLotteries ==
  \A i \in DOMAIN composed.table :
    Cardinality({lottery \in Byte : Expect(composed.table, lottery) = i}) =
      Upper(composed.table, i) - Lower(composed.table, i)

\* The lotteries as one would say them: those of the n-th hash are the hash of
\* all before it.
LotteryBlock(hash, n) ==
  LET upto[k \in 0 .. n] ==
        IF k = 0 THEN hash ELSE upto[k - 1] \o Blake2b[upto[k - 1]]
  IN  SubSeq(upto[n], n * HashSize + 1, (n + 1) * HashSize)
Lottery(hash, i) == LotteryBlock(hash, (i - 1) \div HashSize)[1 + ((i - 1) % HashSize)]

\* Each reveal gives every package in full, each nft by a lottery of its own
\* within its share, however many hashes it takes (types.rs:45-70,
\* builder.rs:305-309); and a user who had bought fewer packages in that block
\* would have got the first of these.
OpensByLottery ==
  [][Reveal =>
       LET n == store.packages * composed.capacity IN
         /\ Len(opened') = n * Blake160Size
         /\ \A i \in 1 .. n : \E k \in DOMAIN composed.table :
              /\ SubSeq(opened', (i - 1) * Blake160Size + 1, i * Blake160Size)
                   = composed.table[k].nft
              /\ Lottery(store.hash, i) \in
                   Lower(composed.table, k) .. Upper(composed.table, k) - 1
         /\ \A fewer \in 1 .. store.packages - 1 :
              IsPrefix(RipPackage(composed, store.hash, fewer), opened')]_vars
=============================================================================
