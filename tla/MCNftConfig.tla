----------------------------- MODULE MCNftConfig ----------------------------
(* A byte has four values and a hash two bytes, so that nine nfts take five    *)
(* hashes; the prices are one that fits and one that leaves the eight bytes.  *)
EXTENDS NftConfigProperties

MCBlake2b ==
  [s \in Seq(Byte) |-> <<(FoldLeft(LAMBDA sum, b : 3 * sum + b, 1, s) \div 4) % Base,
                         (Len(s) \div 2 + FoldLeft(LAMBDA sum, b : sum + b, 0, s)) % Base>>]
MCNfts == <<<<1, 2>>, <<0, 3>>, <<1, 2>>>>
Table(rates) == [i \in DOMAIN rates |-> [nft |-> MCNfts[i], rate |-> rates[i]]]
Composed(price, capacity, rates) ==
  [price |-> price, capacity |-> capacity, table |-> Table(rates)]

\* Every valid table of one to three items; other prices, and what is not valid.
MCConfigs ==
  {Composed(7, 3, rates) : rates \in {r \in UNION {[1 .. n -> Byte] : n \in 1 .. 3} : \A i \in 2 .. Len(r) : r[i - 1] <= r[i]}}
    \cup {Composed(price, 1, <<1, 3>>) : price \in {7, 30000}}
    \cup {Composed(0, 1, <<1>>), Composed(7, 0, <<1>>), Composed(7, 1, << >>), Composed(7, 1, <<2, 1>>)}
MCHashes == {<<0, 0>>, <<3, 1>>}
=============================================================================
