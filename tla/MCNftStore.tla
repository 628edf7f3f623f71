---------------------------- MODULE MCNftStore ----------------------------
(* Constants for model checking NftStore.tla. *)
EXTENDS NftStoreProperties

CONSTANTS alice, bob, composer, x, y

Small == [price |-> 2, count |-> 1, table |-> <<[nft |-> x, rate |-> 1], [nft |-> y, rate |-> 2]>>]
Dear == [price |-> 3, count |-> 2, table |-> <<[nft |-> y, rate |-> 1]>>]
Unsorted == [Small EXCEPT !.table = <<[nft |-> x, rate |-> 2], [nft |-> y, rate |-> 1]>>]
SomeConfigs == {Small, Dear, Unsorted}
Bag(i, j) == [n \in Nfts |-> IF n = x THEN i ELSE j]
SomeWishes == {Bag(1, 0), Bag(1, 1)}
SomeSeeds == {<<0, 1, 0, 1>>}
SomeWallet == [u \in Keys |-> IF u = bob THEN <<>> ELSE IF u = composer THEN <<7, 6>> ELSE <<13, 10>>]
=============================================================================
