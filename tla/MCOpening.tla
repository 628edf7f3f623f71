----------------------------- MODULE MCOpening -----------------------------
(* Constants for model checking Opening.tla.                                  *)
EXTENDS OpeningProperties

CONSTANTS alice, bob, composer, x, y

Of2(i, j) == [n \in Nfts |-> IF n = x THEN i ELSE j]
NoConfigs == {}
NoSeeds == {}
SomeWishes == {Of2(1, 0)}
SomeWallet == [u \in Keys |-> IF u = alice THEN <<6, 8>> ELSE IF u = bob THEN <<5, 9>> ELSE <<>>]
SomePlayers == <<alice, bob>>
SomeCards == [u \in Users |-> IF u = alice THEN <<Of2(0, 1), Of2(2, 0)>> ELSE <<Of2(1, 1)>>]
Wants(nfts) == [stake |-> 2, bet |-> 4, deck |-> 2, hashes |-> 1, nfts |-> nfts]
SomeAsks ==
  [u \in Users |-> IF u = alice THEN {Wants(Of2(1, 1))}
                   ELSE {Wants(Of2(1, 0)), Wants(Of2(1, 1)), Wants(Of2(0, 0)),
                         [Wants(Of2(0, 0)) EXCEPT !.bet = 1]}]
=============================================================================
