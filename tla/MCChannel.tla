----------------------------- MODULE MCChannel -----------------------------
(* Constants for model checking Channel.tla. *)
EXTENDS ChannelProperties, TLC

Plain == [stake |-> 30, bet |-> 20, deck |-> 2, nfts |-> 1, hashes |-> 0]
PlainAsks ==
  {Plain, [Plain EXCEPT !.nfts = 2], [Plain EXCEPT !.stake = 20, !.bet = 30],
   [Plain EXCEPT !.hashes = 1], [Plain EXCEPT !.deck = 3], [Plain EXCEPT !.nfts = 3],
   [Plain EXCEPT !.bet = 19]}
OneAsk == {Plain}
=============================================================================
