----------------------------- MODULE NftLedger -----------------------------
(* What the nft transactions of src/src/ckb/transaction/builder.rs promise     *)
(* their users: nfts come from the composer or out of packages, go where their  *)
(* owner sends them, and are gone when their owner discards them; no other nft  *)
(* moves, whatever cells the nfts lie in.                                    *)
EXTENDS Integers

CONSTANTS Users, Nfts,
          Wishes,     \* the nfts a user may ask to have issued, sent or discarded
          Draws       \* the nfts packages may turn out to hold

VARIABLE owned        \* how many of each nft each user has
vars == <<owned>>

Plus(a, b) == [n \in Nfts |-> a[n] + b[n]]
Minus(a, b) == [n \in Nfts |-> a[n] - b[n]]
Has(u, w) == \A n \in Nfts : w[n] <= owned[u][n]

Init == owned = [u \in Users |-> [n \in Nfts |-> 0]]

Gain(u, w) == owned' = [owned EXCEPT ![u] = Plus(@, w)]
Discard(u, w) == Has(u, w) /\ owned' = [owned EXCEPT ![u] = Minus(@, w)]
Transfer(u, v, w) ==
  /\ Has(u, w) /\ u # v
  /\ owned' = [owned EXCEPT ![u] = Minus(@, w), ![v] = Plus(@, w)]

Next ==
  \E u \in Users :
    \/ \E w \in Wishes \cup Draws : Gain(u, w)
    \/ \E w \in Wishes : Discard(u, w) \/ \E v \in Users : Transfer(u, v, w)

Spec == Init /\ [][Next]_vars
=============================================================================
