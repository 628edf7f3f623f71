----------------------- MODULE ChannelRoundsProperties ----------------------
(***************************************************************************)
(* What the chain of digests is for: the signature under the last round    *)
(* stands for the whole list.                                              *)
(***************************************************************************)
EXTENDS ChannelRounds

Prefix(list, i) == SubSeq(list, 1, i)

\* Whatever list a user holds can be shown to the chain: every round of it, not
\* only the last one that check_channel_round (interact.rs 225) looks at, bears
\* the signature of the user who did not make it, over all that came before.
\* This also goes for a list that was imported and tampered with on the way.
RoundsVerify ==
    \A c \in Channels, u \in Users : \A i \in DOMAIN rounds[c][u] :
        check_channel_round(c, Prefix(rounds[c][u], i), Signer(rounds[c][u][i].round))

\* Nobody is held to a game they did not play: a user's signature is under a
\* round of a channel only if that user signed this round of this channel, with
\* this very list of rounds and signatures before it.
SignedAsHeld ==
    \A c \in Channels, u \in Users : \A i \in DOMAIN rounds[c][u] :
        <<c, Prefix(rounds[c][u], i)>> \in signed[Signer(rounds[c][u][i].round)]

\* While nobody has lost a list, the two users' lists do not differ, except that
\* the signer of a round has it before its maker has the signature.
SameHistory ==
    crashes = 0 =>
        \A c \in Channels :
           LET longer == IF Len(rounds[c][1]) > Len(rounds[c][2]) THEN 1 ELSE 2
           IN  /\ IsPrefix(rounds[c][Other(longer)], rounds[c][longer])
               /\ Len(rounds[c][longer]) - Len(rounds[c][Other(longer)]) <= 1
               /\ rounds[c][1] # rounds[c][2] =>
                     Last(rounds[c][longer]).round = pending[c][Other(longer)]
=============================================================================
