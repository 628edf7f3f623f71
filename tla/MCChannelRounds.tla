--------------------------- MODULE MCChannelRounds --------------------------
(* Two channels between the users, the second one with fewer rounds.       *)
EXTENDS ChannelRoundsProperties

CONSTANTS first, second, a, b

MCMaxRounds == [c \in Channels |-> IF c = first THEN 3 ELSE 2]
=============================================================================
