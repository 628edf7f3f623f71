---------------------------- MODULE ChannelRounds ---------------------------
(***************************************************************************)
(* The rounds of a game and the signatures under them (interact.rs,        *)
(* check_channel_round, sign_channel_round, make_round).  A round is made  *)
(* by one user and signed by the other, over everything before it.  What a *)
(* user can later show the chain is the list of signed rounds it holds.    *)
(*                                                                         *)
(* Hashes are taken to be free of collisions and signatures not to be      *)
(* forged: a digest is the tuple of what was hashed, a signature the       *)
(* signer's key and the digest.                                            *)
(*                                                                         *)
(* The game that calls these functions is not in this repository.  Its     *)
(* part is marked external: it sends a round to be signed by the other     *)
(* user, checks what comes back, and after a restart imports the other     *)
(* user's list (the tests in builder.rs 899-918 sign in this order).       *)
(* A round is sent with the channel and the place it is for; nothing but   *)
(* the digest says so of a signature or a list.  Messages are lost,        *)
(* repeated, delayed, and taken for another channel's.                     *)
(***************************************************************************)
EXTENDS Integers, SequencesExt

CONSTANTS Channels,          \* script hashes of the channels of the two users
          Operations,        \* what a round may consist of
          NoRound,
          MaxRounds,         \* a bound on each channel's rounds
          MaxCrashes, MaxExports

VARIABLES rounds,            \* the list each user holds of each channel
          pending,           \* the round a user made and has no signature for
          recovering,        \* a user that has lost its list
          messages,          \* all messages ever sent
          signed,            \* history: the lists each user signed the last of
          crashes, exports

vars == <<rounds, pending, recovering, messages, signed, crashes, exports>>

Users == {1, 2}
Other(u) == 3 - u
Round == [user_type : Users, operations : Operations]

ASSUME RoundsAssumption ==
    /\ NoRound \notin Round
    /\ MaxRounds \in [Channels -> Nat]
    /\ MaxCrashes \in Nat /\ MaxExports \in Nat

-----------------------------------------------------------------------------
(* The digest of a list of rounds, each with the signature under it.       *)

Entry(round, signature) == [round |-> round, signature |-> signature]

\* Slip: the channel is not part of the digest.
DigestSlip(script_hash, list) ==
    LET digest[i \in 1 .. Len(list)] ==
          IF i = 1 THEN <<list[1].round>>
          ELSE <<digest[i - 1], list[i - 1].signature, list[i].round>>
    IN  digest[Len(list)]

\* Slip: the previous signature is not part of the digest.
DigestSlip2(script_hash, list) ==
    LET digest[i \in 1 .. Len(list)] ==
          IF i = 1 THEN <<script_hash, list[1].round>>
          ELSE <<digest[i - 1], list[i].round>>
    IN  digest[Len(list)]

Digest(script_hash, list) ==
    LET digest[i \in 1 .. Len(list)] ==
          IF i = 1 THEN <<script_hash, list[1].round>>
          ELSE <<digest[i - 1], list[i - 1].signature, list[i].round>>
    IN  digest[Len(list)]

Sign(digest, u) == [by |-> u, digest |-> digest]
Garbage == Sign(<< >>, 0)

\* Recovering a key from a signature of something else gives another key, and
\* from bytes that are nobody's signature an error.
Recover(signature, digest) == IF signature.digest = digest THEN signature.by ELSE 0

\* Nothing is wrong with an empty list.
check_channel_round(script_hash, list, expected) ==
    list # << >> =>
        Recover(Last(list).signature, Digest(script_hash, list)) = expected

sign_channel_round(script_hash, previous, round, u) ==
    Sign(Digest(script_hash, Append(previous, Entry(round, Garbage))), u)

make_round(u, operations) == [user_type |-> u, operations |-> operations]

\* A round is signed by the user who did not make it.
Signer(round) == Other(round.user_type)

-----------------------------------------------------------------------------
(* The game.                                                               *)

Turn(list) == IF Len(list) % 2 = 0 THEN 1 ELSE 2

Init ==
    /\ rounds = [c \in Channels |-> [u \in Users |-> << >>]]
    /\ pending = [c \in Channels |-> [u \in Users |-> NoRound]]
    /\ recovering = [c \in Channels |-> [u \in Users |-> FALSE]]
    /\ messages = {}
    /\ signed = [u \in Users |-> {}]
    /\ crashes = 0 /\ exports = 0

Make(c, u, operations) ==
    /\ ~recovering[c][u] /\ pending[c][u] = NoRound
    /\ Turn(rounds[c][u]) = u /\ Len(rounds[c][u]) < MaxRounds[c]
    /\ LET round == make_round(u, operations)
       IN  /\ pending' = [pending EXCEPT ![c][u] = round]
           /\ messages' = messages \cup {[channel |-> c, place |-> Len(rounds[c][u]), round |-> round]}
    /\ UNCHANGED <<rounds, recovering, signed, crashes, exports>>

\* Slip: a round is signed as if it were the first.
SignRoundSlip(c, u, m) ==
    /\ ~recovering[c][u]
    /\ "round" \in DOMAIN m /\ m.channel = c /\ m.place = Len(rounds[c][u])
    /\ m.round.user_type = Turn(rounds[c][u]) /\ m.round.user_type # u
    /\ Len(rounds[c][u]) < MaxRounds[c]
    /\ LET signature == sign_channel_round(c, << >>, m.round, u)
           list == Append(rounds[c][u], Entry(m.round, signature))
       IN  /\ rounds' = [rounds EXCEPT ![c][u] = list]
           /\ signed' = [signed EXCEPT ![u] = @ \cup {<<c, list>>}]
           /\ messages' = messages \cup {[signature |-> signature]}
    /\ UNCHANGED <<pending, recovering, crashes, exports>>

\* A user signs the other's next round over the list it holds itself.
SignRound(c, u, m) ==
    /\ ~recovering[c][u]
    /\ "round" \in DOMAIN m /\ m.channel = c /\ m.place = Len(rounds[c][u])
    /\ m.round.user_type = Turn(rounds[c][u]) /\ m.round.user_type # u
    /\ Len(rounds[c][u]) < MaxRounds[c]
    /\ LET signature == sign_channel_round(c, rounds[c][u], m.round, u)
           list == Append(rounds[c][u], Entry(m.round, signature))
       IN  /\ rounds' = [rounds EXCEPT ![c][u] = list]
           /\ signed' = [signed EXCEPT ![u] = @ \cup {<<c, list>>}]
           /\ messages' = messages \cup {[signature |-> signature]}
    /\ UNCHANGED <<pending, recovering, crashes, exports>>

\* The user who made the round takes a signature that checks with its own list.
Accept(c, u, m) ==
    /\ ~recovering[c][u] /\ pending[c][u] # NoRound
    /\ "signature" \in DOMAIN m
    /\ LET list == Append(rounds[c][u], Entry(pending[c][u], m.signature))
       IN  /\ check_channel_round(c, list, Other(u))
           /\ rounds' = [rounds EXCEPT ![c][u] = list]
    /\ pending' = [pending EXCEPT ![c][u] = NoRound]
    /\ UNCHANGED <<recovering, messages, signed, crashes, exports>>

\* Nothing is kept on disk.
Crash(c, u) ==
    /\ crashes < MaxCrashes
    /\ crashes' = crashes + 1
    /\ rounds' = [rounds EXCEPT ![c][u] = << >>]
    /\ pending' = [pending EXCEPT ![c][u] = NoRound]
    /\ recovering' = [recovering EXCEPT ![c][u] = TRUE]
    /\ UNCHANGED <<messages, signed, exports>>

Export(c, u) ==
    /\ ~recovering[c][u] /\ exports < MaxExports
    /\ exports' = exports + 1
    /\ messages' = messages \cup {[list |-> rounds[c][u]]}
    /\ UNCHANGED <<rounds, pending, recovering, signed, crashes>>

\* A list may come with one of its rounds or signatures replaced.
Variants(list) ==
    {list} \cup {[list EXCEPT ![i].signature = Garbage] : i \in DOMAIN list}
      \cup {[list EXCEPT ![i].round.operations = operations] :
                i \in DOMAIN list, operations \in Operations}

Import(c, u, m) ==
    /\ recovering[c][u]
    /\ "list" \in DOMAIN m
    /\ Len(m.list) <= MaxRounds[c]
    /\ \E list \in Variants(m.list) :
          /\ check_channel_round(c, list, IF list = << >> THEN Other(u)
                                          ELSE Signer(Last(list).round))
          /\ rounds' = [rounds EXCEPT ![c][u] = list]
    /\ recovering' = [recovering EXCEPT ![c][u] = FALSE]
    /\ UNCHANGED <<pending, messages, signed, crashes, exports>>

Next ==
    \E c \in Channels, u \in Users :
        \/ \E operations \in Operations : Make(c, u, operations)
        \/ \E m \in messages : SignRound(c, u, m) \/ Accept(c, u, m) \/ Import(c, u, m)
        \/ Crash(c, u)
        \/ Export(c, u)

Spec == Init /\ [][Next]_vars
=============================================================================
