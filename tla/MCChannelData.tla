---------------------------- MODULE MCChannelData ---------------------------
(***************************************************************************)
(* A byte has four values, so that lists and counts pass its limit, and    *)
(* the arrays are short.  Foreign slices are those a program would write   *)
(* that differs from this one in one or two bytes, or in the length.       *)
(***************************************************************************)
EXTENDS ChannelDataProperties

MCPkhashes == {<<1, 2>>, <<3, 1>>}
MCNftLists == {<< >>, << <<1, 1>>, <<2, 3>> >>}
MCTerms ==
    {[user_staking_ckb |-> 70, user_deck_size |-> 2, lua_code_hashes |-> << <<3, 3>> >>],
     [user_staking_ckb |-> 70, user_deck_size |-> 0, lua_code_hashes |-> << >>]}
MCBlocks == {9}
MCOperationLists == {<< <<1>>, << >> >>}

Move(user, operations) == [user_type |-> user, operations |-> operations]
MCRoundLists ==
    {<<Move(2, << << >>, <<2, 0>> >>)>>, [i \in 1 .. 4 |-> Move(1, << >>)]}
MCHash == [rounds \in MCRoundLists |-> <<Len(rounds) % 4, 3>>]
MCSignatureOf == [rounds \in MCRoundLists |-> <<2, Len(rounds) % 4, 1>>]
MCLockCodeHash == <<2, 2>>

-----------------------------------------------------------------------------

\* Slices that differ from s at the positions P, or in their length.
Garbled(s, P) ==
    {[s EXCEPT ![i] = b, ![j] = c] : i \in P, j \in P, b \in Byte, c \in Byte}
Resized(s) == {SubSeq(s, 1, n) : n \in {1, NUMBER_SIZE, Len(s) - 1}} \cup {Append(s, 0)}

\* The low bytes of the header's numbers I: 0 is the length, i the i-th offset.
Lows(I) == {NUMBER_SIZE * i + 1 : i \in I}

SomeArgs ==
    PreparedArgs(CHOOSE term \in MCTerms : term.user_deck_size = 2, 9, <<1, 2>>,
                 << <<1, 1>>, <<2, 3>> >>)

MCForeignArgs ==
    Garbled(SomeArgs, Lows({0, 1, 2})) \cup Garbled(SomeArgs, Lows({7, 8, 9})) \cup Resized(SomeArgs)
      \cup {TableBuild([i \in 1 .. 10 |-> IF i = 10 THEN << >> ELSE ArgsField(SomeArgs, i)])}

SomeChallenge ==
    ChallengeData(NoSlice, 1, << <<1>> >>, CHOOSE rounds \in MCRoundLists : Len(rounds) = 1)

\* The low bytes of the headers in the operations of SomeChallenge.
OperationLows == LET start == Offset(SomeChallenge, 6)
                 IN  {start + 1 + NUMBER_SIZE * i : i \in 0 .. 1}

\* The bytes of the count and of the challenger.
FirstFields == {Offset(SomeChallenge, 1) + 1, Offset(SomeChallenge, 2) + 1}

MCForeignData ==
    Garbled(SomeChallenge, Lows({1, 6})) \cup Garbled(SomeChallenge, OperationLows)
      \cup Garbled(SomeChallenge, FirstFields) \cup Resized(SomeChallenge)
=============================================================================
