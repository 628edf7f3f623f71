----------------------------- MODULE ChannelData ----------------------------
(***************************************************************************)
(* The bytes in which a channel's terms and its challenges are kept, and   *)
(* every step of interact.rs and builder.rs that reads or writes them.     *)
(*                                                                         *)
(* Module Channel has the same steps with their ckb and their races; here  *)
(* the chain takes a transaction as soon as it is built, so that what is   *)
(* left is what becomes of the data: the reads that verify a slice         *)
(* (from_slice), those that do not (new_unchecked), and slices that other  *)
(* programs have written.                                                  *)
(***************************************************************************)
EXTENDS ChannelTypes

CONSTANTS Terms,             \* stakes, deck sizes and lua codes to agree on
          Blocks,            \* tip block numbers
          Pkhashes, NftLists, OperationLists,
          RoundLists,        \* the signed rounds a challenge is made with
          Hash,              \* of each, the hash of rounds and signatures,
          SignatureOf,       \* and the signature of the last round
          LockCodeHash,      \* the code of the sighash lock, from the genesis block
          ForeignArgs,       \* what another program may offer instead,
          ForeignData,       \* what it may leave in a channel's cell,
          MaxForeign         \* and how often it does: a bound for TLC

Uint64 == 0 .. Numbers * Numbers - 1

\* Lists whose length a header can hold.
Lists(S) == {list \in Seq(S) : Len(list) < Numbers}

\* A byte has an even number of values, and a challenger's number is one of them.
ASSUME DataAssumption ==
    /\ Base % 2 = 0 /\ Base > 2
    /\ Terms \subseteq [user_staking_ckb : Uint64, user_deck_size : Byte,
                        lua_code_hashes : Lists(Blake256)]
    /\ Blocks \subseteq Uint64
    /\ Pkhashes \subseteq Blake160
    /\ NftLists \subseteq Lists(Blake160)
    /\ OperationLists \subseteq Seq(Slice)
    /\ RoundLists \subseteq Seq([user_type : Byte, operations : Seq(Slice)])
    /\ \A rounds \in RoundLists :
          Hash[rounds] \in Blake256 /\ SignatureOf[rounds] \in Signature
    /\ LockCodeHash \in Blake256
    /\ ForeignArgs \subseteq Slice \ {<< >>}
    /\ ForeignData \subseteq Slice \ {<< >>}
    /\ MaxForeign \in Nat

VARIABLES offer,             \* lock args of the transaction the users pass
          args,              \* lock args of the opened channel
          data,              \* data of the channel's cell
          witnesses,         \* rounds in the witnesses of the last challenge
          outcome,           \* how the last step ended, and whom it pays
          foreign,           \* slices written by others
          first              \* history: who made the first challenge

vars == <<offer, args, data, witnesses, outcome, foreign, first>>

NoSlice == << >>

Outcome(by, result, paid, stake) ==
    [by |-> by, result |-> result, paid |-> paid, stake |-> stake]

Ended(by, result) == outcome' = Outcome(by, result, << >>, 0)

-----------------------------------------------------------------------------
(* Reading slices nothing was verified of.                                 *)

ArgsInBounds(s, i) == FieldInBounds(s, i, 9)

StakingReadable(s) == ArgsInBounds(s, 1) /\ Uint64TVerify(ArgsField(s, 1))
DeckReadable(s) == ArgsInBounds(s, 2) /\ Len(ArgsField(s, 2)) >= 1
HashesReadable(s) ==
    ArgsInBounds(s, 5) /\ FixvecInBounds(ArgsField(s, 5), Blake256Size)
UserReadable(s, i) == ArgsInBounds(s, i) /\ Blake160Verify(ArgsField(s, i))
NftsReadable(s, i) ==
    ArgsInBounds(s, i) /\ FixvecInBounds(ArgsField(s, i), Blake160Size)

\* The getter of the last field may panic where the field count underflows.
LastField(s, ok) == IF FieldCountUnderflows(s) THEN {"panic", ok} ELSE {ok}

\* complete_channel_tx compares field by field, and then takes all of them.
CompleteOutcomes(s, term, nfts) ==
    IF ~StakingReadable(s) THEN {"panic"}
    ELSE IF FromUint64T(ArgsField(s, 1)) # term.user_staking_ckb THEN {"refused"}
    ELSE IF ~DeckReadable(s) THEN {"panic"}
    ELSE IF FromUint8T(ArgsField(s, 2)) # term.user_deck_size THEN {"refused"}
    ELSE IF ~HashesReadable(s) THEN {"panic"}
    ELSE IF FromHashes(ArgsField(s, 5)) # term.lua_code_hashes THEN {"refused"}
    ELSE IF term.user_deck_size < Len(nfts) % Base THEN {"refused"}
    ELSE IF \E i \in 1 .. 9 : ~ArgsInBounds(s, i) THEN {"panic"}
    ELSE LastField(s, "ok")

SignOutcomes(s, term, pkhash, nfts) ==
    IF ~(UserReadable(s, 6) /\ UserReadable(s, 8) /\ NftsReadable(s, 7) /\ NftsReadable(s, 9))
    THEN {"panic"}
    ELSE UNION {
      IF outcome9 = "panic" \/ ~StakingReadable(s) THEN {"panic"}
      ELSE IF FromUint64T(ArgsField(s, 1)) # term.user_staking_ckb THEN {"refused"}
      ELSE IF ~DeckReadable(s) THEN {"panic"}
      ELSE IF \/ FromUint8T(ArgsField(s, 2)) # term.user_deck_size
              \/ ArgsField(s, 6) = pkhash /\ FromNfts(ArgsField(s, 7)) # nfts
              \/ ArgsField(s, 8) = pkhash /\ FromNfts(ArgsField(s, 9)) # nfts
      THEN {"refused"}
      ELSE {"ok"} : outcome9 \in LastField(s, "ok")}

-----------------------------------------------------------------------------
(* Opening.                                                                *)

Init ==
    /\ offer = NoSlice /\ args = NoSlice /\ data = NoSlice /\ witnesses = << >>
    /\ outcome = Outcome("", "ok", << >>, 0)
    /\ foreign = 0 /\ first = 0

\* What prepare_channel_tx puts into the lock: the second user is left out.
PreparedArgs(term, block, pkhash, nfts) ==
    ArgsBuild([ArgsDefault EXCEPT
        !.user_staking_ckb  = IntoUint64T(term.user_staking_ckb),
        !.user_deck_size    = IntoUint8T(term.user_deck_size),
        !.begin_blocknumber = IntoUint64T(block),
        !.lock_code_hash    = IntoBlake256(LockCodeHash),
        !.lua_code_hashes   = IntoHashes(term.lua_code_hashes),
        !.user1_pkhash      = IntoBlake160(pkhash),
        !.user1_nfts        = IntoNfts(nfts)])

Prepare(term, block, pkhash, nfts) ==
    /\ offer = NoSlice /\ args = NoSlice
    /\ IF term.user_deck_size < Len(nfts) % Base
       THEN Ended("Prepare", "refused") /\ UNCHANGED offer
       ELSE /\ Ended("Prepare", "ok")
            /\ offer' = PreparedArgs(term, block, pkhash, nfts)
    /\ UNCHANGED <<args, data, witnesses, foreign, first>>

\* as_builder takes every field over; two of them are set anew.
CompletedArgs(s, pkhash, nfts) ==
    ArgsBuild([ArgsRead(s) EXCEPT !.user2_pkhash = IntoBlake160(pkhash),
                                  !.user2_nfts   = IntoNfts(nfts)])

Complete(term, pkhash, nfts) ==
    /\ offer # NoSlice
    /\ \E result \in CompleteOutcomes(offer, term, nfts) :
          /\ Ended("Complete", result)
          /\ offer' = IF result = "ok" THEN CompletedArgs(offer, pkhash, nfts)
                                       ELSE offer
    /\ UNCHANGED <<args, data, witnesses, foreign, first>>

Sign(term, pkhash, nfts) ==
    /\ offer # NoSlice
    /\ \E result \in SignOutcomes(offer, term, pkhash, nfts) : Ended("Sign", result)
    /\ UNCHANGED <<offer, args, data, witnesses, foreign, first>>

\* The chain takes the transaction; it does not run the lock of an output.
Open ==
    /\ offer # NoSlice
    /\ args' = offer /\ offer' = NoSlice
    /\ Ended("Open", "ok")
    /\ UNCHANGED <<data, witnesses, foreign, first>>

-----------------------------------------------------------------------------
(* Challenging and closing.                                                *)

\* make_round
MakeRound(r) ==
    RoundBuild([user_type |-> IntoUint8T(r.user_type),
                operations |-> IntoOperations(r.operations)])

\* Slip: the count starts from the number of the challenger.
NextCountSlip(s, challenger) ==
    IF s = NoSlice THEN challenger ELSE (FromUint8T(ChallengeField(s, 1)) + 1) % Base

\* count is a u8.
NextCount(s, challenger) ==
    IF s = NoSlice THEN 1 ELSE (FromUint8T(ChallengeField(s, 1)) + 1) % Base

Payee(s, challenger) ==
    FromBlake160(IF challenger = 1 THEN ArgsField(s, 8) ELSE ArgsField(s, 6))

\* Slip: the number of rounds is not cut to a byte.
ChallengeDataSlip(s, challenger, operations, rounds) ==
    ChallengeBuild([
        count              |-> IntoUint8T(NextCount(s, challenger)),
        challenger         |-> IntoUint8T(challenger),
        snapshot_position  |-> IntoUint8T(Len(rounds)),
        snapshot_hashproof |-> IntoBlake256(Hash[rounds]),
        snapshot_signature |-> IntoSignature(SignatureOf[rounds]),
        operations         |-> IntoOperations(operations)])

ChallengeData(s, challenger, operations, rounds) ==
    ChallengeBuild([
        count              |-> IntoUint8T(NextCount(s, challenger)),
        challenger         |-> IntoUint8T(challenger),
        snapshot_position  |-> IntoUint8T(Len(rounds) % Base),
        snapshot_hashproof |-> IntoBlake256(Hash[rounds]),
        snapshot_signature |-> IntoSignature(SignatureOf[rounds]),
        operations         |-> IntoOperations(operations)])

\* The lengths in headers have four bytes: what users write stays below that,
\* also when they complete what another program offered.
ASSUME LengthAssumption ==
    /\ \A term \in Terms, block \in Blocks, pkhash \in Pkhashes, nfts \in NftLists :
          LET s == PreparedArgs(term, block, pkhash, nfts)
          IN  /\ Len(s) < Numbers
              /\ \A pkhash2 \in Pkhashes, nfts2 \in NftLists :
                    Len(CompletedArgs(s, pkhash2, nfts2)) < Numbers
    /\ \A s \in ForeignArgs, pkhash \in Pkhashes, nfts \in NftLists :
          (\A i \in 1 .. 9 : ArgsInBounds(s, i)) => Len(CompletedArgs(s, pkhash, nfts)) < Numbers
    /\ \A rounds \in RoundLists :
          /\ \A operations \in OperationLists :
                Len(ChallengeData(NoSlice, 1, operations, rounds)) < Numbers
          /\ \A i \in DOMAIN rounds : Len(MakeRound(rounds[i])) < Numbers

\* from_slice takes a slice apart once its header is verified, and what it has
\* accepted is read without further checks: neither may leave the slice.
ArgsSafe(s) ==
    /\ HeaderVerify(s) => PartsInBounds(s)
    /\ ArgsVerify(s) => /\ \A i \in 1 .. 9 : ArgsInBounds(s, i)
                        /\ StakingReadable(s) /\ UserReadable(s, 6) /\ UserReadable(s, 8)

ChallengeSafe(s) ==
    /\ HeaderVerify(s) => PartsInBounds(s)
    /\ ChallengeVerify(s) =>
          /\ \A i \in 1 .. 6 : FieldInBounds(s, i, 6)
          /\ \A i \in 1 .. 2 : Len(ChallengeField(s, i)) >= 1
          /\ LET operations == ChallengeField(s, 6)
             IN  HeaderVerify(operations) => PartsInBounds(operations)

Challenge(challenger) ==
    /\ args # NoSlice
    /\ IF ~ArgsSafe(args) \/ (data # NoSlice /\ ~ChallengeSafe(data))
       THEN Ended("Challenge", "panic") /\ UNCHANGED <<data, witnesses, first>>
       ELSE IF ~ArgsVerify(args) \/ (data # NoSlice /\ ~ChallengeVerify(data))
       THEN Ended("Challenge", "refused") /\ UNCHANGED <<data, witnesses, first>>
       ELSE IF data # NoSlice /\ FromUint8T(ChallengeField(data, 2)) = challenger
       THEN Ended("Challenge", "refused") /\ UNCHANGED <<data, witnesses, first>>
       ELSE \/ /\ data # NoSlice          \* a debug build panics where a
               /\ NextCount(data, challenger) = 0    \* release build goes on with 0
               /\ Ended("Challenge", "overflow") /\ UNCHANGED <<data, witnesses, first>>
            \/ \E operations \in OperationLists, rounds \in RoundLists :
               /\ data' = ChallengeData(data, challenger, operations, rounds)
               /\ witnesses' = [i \in DOMAIN rounds |-> MakeRound(rounds[i])]
               /\ first' = IF data = NoSlice THEN challenger ELSE first
               /\ outcome' = Outcome("Challenge", "ok",
                     IF data = NoSlice THEN << >> ELSE <<Payee(args, challenger)>>, 0)
    /\ UNCHANGED <<offer, args, foreign>>

Close ==
    /\ args # NoSlice
    /\ IF ~ArgsSafe(args) \/ (data # NoSlice /\ ~ChallengeSafe(data))
       THEN Ended("Close", "panic") /\ UNCHANGED <<args, data, witnesses, first>>
       ELSE IF ~ArgsVerify(args) \/ (data # NoSlice /\ ~ChallengeVerify(data))
       THEN Ended("Close", "refused") /\ UNCHANGED <<args, data, witnesses, first>>
       ELSE IF data # NoSlice /\ FromUint8T(ChallengeField(data, 2)) \notin {1, 2}
       THEN Ended("Close", "refused") /\ UNCHANGED <<args, data, witnesses, first>>
       ELSE /\ outcome' = Outcome("Close", "ok",
                  <<FromBlake160(ArgsField(args, 6)), FromBlake160(ArgsField(args, 8))>>,
                  FromUint64T(ArgsField(args, 1)))
            /\ args' = NoSlice /\ data' = NoSlice /\ witnesses' = << >> /\ first' = 0
    /\ UNCHANGED <<offer, foreign>>

-----------------------------------------------------------------------------
(* The other user's program need not be this one.                          *)

ForeignOffer ==
    /\ offer # NoSlice /\ foreign < MaxForeign
    /\ offer' \in ForeignArgs
    /\ foreign' = foreign + 1
    /\ Ended("Foreign", "ok")
    /\ UNCHANGED <<args, data, witnesses, first>>

ForeignChallenge ==
    /\ args # NoSlice /\ foreign < MaxForeign
    /\ data' \in ForeignData
    /\ foreign' = foreign + 1
    /\ Ended("Foreign", "ok")
    /\ UNCHANGED <<offer, args, witnesses, first>>

Next ==
    \/ \E term \in Terms, pkhash \in Pkhashes, nfts \in NftLists :
          \/ \E block \in Blocks : Prepare(term, block, pkhash, nfts)
          \/ Complete(term, pkhash, nfts)
          \/ Sign(term, pkhash, nfts)
    \/ Open
    \/ \E challenger \in {1, 2} : Challenge(challenger)
    \/ Close
    \/ ForeignOffer
    \/ ForeignChallenge

Spec == Init /\ [][Next]_vars
=============================================================================
