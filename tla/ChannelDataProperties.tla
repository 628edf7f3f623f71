------------------------ MODULE ChannelDataProperties -----------------------
(***************************************************************************)
(* What the layouts of a channel's data are for: whatever was written is   *)
(* read back, by this program and by others, and nothing else can be taken *)
(* for it.                                                                 *)
(***************************************************************************)
EXTENDS ChannelData

CONSTANTS None, Unreadable

-----------------------------------------------------------------------------
(* The data as values (the refinement mapping to ChannelRecords).          *)

ArgsValue(s) ==
    LET a == ArgsRead(s)
    IN  [user_staking_ckb  |-> FromUint64T(a.user_staking_ckb),
         user_deck_size    |-> FromUint8T(a.user_deck_size),
         begin_blocknumber |-> FromUint64T(a.begin_blocknumber),
         lock_code_hash    |-> FromBlake256(a.lock_code_hash),
         lua_code_hashes   |-> FromHashes(a.lua_code_hashes),
         user1_pkhash      |-> FromBlake160(a.user1_pkhash),
         user1_nfts        |-> FromNfts(a.user1_nfts),
         user2_pkhash      |-> FromBlake160(a.user2_pkhash),
         user2_nfts        |-> FromNfts(a.user2_nfts)]

ChallengeValue(s) ==
    LET c == ChallengeRead(s)
    IN  [count              |-> FromUint8T(c.count),
         challenger         |-> FromUint8T(c.challenger),
         snapshot_position  |-> FromUint8T(c.snapshot_position),
         snapshot_hashproof |-> FromBlake256(c.snapshot_hashproof),
         snapshot_signature |-> c.snapshot_signature,
         operations         |-> FromOperations(c.operations)]

RoundValue(s) ==
    [user_type  |-> FromUint8T(RoundRead(s).user_type),
     operations |-> FromOperations(RoundRead(s).operations)]

ArgsIn[s \in Slice] ==
    IF s = NoSlice THEN None ELSE IF ArgsVerify(s) THEN ArgsValue(s) ELSE Unreadable

ChallengeIn[s \in Slice] ==
    IF s = NoSlice THEN None
    ELSE IF ChallengeVerify(s) THEN ChallengeValue(s) ELSE Unreadable

RoundsIn[ws \in Seq(Slice)] ==
    [i \in DOMAIN ws |-> IF RoundVerify(ws[i]) THEN RoundValue(ws[i]) ELSE Unreadable]

\* Every value the bytes may stand for.
ArgsValues ==
    [user_staking_ckb : Nat, user_deck_size : Byte, begin_blocknumber : Nat,
     lock_code_hash : Slice, lua_code_hashes : Seq(Slice),
     user1_pkhash : Slice, user1_nfts : Seq(Slice),
     user2_pkhash : Slice, user2_nfts : Seq(Slice)]

ChallengeValues ==
    [count : Byte, challenger : Byte, snapshot_position : Byte,
     snapshot_hashproof : Slice, snapshot_signature : Slice, operations : Seq(Slice)]

\* None of them is taken for the absence of one.
ASSUME NoneAssumption ==
    /\ None # Unreadable
    /\ None \notin ArgsValues /\ Unreadable \notin ArgsValues
    /\ None \notin ChallengeValues /\ Unreadable \notin ChallengeValues

Records == INSTANCE ChannelRecords
    WITH offer     <- ArgsIn[offer],
         args      <- ArgsIn[args],
         data      <- ChallengeIn[data],
         witnesses <- RoundsIn[witnesses],
         NoPkhash  <- Blake160Default

\* Each step does to the bytes what it should do to the values they stand for:
\* every field is read back as it was written, a completed offer differs from
\* the offer in the second user's fields only, and no slice that a user made is
\* refused (all of protocol.rs and convert.rs as interact.rs and builder.rs use
\* them).
RecordsImplemented == Records!Spec

-----------------------------------------------------------------------------

\* Slices are sequences of bytes, and the counters stay in their bounds.
TypeOK ==
    /\ offer \in Slice /\ args \in Slice /\ data \in Slice
    /\ witnesses \in Seq(Slice)
    /\ outcome.result \in {"ok", "refused", "panic", "overflow"}
    /\ foreign \in 0 .. MaxForeign
    /\ first \in 0 .. 2

\* Slices that from_slice has accepted are read without leaving them, whoever
\* wrote them (builder.rs 470, 485, 629, 677); the slices that are read
\* unverified (interact.rs 106, 157) panic only if another program wrote them.
ReadsInBounds ==
    outcome.result = "panic" => foreign > 0 /\ outcome.by \in {"Complete", "Sign"}

\* There is one slice for each value: a slice that from_slice accepts is the one
\* the builder would write for what is read from it.  Two programs that agree on
\* the terms of a channel therefore compute the same lock for it, and the hash
\* of a challenge says what is in it (as_builder ... build() of Args,
\* Challenge and Operations).
Canonical ==
    /\ \A s \in {offer, args} :
          s # NoSlice /\ ArgsVerify(s) =>
             /\ ArgsBuild(ArgsRead(s)) = s
             /\ IntoNfts(ArgsValue(s).user1_nfts) = ArgsRead(s).user1_nfts
             /\ IntoNfts(ArgsValue(s).user2_nfts) = ArgsRead(s).user2_nfts
             /\ IntoHashes(ArgsValue(s).lua_code_hashes) = ArgsRead(s).lua_code_hashes
    /\ data # NoSlice /\ ChallengeVerify(data) =>
          /\ ChallengeBuild(ChallengeRead(data)) = data
          /\ IntoOperations(ChallengeValue(data).operations)
                = ChallengeRead(data).operations

\* The count of challenges, a u8, tells whose turn it is: it is odd after the
\* first challenger's challenges and even after the other's, also once it has
\* wrapped (builder.rs 486-488 and 508).
CountTellsTurn ==
    data # NoSlice /\ foreign = 0 =>
        (ChallengeValue(data).count % 2 = 1) <=> (ChallengeValue(data).challenger = first)
=============================================================================
