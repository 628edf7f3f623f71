---------------------------- MODULE ChannelTypes ----------------------------
(***************************************************************************)
(* The message types of channel/protocol.rs, each laid out as Molecule     *)
(* says, and the conversions of channel/convert.rs between them and the    *)
(* values the rest of the code computes with.                              *)
(*                                                                         *)
(* A type T that can be read has TVerify, what its from_slice accepts; one *)
(* that is made of parts has TBuild, what its builder writes, and TRead,   *)
(* what its getters return.  An entity of a vector or of a table is given  *)
(* to TBuild, and returned by TRead, as the slices of its parts.           *)
(***************************************************************************)
EXTENDS Molecule

CONSTANTS Blake160Size,       \* bytes of a pkhash or an nft: 20
          Blake256Size,       \* bytes of a hash: 32
          SignatureSize       \* bytes of a signature: 65

ASSUME SizesAssumption ==
    /\ Blake160Size \in Nat \ {0}
    /\ Blake256Size \in Nat \ {0}
    /\ SignatureSize \in Nat \ {0}

Uint64Size == 8

-----------------------------------------------------------------------------
(* Arrays.                                                                 *)

Uint8T == Array(1)
Uint8TVerify(s) == Len(s) = 1
Uint8TDefault == Zeros(1)

Uint64T == Array(Uint64Size)
Uint64TVerify(s) == Len(s) = Uint64Size
Uint64TDefault == Zeros(Uint64Size)

Blake160 == Array(Blake160Size)
Blake160Verify(s) == Len(s) = Blake160Size
Blake160Default == Zeros(Blake160Size)

Blake256 == Array(Blake256Size)
Blake256Verify(s) == Len(s) = Blake256Size
Blake256Default == Zeros(Blake256Size)

Signature == Array(SignatureSize)
SignatureVerify(s) == Len(s) = SignatureSize
SignatureDefault == Zeros(SignatureSize)

\* An integer is stored with its lowest byte first.
IntoUint8T(n) == <<n>>
FromUint8T(s) == s[1]

IntoUint64T(n) == pack_number(n) \o pack_number(n \div Numbers)
FromUint64T(s) == unpack_number(s, 0) + Numbers * unpack_number(s, NUMBER_SIZE)

\* The other arrays are the bytes they are made of, and copied out into an
\* array of the same size: one of another size panics.
IntoBlake160(bytes) == bytes
FromBlake160(s) == s
IntoBlake256(bytes) == bytes
FromBlake256(s) == s
IntoSignature(bytes) == bytes

-----------------------------------------------------------------------------
(* Vectors.                                                                *)

NftsVerify(s) == FixvecVerify(s, Blake160Size)
NftsRead(s) == FixvecItems(s, Blake160Size)
NftsBuild(items) == FixvecBuild(items)
NftsDefault == NftsBuild(<< >>)

HashesVerify(s) == FixvecVerify(s, Blake256Size)
HashesRead(s) == FixvecItems(s, Blake256Size)
HashesBuild(items) == FixvecBuild(items)
HashesDefault == HashesBuild(<< >>)

BytesVerify(s) == FixvecVerify(s, 1)
BytesRead(s) == Cut(s, NUMBER_SIZE, NUMBER_SIZE + FixvecCount(s))
BytesBuild(bytes) == pack_number(Len(bytes)) \o bytes

OperationsVerify(s) ==
    /\ DynvecHeaderVerify(s)
    /\ \A i \in 1 .. HeaderCount(s) : BytesVerify(DynvecItems(s)[i])
OperationsRead(s) == DynvecItems(s)
OperationsBuild(items) == DynvecBuild(items)
OperationsDefault == OperationsBuild(<< >>)

\* Lists of hashes and of nfts are built item by item, each time from what the
\* vector built so far is read as; operations are built at once.
IntoHashes(hashes) ==
    LET built[i \in 0 .. Len(hashes)] ==
          IF i = 0 THEN HashesDefault
          ELSE HashesBuild(Append(HashesRead(built[i - 1]), IntoBlake256(hashes[i])))
    IN  built[Len(hashes)]
FromHashes(s) == [i \in 1 .. FixvecCount(s) |-> FromBlake256(HashesRead(s)[i])]

IntoNfts(nfts) ==
    LET built[i \in 0 .. Len(nfts)] ==
          IF i = 0 THEN NftsDefault
          ELSE NftsBuild(Append(NftsRead(built[i - 1]), IntoBlake160(nfts[i])))
    IN  built[Len(nfts)]
FromNfts(s) == [i \in 1 .. FixvecCount(s) |-> FromBlake160(NftsRead(s)[i])]

IntoBytes(bytes) == BytesBuild(bytes)
IntoOperations(operations) ==
    OperationsBuild([i \in DOMAIN operations |-> IntoBytes(operations[i])])
FromOperations(s) ==
    [i \in DOMAIN OperationsRead(s) |-> BytesRead(OperationsRead(s)[i])]

-----------------------------------------------------------------------------
(* Round: what a player does in one turn.                                  *)

RoundBuild(r) == TableBuild(<<r.user_type, r.operations>>)

RoundRead(s) == [user_type |-> Field(s, 1, 2), operations |-> Field(s, 2, 2)]

RoundVerify(s) ==
    /\ TableHeaderVerify(s, 2)
    /\ \A i \in 1 .. 2 :
        LET field == Part(s, i, HeaderCount(s)) IN
        CASE i = 1 -> Uint8TVerify(field)
          [] i = 2 -> OperationsVerify(field)

-----------------------------------------------------------------------------
(* Args: the terms of a channel and its two users, in the args of its lock.*)

ArgsDefault ==
    [user_staking_ckb |-> Uint64TDefault, user_deck_size |-> Uint8TDefault,
     begin_blocknumber |-> Uint64TDefault, lock_code_hash |-> Blake256Default,
     lua_code_hashes |-> HashesDefault,
     user1_pkhash |-> Blake160Default, user1_nfts |-> NftsDefault,
     user2_pkhash |-> Blake160Default, user2_nfts |-> NftsDefault]

\* Slip: the two lists of nfts are written in the wrong order.
ArgsBuildSlip(a) ==
    TableBuild(<<a.user_staking_ckb, a.user_deck_size, a.begin_blocknumber,
                 a.lock_code_hash, a.lua_code_hashes,
                 a.user1_pkhash, a.user2_nfts, a.user2_pkhash, a.user1_nfts>>)

ArgsBuild(a) ==
    TableBuild(<<a.user_staking_ckb, a.user_deck_size, a.begin_blocknumber,
                 a.lock_code_hash, a.lua_code_hashes,
                 a.user1_pkhash, a.user1_nfts, a.user2_pkhash, a.user2_nfts>>)

ArgsField(s, i) == Field(s, i, 9)

\* What as_builder takes over from a slice.
ArgsRead(s) ==
    [user_staking_ckb |-> ArgsField(s, 1), user_deck_size |-> ArgsField(s, 2),
     begin_blocknumber |-> ArgsField(s, 3), lock_code_hash |-> ArgsField(s, 4),
     lua_code_hashes |-> ArgsField(s, 5),
     user1_pkhash |-> ArgsField(s, 6), user1_nfts |-> ArgsField(s, 7),
     user2_pkhash |-> ArgsField(s, 8), user2_nfts |-> ArgsField(s, 9)]

ArgsVerify(s) ==
    /\ TableHeaderVerify(s, 9)
    /\ \A i \in 1 .. 9 :
        LET field == Part(s, i, HeaderCount(s)) IN
        CASE i \in {1, 3} -> Uint64TVerify(field)
          [] i = 2        -> Uint8TVerify(field)
          [] i = 4        -> Blake256Verify(field)
          [] i = 5        -> HashesVerify(field)
          [] i \in {6, 8} -> Blake160Verify(field)
          [] i \in {7, 9} -> NftsVerify(field)

-----------------------------------------------------------------------------
(* Challenge: the data of a channel's cell once it was challenged.         *)

ChallengeBuild(c) ==
    TableBuild(<<c.count, c.challenger, c.snapshot_position,
                 c.snapshot_hashproof, c.snapshot_signature, c.operations>>)

ChallengeField(s, i) == Field(s, i, 6)

ChallengeRead(s) ==
    [count |-> ChallengeField(s, 1), challenger |-> ChallengeField(s, 2),
     snapshot_position |-> ChallengeField(s, 3),
     snapshot_hashproof |-> ChallengeField(s, 4),
     snapshot_signature |-> ChallengeField(s, 5), operations |-> ChallengeField(s, 6)]

ChallengeVerify(s) ==
    /\ TableHeaderVerify(s, 6)
    /\ \A i \in 1 .. 6 :
        LET field == Part(s, i, HeaderCount(s)) IN
        CASE i \in {1, 2, 3} -> Uint8TVerify(field)
          [] i = 4           -> Blake256Verify(field)
          [] i = 5           -> SignatureVerify(field)
          [] i = 6           -> OperationsVerify(field)
=============================================================================
