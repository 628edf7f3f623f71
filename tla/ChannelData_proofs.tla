------------------------- MODULE ChannelData_proofs -------------------------
(***************************************************************************)
(* Theorems about the layouts of Molecule.tla and the reads of              *)
(* ChannelData.tla, for slices of any length and bytes of any number of     *)
(* values: what a verified header promises to the code that then takes the  *)
(* slice apart, and that what was verified before it is read is read        *)
(* without a panic, whoever wrote it and however long it is.                *)
(***************************************************************************)
EXTENDS ChannelDataProperties, WellFoundedInduction, SequenceTheorems, TLAPS

(* Among finitely many positions with a property there is a last one.       *)
LEMMA LastOf ==
  ASSUME NEW n \in Nat, NEW T \in SUBSET (1 .. n), T # {}
  PROVE  \E x \in T : \A y \in T : y <= x
<1> DEFINE R == {n - x : x \in T}
<1>1. R \in SUBSET Nat /\ R # {}
  <2>1. \A x \in T : x \in 1 .. n /\ n - x \in Nat
    OBVIOUS
  <2>2. QED
    BY <2>1, Zenon
<1>2. PICK r \in R : \A q \in R : ~ (<<q, r>> \in OpToRel(<, Nat))
  BY <1>1, NatLessThanWellFounded, WFMin, Zenon
<1>3. PICK x \in T : r = n - x
  OBVIOUS
<1>4. ASSUME NEW y \in T
      PROVE  y <= x
  <2>1. n - y \in R /\ n - y \in Nat /\ r \in Nat
    OBVIOUS
  <2>2. ~ (n - y < r)
    BY <1>2, <2>1 DEF OpToRel
  <2>3. QED
    BY <1>3, <2>1, <2>2
<1>5. QED
  BY <1>4

(* A number that lies in the slice is a natural number.                     *)
LEMMA NumberNat ==
  ASSUME NEW s \in Slice, NEW at \in Nat, HasNumber(s, at)
  PROVE  unpack_number(s, at) \in Nat
<1>1. \A b \in Byte, x \in Nat : b + Base * x \in Nat
  BY BaseAssumption DEF Byte
<1>2. \A i \in 1 .. 4 : s[at + i] \in Byte
  BY DEF Slice, HasNumber, NUMBER_SIZE
<1>3. s[at + 3] + Base * s[at + 4] \in Nat
  BY <1>1, <1>2, BaseAssumption DEF Byte
<1>4. s[at + 2] + Base * (s[at + 3] + Base * s[at + 4]) \in Nat
  BY <1>1, <1>2, <1>3
<1>5. QED
  BY <1>1, <1>2, <1>4 DEF unpack_number

(* The offsets of a verified header lie in the slice.                       *)
LEMMA HeaderOffsets ==
  ASSUME NEW s \in Slice, HeaderVerify(s)
  PROVE  /\ HeaderCount(s) \in Nat \ {0}
         /\ Len(s) \in Nat
         /\ \A i \in 1 .. HeaderCount(s) :
               HasNumber(s, NUMBER_SIZE * i) /\ Offset(s, i) \in Nat
<1>1. Len(s) \in Nat
  BY DEF Slice
<1>2. Offset(s, 1) \in 8 .. Len(s) /\ Offset(s, 1) % 4 = 0 /\ TotalSize(s) = Len(s)
  BY DEF HeaderVerify, NUMBER_SIZE
<1>3. HeaderCount(s) = Offset(s, 1) \div 4 - 1
  BY <1>1, <1>2 DEF HeaderCount, NUMBER_SIZE
<1>4. 4 * (HeaderCount(s) + 1) = Offset(s, 1) /\ HeaderCount(s) \in Nat \ {0}
  <2> DEFINE o == Offset(s, 1)
  <2>1. o \in Nat /\ o >= 8 /\ o % 4 = 0
    BY <1>1, <1>2
  <2> HIDE DEF o
  <2>2. o = 4 * (o \div 4) /\ o \div 4 >= 2 /\ o \div 4 \in Nat
    BY <2>1
  <2>3. QED
    BY <1>3, <2>2 DEF o
<1>5. ASSUME NEW i \in 1 .. HeaderCount(s)
      PROVE  HasNumber(s, NUMBER_SIZE * i) /\ Offset(s, i) \in Nat
  <2>1. HasNumber(s, NUMBER_SIZE * i) /\ NUMBER_SIZE * i \in Nat
    BY <1>1, <1>2, <1>4 DEF HasNumber, NUMBER_SIZE
  <2>2. QED
    BY <2>1, NumberNat DEF Offset
<1>6. QED
  BY <1>1, <1>4, <1>5

(* A slice whose header was verified is taken apart without leaving it: the *)
(* parts follow one another and the last one ends with the slice, for the    *)
(* code compares each start with the next (verify in channel/protocol.rs).  *)
THEOREM VerifiedParts ==
  ASSUME NEW s \in Slice, HeaderVerify(s)
  PROVE  PartsInBounds(s)
<1> DEFINE n == HeaderCount(s)
           Beyond == {i \in 1 .. n : Offset(s, i) > Len(s)}
<1>1. n \in Nat \ {0} /\ Len(s) \in Nat /\ \A i \in 1 .. n : Offset(s, i) \in Nat
  BY HeaderOffsets
<1>2. \A i \in 1 .. n : Offset(s, i) <= PartEnd(s, i, n)
  BY DEF HeaderVerify
<1> HIDE DEF n
<1>3. Beyond = {}
  <2> SUFFICES ASSUME Beyond # {}
               PROVE  FALSE
    OBVIOUS
  <2>1. PICK x \in Beyond : \A y \in Beyond : y <= x
    <3>1. Beyond \in SUBSET (1 .. n)
      OBVIOUS
    <3> HIDE DEF Beyond
    <3>2. QED
      BY <1>1, <3>1, LastOf
  <2>2. CASE x = n
    BY <1>1, <1>2, <2>2 DEF PartEnd
  <2>3. CASE x # n
    <3>1. x + 1 \in 1 .. n /\ Offset(s, x) <= Offset(s, x + 1)
      BY <1>1, <1>2, <2>3 DEF PartEnd
    <3>2. x + 1 \in Beyond
      BY <1>1, <3>1
    <3>3. QED
      BY <1>1, <2>1, <3>2
  <2>4. QED
    BY <2>2, <2>3
<1>4. \A i \in 1 .. n : PartEnd(s, i, n) <= Len(s)
  BY <1>1, <1>3 DEF PartEnd
<1>5. QED
  BY <1>2, <1>4 DEF PartsInBounds, n

(* A part of a slice is a slice.                                            *)
LEMMA CutOfSlice ==
  ASSUME NEW s \in Slice, NEW from \in Nat, NEW to \in Nat, to <= Len(s), from <= to
  PROVE  Cut(s, from, to) \in Slice /\ Len(Cut(s, from, to)) = to - from
BY DEF Cut, Slice

(* The getters of a verified table read within its slice, and read the       *)
(* parts that were verified (the getters in channel/protocol.rs verify      *)
(* nothing; only the last looks at the number of fields).                   *)
THEOREM VerifiedFields ==
  ASSUME NEW s \in Slice, HeaderVerify(s), NEW i \in 1 .. HeaderCount(s)
  PROVE  /\ FieldInBounds(s, i, HeaderCount(s))
         /\ Field(s, i, HeaderCount(s)) = Part(s, i, HeaderCount(s))
         /\ Field(s, i, HeaderCount(s)) \in Slice
<1> DEFINE n == HeaderCount(s)
<1>1. n \in Nat \ {0} /\ Len(s) \in Nat /\ i \in 1 .. n
  BY HeaderOffsets
<1>2. \A j \in 1 .. n : HasNumber(s, NUMBER_SIZE * j) /\ Offset(s, j) \in Nat
  BY HeaderOffsets
<1>3. Offset(s, i) <= PartEnd(s, i, n) /\ PartEnd(s, i, n) <= Len(s)
  BY VerifiedParts DEF PartsInBounds
<1> HIDE DEF n
<1>4. FieldEnd(s, i, n) = PartEnd(s, i, n)
  BY DEF FieldEnd, PartEnd, n
<1>5. PartEnd(s, i, n) \in Nat
  BY <1>1, <1>2 DEF PartEnd, n
<1>6. (i # n \/ HeaderCount(s) # n) => HasNumber(s, NUMBER_SIZE * (i + 1))
  BY <1>1, <1>2 DEF n
<1>7. FieldInBounds(s, i, n)
  BY <1>1, <1>2, <1>3, <1>4, <1>6 DEF FieldInBounds
<1>8. Field(s, i, n) = Part(s, i, n) /\ Field(s, i, n) \in Slice
  BY <1>1, <1>2, <1>3, <1>4, <1>5, CutOfSlice DEF Field, Part
<1>9. QED
  BY <1>7, <1>8 DEF n

(* The terms of a channel, verified, are read without leaving the slice     *)
(* (builder.rs 470 and 629).                                                *)
THEOREM ArgsAreSafe ==
  ASSUME NEW s \in Slice
  PROVE  ArgsSafe(s)
<1>1. HeaderVerify(s) => PartsInBounds(s)
  BY VerifiedParts
<1>2. ASSUME ArgsVerify(s)
      PROVE  /\ \A i \in 1 .. 9 : ArgsInBounds(s, i)
             /\ StakingReadable(s) /\ UserReadable(s, 6) /\ UserReadable(s, 8)
  <2>1. HeaderVerify(s) /\ HeaderCount(s) = 9
    BY <1>2, Zenon DEF ArgsVerify, TableHeaderVerify
  <2>2. /\ Uint64TVerify(Part(s, 1, 9))
        /\ Blake160Verify(Part(s, 6, 9)) /\ Blake160Verify(Part(s, 8, 9))
    BY <1>2 DEF ArgsVerify, TableHeaderVerify
  <2>3. ASSUME NEW i \in 1 .. 9
        PROVE  FieldInBounds(s, i, 9) /\ Field(s, i, 9) = Part(s, i, 9)
    BY <2>1, VerifiedFields
  <2>4. QED
    BY <2>2, <2>3 DEF ArgsInBounds, StakingReadable, UserReadable, ArgsField
<1>3. QED
  BY <1>1, <1>2, Zenon DEF ArgsSafe

(* So is the data of a challenged channel, and its list of operations       *)
(* (builder.rs 485 and 677).                                                *)
THEOREM ChallengesAreSafe ==
  ASSUME NEW s \in Slice
  PROVE  ChallengeSafe(s)
<1>1. HeaderVerify(s) => PartsInBounds(s)
  BY VerifiedParts
<1>2. ASSUME ChallengeVerify(s)
      PROVE  /\ \A i \in 1 .. 6 : FieldInBounds(s, i, 6)
             /\ \A i \in 1 .. 2 : Len(ChallengeField(s, i)) >= 1
             /\ LET operations == ChallengeField(s, 6)
                IN  HeaderVerify(operations) => PartsInBounds(operations)
  <2>1. HeaderVerify(s) /\ HeaderCount(s) = 6
    BY <1>2, Zenon DEF ChallengeVerify, TableHeaderVerify
  <2>2. Uint8TVerify(Part(s, 1, 6)) /\ Uint8TVerify(Part(s, 2, 6))
    BY <1>2 DEF ChallengeVerify, TableHeaderVerify
  <2>3. ASSUME NEW i \in 1 .. 6
        PROVE  /\ FieldInBounds(s, i, 6) /\ Field(s, i, 6) = Part(s, i, 6)
               /\ Field(s, i, 6) \in Slice
    BY <2>1, VerifiedFields
  <2>4. \A i \in 1 .. 2 : Len(ChallengeField(s, i)) >= 1
    BY <2>2, <2>3 DEF ChallengeField, Uint8TVerify
  <2>5. LET operations == ChallengeField(s, 6)
        IN  HeaderVerify(operations) => PartsInBounds(operations)
    BY <2>3, VerifiedParts DEF ChallengeField
  <2>6. QED
    BY <2>3, <2>4, <2>5
<1>3. QED
  BY <1>1, <1>2, Zenon DEF ChallengeSafe

(* A set of naturals that is not empty has a least element.                 *)
LEMMA Least ==
  ASSUME NEW T \in SUBSET Nat, T # {}
  PROVE  \E x \in T : \A y \in T : x <= y
<1>1. PICK x \in T : \A y \in T : ~ (<<y, x>> \in OpToRel(<, Nat))
  BY NatLessThanWellFounded, WFMin, Zenon
<1>2. ASSUME NEW y \in T
      PROVE  x <= y
  <2>1. x \in Nat /\ y \in Nat
    OBVIOUS
  <2>2. ~ (y < x)
    BY <1>1, <2>1 DEF OpToRel
  <2>3. QED
    BY <2>1, <2>2
<1>3. QED
  BY <1>2

(* Induction over the naturals, with a set in place of a predicate.         *)
LEMMA Induct ==
  ASSUME NEW T, 0 \in T, \A n \in Nat : n \in T => n + 1 \in T
  PROVE  \A n \in Nat : n \in T
<1> SUFFICES ASSUME Nat \ T # {} PROVE FALSE
  OBVIOUS
<1>1. PICK x \in Nat \ T : \A y \in Nat \ T : x <= y
  BY Least
<1>2. x - 1 \in Nat /\ x - 1 \in T
  BY <1>1
<1> QED BY <1>1, <1>2

(* A function by recursion over the first naturals: G gives each value from the *)
(* one before.                                                              *)
Recursive(f, D, b, n, G) ==
  /\ f \in [0 .. n -> D]
  /\ f[0] = b
  /\ \A i \in 1 .. n : f[i] = G[i][f[i - 1]]

(* Such a function exists.                                                  *)
LEMMA Recursion ==
  ASSUME NEW D, NEW b \in D, NEW n \in Nat, NEW G \in [Nat -> [D -> D]]
  PROVE  \E f : Recursive(f, D, b, n, G)
<1> DEFINE T == {k \in Nat : \E f : Recursive(f, D, b, k, G)}
<1>1. 0 \in T
  <2> DEFINE f == [i \in 0 .. 0 |-> b]
  <2>1. f \in [0 .. 0 -> D] /\ f[0] = b
    OBVIOUS
  <2> HIDE DEF f
  <2>2. Recursive(f, D, b, 0, G)
    BY <2>1 DEF Recursive
  <2>3. QED
    BY <2>2
<1>2. ASSUME NEW k \in Nat, k \in T
      PROVE  k + 1 \in T
  <2>0. PICK f : Recursive(f, D, b, k, G)
    BY <1>2
  <2>1. f \in [0 .. k -> D] /\ f[0] = b /\ \A i \in 1 .. k : f[i] = G[i][f[i - 1]]
    BY <2>0 DEF Recursive
  <2> DEFINE v == G[k + 1][f[k]]
             g == [i \in 0 .. k + 1 |-> IF i = k + 1 THEN v ELSE f[i]]
  <2>2. v \in D
    <3>1. k + 1 \in Nat /\ f[k] \in D
      BY <2>1
    <3>2. G[k + 1] \in [D -> D]
      BY <3>1
    <3>3. QED
      BY <3>1, <3>2
  <2>3. g[k + 1] = v /\ \A i \in 0 .. k : g[i] = f[i]
    OBVIOUS
  <2>4. g \in [0 .. k + 1 -> D]
    <3> HIDE DEF v
    <3>1. \A i \in 0 .. k + 1 : i # k + 1 => i \in 0 .. k
      OBVIOUS
    <3>2. QED
      BY <2>1, <2>2, <3>1
  <2> HIDE DEF g
  <2>5. ASSUME NEW i \in 1 .. k + 1
        PROVE  g[i] = G[i][g[i - 1]]
    <3>1. CASE i = k + 1
      BY <2>3, <3>1
    <3>2. CASE i # k + 1
      <4>1. i \in 1 .. k /\ i \in 0 .. k /\ i - 1 \in 0 .. k
        BY <3>2
      <4>2. QED
        BY <2>1, <2>3, <4>1
    <3>3. QED
      BY <3>1, <3>2
  <2>6. g[0] = b
    BY <2>1, <2>3
  <2>7. Recursive(g, D, b, k + 1, G)
    BY <2>4, <2>5, <2>6 DEF Recursive
  <2>8. QED
    BY <2>7
<1> HIDE DEF T
<1>3. n \in T
  BY <1>1, <1>2, Induct
<1>4. QED
  BY <1>3 DEF T

-----------------------------------------------------------------------------
(* What is cut out of sequences, by positions that count from 0.            *)

(* A cut, and its elements.                                                 *)
LEMMA CutIs ==
  ASSUME NEW S, NEW s \in Seq(S), NEW a \in Nat, NEW b \in Nat, a <= b, b <= Len(s)
  PROVE  /\ Cut(s, a, b) \in Seq(S)
         /\ Len(Cut(s, a, b)) = b - a
         /\ \A k \in 1 .. b - a : Cut(s, a, b)[k] = s[a + k]
<1>1. \A i \in a + 1 .. b : s[i] \in S
  <2>1. \A i \in 1 .. Len(s) : s[i] \in S
    BY ElementOfSeq
  <2>2. Len(s) \in Nat
    OBVIOUS
  <2>3. QED
    BY <2>1, <2>2
<1>2. a + 1 \in Int /\ b \in Int
  OBVIOUS
<1>3. /\ SubSeq(s, a + 1, b) \in Seq(S)
      /\ Len(SubSeq(s, a + 1, b)) = IF a + 1 <= b THEN b - (a + 1) + 1 ELSE 0
      /\ \A i \in 1 .. b - (a + 1) + 1 : SubSeq(s, a + 1, b)[i] = s[(a + 1) + i - 1]
  BY <1>1, <1>2, SubSeqProperties
<1>4. \A i \in 1 .. b - a : i \in 1 .. b - (a + 1) + 1 /\ (a + 1) + i - 1 = a + i
  OBVIOUS
<1>5. (IF a + 1 <= b THEN b - (a + 1) + 1 ELSE 0) = b - a
  OBVIOUS
<1>6. QED
  BY <1>3, <1>4, <1>5 DEF Cut

(* Two cuts of the same length with the same elements are the same.         *)
Alike(s, a, t, c, n) == \A k \in 1 .. n : s[a + k] = t[c + k]

(* Such cuts are the same sequence.                                         *)
LEMMA CutsEqual ==
  ASSUME NEW S, NEW s \in Seq(S), NEW t \in Seq(S), NEW a \in Nat, NEW c \in Nat, NEW n \in Nat,
         a + n <= Len(s), c + n <= Len(t), Alike(s, a, t, c, n)
  PROVE  Cut(s, a, a + n) = Cut(t, c, c + n)
<1> DEFINE x == Cut(s, a, a + n)
           y == Cut(t, c, c + n)
<1>1. x \in Seq(S) /\ Len(x) = n /\ \A k \in 1 .. n : x[k] = s[a + k]
  <2>1. a + n \in Nat /\ a <= a + n /\ (a + n) - a = n
    OBVIOUS
  <2> DEFINE b == a + n
  <2> HIDE DEF b
  <2>2. Cut(s, a, b) \in Seq(S) /\ Len(Cut(s, a, b)) = b - a /\ \A k \in 1 .. b - a : Cut(s, a, b)[k] = s[a + k]
    <3>1. s \in Seq(S) /\ a \in Nat /\ b \in Nat /\ a <= b /\ b <= Len(s)
      BY <2>1 DEF b
    <3>2. QED
      BY ONLY <3>1, CutIs
  <2>3. QED
    BY <2>1, <2>2 DEF b
<1>2. y \in Seq(S) /\ Len(y) = n /\ \A k \in 1 .. n : y[k] = t[c + k]
  <2>1. c + n \in Nat /\ c <= c + n /\ (c + n) - c = n
    OBVIOUS
  <2> DEFINE b == c + n
  <2> HIDE DEF b
  <2>2. Cut(t, c, b) \in Seq(S) /\ Len(Cut(t, c, b)) = b - c /\ \A k \in 1 .. b - c : Cut(t, c, b)[k] = t[c + k]
    <3>1. t \in Seq(S) /\ c \in Nat /\ b \in Nat /\ c <= b /\ b <= Len(t)
      BY <2>1 DEF b
    <3>2. QED
      BY ONLY <3>1, CutIs, ZenonT(60)
  <2>3. QED
    BY <2>1, <2>2 DEF b
<1> HIDE DEF x, y
<1>3. Len(x) = Len(y) /\ \A k \in 1 .. Len(x) : x[k] = y[k]
  BY <1>1, <1>2 DEF Alike
<1>4. x = y
  BY <1>1, <1>2, <1>3, SeqEqual
<1>5. QED
  BY <1>4 DEF x, y

(* All of a sequence, cut out of it.                                        *)
LEMMA CutWhole ==
  ASSUME NEW S, NEW s \in Seq(S)
  PROVE  Cut(s, 0, Len(s)) = s
<1>1. SubSeq(s, 1, Len(s)) = s
  BY SubSeqFull
<1>2. 0 + 1 = 1
  OBVIOUS
<1>3. QED
  BY <1>1, <1>2 DEF Cut

(* What is cut out of the first of two sequences,                           *)
LEMMA CutLeft ==
  ASSUME NEW S, NEW s \in Seq(S), NEW t \in Seq(S), NEW a \in Nat, NEW b \in Nat, a <= b, b <= Len(s)
  PROVE  Cut(s \o t, a, b) = Cut(s, a, b)
<1>1. /\ s \o t \in Seq(S) /\ Len(s \o t) = Len(s) + Len(t)
      /\ \A i \in 1 .. Len(s) + Len(t) : (s \o t)[i] = IF i <= Len(s) THEN s[i] ELSE t[i - Len(s)]
  BY ConcatProperties
<1>2. Len(s) \in Nat /\ Len(t) \in Nat
  OBVIOUS
<1> DEFINE st == s \o t
           n == b - a
<1>3. \A k \in 1 .. n : a + k \in 1 .. Len(s) + Len(t) /\ a + k <= Len(s)
  BY <1>2
<1>4. Alike(st, a, s, a, n)
  BY <1>1, <1>3 DEF Alike
<1>5. st \in Seq(S) /\ n \in Nat /\ a + n = b /\ a + n <= Len(st) /\ a + n <= Len(s)
  BY <1>1, <1>2
<1> HIDE DEF st, n
<1>6. Cut(st, a, a + n) = Cut(s, a, a + n)
  BY <1>4, <1>5, CutsEqual
<1>7. QED
  BY <1>5, <1>6 DEF st

(* and out of the second.                                                   *)
LEMMA CutRight ==
  ASSUME NEW S, NEW s \in Seq(S), NEW t \in Seq(S), NEW a \in Nat, NEW b \in Nat,
         a <= b, b <= Len(t)
  PROVE  Cut(s \o t, Len(s) + a, Len(s) + b) = Cut(t, a, b)
<1> DEFINE st == s \o t
           l == Len(s)
<1>1. /\ st \in Seq(S) /\ Len(st) = Len(s) + Len(t)
      /\ \A i \in 1 .. Len(s) + Len(t) : ~(i <= Len(s)) => st[i] = t[i - Len(s)]
  BY ConcatProperties
<1>2. Len(s) \in Nat /\ Len(t) \in Nat
  OBVIOUS
<1> DEFINE n == b - a
           c == l + a
<1>3. \A k \in 1 .. n : /\ c + k \in 1 .. Len(s) + Len(t) /\ ~(c + k <= Len(s))
                         /\ (c + k) - Len(s) = a + k
  BY <1>2
<1>4. Alike(st, c, t, a, n)
  <2> HIDE DEF c, n, st
  <2>1. ASSUME NEW k \in 1 .. n
        PROVE  st[c + k] = t[(c + k) - Len(s)]
    <3>1. c + k \in 1 .. Len(s) + Len(t) /\ ~(c + k <= Len(s))
      BY <1>3
    <3> DEFINE i == c + k
    <3>2. i \in 1 .. Len(s) + Len(t) /\ ~(i <= Len(s))
      BY <3>1
    <3> HIDE DEF i
    <3>3. st[i] = t[i - Len(s)]
      BY <1>1, <3>2
    <3>4. QED
      BY <3>3 DEF i
  <2>2. QED
    BY <1>3, <2>1, Zenon DEF Alike
<1>5. /\ st \in Seq(S) /\ n \in Nat /\ c \in Nat /\ c + n = l + b /\ a + n = b
      /\ c + n <= Len(st) /\ a + n <= Len(t)
  BY <1>1, <1>2
<1> HIDE DEF st, n
<1>6. Cut(st, c, c + n) = Cut(t, a, a + n)
  <2> HIDE DEF c
  <2>1. QED
    BY <1>4, <1>5, CutsEqual
<1>7. QED
  BY <1>5, <1>6 DEF st

(* Neighbouring cuts make one.                                              *)
LEMMA CutJoin ==
  ASSUME NEW S, NEW s \in Seq(S), NEW a \in Nat, NEW b \in Nat, NEW c \in Nat,
         a <= b, b <= c, c <= Len(s)
  PROVE  Cut(s, a, b) \o Cut(s, b, c) = Cut(s, a, c)
<1> DEFINE x == Cut(s, a, b)
           y == Cut(s, b, c)
           z == Cut(s, a, c)
<1>1. /\ x \in Seq(S) /\ Len(x) = b - a /\ \A k \in 1 .. b - a : x[k] = s[a + k]
      /\ y \in Seq(S) /\ Len(y) = c - b /\ \A k \in 1 .. c - b : y[k] = s[b + k]
      /\ z \in Seq(S) /\ Len(z) = c - a /\ \A k \in 1 .. c - a : z[k] = s[a + k]
  <2>1. b <= Len(s) /\ a <= c
    OBVIOUS
  <2>2. x \in Seq(S) /\ Len(x) = b - a /\ \A k \in 1 .. b - a : x[k] = s[a + k]
    BY <2>1, CutIs
  <2>3. y \in Seq(S) /\ Len(y) = c - b /\ \A k \in 1 .. c - b : y[k] = s[b + k]
    BY CutIs
  <2>4. z \in Seq(S) /\ Len(z) = c - a /\ \A k \in 1 .. c - a : z[k] = s[a + k]
    BY <2>1, CutIs
  <2>5. QED
    BY <2>2, <2>3, <2>4
<1> HIDE DEF x, y, z
<1>2. /\ x \o y \in Seq(S) /\ Len(x \o y) = Len(x) + Len(y)
      /\ \A i \in 1 .. Len(x) + Len(y) : (x \o y)[i] = IF i <= Len(x) THEN x[i] ELSE y[i - Len(x)]
  BY <1>1, ConcatProperties
<1>3. Len(x \o y) = Len(z)
  BY <1>1, <1>2
<1>4. ASSUME NEW i \in 1 .. Len(z)
      PROVE  (x \o y)[i] = z[i]
  <2>1. i \in 1 .. c - a /\ i \in 1 .. Len(x) + Len(y)
    BY <1>1
  <2>2. CASE i <= Len(x)
    BY <1>1, <1>2, <2>1, <2>2
  <2>3. CASE ~(i <= Len(x))
    <3>1. i - Len(x) \in 1 .. c - b /\ b + (i - Len(x)) = a + i
      BY <1>1, <2>1, <2>3
    <3>2. (x \o y)[i] = y[i - Len(x)]
      BY <1>2, <2>1, <2>3
    <3>3. QED
      BY <1>1, <2>1, <3>1, <3>2
  <2>4. QED
    BY <2>2, <2>3
<1>5. x \o y = z
  BY <1>1, <1>2, <1>3, <1>4, SeqEqual
<1>6. QED
  BY <1>5 DEF x, y, z

-----------------------------------------------------------------------------
(* The numbers of the headers.                                              *)

(* A number and its lowest digit.                                           *)
LEMMA Digit ==
  ASSUME NEW n \in Nat
  PROVE  /\ n % Base \in Byte /\ n \div Base \in Nat
         /\ n = (n % Base) + Base * (n \div Base)
         /\ \A m \in Nat : n < Base * m => n \div Base < m
<1>1. Base \in Nat /\ Base > 0
  BY BaseAssumption
<1>2. n % Base \in Byte /\ n \div Base \in Nat /\ n = (n % Base) + Base * (n \div Base)
  BY <1>1 DEF Byte
<1> DEFINE q == n \div Base
           r == n % Base
<1>3. ASSUME NEW m \in Nat, n < Base * m
      PROVE  q < m
  <2>1. r \in Nat /\ q \in Nat /\ n = r + Base * q
    BY <1>2 DEF Byte
  <2> HIDE DEF q, r
  <2>2. SUFFICES ASSUME m <= q PROVE FALSE
    BY <2>1
  <2>3. Base * m <= Base * q
    BY <1>1, <2>1, <2>2
  <2>4. Base * m \in Nat /\ Base * q \in Nat
    BY <1>1, <2>1
  <2>5. QED
    BY <1>3, <2>1, <2>3, <2>4
<1>4. QED
  BY <1>2, <1>3

(* A digit and a number make a larger number.                               *)
LEMMA Undigit ==
  ASSUME NEW d \in Byte, NEW q \in Nat
  PROVE  /\ d + Base * q \in Nat
         /\ (d + Base * q) % Base = d /\ (d + Base * q) \div Base = q
         /\ \A m \in Nat : q < m => d + Base * q < Base * m
<1>1. Base \in Nat /\ Base > 0 /\ d \in Nat /\ d < Base
  BY BaseAssumption DEF Byte
<1>2. Base * q \in Nat
  BY <1>1
<1> DEFINE n == d + Base * q
<1>3. n \in Nat
  BY <1>1, <1>2
<1>4. n \div Base = q /\ n % Base = d
  <2>1. n % Base \in 0 .. Base - 1 /\ n \div Base \in Nat /\ n = (n % Base) + Base * (n \div Base)
    BY <1>3, Digit DEF Byte
  <2> DEFINE u == n \div Base
             e == n % Base
  <2>2. e + Base * u = d + Base * q /\ e \in Nat /\ e < Base /\ u \in Nat
    BY <1>1, <2>1
  <2> HIDE DEF n, u, e
  <2>3. u = q
    <3>1. ASSUME u < q PROVE FALSE
      <4>1. u + 1 <= q
        BY <2>2, <3>1
      <4>2. Base * (u + 1) <= Base * q
        BY <1>1, <2>2, <4>1
      <4>3. Base * (u + 1) = Base * u + Base
        BY <1>1, <2>2
      <4>4. Base * u \in Nat /\ Base * q \in Nat
        BY <1>1, <2>2
      <4>5. QED
        BY <1>1, <2>2, <4>2, <4>3, <4>4
    <3>2. ASSUME q < u PROVE FALSE
      <4>1. q + 1 <= u
        BY <2>2, <3>2
      <4>2. Base * (q + 1) <= Base * u
        BY <1>1, <2>2, <4>1
      <4>3. Base * (q + 1) = Base * q + Base
        BY <1>1, <2>2
      <4>4. Base * u \in Nat /\ Base * q \in Nat
        BY <1>1, <2>2
      <4>5. QED
        BY <1>1, <2>2, <4>2, <4>3, <4>4
    <3>3. QED
      BY <2>2, <3>1, <3>2
  <2>4. e = d
    <3>1. Base * u = Base * q /\ Base * q \in Nat
      BY <1>2, <2>3
    <3>2. QED
      BY <1>1, <2>2, <3>1
  <2>5. QED
    BY <2>3, <2>4 DEF u, e
<1>5. ASSUME NEW m \in Nat, q < m
      PROVE  d + Base * q < Base * m
  <2>1. Base * (q + 1) <= Base * m
    <3>1. q + 1 <= m
      BY <1>5
    <3>2. QED
      BY <1>1, <3>1
  <2>2. Base * (q + 1) = Base * q + Base
    BY <1>1
  <2>3. Base * m \in Nat
    BY <1>1
  <2>4. QED
    BY <1>1, <1>2, <2>1, <2>2, <2>3
<1>6. QED
  BY <1>3, <1>4, <1>5

(* A number is four bytes.                                                  *)
LEMMA PackIs ==
  ASSUME NEW n \in Nat
  PROVE  pack_number(n) \in Slice /\ Len(pack_number(n)) = 4
<1> DEFINE q1 == n \div Base
           q2 == q1 \div Base
           q3 == q2 \div Base
           p == <<n % Base, q1 % Base, q2 % Base, q3 % Base>>
<1>1. n % Base \in Byte /\ q1 \in Nat
  BY Digit
<1>2. q1 % Base \in Byte /\ q2 \in Nat
  BY <1>1, Digit
<1>3. q2 % Base \in Byte /\ q3 \in Nat
  BY <1>2, Digit
<1>4. q3 % Base \in Byte
  BY <1>3, Digit
<1>5. pack_number(n) = p
  BY DEF pack_number
<1> HIDE DEF q1, q2, q3
<1>6. p \in Slice /\ Len(p) = 4
  BY <1>1, <1>2, <1>3, <1>4 DEF Slice
<1>7. QED
  BY <1>5, <1>6

(* What is packed is unpacked.                                              *)
LEMMA Unpacked ==
  ASSUME NEW n \in Nat, n < Numbers, NEW s, NEW at \in Nat,
         \A i \in 1 .. 4 : s[at + i] = pack_number(n)[i]
  PROVE  unpack_number(s, at) = n
<1> DEFINE q1 == n \div Base
           q2 == q1 \div Base
           q3 == q2 \div Base
           p == <<n % Base, q1 % Base, q2 % Base, q3 % Base>>
<1>1. Base \in Nat
  BY BaseAssumption
<1>2. n < Base * (Base * (Base * Base))
  <2>1. Base * Base * Base * Base = Base * (Base * (Base * Base))
    BY <1>1
  <2>2. QED
    BY <2>1 DEF Numbers
<1>3. Base * Base \in Nat /\ Base * (Base * Base) \in Nat
  BY <1>1
<1>4. q1 \in Nat /\ n = (n % Base) + Base * q1 /\ q1 < Base * (Base * Base)
  BY <1>2, <1>3, Digit
<1>5. q2 \in Nat /\ q1 = (q1 % Base) + Base * q2 /\ q2 < Base * Base
  BY <1>3, <1>4, Digit
<1>6. q3 \in Nat /\ q2 = (q2 % Base) + Base * q3 /\ q3 < Base
  BY <1>1, <1>5, Digit
<1>7. q3 % Base = q3
  <2>1. q3 < Base * 1
    BY <1>1, <1>6
  <2>2. q3 % Base \in Nat /\ q3 \div Base \in Nat /\ q3 = (q3 % Base) + Base * (q3 \div Base)
        /\ q3 \div Base < 1
    <3> HIDE DEF q3
    <3>1. QED
      BY <1>6, <2>1, Digit DEF Byte
  <2> DEFINE u == q3 \div Base
  <2>3. u = 0
    BY <2>2
  <2>4. Base * 0 = 0
    BY <1>1
  <2> HIDE DEF u
  <2>5. q3 = (q3 % Base) + 0
    <3>1. q3 = (q3 % Base) + Base * u
      BY <2>2 DEF u
    <3>2. QED
      BY <2>3, <2>4, <3>1
  <2>6. QED
    BY <2>2, <2>5
<1>8. pack_number(n) = p
  BY DEF pack_number
<1>9. s[at + 1] = n % Base /\ s[at + 2] = q1 % Base /\ s[at + 3] = q2 % Base /\ s[at + 4] = q3 % Base
  <2> HIDE DEF q1, q2, q3
  <2>1. p[1] = n % Base /\ p[2] = q1 % Base /\ p[3] = q2 % Base /\ p[4] = q3 % Base
    OBVIOUS
  <2>2. 1 \in 1 .. 4 /\ 2 \in 1 .. 4 /\ 3 \in 1 .. 4 /\ 4 \in 1 .. 4
    OBVIOUS
  <2>3. QED
    BY <1>8, <2>1, <2>2
<1> HIDE DEF q1, q2, q3
<1>10. s[at + 3] + Base * s[at + 4] = q2
  BY <1>6, <1>7, <1>9
<1>11. s[at + 2] + Base * (s[at + 3] + Base * s[at + 4]) = q1
  BY <1>5, <1>9, <1>10
<1>12. QED
  BY <1>4, <1>9, <1>11 DEF unpack_number

(* And four bytes that are unpacked are what would be packed.               *)
LEMMA Packed ==
  ASSUME NEW s \in Slice, NEW at \in Nat, HasNumber(s, at)
  PROVE  /\ unpack_number(s, at) \in Nat
         /\ unpack_number(s, at) < Numbers
         /\ pack_number(unpack_number(s, at)) = Cut(s, at, at + 4)
<1> DEFINE b(i) == s[at + i]
           q3 == b(4)
           q2 == b(3) + Base * q3
           q1 == b(2) + Base * q2
           n == b(1) + Base * q1
<1>1. Len(s) \in Nat /\ at + 4 <= Len(s) /\ s \in Seq(Byte)
  BY DEF HasNumber, NUMBER_SIZE, Slice
<1>2. \A i \in 1 .. 4 : at + i \in 1 .. Len(s) /\ b(i) \in Byte
  BY <1>1
<1>3. b(1) \in Byte /\ b(2) \in Byte /\ b(3) \in Byte /\ b(4) \in Byte
  BY <1>2
<1>4. Base \in Nat /\ q3 \in Nat /\ q3 < Base /\ q3 % Base = q3
  BY <1>3, BaseAssumption DEF Byte
<1> HIDE DEF b
<1>5. Base * Base \in Nat /\ Base * (Base * Base) \in Nat
  BY <1>4
<1>6. q2 \in Nat /\ q2 % Base = b(3) /\ q2 \div Base = q3 /\ q2 < Base * Base
  BY <1>3, <1>4, Undigit
<1> HIDE DEF q3
<1>7. q1 \in Nat /\ q1 % Base = b(2) /\ q1 \div Base = q2 /\ q1 < Base * (Base * Base)
  <2> HIDE DEF q2
  <2>1. QED
    BY <1>3, <1>5, <1>6, Undigit
<1>8. n \in Nat /\ n % Base = b(1) /\ n \div Base = q1 /\ n < Base * (Base * (Base * Base))
  <2> HIDE DEF q1
  <2>1. QED
    BY <1>3, <1>5, <1>7, Undigit
<1>9. unpack_number(s, at) = n
  BY DEF unpack_number, b, q3
<1>10. n < Numbers
  <2>1. Base * Base * Base * Base = Base * (Base * (Base * Base))
    BY <1>4
  <2> HIDE DEF n
  <2>2. QED
    BY <1>8, <2>1 DEF Numbers
<1> HIDE DEF n, q1, q2
<1>11. pack_number(n) = <<b(1), b(2), b(3), b(4)>>
  BY <1>4, <1>6, <1>7, <1>8 DEF pack_number, q3
<1>12. Cut(s, at, at + 4) = <<b(1), b(2), b(3), b(4)>>
  <2> DEFINE c == Cut(s, at, at + 4)
             t == <<b(1), b(2), b(3), b(4)>>
  <2>1. c \in Seq(Byte) /\ Len(c) = (at + 4) - at /\ \A k \in 1 .. (at + 4) - at : c[k] = s[at + k]
    <3> DEFINE d == at + 4
    <3>1. d \in Nat /\ at <= d /\ d <= Len(s)
      BY <1>1
    <3> HIDE DEF d
    <3>2. Cut(s, at, d) \in Seq(Byte) /\ Len(Cut(s, at, d)) = d - at
          /\ \A k \in 1 .. d - at : Cut(s, at, d)[k] = s[at + k]
      BY <1>1, <3>1, CutIs, ZenonT(60)
    <3>3. QED
      BY <3>2 DEF d
  <2>2. (at + 4) - at = 4
    OBVIOUS
  <2> HIDE DEF c
  <2>3. t \in Seq(Byte) /\ Len(t) = 4 /\ \A k \in 1 .. 4 : t[k] = b(k)
    BY <1>3
  <2> HIDE DEF t
  <2>4. Len(c) = Len(t) /\ \A k \in 1 .. Len(c) : c[k] = t[k]
    BY <2>1, <2>2, <2>3 DEF b
  <2>5. c = t
    BY <2>1, <2>3, <2>4, SeqEqual
  <2>6. QED
    BY <2>5 DEF c, t
<1>13. QED
  BY <1>8, <1>9, <1>10, <1>11, <1>12

-----------------------------------------------------------------------------
(* Sequences one behind the other.                                          *)

(* Where each ends, when the first begins at h.                             *)
EndsAt(e, parts, h) ==
  /\ e \in [0 .. Len(parts) -> Nat]
  /\ e[0] = h
  /\ \A i \in 1 .. Len(parts) : e[i] = e[i - 1] + Len(parts[i])

(* Ends that do not decrease from one to the next never do.                 *)
LEMMA EndsGrow ==
  ASSUME NEW n \in Nat, NEW e \in [0 .. n -> Nat], \A i \in 1 .. n : e[i - 1] <= e[i]
  PROVE  \A i, j \in 0 .. n : i <= j => e[i] <= e[j]
<1> DEFINE T == {k \in Nat : k <= n => \A i \in 0 .. k : e[i] <= e[k]}
<1>1. 0 \in T
  <2>1. \A i \in 0 .. 0 : i = 0 /\ e[0] \in Nat
    OBVIOUS
  <2>2. QED
    BY <2>1
<1>2. ASSUME NEW k \in Nat, k \in T
      PROVE  k + 1 \in T
  <2> SUFFICES ASSUME k + 1 <= n, NEW i \in 0 .. k + 1
               PROVE  e[i] <= e[k + 1]
    OBVIOUS
  <2>1. e[k] <= e[k + 1] /\ e[k] \in Nat /\ e[k + 1] \in Nat /\ e[i] \in Nat
    <3>1. k + 1 \in 1 .. n /\ (k + 1) - 1 = k /\ k \in 0 .. n /\ k + 1 \in 0 .. n /\ i \in 0 .. n
      OBVIOUS
    <3>2. QED
      BY <3>1
  <2>2. CASE i = k + 1
    BY <2>1, <2>2
  <2>3. CASE i # k + 1
    <3>1. i \in 0 .. k /\ k <= n
      BY <2>3
    <3>2. e[i] <= e[k]
      BY <1>2, <3>1
    <3>3. QED
      BY <2>1, <3>2
  <2>4. QED
    BY <2>2, <2>3
<1>3. \A k \in Nat : k \in T
  <2> HIDE DEF T
  <2>1. QED
    BY <1>1, <1>2, Induct
<1>4. QED
  BY <1>3

(* What FlattenSeq does, unrolled.                                          *)
LEMMA FlattenIs ==
  ASSUME NEW S, NEW parts \in Seq(Seq(S)), parts # << >>
  PROVE  \E f : /\ f[1] = parts[1]
                /\ \A i \in 2 .. Len(parts) : f[i] = f[i - 1] \o parts[i]
                /\ FlattenSeq(parts) = f[Len(parts)]
<1> DEFINE n == Len(parts)
           D == Seq(S)
           G == [i \in Nat |-> [v \in D |-> IF i \in 1 .. n THEN v \o parts[i] ELSE v]]
           Def(f) == [i \in 1 .. n |-> IF i = 1 THEN parts[1] ELSE f[i - 1] \o parts[i]]
           flatten == CHOOSE f : f = Def(f)
<1>1. n \in Nat /\ n # 0 /\ \A i \in 1 .. n : parts[i] \in D
  OBVIOUS
<1>2. << >> \in D
  OBVIOUS
<1>3. G \in [Nat -> [D -> D]]
  <2>1. ASSUME NEW i \in Nat, NEW v \in D
        PROVE  (IF i \in 1 .. n THEN v \o parts[i] ELSE v) \in D
    <3>1. CASE i \in 1 .. n
      <4>1. parts[i] \in Seq(S)
        BY <1>1, <3>1
      <4>2. QED
        BY <3>1, <4>1, ConcatProperties
    <3>2. QED
      BY <3>1
  <2>2. QED
    BY <2>1
<1>4. \A i \in Nat, v \in D : G[i][v] = IF i \in 1 .. n THEN v \o parts[i] ELSE v
  OBVIOUS
<1> HIDE DEF G, n, D
<1>5. PICK g : Recursive(g, D, << >>, n, G)
  BY <1>1, <1>2, <1>3, Recursion
<1>6. g \in [0 .. n -> D] /\ g[0] = << >> /\ \A i \in 1 .. n : g[i] = G[i][g[i - 1]]
  BY <1>5 DEF Recursive
<1> USE DEF D
<1> DEFINE f == [i \in 1 .. n |-> g[i]]
<1>7. \A i \in 1 .. n : f[i] = IF i = 1 THEN parts[1] ELSE f[i - 1] \o parts[i]
  <2>1. ASSUME NEW i \in 1 .. n
        PROVE  g[i] = g[i - 1] \o parts[i] /\ g[i - 1] \in D /\ parts[i] \in D
    <3>1. i \in Nat /\ i - 1 \in 0 .. n
      BY <1>1
    <3>2. g[i - 1] \in D
      BY <1>6, <3>1
    <3>3. QED
      BY <1>1, <1>4, <1>6, <3>1, <3>2
  <2>2. ASSUME NEW i \in 1 .. n, i = 1
        PROVE  f[i] = parts[1]
    <3>1. g[1] = << >> \o parts[1] /\ parts[1] \in Seq(S)
      <4>1. 1 - 1 = 0
        OBVIOUS
      <4>2. QED
        BY <1>6, <2>1, <2>2, <4>1
    <3>2. QED
      BY <2>2, <3>1, ConcatEmptySeq
  <2>3. ASSUME NEW i \in 1 .. n, i # 1
        PROVE  f[i] = f[i - 1] \o parts[i]
    <3>1. i - 1 \in 1 .. n
      BY <1>1, <2>3
    <3>2. QED
      BY <2>1, <3>1
  <2>4. QED
    BY <2>2, <2>3
<1>8. f = Def(f)
  <2>1. f = [i \in 1 .. n |-> f[i]]
    OBVIOUS
  <2> HIDE DEF f
  <2>2. QED
    BY <1>7, <2>1
<1>9. flatten = Def(flatten)
  <2> HIDE DEF f
  <2>1. QED
    BY <1>8, Zenon
<1>10. FlattenSeq(parts) = flatten[n]
  BY <1>1, Zenon DEF FlattenSeq, n
<1> HIDE DEF flatten
<1>11. flatten[1] = parts[1] /\ \A i \in 2 .. n : flatten[i] = flatten[i - 1] \o parts[i]
  <2>1. \A i \in 1 .. n : flatten[i] = IF i = 1 THEN parts[1] ELSE flatten[i - 1] \o parts[i]
    <3>1. \A i \in 1 .. n : flatten[i] = Def(flatten)[i]
      BY <1>9, Zenon
    <3>2. QED
      BY <3>1
  <2>2. 1 \in 1 .. n /\ \A i \in 2 .. n : i \in 1 .. n /\ i # 1
    BY <1>1
  <2>3. QED
    BY <2>1, <2>2
<1>12. QED
  BY <1>10, <1>11 DEF n

(* Sequences that are written one behind the other are found where they end. *)
LEMMA FlattenCut ==
  ASSUME NEW S, NEW parts \in Seq(Seq(S)), NEW h \in Nat, NEW e, EndsAt(e, parts, h)
  PROVE  /\ FlattenSeq(parts) \in Seq(S)
         /\ Len(FlattenSeq(parts)) = e[Len(parts)] - h
         /\ \A j \in 1 .. Len(parts) :
               Cut(FlattenSeq(parts), e[j - 1] - h, e[j] - h) = parts[j]
<1> DEFINE n == Len(parts)
<1>1. n \in Nat /\ \A i \in 1 .. n : parts[i] \in Seq(S) /\ Len(parts[i]) \in Nat
  OBVIOUS
<1>2. CASE n = 0
  <2>1. FlattenSeq(parts) = parts /\ parts = << >> /\ e[0] = h
    BY <1>2 DEF FlattenSeq, EndsAt
  <2>2. h - h = 0
    OBVIOUS
  <2>3. QED
    BY <1>2, <2>1, <2>2
<1>3. CASE n # 0
  <2>1. parts # << >>
    BY <1>3
  <2>2. PICK f : /\ f[1] = parts[1]
                 /\ \A i \in 2 .. n : f[i] = f[i - 1] \o parts[i]
                 /\ FlattenSeq(parts) = f[n]
    BY <2>1, FlattenIs
  <2>3. /\ e[0] = h /\ \A i \in 0 .. n : e[i] \in Nat
        /\ \A i \in 1 .. n : e[i] = e[i - 1] + Len(parts[i])
    BY DEF EndsAt
  <2>4. \A i, j \in 0 .. n : i <= j => e[i] <= e[j]
    <3>1. e \in [0 .. n -> Nat]
      BY DEF EndsAt
    <3>2. \A i \in 1 .. n : e[i - 1] <= e[i]
      <4>1. \A i \in 1 .. n : i - 1 \in 0 .. n /\ i \in 0 .. n
        BY <1>1
      <4>2. ASSUME NEW i \in 1 .. n
            PROVE  e[i - 1] <= e[i]
        <5> DEFINE x == e[i - 1]
                   y == e[i]
                   z == Len(parts[i])
        <5>1. x \in Nat /\ y \in Nat /\ z \in Nat /\ y = x + z
          BY <1>1, <2>3, <4>1
        <5> HIDE DEF x, y, z
        <5>2. x <= y
          BY <5>1
        <5>3. QED
          BY <5>2 DEF x, y
      <4>3. QED
        BY <4>2
    <3> HIDE DEF n
    <3>3. QED
      BY <1>1, <3>1, <3>2, EndsGrow
  <2> DEFINE Good(i) == /\ f[i] \in Seq(S) /\ Len(f[i]) = e[i] - h
                        /\ \A j \in 1 .. i : Cut(f[i], e[j - 1] - h, e[j] - h) = parts[j]
             T == {k \in Nat : k + 1 <= n => Good(k + 1)}
  <2>5. 0 \in T
    <3>1. 1 \in 1 .. n /\ 1 \in 0 .. n /\ 0 \in 0 .. n /\ 1 - 1 = 0
      BY <1>1, <1>3
    <3>2. f[1] = parts[1] /\ parts[1] \in Seq(S)
      BY <1>1, <2>2, <3>1
    <3>3. Len(parts[1]) = e[1] - h /\ e[0] - h = 0
      <4>1. e[1] = e[0] + Len(parts[1]) /\ Len(parts[1]) \in Nat
        BY <1>1, <2>3, <3>1
      <4>2. QED
        BY <2>3, <4>1
    <3>4. Cut(f[1], e[0] - h, e[1] - h) = parts[1]
      BY <3>2, <3>3, CutWhole
    <3>5. \A j \in 1 .. 1 : j = 1
      OBVIOUS
    <3>6. Good(1)
      BY <3>1, <3>2, <3>3, <3>4, <3>5
    <3> HIDE DEF Good
    <3>7. 0 + 1 = 1
      OBVIOUS
    <3>8. QED
      BY <3>6, <3>7
  <2>6. ASSUME NEW k \in Nat, k \in T
        PROVE  k + 1 \in T
    <3> DEFINE i == k + 1
               m == k + 2
    <3> SUFFICES ASSUME m <= n PROVE Good(m)
      <4>1. (k + 1) + 1 = k + 2 /\ k + 1 \in Nat
        OBVIOUS
      <4> HIDE DEF Good
      <4>2. QED
        BY <4>1
    <3>1. /\ i \in 1 .. n /\ m \in 2 .. n /\ m \in 1 .. n /\ m - 1 = i /\ i \in Nat /\ m \in Nat
          /\ i \in 0 .. n /\ m \in 0 .. n
      BY <1>1
    <3>2. Good(i)
      BY <2>6, <3>1
    <3> HIDE DEF i, m
    <3> DEFINE p == f[i]
               q == parts[m]
    <3>3. /\ p \in Seq(S) /\ q \in Seq(S) /\ f[m] = p \o q
          /\ Len(p) = e[i] - h /\ Len(p) \in Nat /\ Len(q) \in Nat
          /\ e[m] = e[i] + Len(q) /\ e[i] \in Nat
          /\ h <= e[i]
      <4>1. f[m] = f[i] \o parts[m] /\ e[m] = e[i] + Len(parts[m])
        BY <2>2, <2>3, <3>1
      <4>2. e[0] <= e[i] /\ e[i] \in Nat
        BY <1>1, <2>3, <2>4, <3>1
      <4>3. p \in Seq(S) /\ Len(p) = e[i] - h
        BY <3>2
      <4>4. q \in Seq(S) /\ Len(q) \in Nat
        BY <1>1, <3>1
      <4>5. e[0] = h
        BY <2>3
      <4> DEFINE x == e[i]
                 y == Len(p)
      <4>6. h <= x /\ x \in Nat /\ y = x - h
        BY <4>2, <4>3, <4>5
      <4> HIDE DEF x, y
      <4>7. y \in Nat
        BY <4>6
      <4>8. QED
        BY <4>1, <4>3, <4>4, <4>6, <4>7 DEF x, y
    <3>4. /\ f[m] \in Seq(S) /\ Len(f[m]) = e[m] - h
      <4>1. p \o q \in Seq(S) /\ Len(p \o q) = Len(p) + Len(q)
        <5> HIDE DEF p, q
        <5>1. QED
          BY <3>3, ConcatProperties
      <4>2. QED
        BY <3>3, <4>1
    <3>5. ASSUME NEW j \in 1 .. m
          PROVE  Cut(f[m], e[j - 1] - h, e[j] - h) = parts[j]
      <4>1. CASE j = m
        <5>1. Cut(p \o q, Len(p) + 0, Len(p) + Len(q)) = Cut(q, 0, Len(q))
          <6> DEFINE y == Len(q)
                     x == 0
          <6>1. x \in Nat /\ y \in Nat /\ y <= Len(q) /\ x <= y
            BY <3>3
          <6> HIDE DEF p, q, x, y
          <6>2. Cut(p \o q, Len(p) + x, Len(p) + y) = Cut(q, x, y)
            <7>1. p \in Seq(S) /\ q \in Seq(S)
              BY <3>3
            <7>2. QED
              BY <6>1, <7>1, CutRight
          <6>3. QED
            BY <6>2 DEF x, y
        <5>2. Cut(q, 0, Len(q)) = q
          BY <3>3, CutWhole
        <5>3. Len(p) + 0 = e[i] - h /\ Len(p) + Len(q) = e[m] - h
          BY <3>3
        <5>4. Cut(f[m], e[m - 1] - h, e[m] - h) = q
          BY <3>1, <3>3, <5>1, <5>2, <5>3
        <5>5. QED
          BY <4>1, <5>4
      <4>2. CASE j # m
        <5>1. j \in 1 .. i /\ j - 1 \in 0 .. n /\ j \in 0 .. n /\ 0 <= j - 1 /\ j - 1 <= j /\ j <= i
          BY <3>1, <4>2
        <5> DEFINE a == e[j - 1] - h
                   b == e[j] - h
        <5>2. a \in Nat /\ b \in Nat /\ a <= b /\ b <= Len(p)
          <6>1. e[0] <= e[j - 1] /\ e[j - 1] <= e[j] /\ e[j] <= e[i]
            BY <1>1, <2>4, <3>1, <5>1
          <6>2. e[j - 1] \in Nat /\ e[j] \in Nat
            BY <2>3, <5>1
          <6> DEFINE x == e[j - 1]
                     y == e[j]
                     z == e[i]
          <6>3. e[0] = h /\ Len(p) = z - h /\ z \in Nat
            BY <2>3, <3>3
          <6>4. h <= x /\ x <= y /\ y <= z /\ x \in Nat /\ y \in Nat
            BY <6>1, <6>2, <6>3
          <6> HIDE DEF x, y, z, p
          <6>5. x - h \in Nat /\ y - h \in Nat /\ x - h <= y - h /\ y - h <= Len(p)
            BY <6>3, <6>4
          <6>6. QED
            BY <6>5 DEF x, y
        <5>3. Cut(p, a, b) = parts[j]
          BY <3>2, <5>1
        <5> HIDE DEF a, b, p, q
        <5>4. Cut(p \o q, a, b) = Cut(p, a, b)
          BY <3>3, <5>2, CutLeft
        <5>5. QED
          BY <3>3, <5>3, <5>4 DEF a, b
      <4>3. QED
        BY <4>1, <4>2
    <3>6. QED
      BY <3>4, <3>5
  <2> HIDE DEF T
  <2>7. \A k \in Nat : k \in T
    BY <2>5, <2>6, Induct
  <2>8. n - 1 \in Nat /\ (n - 1) + 1 = n
    BY <1>1, <1>3
  <2>9. Good(n)
    <3>1. n - 1 \in T
      BY <2>7, <2>8
    <3> HIDE DEF Good
    <3>2. (n - 1) + 1 <= n => Good((n - 1) + 1)
      BY <3>1 DEF T
    <3>3. QED
      BY <1>1, <2>8, <3>2
  <2>10. QED
    BY <2>2, <2>9
<1>4. QED
  BY <1>2, <1>3

(* And what is taken apart is the same when it is put together again.        *)
Grows(e, n) == \A i \in 1 .. n : e[i - 1] <= e[i]

CutsOf(s, e, n) == [i \in 1 .. n |-> Cut(s, e[i - 1], e[i])]

(* Neighbouring cuts, put together, are one cut.                            *)
LEMMA CutFlatten ==
  ASSUME NEW S, NEW s \in Seq(S), NEW n \in Nat, NEW e \in [0 .. n -> Nat],
         Grows(e, n), e[n] <= Len(s)
  PROVE  /\ CutsOf(s, e, n) \in Seq(Seq(S)) /\ Len(CutsOf(s, e, n)) = n
         /\ \A i \in 1 .. n : Len(CutsOf(s, e, n)[i]) = e[i] - e[i - 1]
         /\ FlattenSeq(CutsOf(s, e, n)) = Cut(s, e[0], e[n])
<1> DEFINE parts == CutsOf(s, e, n)
<1>0. parts = [i \in 1 .. n |-> Cut(s, e[i - 1], e[i])]
  BY DEF CutsOf
<1>a. \A i \in 1 .. n : e[i - 1] <= e[i]
  BY DEF Grows
<1> HIDE DEF parts
<1>1. \A i, j \in 0 .. n : i <= j => e[i] <= e[j]
  BY <1>a, EndsGrow
<1>2. \A i \in 0 .. n : e[i] \in Nat /\ e[i] <= Len(s)
  <2>1. n \in 0 .. n /\ Len(s) \in Nat
    OBVIOUS
  <2>2. QED
    BY <1>1, <2>1
<1>3. \A i \in 1 .. n : /\ parts[i] = Cut(s, e[i - 1], e[i])
                        /\ parts[i] \in Seq(S) /\ Len(parts[i]) = e[i] - e[i - 1]
  <2>1. ASSUME NEW i \in 1 .. n
        PROVE  parts[i] = Cut(s, e[i - 1], e[i]) /\ parts[i] \in Seq(S) /\ Len(parts[i]) = e[i] - e[i - 1]
    <3>0. parts[i] = Cut(s, e[i - 1], e[i])
      BY <1>0
    <3>1. i - 1 \in 0 .. n /\ i \in 0 .. n
      OBVIOUS
    <3>2. e[i - 1] \in Nat /\ e[i] \in Nat /\ e[i - 1] <= e[i] /\ e[i] <= Len(s)
      BY <1>a, <1>2, <3>1
    <3> DEFINE a == e[i - 1]
               b == e[i]
    <3>3. a \in Nat /\ b \in Nat /\ a <= b /\ b <= Len(s)
      BY <3>2
    <3> HIDE DEF a, b
    <3>4. Cut(s, a, b) \in Seq(S) /\ Len(Cut(s, a, b)) = b - a
      BY <3>3, CutIs
    <3>5. QED
      BY <3>0, <3>4 DEF a, b
  <2>2. QED
    BY <2>1
<1>4. parts \in Seq(Seq(S)) /\ Len(parts) = n
  <2>1. parts \in [1 .. n -> Seq(S)]
    BY <1>0, <1>3
  <2>2. QED
    BY <2>1
<1>5. ASSUME n = 0 PROVE FlattenSeq(parts) = Cut(s, e[0], e[n])
  <2>1. Len(parts) = 0 /\ FlattenSeq(parts) = parts /\ parts = << >>
    BY <1>4, <1>5 DEF FlattenSeq
  <2>2. e[0] \in Nat /\ e[0] + 1 > e[0]
    BY <1>2
  <2>3. Cut(s, e[0], e[0]) = << >>
    BY <2>2, SubSeqEmpty DEF Cut
  <2>4. QED
    BY <1>5, <2>1, <2>3
<1>6. ASSUME n # 0 PROVE FlattenSeq(parts) = Cut(s, e[0], e[n])
  <2>1. parts # << >>
    BY <1>4, <1>6
  <2>2. PICK f : /\ f[1] = parts[1]
                 /\ \A i \in 2 .. n : f[i] = f[i - 1] \o parts[i]
                 /\ FlattenSeq(parts) = f[n]
    BY <1>4, <2>1, FlattenIs
  <2> DEFINE T == {k \in Nat : k + 1 <= n => f[k + 1] = Cut(s, e[0], e[k + 1])}
  <2>3. 0 \in T
    <3>1. 0 + 1 = 1 /\ 1 - 1 = 0 /\ 1 \in 1 .. n
      BY <1>6
    <3>2. QED
      BY <1>3, <2>2, <3>1
  <2>4. ASSUME NEW k \in Nat, k \in T
        PROVE  k + 1 \in T
    <3> DEFINE i == k + 1
               m == k + 2
    <3> SUFFICES ASSUME m <= n PROVE f[m] = Cut(s, e[0], e[m])
      <4>1. (k + 1) + 1 = k + 2 /\ k + 1 \in Nat
        OBVIOUS
      <4>2. QED
        BY <4>1
    <3>1. /\ i \in 1 .. n /\ m \in 2 .. n /\ m \in 1 .. n /\ m - 1 = i /\ i \in Nat /\ m \in Nat
          /\ i \in 0 .. n /\ m \in 0 .. n /\ 0 \in 0 .. n /\ i <= m /\ 0 <= i
      OBVIOUS
    <3>2. f[i] = Cut(s, e[0], e[i])
      BY <2>4, <3>1
    <3> HIDE DEF i, m
    <3>3. f[m] = f[i] \o parts[m] /\ parts[m] = Cut(s, e[i], e[m])
      BY <1>3, <2>2, <3>1
    <3>4. /\ e[0] \in Nat /\ e[i] \in Nat /\ e[m] \in Nat /\ e[0] <= e[i] /\ e[i] <= e[m]
          /\ e[m] <= Len(s)
      BY <1>1, <1>2, <3>1
    <3>5. Cut(s, e[0], e[i]) \o Cut(s, e[i], e[m]) = Cut(s, e[0], e[m])
      BY <3>4, CutJoin
    <3>6. QED
      BY <3>2, <3>3, <3>5
  <2> HIDE DEF T
  <2>5. \A k \in Nat : k \in T
    BY <2>3, <2>4, Induct
  <2>6. n - 1 \in Nat /\ (n - 1) + 1 = n
    BY <1>6
  <2>7. (n - 1) + 1 <= n => f[(n - 1) + 1] = Cut(s, e[0], e[(n - 1) + 1])
    BY <2>5, <2>6 DEF T
  <2>8. f[n] = Cut(s, e[0], e[n])
    BY <2>6, <2>7
  <2>9. QED
    BY <2>2, <2>8
<1>7. FlattenSeq(parts) = Cut(s, e[0], e[n])
  BY <1>5, <1>6
<1>8. QED
  BY <1>3, <1>4, <1>7 DEF parts

(* So it is with bytes.                                                     *)
LEMMA BytesFlatten ==
  ASSUME NEW s \in Seq(Byte), NEW n \in Nat, NEW e \in [0 .. n -> Nat],
         Grows(e, n), e[n] <= Len(s)
  PROVE  /\ CutsOf(s, e, n) \in Seq(Seq(Byte)) /\ Len(CutsOf(s, e, n)) = n
         /\ \A i \in 1 .. n : Len(CutsOf(s, e, n)[i]) = e[i] - e[i - 1]
         /\ FlattenSeq(CutsOf(s, e, n)) = Cut(s, e[0], e[n])
  BY CutFlatten, ZenonT(60)

(* Where the parts of a table end, each behind the one before.              *)
LEMMA EndsIs ==
  ASSUME NEW parts \in Seq(Slice)
  PROVE  EndsAt(Ends(parts), parts, 4 * (Len(parts) + 1))
<1> DEFINE n == Len(parts)
           h == 4 * (n + 1)
           G == [i \in Nat |-> [v \in Nat |-> IF i \in 1 .. n THEN v + Len(parts[i]) ELSE v]]
           Def(f) == [i \in 0 .. n |-> IF i = 0 THEN h ELSE f[i - 1] + Len(parts[i])]
           end == CHOOSE f : f = Def(f)
<1>1. n \in Nat /\ h \in Nat /\ \A i \in 1 .. n : Len(parts[i]) \in Nat
  BY DEF Slice
<1>2. G \in [Nat -> [Nat -> Nat]]
  <2>1. \A i \in Nat, v \in Nat : (IF i \in 1 .. n THEN v + Len(parts[i]) ELSE v) \in Nat
    BY <1>1
  <2>2. QED
    BY <2>1
<1>3. \A i \in Nat, v \in Nat : G[i][v] = IF i \in 1 .. n THEN v + Len(parts[i]) ELSE v
  OBVIOUS
<1>4. Ends(parts) = end
  BY Zenon DEF Ends, NUMBER_SIZE
<1> HIDE DEF G, n, h
<1>5. PICK g : Recursive(g, Nat, h, n, G)
  BY <1>1, <1>2, Recursion
<1>6. g \in [0 .. n -> Nat] /\ g[0] = h /\ \A i \in 1 .. n : g[i] = G[i][g[i - 1]]
  BY <1>5 DEF Recursive
<1>7. ASSUME NEW i \in 1 .. n
      PROVE  g[i] = g[i - 1] + Len(parts[i])
  <2>1. i \in Nat /\ i - 1 \in 0 .. n
    BY <1>1
  <2>2. g[i - 1] \in Nat
    BY <1>6, <2>1
  <2>3. QED
    BY <1>3, <1>6, <2>1, <2>2
<1>8. g = Def(g)
  <2>1. g = [i \in 0 .. n |-> g[i]]
    BY <1>6
  <2>2. \A i \in 0 .. n : i # 0 => i \in 1 .. n
    BY <1>1
  <2>3. \A i \in 0 .. n : g[i] = IF i = 0 THEN h ELSE g[i - 1] + Len(parts[i])
    BY <1>6, <1>7, <2>2
  <2>4. QED
    BY <2>1, <2>3
<1>9. end = Def(end)
  BY <1>8, Zenon
<1> HIDE DEF end
<1>10. end[0] = h /\ \A i \in 1 .. n : end[i] = end[i - 1] + Len(parts[i])
  <2>1. \A i \in 0 .. n : end[i] = IF i = 0 THEN h ELSE end[i - 1] + Len(parts[i])
    <3>1. \A i \in 0 .. n : end[i] = Def(end)[i]
      BY <1>9, Zenon
    <3>2. QED
      BY <3>1
  <2>2. 0 \in 0 .. n /\ \A i \in 1 .. n : i \in 0 .. n /\ i # 0
    BY <1>1
  <2>3. QED
    BY <2>1, <2>2
<1>11. end \in [0 .. n -> Nat]
  <2> DEFINE T == {k \in Nat : k <= n => end[k] \in Nat}
  <2>1. 0 \in T
    BY <1>1, <1>10
  <2>2. ASSUME NEW k \in Nat, k \in T
        PROVE  k + 1 \in T
    <3> SUFFICES ASSUME k + 1 <= n PROVE end[k + 1] \in Nat
      OBVIOUS
    <3>1. k + 1 \in 1 .. n /\ (k + 1) - 1 = k /\ end[k] \in Nat
      BY <1>1, <2>2
    <3>2. end[k + 1] = end[k] + Len(parts[k + 1])
      BY <1>10, <3>1
    <3>3. Len(parts[k + 1]) \in Nat
      BY <1>1, <3>1
    <3>4. QED
      BY <3>1, <3>2, <3>3
  <2> HIDE DEF T
  <2>3. \A k \in Nat : k \in T
    BY <2>1, <2>2, Induct
  <2>4. \A k \in 0 .. n : end[k] \in Nat
    BY <1>1, <2>3 DEF T
  <2>5. end = [k \in 0 .. n |-> end[k]]
    BY <1>9
  <2>6. QED
    BY <2>4, <2>5
<1>12. QED
  BY <1>4, <1>10, <1>11 DEF EndsAt, n, h

(* There is one such function.                                              *)
LEMMA EndsAtUnique ==
  ASSUME NEW S, NEW parts \in Seq(Seq(S)), NEW h \in Nat, NEW e, NEW f,
         EndsAt(e, parts, h), EndsAt(f, parts, h)
  PROVE  e = f
<1> DEFINE n == Len(parts)
           T == {k \in Nat : k <= n => e[k] = f[k]}
<1>1. n \in Nat /\ e \in [0 .. n -> Nat] /\ f \in [0 .. n -> Nat] /\ e[0] = f[0]
  BY DEF EndsAt
<1>2. \A i \in 1 .. n : e[i] = e[i - 1] + Len(parts[i]) /\ f[i] = f[i - 1] + Len(parts[i])
  BY DEF EndsAt
<1> HIDE DEF n
<1>3. 0 \in T
  BY <1>1
<1>4. ASSUME NEW k \in Nat, k \in T
      PROVE  k + 1 \in T
  <2> SUFFICES ASSUME k + 1 <= n PROVE e[k + 1] = f[k + 1]
    OBVIOUS
  <2>1. k + 1 \in 1 .. n /\ (k + 1) - 1 = k /\ e[k] = f[k]
    BY <1>1, <1>4
  <2>2. QED
    BY <1>2, <2>1
<1> HIDE DEF T
<1>5. \A k \in Nat : k \in T
  BY <1>3, <1>4, Induct
<1>6. \A k \in 0 .. n : e[k] = f[k]
  BY <1>1, <1>5 DEF T
<1>7. QED
  BY <1>1, <1>6

(* What was packed into a slice is read from it.                            *)
LEMMA UnpackedCut ==
  ASSUME NEW s \in Slice, NEW at \in Nat, at + 4 <= Len(s),
         NEW m \in Nat, m < Numbers, Cut(s, at, at + 4) = pack_number(m)
  PROVE  HasNumber(s, at) /\ unpack_number(s, at) = m
<1> DEFINE b == at + 4
<1>1. b \in Nat /\ at <= b /\ b <= Len(s) /\ b - at = 4 /\ s \in Seq(Byte)
  BY DEF Slice
<1> HIDE DEF b
<1>2. \A k \in 1 .. b - at : Cut(s, at, b)[k] = s[at + k]
  BY <1>1, CutIs, ZenonT(60)
<1>3. \A k \in 1 .. 4 : s[at + k] = pack_number(m)[k]
  BY <1>1, <1>2 DEF b
<1>4. unpack_number(s, at) = m
  BY <1>3, Unpacked
<1>5. QED
  BY <1>4 DEF HasNumber, NUMBER_SIZE

(* Parts of one size.                                                       *)
LEMMA EqualParts ==
  ASSUME NEW S, NEW size \in Nat, NEW parts \in Seq(Seq(S)),
         \A i \in 1 .. Len(parts) : Len(parts[i]) = size
  PROVE  /\ FlattenSeq(parts) \in Seq(S)
         /\ Len(FlattenSeq(parts)) = size * Len(parts)
         /\ \A i \in 1 .. Len(parts) :
               Cut(FlattenSeq(parts), size * (i - 1), size * i) = parts[i]
<1> DEFINE n == Len(parts)
           e == [i \in 0 .. n |-> size * i]
           h == 0
<1>1. n \in Nat /\ h \in Nat
  OBVIOUS
<1>2. e \in [0 .. n -> Nat] /\ \A i \in 0 .. n : e[i] = size * i /\ e[i] \in Nat
  <2>1. \A i \in 0 .. n : size * i \in Nat
    BY <1>1
  <2>2. QED
    BY <2>1
<1> HIDE DEF e
<1>3. EndsAt(e, parts, h)
  <2>1. ASSUME NEW i \in 1 .. n
        PROVE  e[i] = e[i - 1] + Len(parts[i])
    <3>1. i \in 0 .. n /\ i - 1 \in 0 .. n
      BY <1>1
    <3>2. size * i = size * (i - 1) + size
      BY <1>1
    <3>3. QED
      BY <1>2, <3>1, <3>2
  <2>2. 0 \in 0 .. n /\ size * 0 = 0
    BY <1>1
  <2>3. QED
    BY <1>2, <2>1, <2>2 DEF EndsAt
<1> HIDE DEF h
<1>4. FlattenSeq(parts) \in Seq(S) /\ Len(FlattenSeq(parts)) = e[Len(parts)] - h
  BY <1>1, <1>3, FlattenCut
<1>5. \A j \in 1 .. Len(parts) : Cut(FlattenSeq(parts), e[j - 1] - h, e[j] - h) = parts[j]
  BY <1>1, <1>3, FlattenCut
<1>6. ASSUME NEW i \in 1 .. n
      PROVE  e[i - 1] - h = size * (i - 1) /\ e[i] - h = size * i
  <2>1. i \in 0 .. n /\ i - 1 \in 0 .. n
    BY <1>1
  <2>2. e[i - 1] = size * (i - 1) /\ e[i] = size * i /\ e[i - 1] \in Nat /\ e[i] \in Nat
    BY <1>2, <2>1
  <2>3. QED
    BY <2>2 DEF h
<1>7. e[n] - h = size * n
  <2>1. e[n] = size * n /\ e[n] \in Nat
    BY <1>1, <1>2
  <2>2. QED
    BY <2>1 DEF h
<1>8. QED
  BY <1>4, <1>5, <1>6, <1>7

(* The numbers of a header, one behind the other.                           *)
LEMMA NumbersFlat ==
  ASSUME NEW n \in Nat, NEW v \in [1 .. n -> Nat], NEW offsets,
         offsets = [i \in 1 .. n |-> pack_number(v[i])]
  PROVE  /\ FlattenSeq(offsets) \in Slice
         /\ Len(FlattenSeq(offsets)) = 4 * n
         /\ \A i \in 1 .. n :
               Cut(FlattenSeq(offsets), 4 * (i - 1), 4 * i) = pack_number(v[i])
<1> DEFINE parts == [i \in 1 .. n |-> pack_number(v[i])]
           size == 4
<1>1. \A i \in 1 .. n : parts[i] = pack_number(v[i]) /\ parts[i] \in Slice /\ Len(parts[i]) = size
  BY PackIs
<1>2. parts \in Seq(Seq(Byte)) /\ Len(parts) = n /\ size \in Nat
  <2>1. parts \in [1 .. n -> Seq(Byte)]
    BY <1>1 DEF Slice
  <2>2. QED
    BY <2>1
<1>3. offsets = parts
  OBVIOUS
<1> SUFFICES /\ FlattenSeq(parts) \in Slice
             /\ Len(FlattenSeq(parts)) = 4 * n
             /\ \A i \in 1 .. n :
                   Cut(FlattenSeq(parts), 4 * (i - 1), 4 * i) = pack_number(v[i])
  BY <1>3
<1> HIDE DEF parts, size
<1>4. /\ FlattenSeq(parts) \in Seq(Byte)
      /\ Len(FlattenSeq(parts)) = size * Len(parts)
      /\ \A i \in 1 .. Len(parts) :
            Cut(FlattenSeq(parts), size * (i - 1), size * i) = parts[i]
  BY <1>1, <1>2, EqualParts
<1>5. QED
  BY <1>1, <1>2, <1>4 DEF size, Slice

(* What WithHeader writes, from where its parts end.                        *)
HeaderParts(parts, n, e) ==
  /\ n \in Nat /\ e \in [0 .. n -> Nat] /\ e[0] = 4 * (n + 1)
  /\ \A i \in 1 .. n : e[i] = e[i - 1] + Len(parts[i]) /\ e[i - 1] <= e[i]
  /\ \A i, j \in 0 .. n : i <= j => e[i] <= e[j]
  /\ WithHeader(parts) \in Slice
  /\ Len(WithHeader(parts)) = e[n]
  /\ Cut(WithHeader(parts), 0, 4) = pack_number(e[n])
  /\ \A i \in 1 .. n : /\ Cut(WithHeader(parts), 4 * i, 4 * i + 4) = pack_number(e[i - 1])
                       /\ Cut(WithHeader(parts), e[i - 1], e[i]) = parts[i]

(* This is what it writes.                                                  *)
LEMMA HeaderIs ==
  ASSUME NEW parts \in Seq(Slice)
  PROVE  HeaderParts(parts, Len(parts), Ends(parts))
<1> DEFINE n == Len(parts)
           e == Ends(parts)
           h == 4 * (n + 1)
           v == [i \in 1 .. n |-> e[i - 1]]
           offsets == [i \in 1 .. n |-> pack_number(e[i - 1])]
           p == pack_number(e[n])
           fo == FlattenSeq(offsets)
           fp == FlattenSeq(parts)
           a == p \o fo
           s == WithHeader(parts)
<1>1. n \in Nat /\ EndsAt(e, parts, h) /\ parts \in Seq(Seq(Byte)) /\ h \in Nat
  BY EndsIs DEF Slice
<1>2. e \in [0 .. n -> Nat] /\ e[0] = h /\ \A i \in 1 .. n : e[i] = e[i - 1] + Len(parts[i])
  BY <1>1 DEF EndsAt
<1>3. \A i \in 1 .. n : e[i - 1] <= e[i] /\ e[i - 1] \in Nat /\ e[i] \in Nat
  <2>1. ASSUME NEW i \in 1 .. n
        PROVE  e[i - 1] <= e[i] /\ e[i - 1] \in Nat /\ e[i] \in Nat
    <3>1. i \in 0 .. n /\ i - 1 \in 0 .. n
      BY <1>1
    <3> DEFINE x == e[i - 1]
               y == e[i]
               z == Len(parts[i])
    <3>2. x \in Nat /\ y \in Nat /\ z \in Nat /\ y = x + z
      <4>1. x \in Nat /\ y \in Nat /\ y = x + z
        BY <1>2, <3>1
      <4>2. parts[i] \in Seq(Byte)
        BY <1>1
      <4>3. QED
        BY <4>1, <4>2
    <3> HIDE DEF x, y, z
    <3>3. x <= y
      BY <3>2
    <3>4. QED
      BY <3>2, <3>3 DEF x, y
  <2>2. QED
    BY <2>1
<1>4. \A i, j \in 0 .. n : i <= j => e[i] <= e[j]
  BY <1>1, <1>2, <1>3, EndsGrow
<1>5. v \in [1 .. n -> Nat] /\ offsets = [i \in 1 .. n |-> pack_number(v[i])]
  BY <1>3
<1>6. s = a \o fp
  BY DEF WithHeader
<1>7. /\ fo \in Slice /\ Len(fo) = 4 * n
      /\ \A i \in 1 .. n : Cut(fo, 4 * (i - 1), 4 * i) = pack_number(e[i - 1])
  <2> HIDE DEF v, offsets
  <2>1. /\ fo \in Slice /\ Len(fo) = 4 * n
        /\ \A i \in 1 .. n : Cut(fo, 4 * (i - 1), 4 * i) = pack_number(v[i])
    <3>1. /\ FlattenSeq(offsets) \in Slice /\ Len(FlattenSeq(offsets)) = 4 * n
          /\ \A i \in 1 .. n : Cut(FlattenSeq(offsets), 4 * (i - 1), 4 * i) = pack_number(v[i])
      <4> HIDE DEF h, p, fo, fp, a, s
      <4>1. QED
        BY <1>1, <1>5, NumbersFlat
    <3>2. QED
      BY <3>1, Zenon
  <2>2. QED
    BY <2>1 DEF v
<1>8. /\ fp \in Slice /\ Len(fp) = e[n] - h
      /\ \A j \in 1 .. n : Cut(fp, e[j - 1] - h, e[j] - h) = parts[j]
  <2> HIDE DEF h
  <2>1. QED
    BY <1>1, FlattenCut DEF Slice
<1>9. e[n] \in Nat /\ h <= e[n] /\ p \in Slice /\ Len(p) = 4
  <2>1. 0 \in 0 .. n /\ n \in 0 .. n /\ 0 <= n
    BY <1>1
  <2>2. e[n] \in Nat /\ e[0] <= e[n]
    BY <1>2, <1>4, <2>1
  <2>3. QED
    BY <1>2, <2>2, PackIs
<1> HIDE DEF fo, fp, p, offsets, v
<1>10. a \in Slice /\ Len(a) = h
  <2>1. a \in Seq(Byte) /\ Len(a) = Len(p) + Len(fo)
    BY <1>7, <1>9, ConcatProperties DEF Slice
  <2>2. QED
    BY <1>1, <1>7, <1>9, <2>1 DEF Slice
<1>11. Cut(a, 0, 4) = p
  <2>1. Cut(a, 0, 4) = Cut(p, 0, 4)
    <3>1. p \in Seq(Byte) /\ fo \in Seq(Byte) /\ 0 \in Nat /\ 4 \in Nat /\ 0 <= 4 /\ 4 <= Len(p)
      BY <1>7, <1>9 DEF Slice
    <3>2. QED
      BY <3>1, CutLeft, Zenon
  <2>2. QED
    BY <1>9, <2>1, CutWhole DEF Slice
<1>12. ASSUME NEW i \in 1 .. n
       PROVE  Cut(a, 4 * i, 4 * i + 4) = pack_number(e[i - 1])
  <2> DEFINE x == 4 * (i - 1)
             y == 4 * i
  <2>1. x \in Nat /\ y \in Nat /\ x <= y /\ y <= Len(fo) /\ 4 + x = 4 * i /\ 4 + y = 4 * i + 4
    BY <1>1, <1>7
  <2>2. Cut(fo, x, y) = pack_number(e[i - 1])
    BY <1>7
  <2> HIDE DEF x, y, a
  <2>3. Cut(p \o fo, 4 + x, 4 + y) = Cut(fo, x, y)
    <3> DEFINE l == 4
    <3>1. p \in Seq(Byte) /\ fo \in Seq(Byte) /\ l \in Nat /\ l = Len(p)
      BY <1>7, <1>9 DEF Slice
    <3> HIDE DEF l
    <3>2. Cut(p \o fo, l + x, l + y) = Cut(fo, x, y)
      <4>1. x \in Nat /\ y \in Nat /\ x <= y /\ y <= Len(fo)
        BY <2>1
      <4>2. QED
        BY <3>1, <4>1, CutRight
    <3>3. QED
      BY <3>2 DEF l
  <2>4. QED
    BY <2>1, <2>2, <2>3 DEF a
<1> HIDE DEF a
<1>13. s \in Slice /\ Len(s) = e[n]
  <2>1. a \o fp \in Seq(Byte) /\ Len(a \o fp) = Len(a) + Len(fp)
    BY <1>8, <1>10, ConcatProperties DEF Slice
  <2>2. Len(a) + Len(fp) = e[n]
    BY <1>1, <1>8, <1>9, <1>10
  <2>3. QED
    BY <1>6, <2>1, <2>2 DEF Slice
<1> HIDE DEF s
<1>14. Cut(s, 0, 4) = p
  <2>1. 4 <= Len(a)
    BY <1>1, <1>10
  <2>2. Cut(a \o fp, 0, 4) = Cut(a, 0, 4)
    BY <1>8, <1>10, <2>1, CutLeft DEF Slice
  <2>3. QED
    BY <1>6, <1>11, <2>2
<1>15. ASSUME NEW i \in 1 .. n
       PROVE  /\ Cut(s, 4 * i, 4 * i + 4) = pack_number(e[i - 1])
              /\ Cut(s, e[i - 1], e[i]) = parts[i]
  <2> DEFINE x == 4 * i
             y == 4 * i + 4
  <2>1. x \in Nat /\ y \in Nat /\ x <= y /\ y <= Len(a)
    BY <1>1, <1>10
  <2> HIDE DEF x, y
  <2>2. Cut(a \o fp, x, y) = Cut(a, x, y)
    BY <1>8, <1>10, <2>1, CutLeft DEF Slice
  <2>3. Cut(s, 4 * i, 4 * i + 4) = pack_number(e[i - 1])
    BY <1>6, <1>12, <2>2 DEF x, y
  <2> DEFINE b == e[i - 1] - h
             c == e[i] - h
  <2>4. /\ b \in Nat /\ c \in Nat /\ b <= c /\ c <= Len(fp)
        /\ h + b = e[i - 1] /\ h + c = e[i]
    <3>1. i - 1 \in 0 .. n /\ i \in 0 .. n /\ 0 \in 0 .. n /\ n \in 0 .. n /\ 0 <= i - 1 /\ i - 1 <= i /\ i <= n
      BY <1>1
    <3>2. e[0] <= e[i - 1] /\ e[i - 1] <= e[i] /\ e[i] <= e[n]
      BY <1>4, <3>1
    <3> DEFINE u == e[i - 1]
               w == e[i]
               z == e[n]
    <3>3. h <= u /\ u <= w /\ w <= z /\ u \in Nat /\ w \in Nat /\ z \in Nat /\ Len(fp) = z - h
      BY <1>2, <1>3, <1>8, <1>9, <3>2
    <3> HIDE DEF u, w, z, h
    <3>4. /\ u - h \in Nat /\ w - h \in Nat /\ u - h <= w - h /\ w - h <= Len(fp)
          /\ h + (u - h) = u /\ h + (w - h) = w
      BY <1>1, <3>3
    <3>5. QED
      BY <3>4 DEF u, w
  <2>5. Cut(fp, b, c) = parts[i]
    BY <1>8
  <2> HIDE DEF b, c, h
  <2>6. Cut(a \o fp, h + b, h + c) = Cut(fp, b, c)
    <3>1. a \in Seq(Byte) /\ fp \in Seq(Byte) /\ Len(a) = h
      BY <1>8, <1>10 DEF Slice
    <3>2. Cut(a \o fp, Len(a) + b, Len(a) + c) = Cut(fp, b, c)
      BY ONLY <2>4, <3>1, CutRight, ZenonT(60)
    <3>3. QED
      BY <3>1, <3>2
  <2>7. Cut(s, e[i - 1], e[i]) = parts[i]
    BY <1>6, <2>4, <2>5, <2>6
  <2>8. QED
    BY <2>3, <2>7
<1>16. QED
  BY <1>1, <1>2, <1>3, <1>4, <1>13, <1>14, <1>15 DEF HeaderParts, s, p, h

(* A slice that is written from parts is accepted, and taken apart into them. *)
LEMMA Written ==
  ASSUME NEW parts \in Seq(Slice), parts # << >>, Len(WithHeader(parts)) < Numbers
  PROVE  /\ WithHeader(parts) \in Slice
         /\ HeaderVerify(WithHeader(parts))
         /\ HeaderCount(WithHeader(parts)) = Len(parts)
         /\ \A i \in 1 .. Len(parts) : Part(WithHeader(parts), i, Len(parts)) = parts[i]
<1> DEFINE n == Len(parts)
           e == Ends(parts)
           s == WithHeader(parts)
<1>1. n \in Nat /\ n >= 1
  BY EmptySeq
<1>2. /\ e \in [0 .. n -> Nat] /\ e[0] = 4 * (n + 1)
      /\ \A i \in 1 .. n : e[i - 1] <= e[i]
      /\ \A i, j \in 0 .. n : i <= j => e[i] <= e[j]
      /\ s \in Slice /\ Len(s) = e[n] /\ Cut(s, 0, 4) = pack_number(e[n])
      /\ \A i \in 1 .. n : /\ Cut(s, 4 * i, 4 * i + 4) = pack_number(e[i - 1])
                           /\ Cut(s, e[i - 1], e[i]) = parts[i]
  <2>1. HeaderParts(parts, n, e)
    BY HeaderIs
  <2>2. QED
    BY <2>1, Zenon DEF HeaderParts
<1> HIDE DEF n, e, s
<1>3. /\ Len(s) \in Nat /\ e[n] \in Nat /\ e[n] < Numbers
      /\ \A i \in 0 .. n : e[i] \in Nat /\ e[i] <= Len(s) /\ e[i] < Numbers
      /\ 4 * (n + 1) <= Len(s)
  <2>1. e[n] \in Nat /\ e[n] < Numbers
    <3>1. n \in 0 .. n
      BY <1>1
    <3>2. QED
      BY <1>2, <3>1 DEF s
  <2>2. Numbers \in Nat
    BY BaseAssumption DEF Numbers
  <2>3. ASSUME NEW i \in 0 .. n
        PROVE  e[i] \in Nat /\ e[i] <= Len(s) /\ e[i] < Numbers
    <3>1. n \in 0 .. n /\ i <= n
      BY <1>1
    <3>2. e[i] <= e[n] /\ e[i] \in Nat
      BY <1>2, <3>1
    <3>3. QED
      BY <1>2, <2>1, <2>2, <3>2
  <2>4. 0 \in 0 .. n
    BY <1>1
  <2>5. QED
    BY <1>2, <2>1, <2>3, <2>4
<1>4. HasNumber(s, 0) /\ TotalSize(s) = e[n]
  <2> DEFINE at == 0
             m == e[n]
  <2>1. at \in Nat /\ at + 4 <= Len(s) /\ m \in Nat /\ m < Numbers /\ Cut(s, at, at + 4) = pack_number(m)
    <3>1. 0 + 4 = 4 /\ 4 <= Len(s)
      BY <1>1, <1>3
    <3>2. QED
      BY <1>2, <1>3, <3>1
  <2> HIDE DEF at, m
  <2>2. HasNumber(s, at) /\ unpack_number(s, at) = m
    BY <1>2, <2>1, UnpackedCut
  <2>3. QED
    BY <2>2 DEF TotalSize, at, m
<1>5. ASSUME NEW i \in 1 .. n
      PROVE  HasNumber(s, 4 * i) /\ Offset(s, i) = e[i - 1]
  <2> DEFINE at == 4 * i
             m == e[i - 1]
  <2>1. at \in Nat /\ at + 4 <= Len(s) /\ m \in Nat /\ m < Numbers
    <3>1. i - 1 \in 0 .. n /\ at + 4 <= 4 * (n + 1) /\ at \in Nat /\ n \in Nat
      BY <1>1
    <3>2. m \in Nat /\ m < Numbers
      BY <1>3, <3>1
    <3>3. 4 * (n + 1) <= Len(s) /\ Len(s) \in Nat
      BY <1>3
    <3> HIDE DEF at, m
    <3>4. at + 4 <= Len(s)
      BY <3>1, <3>3
    <3>5. QED
      BY <3>1, <3>2, <3>4
  <2>2. Cut(s, at, at + 4) = pack_number(m)
    BY <1>2
  <2> HIDE DEF at, m
  <2>3. HasNumber(s, at) /\ unpack_number(s, at) = m
    BY <1>2, <2>1, <2>2, UnpackedCut
  <2>4. QED
    BY <2>3 DEF Offset, NUMBER_SIZE, at, m
<1>6. HasNumber(s, 4) /\ Offset(s, 1) = 4 * (n + 1)
  <2>1. 1 \in 1 .. n /\ 4 * 1 = 4 /\ 1 - 1 = 0
    BY <1>1
  <2>2. QED
    BY <1>2, <1>5, <2>1
<1>7. HeaderCount(s) = n
  <2>1. TotalSize(s) # 4
    BY <1>1, <1>2, <1>3, <1>4
  <2>2. (4 * (n + 1)) \div 4 - 1 = n
    BY <1>1
  <2>3. QED
    BY <1>6, <2>1, <2>2 DEF HeaderCount, NUMBER_SIZE
<1>8. ASSUME NEW i \in 1 .. n
      PROVE  Offset(s, i) <= PartEnd(s, i, n) /\ Part(s, i, n) = parts[i]
  <2>1. PartEnd(s, i, n) = e[i]
    <3>1. CASE i = n
      BY <1>2, <3>1 DEF PartEnd
    <3>2. CASE i # n
      <4>1. i + 1 \in 1 .. n /\ (i + 1) - 1 = i
        BY <1>1, <3>2
      <4>2. QED
        BY <1>5, <3>2, <4>1 DEF PartEnd
    <3>3. QED
      BY <3>1, <3>2
  <2>2. QED
    BY <1>2, <1>5, <2>1 DEF Part
<1>9. HeaderVerify(s)
  <2>1. (4 * (n + 1)) % 4 = 0 /\ 4 * (n + 1) \in 2 * 4 .. Len(s)
    BY <1>1, <1>3
  <2>2. QED
    BY <1>2, <1>4, <1>6, <1>7, <1>8, <2>1 DEF HeaderVerify, NUMBER_SIZE
<1>10. QED
  BY <1>2, <1>7, <1>8, <1>9 DEF n, s

(* And a slice that is accepted is what is written from its parts.           *)
LEMMA Rewritten ==
  ASSUME NEW s \in Slice, HeaderVerify(s)
  PROVE  /\ DynvecItems(s) \in Seq(Slice) /\ Len(DynvecItems(s)) = HeaderCount(s)
         /\ HeaderCount(s) >= 1 /\ WithHeader(DynvecItems(s)) = s
<1> DEFINE n == HeaderCount(s)
           e == [i \in 0 .. n |-> IF i = n THEN Len(s) ELSE Offset(s, i + 1)]
<1>1. n \in Nat \ {0} /\ Len(s) \in Nat
  BY HeaderOffsets
<1>a. DynvecItems(s) = [i \in 1 .. n |-> Part(s, i, n)]
  BY DEF DynvecItems
<1>b. /\ Offset(s, 1) \in 8 .. Len(s) /\ Offset(s, 1) % 4 = 0 /\ TotalSize(s) = Len(s)
      /\ HasNumber(s, 0)
  BY DEF HeaderVerify, NUMBER_SIZE
<1>c. n = Offset(s, 1) \div 4 - 1
  BY <1>1, <1>b DEF HeaderCount, NUMBER_SIZE
<1>2. \A i \in 1 .. n : HasNumber(s, 4 * i) /\ Offset(s, i) \in Nat
  BY HeaderOffsets DEF NUMBER_SIZE
<1>3. \A i \in 1 .. n : Offset(s, i) <= PartEnd(s, i, n)
  BY DEF HeaderVerify
<1> HIDE DEF n
<1>4. Offset(s, 1) = 4 * (n + 1) /\ TotalSize(s) = Len(s) /\ HasNumber(s, 0)
  <2> DEFINE o == Offset(s, 1)
  <2>1. o \in Nat /\ o % 4 = 0 /\ n = o \div 4 - 1
    BY <1>1, <1>b, <1>c
  <2> HIDE DEF o
  <2>2. o = 4 * (n + 1)
    BY <2>1
  <2>3. QED
    BY <1>b, <2>2 DEF o
<1>5. \A i \in 1 .. n : e[i - 1] = Offset(s, i) /\ e[i] = PartEnd(s, i, n) /\ e[i - 1] <= e[i]
  <2>1. ASSUME NEW i \in 1 .. n
        PROVE  e[i - 1] = Offset(s, i) /\ e[i] = PartEnd(s, i, n)
    <3>1. i \in 0 .. n /\ i - 1 \in 0 .. n /\ i - 1 # n /\ (i - 1) + 1 = i
      BY <1>1
    <3>2. QED
      BY <3>1 DEF PartEnd
  <2>2. QED
    BY <1>3, <2>1
<1>6. e \in [0 .. n -> Nat] /\ e[n] = Len(s) /\ e[0] = 4 * (n + 1)
  <2>1. ASSUME NEW i \in 0 .. n
        PROVE  (IF i = n THEN Len(s) ELSE Offset(s, i + 1)) \in Nat
    <3>1. i # n => i + 1 \in 1 .. n
      BY <1>1
    <3>2. QED
      BY <1>1, <1>2, <3>1
  <2>2. n \in 0 .. n /\ 0 \in 0 .. n /\ 0 # n /\ 0 + 1 = 1
    BY <1>1
  <2>3. QED
    BY <1>4, <2>1, <2>2
<1> HIDE DEF e
<1> DEFINE ps == CutsOf(s, e, n)
<1>7. DynvecItems(s) = ps
  <2>1. \A i \in 1 .. n : Part(s, i, n) = Cut(s, e[i - 1], e[i])
    BY <1>5 DEF Part
  <2>2. QED
    BY <1>a, <2>1 DEF CutsOf
<1>8. /\ ps \in Seq(Seq(Byte)) /\ Len(ps) = n
      /\ \A i \in 1 .. n : Len(ps[i]) = e[i] - e[i - 1]
      /\ FlattenSeq(ps) = Cut(s, e[0], e[n])
  <2>1. s \in Seq(Byte) /\ n \in Nat /\ e[n] <= Len(s) /\ \A i \in 1 .. n : e[i - 1] <= e[i]
    BY <1>1, <1>5, <1>6 DEF Slice
  <2> HIDE DEF ps
  <2>2. CutsOf(s, e, n) = ps
    BY DEF ps
  <2>3. /\ CutsOf(s, e, n) \in Seq(Seq(Byte)) /\ Len(CutsOf(s, e, n)) = n
        /\ \A i \in 1 .. n : Len(CutsOf(s, e, n)[i]) = e[i] - e[i - 1]
        /\ FlattenSeq(CutsOf(s, e, n)) = Cut(s, e[0], e[n])
    <3>1. Grows(e, n) /\ e \in [0 .. n -> Nat]
      BY <1>6, <2>1 DEF Grows
    <3>2. QED
      BY <2>1, <3>1, BytesFlatten, Zenon
  <2>4. QED
    BY <2>2, <2>3, Zenon
<1> HIDE DEF ps
<1> DEFINE h == 4 * (n + 1)
<1>9. EndsAt(e, ps, h)
  <2>1. ASSUME NEW i \in 1 .. n
        PROVE  e[i] = e[i - 1] + Len(ps[i])
    <3>1. i \in 0 .. n /\ i - 1 \in 0 .. n
      BY <1>1
    <3> DEFINE x == e[i]
               y == e[i - 1]
               z == Len(ps[i])
    <3>2. x \in Nat /\ y \in Nat /\ z = x - y
      BY <1>6, <1>8, <3>1
    <3> HIDE DEF x, y, z
    <3>3. x = y + z
      BY <3>2
    <3>4. QED
      BY <3>3 DEF x, y, z
  <2>2. QED
    BY <1>6, <1>8, <2>1 DEF EndsAt
<1>10. Ends(ps) = e
  <2>1. ps \in Seq(Slice) /\ h \in Nat
    BY <1>1, <1>8 DEF Slice
  <2>2. EndsAt(Ends(ps), ps, h)
    BY <1>8, <2>1, EndsIs
  <2> HIDE DEF h
  <2>3. QED
    BY <1>8, <1>9, <2>1, <2>2, EndsAtUnique
<1> DEFINE offsets == [i \in 1 .. n |-> pack_number(e[i - 1])]
           g == [i \in 0 .. n |-> 4 * i + 4]
           cuts == CutsOf(s, g, n)
<1>11. /\ g \in [0 .. n -> Nat] /\ g[0] = 4 /\ g[n] = h
       /\ \A i \in 1 .. n : g[i - 1] = 4 * i /\ g[i] = 4 * i + 4 /\ g[i - 1] <= g[i]
  <2>1. \A i \in 0 .. n : 4 * i + 4 \in Nat /\ g[i] = 4 * i + 4
    BY <1>1
  <2>2. \A i \in 1 .. n : i \in 0 .. n /\ i - 1 \in 0 .. n /\ 4 * (i - 1) + 4 = 4 * i /\ 4 * i <= 4 * i + 4
    BY <1>1
  <2>3. 0 \in 0 .. n /\ n \in 0 .. n /\ 4 * 0 + 4 = 4 /\ 4 * n + 4 = h
    BY <1>1
  <2>4. QED
    BY <2>1, <2>2, <2>3
<1>12. \A i \in 1 .. n : pack_number(e[i - 1]) = Cut(s, 4 * i, 4 * i + 4)
  <2>1. ASSUME NEW i \in 1 .. n
        PROVE  pack_number(e[i - 1]) = Cut(s, 4 * i, 4 * i + 4)
    <3> DEFINE at == 4 * i
    <3>1. at \in Nat /\ HasNumber(s, at)
      BY <1>1, <1>2
    <3>2. unpack_number(s, at) = e[i - 1]
      BY <1>5 DEF Offset, NUMBER_SIZE
    <3> HIDE DEF at
    <3>3. pack_number(unpack_number(s, at)) = Cut(s, at, at + 4)
      BY <3>1, Packed
    <3>4. QED
      BY <3>2, <3>3 DEF at
  <2>2. QED
    BY <2>1
<1>13. offsets = cuts
  <2>1. \A i \in 1 .. n : pack_number(e[i - 1]) = Cut(s, g[i - 1], g[i])
    <3> HIDE DEF g
    <3>1. QED
      BY <1>11, <1>12
  <2> HIDE DEF g
  <2>2. QED
    BY <2>1 DEF CutsOf
<1> HIDE DEF g, offsets
<1>14. FlattenSeq(offsets) = Cut(s, 4, h)
  <2>1. s \in Seq(Byte) /\ n \in Nat /\ g[n] <= Len(s)
    <3>1. h <= Len(s)
      BY <1>4, <1>1 DEF HeaderVerify
    <3>2. QED
      BY <1>1, <1>11, <3>1 DEF Slice
  <2>2. \A i \in 1 .. n : g[i - 1] <= g[i]
    BY <1>11
  <2>3. Grows(g, n) /\ g \in [0 .. n -> Nat]
    BY <1>11, <2>2 DEF Grows
  <2>4. FlattenSeq(cuts) = Cut(s, g[0], g[n])
    <3>1. /\ CutsOf(s, g, n) \in Seq(Seq(Byte)) /\ Len(CutsOf(s, g, n)) = n
          /\ \A i \in 1 .. n : Len(CutsOf(s, g, n)[i]) = g[i] - g[i - 1]
          /\ FlattenSeq(CutsOf(s, g, n)) = Cut(s, g[0], g[n])
      BY <2>1, <2>3, BytesFlatten, Zenon
    <3>2. QED
      BY <3>1
  <2>5. QED
    BY <1>11, <1>13, <2>4
<1>15. pack_number(Len(s)) = Cut(s, 0, 4)
  <2> DEFINE at == 0
  <2>1. at \in Nat /\ HasNumber(s, at) /\ unpack_number(s, at) = Len(s)
    BY <1>4 DEF TotalSize
  <2> HIDE DEF at
  <2>2. pack_number(unpack_number(s, at)) = Cut(s, at, at + 4)
    BY <2>1, Packed
  <2>3. 0 + 4 = 4
    OBVIOUS
  <2>4. QED
    BY <2>1, <2>2, <2>3 DEF at
<1>16. WithHeader(ps) = Cut(s, 0, 4) \o Cut(s, 4, h) \o Cut(s, h, Len(s))
  <2>1. WithHeader(ps) = pack_number(e[n]) \o FlattenSeq(offsets) \o FlattenSeq(ps)
    BY <1>8, <1>10 DEF WithHeader, offsets
  <2> HIDE DEF h
  <2>2. FlattenSeq(ps) = Cut(s, h, Len(s))
    BY <1>6, <1>8 DEF h
  <2>3. QED
    BY <1>6, <1>14, <1>15, <2>1, <2>2
<1>17. s \in Seq(Byte) /\ 0 \in Nat /\ 4 \in Nat /\ h \in Nat /\ 0 <= 4 /\ 4 <= h /\ 0 <= h
       /\ h <= Len(s) /\ Len(s) <= Len(s)
  <2>1. h <= Len(s)
    BY <1>4, <1>1 DEF HeaderVerify
  <2>2. QED
    BY <1>1, <2>1 DEF Slice
<1> HIDE DEF h
<1>18. Cut(s, 0, 4) \o Cut(s, 4, h) = Cut(s, 0, h)
  BY <1>17, CutJoin
<1>19. Cut(s, 0, h) \o Cut(s, h, Len(s)) = Cut(s, 0, Len(s))
  BY <1>1, <1>17, CutJoin
<1>20. Cut(s, 0, Len(s)) = s
  BY <1>17, CutWhole
<1>21. WithHeader(ps) = s
  BY <1>16, <1>18, <1>19, <1>20
<1>22. QED
  BY <1>1, <1>7, <1>8, <1>21 DEF Slice, n

(* There are numbers enough for a header.                                   *)
LEMMA NumbersLarge == Numbers \in Nat /\ Numbers >= 16
<1>1. Base \in Nat /\ Base >= 2
  BY BaseAssumption
<1>2. Base * Base \in Nat /\ Base * Base >= 4
  <2>1. Base * Base >= Base * 2
    BY <1>1
  <2>2. QED
    BY <1>1, <2>1
<1>3. Base * Base * Base \in Nat /\ Base * Base * Base >= 8
  <2> DEFINE x == Base * Base
  <2>1. x \in Nat /\ x >= 4
    BY <1>2
  <2> HIDE DEF x
  <2>2. x * Base >= x * 2 /\ x * Base \in Nat
    BY <1>1, <2>1
  <2>3. QED
    BY <2>1, <2>2 DEF x
<1>4. Base * Base * Base * Base \in Nat /\ Base * Base * Base * Base >= 16
  <2> DEFINE x == Base * Base * Base
  <2>1. x \in Nat /\ x >= 8
    BY <1>3
  <2> HIDE DEF x
  <2>2. x * Base >= x * 2 /\ x * Base \in Nat
    BY <1>1, <2>1
  <2>3. QED
    BY <2>1, <2>2 DEF x
<1>5. QED
  BY <1>4 DEF Numbers

-----------------------------------------------------------------------------
(* Vectors of items of one size.                                            *)

(* A vector of items of one size is accepted, and its items are read.       *)
LEMMA FixvecWritten ==
  ASSUME NEW size \in Nat, NEW items \in Seq(Slice), Len(items) < Numbers,
         \A i \in 1 .. Len(items) : Len(items[i]) = size
  PROVE  /\ FixvecBuild(items) \in Slice
         /\ Len(FixvecBuild(items)) = 4 + size * Len(items)
         /\ FixvecVerify(FixvecBuild(items), size)
         /\ FixvecCount(FixvecBuild(items)) = Len(items)
         /\ FixvecItems(FixvecBuild(items), size) = items
<1> DEFINE n == Len(items)
           p == pack_number(n)
           f == FlattenSeq(items)
           s == FixvecBuild(items)
<1>1. /\ n \in Nat /\ p \in Seq(Byte) /\ Len(p) = 4 /\ items \in Seq(Seq(Byte))
      /\ s = p \o f
  BY PackIs DEF Slice, FixvecBuild
<1>2. /\ f \in Seq(Byte) /\ Len(f) = size * n
      /\ \A i \in 1 .. n : Cut(f, size * (i - 1), size * i) = items[i]
  BY <1>1, EqualParts
<1> HIDE DEF p, f, n
<1>3. p \o f \in Seq(Byte) /\ Len(p \o f) = Len(p) + Len(f)
  BY <1>1, <1>2, ConcatProperties
<1> HIDE DEF s
<1>4. s \in Slice /\ s \in Seq(Byte) /\ Len(s) = 4 + size * n /\ size * n \in Nat
  BY <1>1, <1>2, <1>3 DEF Slice
<1>5. HasNumber(s, 0) /\ FixvecCount(s) = n
  <2> DEFINE at == 0
             four == 4
  <2>1. at \in Nat /\ four \in Nat /\ at <= four /\ four <= Len(p)
    BY <1>1
  <2> HIDE DEF at, four
  <2>2. Cut(p \o f, at, four) = Cut(p, at, four)
    BY ONLY <1>1, <1>2, <2>1, CutLeft, ZenonT(60)
  <2>3. Cut(s, 0, 4) = p
    <3>1. Cut(p, 0, Len(p)) = p
      BY <1>1, CutWhole
    <3>2. QED
      BY <1>1, <2>2, <3>1 DEF at, four
  <2>4. at + 4 = 4 /\ at + 4 <= Len(s) /\ Cut(s, at, at + 4) = pack_number(n) /\ n < Numbers
    BY <1>4, <2>3 DEF at, p, n
  <2>5. HasNumber(s, at) /\ unpack_number(s, at) = n
    BY <1>1, <1>4, <2>1, <2>4, UnpackedCut
  <2>6. QED
    BY <2>5 DEF at, FixvecCount
<1>6. FixvecVerify(s, size)
  BY <1>4, <1>5 DEF FixvecVerify, NUMBER_SIZE
<1>7. ASSUME NEW i \in 1 .. n
      PROVE  Cut(s, 4 + size * (i - 1), 4 + size * i) = items[i]
  <2> DEFINE a == size * (i - 1)
             b == size * i
  <2>1. a \in Nat /\ b \in Nat /\ a <= b /\ b <= Len(f)
    <3>1. i \in Nat /\ i - 1 \in Nat /\ i <= n /\ i - 1 <= i
      BY <1>1
    <3>2. size * (i - 1) <= size * i /\ size * i <= size * n
      BY <1>1, <3>1
    <3>3. QED
      BY <1>2, <3>1, <3>2
  <2>2. Cut(f, a, b) = items[i]
    BY <1>2
  <2> HIDE DEF a, b
  <2>3. Cut(p \o f, Len(p) + a, Len(p) + b) = Cut(f, a, b)
    <3>1. p \in Seq(Byte) /\ f \in Seq(Byte)
      BY <1>1, <1>2
    <3>2. QED
      BY <2>1, <3>1, CutRight
  <2>4. QED
    BY <1>1, <2>2, <2>3 DEF a, b
<1>8. FixvecItems(s, size) = items
  <2>1. FixvecItems(s, size) = [i \in 1 .. n |-> Cut(s, 4 + size * (i - 1), 4 + size * i)]
    BY <1>5 DEF FixvecItems, NUMBER_SIZE
  <2>2. items = [i \in 1 .. n |-> items[i]]
    BY DEF n
  <2>3. QED
    BY <1>7, <2>1, <2>2
<1>9. QED
  BY <1>4, <1>5, <1>6, <1>8 DEF s, n

(* A vector that is accepted is what is written from its items.             *)
LEMMA FixvecRewritten ==
  ASSUME NEW size \in Nat, NEW s \in Slice, FixvecVerify(s, size)
  PROVE  /\ FixvecItems(s, size) \in Seq(Slice)
         /\ Len(FixvecItems(s, size)) = FixvecCount(s)
         /\ FixvecCount(s) \in Nat /\ FixvecCount(s) < Numbers
         /\ \A i \in 1 .. FixvecCount(s) : Len(FixvecItems(s, size)[i]) = size
         /\ FixvecBuild(FixvecItems(s, size)) = s
<1> DEFINE n == FixvecCount(s)
           e == [i \in 0 .. n |-> 4 + size * i]
           items == FixvecItems(s, size)
<1>1. HasNumber(s, 0) /\ Len(s) = 4 + size * n /\ s \in Seq(Byte)
  BY DEF FixvecVerify, NUMBER_SIZE, Slice
<1>2. n \in Nat /\ n < Numbers /\ pack_number(n) = Cut(s, 0, 4)
  <2> DEFINE at == 0
  <2>1. at \in Nat /\ HasNumber(s, at) /\ unpack_number(s, at) = n
    BY <1>1 DEF FixvecCount
  <2> HIDE DEF at, n
  <2>2. /\ unpack_number(s, at) \in Nat /\ unpack_number(s, at) < Numbers
        /\ pack_number(unpack_number(s, at)) = Cut(s, at, at + 4)
    BY <2>1, Packed
  <2>3. 0 + 4 = 4
    OBVIOUS
  <2>4. QED
    BY <2>1, <2>2, <2>3 DEF at
<1>3. items = [i \in 1 .. n |-> Cut(s, 4 + size * (i - 1), 4 + size * i)]
  BY DEF FixvecItems, NUMBER_SIZE
<1> HIDE DEF n, items
<1>4. \A i \in 0 .. n : 4 + size * i \in Nat /\ e[i] = 4 + size * i
  <2>1. \A i \in 0 .. n : size * i \in Nat
    BY <1>2
  <2>2. QED
    BY <2>1
<1>5. e \in [0 .. n -> Nat]
  BY <1>4
<1> HIDE DEF e
<1>6. ASSUME NEW i \in 1 .. n
      PROVE  e[i - 1] = 4 + size * (i - 1) /\ e[i] = 4 + size * i /\ e[i - 1] <= e[i] /\ e[i] - e[i - 1] = size
  <2>1. i \in 0 .. n /\ i - 1 \in 0 .. n /\ i \in Nat
    BY <1>2
  <2>2. e[i - 1] = 4 + size * (i - 1) /\ e[i] = 4 + size * i
    BY <1>4, <2>1
  <2>3. size * i = size * (i - 1) + size
    BY <2>1
  <2>4. size * (i - 1) \in Nat
    BY <2>1
  <2>5. QED
    BY <2>2, <2>3, <2>4
<1>7. e[n] = Len(s) /\ e[0] = 4
  <2>1. n \in 0 .. n /\ 0 \in 0 .. n /\ size * 0 = 0
    BY <1>2
  <2>2. QED
    BY <1>1, <1>4, <2>1
<1>8. items = CutsOf(s, e, n)
  BY <1>3, <1>6 DEF CutsOf
<1>9. /\ CutsOf(s, e, n) \in Seq(Seq(Byte)) /\ Len(CutsOf(s, e, n)) = n
      /\ \A i \in 1 .. n : Len(CutsOf(s, e, n)[i]) = e[i] - e[i - 1]
      /\ FlattenSeq(CutsOf(s, e, n)) = Cut(s, e[0], e[n])
  <2>1. e[n] <= Len(s)
    <3>1. Len(s) \in Nat
      BY <1>1
    <3>2. QED
      BY <1>7, <3>1
  <2>2. s \in Seq(Byte) /\ n \in Nat
    BY <1>1, <1>2
  <2>3. Grows(e, n)
    BY <1>6 DEF Grows
  <2>4. QED
    BY <1>5, <2>1, <2>2, <2>3, BytesFlatten, Zenon
<1>10. items \in Seq(Slice) /\ Len(items) = n /\ \A i \in 1 .. n : Len(items[i]) = size
  BY <1>6, <1>8, <1>9 DEF Slice
<1>11. FixvecBuild(items) = Cut(s, 0, 4) \o Cut(s, 4, Len(s))
  BY <1>2, <1>7, <1>8, <1>9 DEF FixvecBuild
<1>12. Cut(s, 0, 4) \o Cut(s, 4, Len(s)) = s
  <2> DEFINE a == 0
             b == 4
             c == Len(s)
  <2>1. a \in Nat /\ b \in Nat /\ c \in Nat /\ a <= b /\ b <= c /\ c <= Len(s)
    <3>1. size * n \in Nat
      BY <1>2
    <3>2. QED
      BY <1>1, <3>1
  <2> HIDE DEF a, b, c
  <2>2. Cut(s, a, b) \o Cut(s, b, c) = Cut(s, a, c)
    BY <1>1, <2>1, CutJoin
  <2>3. Cut(s, 0, Len(s)) = s
    BY <1>1, CutWhole
  <2>4. QED
    BY <2>2, <2>3 DEF a, b, c
<1>13. QED
  BY <1>2, <1>10, <1>11, <1>12 DEF n, items

(* The number at the start of a slice, which is its length.                 *)
LEMMA FourBytes ==
  ASSUME NEW n \in Nat, n < Numbers
  PROVE  /\ pack_number(n) \in Slice /\ Len(pack_number(n)) = 4
         /\ HasNumber(pack_number(n), 0) /\ unpack_number(pack_number(n), 0) = n
<1> DEFINE p == pack_number(n)
           at == 0
<1>1. p \in Slice /\ Len(p) = 4
  BY PackIs
<1>2. \A i \in 1 .. 4 : p[at + i] = p[i]
  OBVIOUS
<1>3. at \in Nat
  OBVIOUS
<1> HIDE DEF at
<1>4. unpack_number(p, at) = n
  BY <1>2, <1>3, Unpacked
<1>5. QED
  BY <1>1, <1>4 DEF at, HasNumber, NUMBER_SIZE

(* And four bytes that are read as a number.                                *)
LEMMA FourBytesRead ==
  ASSUME NEW s \in Slice, HasNumber(s, 0)
  PROVE  /\ unpack_number(s, 0) \in Nat /\ unpack_number(s, 0) < Numbers
         /\ pack_number(unpack_number(s, 0)) = Cut(s, 0, 4)
<1> DEFINE at == 0
<1>1. at \in Nat /\ HasNumber(s, at) /\ at + 4 = 4
  OBVIOUS
<1> HIDE DEF at
<1>2. /\ unpack_number(s, at) \in Nat /\ unpack_number(s, at) < Numbers
      /\ pack_number(unpack_number(s, at)) = Cut(s, at, at + 4)
  BY <1>1, Packed
<1>3. QED
  BY <1>1, <1>2 DEF at

-----------------------------------------------------------------------------
(* Vectors of items of any size.                                            *)

(* A vector of items of any size is accepted, and its items are read.       *)
LEMMA DynvecWritten ==
  ASSUME NEW items \in Seq(Slice), Len(DynvecBuild(items)) < Numbers
  PROVE  /\ DynvecBuild(items) \in Slice
         /\ DynvecHeaderVerify(DynvecBuild(items))
         /\ HeaderCount(DynvecBuild(items)) = Len(items)
         /\ DynvecItems(DynvecBuild(items)) = items
<1>1. CASE items = << >>
  <2> DEFINE s == pack_number(4)
  <2>1. DynvecBuild(items) = s
    BY <1>1 DEF DynvecBuild, NUMBER_SIZE
  <2>2. s \in Slice /\ Len(s) = 4 /\ TotalSize(s) = 4
    BY NumbersLarge, FourBytes DEF TotalSize
  <2> HIDE DEF s
  <2>3. DynvecHeaderVerify(s) /\ HeaderCount(s) = 0
    BY <2>2 DEF DynvecHeaderVerify, HeaderCount, NUMBER_SIZE
  <2>4. DynvecItems(s) = << >>
    BY <2>3 DEF DynvecItems
  <2>5. QED
    BY <1>1, <2>1, <2>2, <2>3, <2>4
<1>2. CASE items # << >>
  <2>1. DynvecBuild(items) = WithHeader(items)
    BY <1>2 DEF DynvecBuild
  <2>2. /\ WithHeader(items) \in Slice
        /\ HeaderVerify(WithHeader(items))
        /\ HeaderCount(WithHeader(items)) = Len(items)
        /\ \A i \in 1 .. Len(items) : Part(WithHeader(items), i, Len(items)) = items[i]
    BY <1>2, <2>1, Written
  <2>3. DynvecItems(WithHeader(items)) = items
    <3>1. DynvecItems(WithHeader(items)) = [i \in 1 .. Len(items) |-> Part(WithHeader(items), i, Len(items))]
      BY <2>2 DEF DynvecItems
    <3>2. items = [i \in 1 .. Len(items) |-> items[i]]
      OBVIOUS
    <3>3. QED
      BY <2>2, <3>1, <3>2
  <2>4. QED
    BY <2>1, <2>2, <2>3 DEF DynvecHeaderVerify
<1>3. QED
  BY <1>1, <1>2

(* A vector that is accepted is what is written from its items.             *)
LEMMA DynvecRewritten ==
  ASSUME NEW s \in Slice, DynvecHeaderVerify(s)
  PROVE  /\ DynvecItems(s) \in Seq(Slice)
         /\ HeaderCount(s) \in Nat /\ Len(DynvecItems(s)) = HeaderCount(s)
         /\ DynvecBuild(DynvecItems(s)) = s
<1>1. CASE Len(s) = 4 /\ TotalSize(s) = 4
  <2>1. HeaderCount(s) = 0 /\ HasNumber(s, 0)
    BY <1>1 DEF HeaderCount, HasNumber, NUMBER_SIZE
  <2>2. DynvecItems(s) = << >>
    BY <2>1 DEF DynvecItems
  <2>3. pack_number(4) = Cut(s, 0, 4)
    BY <1>1, <2>1, FourBytesRead DEF TotalSize
  <2>4. Cut(s, 0, Len(s)) = s
    BY CutWhole DEF Slice
  <2>5. DynvecBuild(DynvecItems(s)) = s
    BY <1>1, <2>2, <2>3, <2>4 DEF DynvecBuild, NUMBER_SIZE
  <2>6. << >> \in Seq(Slice) /\ Len(<< >>) = 0
    OBVIOUS
  <2>7. QED
    BY <2>1, <2>2, <2>5, <2>6
<1>2. CASE HeaderVerify(s)
  <2>1. /\ DynvecItems(s) \in Seq(Slice) /\ Len(DynvecItems(s)) = HeaderCount(s)
        /\ HeaderCount(s) >= 1 /\ WithHeader(DynvecItems(s)) = s
    BY <1>2, Rewritten
  <2>2. HeaderCount(s) \in Nat
    BY <1>2, HeaderOffsets
  <2>3. DynvecItems(s) # << >>
    BY <2>1, <2>2
  <2>4. QED
    BY <2>1, <2>2, <2>3 DEF DynvecBuild
<1>3. QED
  BY <1>1, <1>2 DEF DynvecHeaderVerify, NUMBER_SIZE

-----------------------------------------------------------------------------
(* Bytes.                                                                   *)

(* Bytes are read as they were written,                                     *)
LEMMA BytesWritten ==
  ASSUME NEW bytes \in Slice, Len(bytes) < Numbers
  PROVE  /\ BytesBuild(bytes) \in Slice /\ Len(BytesBuild(bytes)) = 4 + Len(bytes)
         /\ BytesVerify(BytesBuild(bytes)) /\ BytesRead(BytesBuild(bytes)) = bytes
<1> DEFINE n == Len(bytes)
           p == pack_number(n)
           s == BytesBuild(bytes)
<1>1. /\ n \in Nat /\ p \in Seq(Byte) /\ Len(p) = 4 /\ bytes \in Seq(Byte)
      /\ s = p \o bytes /\ n < Numbers
  BY PackIs DEF Slice, BytesBuild
<1> HIDE DEF p, n
<1>2. p \o bytes \in Seq(Byte) /\ Len(p \o bytes) = Len(p) + n
  BY <1>1, ConcatProperties DEF n
<1> HIDE DEF s
<1>3. s \in Slice /\ s \in Seq(Byte) /\ Len(s) = 4 + n
  BY <1>1, <1>2 DEF Slice
<1>4. HasNumber(s, 0) /\ FixvecCount(s) = n
  <2> DEFINE at == 0
             four == 4
  <2>1. at \in Nat /\ four \in Nat /\ at <= four /\ four <= Len(p)
    BY <1>1
  <2> HIDE DEF at, four
  <2>2. Cut(p \o bytes, at, four) = Cut(p, at, four)
    BY <1>1, <2>1, CutLeft
  <2>3. Cut(s, 0, 4) = p
    <3>1. Cut(p, 0, Len(p)) = p
      BY <1>1, CutWhole
    <3>2. QED
      BY <1>1, <2>2, <3>1 DEF at, four
  <2>4. at + 4 = 4 /\ at + 4 <= Len(s) /\ Cut(s, at, at + 4) = pack_number(n) /\ n < Numbers
    BY <1>1, <1>3, <2>3 DEF at, p
  <2>5. HasNumber(s, at) /\ unpack_number(s, at) = n
    BY <1>1, <1>3, <2>1, <2>4, UnpackedCut
  <2>6. QED
    BY <2>5 DEF at, FixvecCount
<1>5. BytesVerify(s)
  BY <1>1, <1>3, <1>4 DEF BytesVerify, FixvecVerify, NUMBER_SIZE
<1>6. BytesRead(s) = bytes
  <2> DEFINE a == 0
  <2>1. a \in Nat /\ a <= n
    BY <1>1
  <2> HIDE DEF a
  <2>2. Cut(p \o bytes, Len(p) + a, Len(p) + n) = Cut(bytes, a, n)
    <3>1. p \in Seq(Byte) /\ bytes \in Seq(Byte) /\ n \in Nat /\ n <= Len(bytes)
      BY <1>1 DEF n
    <3>2. QED
      BY <2>1, <3>1, CutRight
  <2>3. Cut(bytes, 0, n) = bytes
    BY <1>1, CutWhole DEF n
  <2>4. Len(p) + a = 4
    BY <1>1 DEF a
  <2>5. QED
    BY <1>1, <1>4, <2>2, <2>3, <2>4 DEF BytesRead, NUMBER_SIZE, a
<1>7. QED
  BY <1>3, <1>5, <1>6 DEF s, n

(* and written as they were read.                                           *)
LEMMA BytesRewritten ==
  ASSUME NEW s \in Slice, BytesVerify(s)
  PROVE  /\ BytesRead(s) \in Slice /\ BytesBuild(BytesRead(s)) = s
<1> DEFINE n == FixvecCount(s)
           r == BytesRead(s)
<1>1. HasNumber(s, 0) /\ Len(s) = 4 + 1 * n /\ s \in Seq(Byte)
  BY DEF BytesVerify, FixvecVerify, NUMBER_SIZE, Slice
<1>2. n \in Nat /\ n < Numbers /\ pack_number(n) = Cut(s, 0, 4)
  BY <1>1, FourBytesRead DEF FixvecCount
<1>3. r = Cut(s, 4, 4 + n)
  BY DEF BytesRead, NUMBER_SIZE
<1> HIDE DEF n, r
<1>4. Len(s) = 4 + n
  BY <1>1, <1>2
<1> DEFINE a == 0
           b == 4
           c == 4 + n
<1>5. a \in Nat /\ b \in Nat /\ c \in Nat /\ a <= b /\ b <= c /\ c <= Len(s) /\ c - b = n /\ c = Len(s)
  BY <1>2, <1>4
<1> HIDE DEF a, b, c
<1>6. Cut(s, b, c) \in Seq(Byte) /\ Len(Cut(s, b, c)) = n
  BY ONLY <1>1, <1>5, CutIs
<1>7. Cut(s, a, b) \o Cut(s, b, c) = Cut(s, a, c)
  BY <1>1, <1>5, CutJoin
<1>8. Cut(s, 0, Len(s)) = s
  BY <1>1, CutWhole
<1>9. r \in Slice /\ Len(r) = n
  BY <1>3, <1>6 DEF b, c, Slice
<1>10. BytesBuild(r) = s
  <2>1. BytesBuild(r) = Cut(s, a, b) \o Cut(s, b, c)
    BY <1>2, <1>3, <1>9 DEF BytesBuild, a, b, c
  <2>2. QED
    BY <1>5, <1>7, <1>8, <2>1 DEF a
<1>11. QED
  BY <1>9, <1>10 DEF r

(* A number is divided in one way.                                          *)
LEMMA Divided ==
  ASSUME NEW m \in Nat, m > 0, NEW d \in Nat, d < m, NEW q \in Nat
  PROVE  (d + m * q) \div m = q
<1> DEFINE n == d + m * q
           u == n \div m
           e == n % m
<1>1. m * q \in Nat /\ n \in Nat
  OBVIOUS
<1>2. e + m * u = d + m * q /\ e \in Nat /\ e < m /\ u \in Nat
  <2>1. n \div m \in Nat /\ n % m \in 0 .. m - 1 /\ n = (n % m) + m * (n \div m)
    <3> HIDE DEF n
    <3>1. QED
      BY <1>1
  <2>2. QED
    BY <2>1
<1> HIDE DEF n, u, e
<1>3. ASSUME u < q PROVE FALSE
  <2>1. u + 1 <= q
    BY <1>2, <1>3
  <2>2. m * (u + 1) <= m * q
    BY <1>2, <2>1
  <2>3. m * (u + 1) = m * u + m
    BY <1>2
  <2>4. m * u \in Nat /\ m * q \in Nat
    BY <1>2
  <2>5. QED
    BY <1>2, <2>2, <2>3, <2>4
<1>4. ASSUME q < u PROVE FALSE
  <2>1. q + 1 <= u
    BY <1>2, <1>4
  <2>2. m * (q + 1) <= m * u
    BY <1>2, <2>1
  <2>3. m * (q + 1) = m * q + m
    BY <1>2
  <2>4. m * u \in Nat /\ m * q \in Nat
    BY <1>2
  <2>5. QED
    BY <1>2, <2>2, <2>3, <2>4
<1>5. u = q
  BY <1>2, <1>3, <1>4
<1>6. QED
  BY <1>5 DEF u, n

(* The low four bytes of a number, and what is left.                        *)
LEMMA LowBytes ==
  ASSUME NEW n \in Nat, NEW s, NEW at \in Nat,
         \A i \in 1 .. 4 : s[at + i] = pack_number(n)[i]
  PROVE  /\ unpack_number(s, at) \in Nat /\ n \div Numbers \in Nat
         /\ n = unpack_number(s, at) + Numbers * (n \div Numbers)
<1> DEFINE B == Base
           q1 == n \div Base
           q2 == q1 \div Base
           q3 == q2 \div Base
           q4 == q3 \div Base
           d0 == n % Base
           d1 == q1 % Base
           d2 == q2 % Base
           d3 == q3 % Base
           x2 == d2 + B * d3
           x1 == d1 + B * x2
           u == d0 + B * x1
           p == <<d0, d1, d2, d3>>
<1>1. B \in Nat /\ B = Base /\ Base \in Nat
  BY BaseAssumption
<1>2. d0 \in Byte /\ q1 \in Nat /\ n = d0 + Base * q1
  BY Digit
<1>3. d1 \in Byte /\ q2 \in Nat /\ q1 = d1 + Base * q2
  <2> HIDE DEF q1
  <2>1. QED
    BY <1>2, Digit
<1>4. d2 \in Byte /\ q3 \in Nat /\ q2 = d2 + Base * q3
  <2> HIDE DEF q2
  <2>1. QED
    BY <1>3, Digit
<1>5. d3 \in Byte /\ q4 \in Nat /\ q3 = d3 + Base * q4
  <2> HIDE DEF q3
  <2>1. QED
    BY <1>4, Digit
<1>6. pack_number(n) = p
  BY DEF pack_number
<1> HIDE DEF q1, q2, q3, q4, d0, d1, d2, d3
<1>7. s[at + 1] = d0 /\ s[at + 2] = d1 /\ s[at + 3] = d2 /\ s[at + 4] = d3
  <2>1. p[1] = d0 /\ p[2] = d1 /\ p[3] = d2 /\ p[4] = d3
    OBVIOUS
  <2>2. 1 \in 1 .. 4 /\ 2 \in 1 .. 4 /\ 3 \in 1 .. 4 /\ 4 \in 1 .. 4
    OBVIOUS
  <2>3. QED
    BY <1>6, <2>1, <2>2
<1>8. unpack_number(s, at) = u
  BY <1>7 DEF unpack_number
<1>9. d3 \in Nat /\ d3 < Base
  BY <1>5, BaseAssumption DEF Byte
<1> HIDE DEF B
<1>10. x2 \in Nat /\ x2 < Base * Base
  BY <1>1, <1>4, <1>9, Undigit
<1>11. q2 = x2 + (Base * Base) * q4
  <2>1. Base * (d3 + Base * q4) = Base * d3 + (Base * Base) * q4
    BY <1>1, <1>5, <1>9
  <2>2. d2 \in Nat /\ Base * d3 \in Nat /\ (Base * Base) * q4 \in Nat
    BY <1>1, <1>4, <1>5, <1>9 DEF Byte
  <2> DEFINE y == Base * d3
             z == (Base * Base) * q4
  <2>3. q2 = d2 + (y + z) /\ x2 = d2 + y
    BY <1>1, <1>4, <1>5, <2>1
  <2> HIDE DEF y, z, x2
  <2>4. QED
    BY <2>2, <2>3 DEF y, z
<1> HIDE DEF x2
<1>12. x1 \in Nat /\ x1 < Base * (Base * Base)
  <2>1. Base * Base \in Nat
    BY <1>1
  <2>2. QED
    BY <1>1, <1>3, <1>10, <2>1, Undigit
<1>13. q1 = x1 + (Base * (Base * Base)) * q4
  <2> DEFINE b == Base * Base
  <2>0. b \in Nat
    BY <1>1
  <2>a. q2 = x2 + b * q4
    BY <1>11
  <2> HIDE DEF b
  <2>1. Base * (x2 + b * q4) = Base * x2 + (Base * b) * q4
    BY <1>1, <1>5, <1>10, <2>0
  <2>2. d1 \in Nat /\ Base * x2 \in Nat /\ (Base * b) * q4 \in Nat
    BY <1>1, <1>3, <1>5, <1>10, <2>0 DEF Byte
  <2> DEFINE y == Base * x2
             z == (Base * b) * q4
  <2>3. q1 = d1 + (y + z) /\ x1 = d1 + y
    BY <1>1, <1>3, <2>a, <2>1
  <2> HIDE DEF y, z, x1
  <2>4. q1 = x1 + z
    BY <2>2, <2>3 DEF y, z
  <2>5. QED
    BY <2>4 DEF z, b
<1> HIDE DEF x1
<1>14. u \in Nat /\ u < Base * (Base * (Base * Base))
  <2>1. Base * (Base * Base) \in Nat
    BY <1>1
  <2>2. QED
    BY <1>1, <1>2, <1>12, <2>1, Undigit
<1>15. n = u + (Base * (Base * (Base * Base))) * q4
  <2> DEFINE b == Base * (Base * Base)
  <2>0. b \in Nat
    BY <1>1
  <2>a. q1 = x1 + b * q4
    BY <1>13
  <2> HIDE DEF b
  <2>1. Base * (x1 + b * q4) = Base * x1 + (Base * b) * q4
    BY <1>1, <1>5, <1>12, <2>0
  <2>2. d0 \in Nat /\ Base * x1 \in Nat /\ (Base * b) * q4 \in Nat
    BY <1>1, <1>2, <1>5, <1>12, <2>0 DEF Byte
  <2> DEFINE y == Base * x1
             z == (Base * b) * q4
  <2>3. n = d0 + (y + z) /\ u = d0 + y
    BY <1>1, <1>2, <2>a, <2>1
  <2> HIDE DEF y, z, u
  <2>4. n = u + z
    BY <2>2, <2>3 DEF y, z
  <2>5. QED
    BY <2>4 DEF z, b
<1> HIDE DEF u
<1>16. Base * (Base * (Base * Base)) = Numbers
  BY <1>1 DEF Numbers
<1>17. n \div Numbers = q4
  BY <1>5, <1>14, <1>15, <1>16, NumbersLarge, Divided
<1>18. QED
  BY <1>5, <1>8, <1>14, <1>15, <1>16, <1>17

(* A stake and a block number, eight bytes, are read as they were written.   *)
LEMMA Uint64Written ==
  ASSUME NEW n \in Nat, n < Numbers * Numbers
  PROVE  /\ IntoUint64T(n) \in Slice /\ Uint64TVerify(IntoUint64T(n))
         /\ FromUint64T(IntoUint64T(n)) = n
<1> DEFINE m == n \div Numbers
           p == pack_number(n)
           q == pack_number(m)
           s == IntoUint64T(n)
<1>0. Numbers \in Nat /\ Numbers >= 16
  BY NumbersLarge
<1>1. m \in Nat /\ m < Numbers
  <2>1. m \in Nat /\ n % Numbers \in 0 .. Numbers - 1 /\ n = (n % Numbers) + Numbers * m
    BY <1>0
  <2> DEFINE r == n % Numbers
  <2>2. r \in Nat /\ n = r + Numbers * m
    BY <1>0, <2>1
  <2> HIDE DEF m, r
  <2>3. SUFFICES ASSUME Numbers <= m PROVE FALSE
    BY <1>0, <2>1
  <2>4. Numbers * Numbers <= Numbers * m
    BY <1>0, <2>1, <2>3
  <2>5. Numbers * Numbers \in Nat /\ Numbers * m \in Nat
    BY <1>0, <2>1
  <2>6. QED
    BY <2>2, <2>4, <2>5
<1>2. s = p \o q
  BY DEF IntoUint64T
<1> HIDE DEF m
<1>3. p \in Seq(Byte) /\ Len(p) = 4 /\ q \in Seq(Byte) /\ Len(q) = 4
  BY <1>1, PackIs DEF Slice
<1> HIDE DEF p, q
<1>4. /\ p \o q \in Seq(Byte) /\ Len(p \o q) = Len(p) + Len(q)
      /\ \A i \in 1 .. Len(p) + Len(q) :
            (p \o q)[i] = IF i <= Len(p) THEN p[i] ELSE q[i - Len(p)]
  BY <1>3, ConcatProperties
<1> HIDE DEF s
<1>5. /\ s \in Seq(Byte) /\ Len(s) = 8
      /\ \A i \in 1 .. 8 : s[i] = IF i <= 4 THEN p[i] ELSE q[i - 4]
  BY <1>2, <1>3, <1>4
<1> DEFINE at == 0
           four == 4
<1>6. at \in Nat /\ four \in Nat
      /\ (\A i \in 1 .. 4 : s[at + i] = p[i]) /\ (\A i \in 1 .. 4 : s[four + i] = q[i])
  <2>1. ASSUME NEW i \in 1 .. 4
        PROVE  s[at + i] = p[i] /\ s[four + i] = q[i]
    <3>1. at + i = i /\ i \in 1 .. 8 /\ i <= 4 /\ four + i \in 1 .. 8 /\ ~(four + i <= 4) /\ (four + i) - 4 = i
      OBVIOUS
    <3>2. s[four + i] = q[(four + i) - 4]
      BY <1>5, <3>1
    <3>3. QED
      BY <1>5, <3>1, <3>2
  <2>2. QED
    BY <2>1
<1> HIDE DEF at, four
<1>7. n = unpack_number(s, at) + Numbers * m
  BY <1>6, LowBytes DEF p, m
<1>8. unpack_number(s, four) = m
  BY <1>1, <1>6, Unpacked DEF q
<1>9. QED
  BY <1>5, <1>7, <1>8 DEF FromUint64T, Uint64TVerify, Uint64Size, NUMBER_SIZE, Slice, s, at, four

(* An array is a slice of its size.                                         *)
LEMMA ArrayIs ==
  ASSUME NEW size \in Nat, NEW x
  PROVE  x \in Array(size) <=> (x \in Slice /\ Len(x) = size)
<1>1. ASSUME x \in Array(size)
      PROVE  x \in Slice /\ Len(x) = size
  BY <1>1 DEF Array, Slice
<1>2. ASSUME x \in Slice, Len(x) = size
      PROVE  x \in Array(size)
  BY <1>2 DEF Array, Slice
<1>3. QED
  BY <1>1, <1>2

(* A list that is built item by item, each time from what the vector built  *)
(* so far is read as, is the list built at once.                            *)
BuiltStep(built, items, size, i) ==
  IF i = 0 THEN FixvecBuild(<< >>)
  ELSE FixvecBuild(Append(FixvecItems(built[i - 1], size), items[i]))

BuildsUp(built, items, size) ==
  built = [i \in 0 .. Len(items) |-> BuiltStep(built, items, size, i)]

(* Such a list exists, and it is the vector of its items.                   *)
LEMMA ListBuilt ==
  ASSUME NEW size \in Nat, NEW items \in Seq(Slice), Len(items) < Numbers,
         \A i \in 1 .. Len(items) : Len(items[i]) = size
  PROVE  /\ \E built : BuildsUp(built, items, size)
         /\ \A built : BuildsUp(built, items, size) => built[Len(items)] = FixvecBuild(items)
<1> DEFINE n == Len(items)
           f == [i \in 0 .. n |-> FixvecBuild(Cut(items, 0, i))]
<1>1. n \in Nat /\ n < Numbers /\ Numbers \in Nat
  BY NumbersLarge
<1>2. ASSUME NEW i \in 0 .. n
      PROVE  /\ Cut(items, 0, i) \in Seq(Slice) /\ Len(Cut(items, 0, i)) = i
             /\ \A k \in 1 .. i : Cut(items, 0, i)[k] = items[k]
             /\ FixvecItems(FixvecBuild(Cut(items, 0, i)), size) = Cut(items, 0, i)
  <2> DEFINE a == 0
             c == Cut(items, a, i)
  <2>1. a \in Nat /\ i \in Nat /\ a <= i /\ i <= Len(items)
    BY <1>1
  <2> HIDE DEF a
  <2>2. c \in Seq(Slice) /\ Len(c) = i - a /\ \A k \in 1 .. i - a : c[k] = items[a + k]
    BY <2>1, CutIs
  <2>3. i - a = i /\ \A k \in 1 .. i : a + k = k /\ k \in 1 .. n
    BY <2>1, <1>1 DEF a
  <2>4. Len(c) = i /\ \A k \in 1 .. i : c[k] = items[k]
    BY <2>2, <2>3
  <2>5. Len(c) < Numbers /\ \A k \in 1 .. Len(c) : Len(c[k]) = size
    BY <1>1, <2>3, <2>4
  <2> HIDE DEF c
  <2>6. FixvecItems(FixvecBuild(c), size) = c
    BY <2>2, <2>5, FixvecWritten
  <2>7. QED
    BY <2>2, <2>4, <2>6 DEF c, a
<1>3. Cut(items, 0, 0) = << >>
  <2>1. 0 \in 0 .. n
    BY <1>1
  <2>2. Cut(items, 0, 0) \in Seq(Slice) /\ Len(Cut(items, 0, 0)) = 0
    BY <1>2, <2>1
  <2>3. QED
    BY <2>2, EmptySeq
<1>4. ASSUME NEW i \in 1 .. n
      PROVE  Append(Cut(items, 0, i - 1), items[i]) = Cut(items, 0, i)
  <2> DEFINE x == Cut(items, 0, i - 1)
             y == Cut(items, 0, i)
  <2>1. i - 1 \in 0 .. n /\ i \in 0 .. n /\ i \in Nat
    BY <1>1
  <2>2. x \in Seq(Slice) /\ Len(x) = i - 1 /\ \A k \in 1 .. i - 1 : x[k] = items[k]
    BY <1>2, <2>1
  <2>3. y \in Seq(Slice) /\ Len(y) = i /\ \A k \in 1 .. i : y[k] = items[k]
    BY <1>2, <2>1
  <2>4. items[i] \in Slice
    OBVIOUS
  <2> HIDE DEF x, y
  <2>5. /\ Append(x, items[i]) \in Seq(Slice) /\ Len(Append(x, items[i])) = Len(x) + 1
        /\ \A k \in 1 .. Len(x) : Append(x, items[i])[k] = x[k]
        /\ Append(x, items[i])[Len(x) + 1] = items[i]
    BY <2>2, <2>4, AppendProperties
  <2>6. Len(Append(x, items[i])) = Len(y) /\ Len(y) = i
    BY <2>1, <2>2, <2>3, <2>5
  <2>7. \A k \in 1 .. i : Append(x, items[i])[k] = y[k]
    <3>1. ASSUME NEW k \in 1 .. i
          PROVE  Append(x, items[i])[k] = y[k]
      <4>1. CASE k = i
        BY <2>1, <2>2, <2>3, <2>5, <4>1
      <4>2. CASE k # i
        <5>1. k \in 1 .. i - 1
          BY <2>1, <4>2
        <5>2. QED
          BY <2>2, <2>3, <2>5, <5>1
      <4>3. QED
        BY <4>1, <4>2
    <3>2. QED
      BY <3>1
  <2>8. Append(x, items[i]) = y
    BY <2>3, <2>5, <2>6, <2>7, SeqEqual
  <2>9. QED
    BY <2>8 DEF x, y
<1>5. \A i \in 0 .. n : f[i] = FixvecBuild(Cut(items, 0, i))
  OBVIOUS
<1>6. BuildsUp(f, items, size)
  <2>1. ASSUME NEW i \in 0 .. n
        PROVE  FixvecBuild(Cut(items, 0, i)) = BuiltStep(f, items, size, i)
    <3>1. CASE i = 0
      BY <1>3, <3>1 DEF BuiltStep
    <3>2. CASE i # 0
      <4>1. i \in 1 .. n /\ i - 1 \in 0 .. n
        BY <1>1, <3>2
      <4>2. f[i - 1] = FixvecBuild(Cut(items, 0, i - 1))
        BY <1>5, <4>1
      <4> HIDE DEF f
      <4>3. FixvecItems(f[i - 1], size) = Cut(items, 0, i - 1)
        BY <1>2, <4>1, <4>2
      <4>4. QED
        BY <1>4, <3>2, <4>1, <4>3 DEF BuiltStep
    <3>3. QED
      BY <3>1, <3>2
  <2>2. QED
    BY <2>1, Zenon DEF BuildsUp
<1> HIDE DEF f
<1>7. ASSUME NEW built, BuildsUp(built, items, size)
      PROVE  built[n] = FixvecBuild(items)
  <2> DEFINE T == {k \in Nat : k <= n => built[k] = FixvecBuild(Cut(items, 0, k))}
  <2>1. \A i \in 0 .. n : built[i] = BuiltStep(built, items, size, i)
    BY <1>7, Zenon DEF BuildsUp
  <2>2. 0 \in T
    <3>1. 0 \in 0 .. n
      BY <1>1
    <3>2. built[0] = BuiltStep(built, items, size, 0)
      BY <2>1, <3>1
    <3>3. BuiltStep(built, items, size, 0) = FixvecBuild(<< >>)
      BY DEF BuiltStep
    <3>4. QED
      BY <1>3, <3>2, <3>3
  <2>3. ASSUME NEW k \in Nat, k \in T
        PROVE  k + 1 \in T
    <3> DEFINE i == k + 1
    <3> SUFFICES ASSUME i <= n PROVE built[i] = FixvecBuild(Cut(items, 0, i))
      OBVIOUS
    <3>1. i \in 1 .. n /\ i \in 0 .. n /\ i # 0 /\ i - 1 = k /\ i - 1 \in 0 .. n /\ k <= n
      BY <1>1
    <3>2. built[i - 1] = FixvecBuild(Cut(items, 0, i - 1))
      BY <2>3, <3>1
    <3> HIDE DEF i
    <3>3. FixvecItems(built[i - 1], size) = Cut(items, 0, i - 1)
      BY <1>2, <3>1, <3>2
    <3>4. built[i] = FixvecBuild(Append(FixvecItems(built[i - 1], size), items[i]))
      BY <2>1, <3>1 DEF BuiltStep
    <3>5. QED
      BY <1>4, <3>1, <3>3, <3>4
  <2> HIDE DEF T
  <2>4. \A k \in Nat : k \in T
    BY <2>2, <2>3, Induct
  <2>5. built[n] = FixvecBuild(Cut(items, 0, n))
    BY <1>1, <2>4 DEF T
  <2>6. Cut(items, 0, n) = items
    BY CutWhole
  <2>7. QED
    BY <2>5, <2>6
<1>8. QED
  BY <1>6, <1>7

(* The lists of hashes and of nfts, as they are written.                    *)
LEMMA IntoHashesIs ==
  ASSUME NEW hashes \in Seq(Blake256), Len(hashes) < Numbers
  PROVE  IntoHashes(hashes) = FixvecBuild(hashes)
<1> DEFINE n == Len(hashes)
           size == Blake256Size
           Def(b) == [i \in 0 .. n |->
                        IF i = 0 THEN HashesDefault
                        ELSE HashesBuild(Append(HashesRead(b[i - 1]), IntoBlake256(hashes[i])))]
           built == CHOOSE b : b = Def(b)
<1>1. size \in Nat
  BY SizesAssumption
<1>2. hashes \in Seq(Slice) /\ \A i \in 1 .. n : Len(hashes[i]) = size
  <2>1. \A x \in Blake256 : x \in Slice /\ Len(x) = size
    BY <1>1, ArrayIs DEF Blake256
  <2>2. QED
    BY <2>1
<1>3. IntoHashes(hashes) = built[n]
  BY Zenon DEF IntoHashes
<1>4. ASSUME NEW b
      PROVE  b = Def(b) <=> BuildsUp(b, hashes, size)
  BY DEF BuildsUp, BuiltStep, HashesDefault, HashesBuild, HashesRead, IntoBlake256
<1> HIDE DEF size
<1>5. \E b : BuildsUp(b, hashes, size)
  BY <1>1, <1>2, ListBuilt
<1>6. BuildsUp(built, hashes, size)
  <2>1. built = Def(built)
    <3>1. \E b : b = Def(b)
      <4> HIDE DEF Def
      <4>1. QED
        BY <1>4, <1>5, Zenon
    <3> HIDE DEF Def
    <3>2. QED
      BY <3>1, Zenon
  <2> HIDE DEF Def
  <2>2. QED
    BY <1>4, <2>1, Zenon
<1> HIDE DEF built
<1>7. built[n] = FixvecBuild(hashes)
  BY <1>1, <1>2, <1>6, ListBuilt
<1>8. QED
  BY <1>3, <1>7

(* The list of nfts, written item by item, is the vector of them.           *)
LEMMA IntoNftsIs ==
  ASSUME NEW nfts \in Seq(Blake160), Len(nfts) < Numbers
  PROVE  IntoNfts(nfts) = FixvecBuild(nfts)
<1> DEFINE n == Len(nfts)
           size == Blake160Size
           Def(b) == [i \in 0 .. n |->
                        IF i = 0 THEN NftsDefault
                        ELSE NftsBuild(Append(NftsRead(b[i - 1]), IntoBlake160(nfts[i])))]
           built == CHOOSE b : b = Def(b)
<1>1. size \in Nat
  BY SizesAssumption
<1>2. nfts \in Seq(Slice) /\ \A i \in 1 .. n : Len(nfts[i]) = size
  <2>1. \A x \in Blake160 : x \in Slice /\ Len(x) = size
    BY <1>1, ArrayIs DEF Blake160
  <2>2. QED
    BY <2>1
<1>3. IntoNfts(nfts) = built[n]
  BY Zenon DEF IntoNfts
<1>4. ASSUME NEW b
      PROVE  b = Def(b) <=> BuildsUp(b, nfts, size)
  BY DEF BuildsUp, BuiltStep, NftsDefault, NftsBuild, NftsRead, IntoBlake160
<1> HIDE DEF size
<1>5. \E b : BuildsUp(b, nfts, size)
  BY <1>1, <1>2, ListBuilt
<1>6. BuildsUp(built, nfts, size)
  <2>1. built = Def(built)
    <3>1. \E b : b = Def(b)
      <4> HIDE DEF Def
      <4>1. QED
        BY <1>4, <1>5, Zenon
    <3> HIDE DEF Def
    <3>2. QED
      BY <3>1, Zenon
  <2> HIDE DEF Def
  <2>2. QED
    BY <1>4, <2>1, Zenon
<1> HIDE DEF built
<1>7. built[n] = FixvecBuild(nfts)
  BY <1>1, <1>2, <1>6, ListBuilt
<1>8. QED
  BY <1>3, <1>7

(* Lists of hashes and of nfts are read as they were written.               *)
LEMMA HashesWritten ==
  ASSUME NEW l \in Seq(Blake256), Len(l) < Numbers
  PROVE  /\ IntoHashes(l) \in Slice /\ HashesVerify(IntoHashes(l)) /\ FromHashes(IntoHashes(l)) = l
         /\ Len(IntoHashes(l)) = 4 + Blake256Size * Len(l)
<1> DEFINE size == Blake256Size
           s == FixvecBuild(l)
<1>1. size \in Nat
  BY SizesAssumption
<1>2. l \in Seq(Slice) /\ \A i \in 1 .. Len(l) : Len(l[i]) = size
  <2>1. \A x \in Blake256 : x \in Slice /\ Len(x) = size
    BY <1>1, ArrayIs DEF Blake256
  <2>2. QED
    BY <2>1
<1>3. IntoHashes(l) = s
  BY IntoHashesIs
<1> HIDE DEF size
<1>4. /\ s \in Slice /\ FixvecVerify(s, size) /\ FixvecCount(s) = Len(l) /\ FixvecItems(s, size) = l
      /\ Len(s) = 4 + size * Len(l)
  BY <1>1, <1>2, FixvecWritten
<1> HIDE DEF s
<1>5. FromHashes(s) = l
  <2>1. FromHashes(s) = [i \in 1 .. Len(l) |-> l[i]]
    BY <1>4 DEF FromHashes, FromBlake256, HashesRead, size
  <2>2. QED
    BY <2>1
<1>6. QED
  BY <1>3, <1>4, <1>5 DEF HashesVerify, size

(* Lists of hashes that are accepted are written as they were read,         *)
LEMMA HashesRewritten ==
  ASSUME NEW s \in Slice, HashesVerify(s)
  PROVE  /\ FromHashes(s) \in Seq(Blake256) /\ Len(FromHashes(s)) < Numbers
         /\ IntoHashes(FromHashes(s)) = s
         /\ FixvecInBounds(s, Blake256Size)
<1> DEFINE size == Blake256Size
           n == FixvecCount(s)
           l == FixvecItems(s, size)
<1>1. size \in Nat
  BY SizesAssumption
<1>2. FixvecVerify(s, size)
  BY DEF HashesVerify
<1> HIDE DEF size
<1>3. /\ l \in Seq(Slice) /\ Len(l) = n /\ n \in Nat /\ n < Numbers
      /\ \A i \in 1 .. n : Len(l[i]) = size
      /\ FixvecBuild(l) = s
  BY <1>1, <1>2, FixvecRewritten
<1>4. FromHashes(s) = [i \in 1 .. n |-> l[i]]
  BY DEF FromHashes, FromBlake256, HashesRead, size
<1> HIDE DEF n, l
<1>5. FromHashes(s) = l
  BY <1>3, <1>4
<1>6. l \in Seq(Blake256)
  <2>1. \A i \in 1 .. n : l[i] \in Blake256
    <3>1. ASSUME NEW i \in 1 .. n
          PROVE  l[i] \in Blake256
      <4>1. l[i] \in Slice /\ Len(l[i]) = size
        BY <1>3
      <4>2. QED
        BY <1>1, <4>1, ArrayIs DEF Blake256, size
    <3>2. QED
      BY <3>1
  <2>2. QED
    BY <1>3, <2>1
<1>7. IntoHashes(l) = s
  BY <1>3, <1>6, IntoHashesIs
<1>8. FixvecInBounds(s, size)
  <2>1. Len(s) \in Nat
    BY DEF Slice
  <2>2. QED
    BY <1>2, <2>1 DEF FixvecVerify, FixvecInBounds
<1>9. QED
  BY <1>3, <1>5, <1>6, <1>7, <1>8 DEF size

(* Lists of nfts are read as they were written,                             *)
LEMMA NftsWritten ==
  ASSUME NEW l \in Seq(Blake160), Len(l) < Numbers
  PROVE  /\ IntoNfts(l) \in Slice /\ NftsVerify(IntoNfts(l)) /\ FromNfts(IntoNfts(l)) = l
         /\ Len(IntoNfts(l)) = 4 + Blake160Size * Len(l)
<1> DEFINE size == Blake160Size
           s == FixvecBuild(l)
<1>1. size \in Nat
  BY SizesAssumption
<1>2. l \in Seq(Slice) /\ \A i \in 1 .. Len(l) : Len(l[i]) = size
  <2>1. \A x \in Blake160 : x \in Slice /\ Len(x) = size
    BY <1>1, ArrayIs DEF Blake160
  <2>2. QED
    BY <2>1
<1>3. IntoNfts(l) = s
  BY IntoNftsIs
<1> HIDE DEF size
<1>4. /\ s \in Slice /\ FixvecVerify(s, size) /\ FixvecCount(s) = Len(l) /\ FixvecItems(s, size) = l
      /\ Len(s) = 4 + size * Len(l)
  BY <1>1, <1>2, FixvecWritten
<1> HIDE DEF s
<1>5. FromNfts(s) = l
  <2>1. FromNfts(s) = [i \in 1 .. Len(l) |-> l[i]]
    BY <1>4 DEF FromNfts, FromBlake160, NftsRead, size
  <2>2. QED
    BY <2>1
<1>6. QED
  BY <1>3, <1>4, <1>5 DEF NftsVerify, size

(* and written as they were read.                                           *)
LEMMA NftsRewritten ==
  ASSUME NEW s \in Slice, NftsVerify(s)
  PROVE  /\ FromNfts(s) \in Seq(Blake160) /\ Len(FromNfts(s)) < Numbers
         /\ IntoNfts(FromNfts(s)) = s
         /\ FixvecInBounds(s, Blake160Size)
<1> DEFINE size == Blake160Size
           n == FixvecCount(s)
           l == FixvecItems(s, size)
<1>1. size \in Nat
  BY SizesAssumption
<1>2. FixvecVerify(s, size)
  BY DEF NftsVerify
<1> HIDE DEF size
<1>3. /\ l \in Seq(Slice) /\ Len(l) = n /\ n \in Nat /\ n < Numbers
      /\ \A i \in 1 .. n : Len(l[i]) = size
      /\ FixvecBuild(l) = s
  BY <1>1, <1>2, FixvecRewritten
<1>4. FromNfts(s) = [i \in 1 .. n |-> l[i]]
  BY DEF FromNfts, FromBlake160, NftsRead, size
<1> HIDE DEF n, l
<1>5. FromNfts(s) = l
  BY <1>3, <1>4
<1>6. l \in Seq(Blake160)
  <2>1. \A i \in 1 .. n : l[i] \in Blake160
    <3>1. ASSUME NEW i \in 1 .. n
          PROVE  l[i] \in Blake160
      <4>1. l[i] \in Slice /\ Len(l[i]) = size
        BY <1>3
      <4>2. QED
        BY <1>1, <4>1, ArrayIs DEF Blake160, size
    <3>2. QED
      BY <3>1
  <2>2. QED
    BY <1>3, <2>1
<1>7. IntoNfts(l) = s
  BY <1>3, <1>6, IntoNftsIs
<1>8. FixvecInBounds(s, size)
  <2>1. Len(s) \in Nat
    BY DEF Slice
  <2>2. QED
    BY <1>2, <2>1 DEF FixvecVerify, FixvecInBounds
<1>9. QED
  BY <1>3, <1>5, <1>6, <1>7, <1>8 DEF size

(* The operations of a round, or of a challenge.                            *)
LEMMA OperationsWritten ==
  ASSUME NEW l \in Seq(Slice), Len(IntoOperations(l)) < Numbers
  PROVE  /\ IntoOperations(l) \in Slice /\ OperationsVerify(IntoOperations(l))
         /\ FromOperations(IntoOperations(l)) = l
<1> DEFINE n == Len(l)
           items == [i \in 1 .. n |-> BytesBuild(l[i])]
           s == IntoOperations(l)
<1>1. n \in Nat /\ \A i \in 1 .. n : l[i] \in Slice /\ Len(l[i]) \in Nat
  BY DEF Slice
<1>2. s = DynvecBuild(items)
  BY DEF IntoOperations, IntoBytes, OperationsBuild
<1>3. ASSUME NEW i \in 1 .. n
      PROVE  /\ BytesBuild(l[i]) \in Slice /\ Len(BytesBuild(l[i])) = 4 + Len(l[i])
  <2> DEFINE b == l[i]
             p == pack_number(Len(b))
  <2>1. b \in Seq(Byte) /\ p \in Seq(Byte) /\ Len(p) = 4
    BY <1>1, PackIs DEF Slice
  <2> HIDE DEF b, p
  <2>2. p \o b \in Seq(Byte) /\ Len(p \o b) = Len(p) + Len(b)
    BY <2>1, ConcatProperties
  <2>3. QED
    BY <2>1, <2>2 DEF b, p, BytesBuild, Slice
<1>4. items \in Seq(Slice) /\ Len(items) = n /\ \A i \in 1 .. n : items[i] = BytesBuild(l[i])
  <2>1. items \in [1 .. n -> Slice]
    BY <1>3
  <2>2. QED
    BY <1>1, <2>1
<1> HIDE DEF items, s
<1>5. /\ s \in Slice /\ DynvecHeaderVerify(s) /\ HeaderCount(s) = n /\ DynvecItems(s) = items
      /\ Len(s) < Numbers
  BY <1>2, <1>4, DynvecWritten DEF s
<1>6. ASSUME NEW i \in 1 .. n
      PROVE  Len(l[i]) < Numbers
  <2>1. HeaderVerify(s)
    <3>1. CASE Len(s) = 4 /\ TotalSize(s) = 4
      <4>1. HeaderCount(s) = 0
        BY <3>1 DEF HeaderCount, NUMBER_SIZE
      <4>2. QED
        BY <1>1, <1>5, <4>1
    <3>2. QED
      BY <1>5, <3>1 DEF DynvecHeaderVerify, NUMBER_SIZE
  <2>2. Offset(s, i) <= PartEnd(s, i, n) /\ PartEnd(s, i, n) <= Len(s)
    BY <1>5, <2>1, VerifiedParts DEF PartsInBounds
  <2>3. Offset(s, i) \in Nat /\ PartEnd(s, i, n) \in Nat
    <3>1. \A j \in 1 .. n : Offset(s, j) \in Nat
      BY <1>5, <2>1, HeaderOffsets
    <3>2. Len(s) \in Nat
      BY <1>5 DEF Slice
    <3>3. QED
      BY <1>1, <3>1, <3>2 DEF PartEnd
  <2>4. Len(Cut(s, Offset(s, i), PartEnd(s, i, n))) = PartEnd(s, i, n) - Offset(s, i)
    BY <1>5, <2>2, <2>3, CutOfSlice
  <2>5. items[i] = Cut(s, Offset(s, i), PartEnd(s, i, n))
    <3>1. items[i] = DynvecItems(s)[i]
      BY <1>5
    <3>2. QED
      BY <1>5, <3>1 DEF DynvecItems, Part
  <2> DEFINE o == Offset(s, i)
             e == PartEnd(s, i, n)
             m == Len(l[i])
  <2>6. 4 + m = e - o /\ e <= Len(s) /\ Len(s) < Numbers /\ m \in Nat /\ e \in Nat /\ o \in Nat /\ Len(s) \in Nat
    <3>1. Len(items[i]) = e - o
      BY <2>4, <2>5
    <3>2. Len(items[i]) = 4 + m
      BY <1>3, <1>4
    <3>3. m \in Nat
      BY <1>1 DEF Slice
    <3>4. e \in Nat /\ o \in Nat /\ e <= Len(s)
      BY <2>2, <2>3
    <3>5. Len(s) \in Nat
      BY <1>5 DEF Slice
    <3>6. QED
      BY <1>5, <3>1, <3>2, <3>3, <3>4, <3>5
  <2> HIDE DEF o, e, m
  <2>7. m < Numbers
    BY <2>6, NumbersLarge
  <2>8. QED
    BY <2>7 DEF m
<1>7. \A i \in 1 .. n : BytesVerify(items[i]) /\ BytesRead(items[i]) = l[i]
  BY <1>1, <1>4, <1>6, BytesWritten
<1>8. OperationsVerify(s)
  BY <1>5, <1>7 DEF OperationsVerify
<1>9. FromOperations(s) = l
  <2>1. FromOperations(s) = [i \in DOMAIN items |-> BytesRead(items[i])]
    BY <1>5 DEF FromOperations, OperationsRead
  <2>2. DOMAIN items = 1 .. n /\ l = [i \in 1 .. n |-> l[i]]
    BY <1>4
  <2>3. QED
    BY <1>7, <2>1, <2>2
<1>10. QED
  BY <1>5, <1>8, <1>9 DEF s

(* Operations that are accepted are written as they were read.              *)
LEMMA OperationsRewritten ==
  ASSUME NEW s \in Slice, OperationsVerify(s)
  PROVE  /\ FromOperations(s) \in Seq(Slice)
         /\ IntoOperations(FromOperations(s)) = s
<1> DEFINE n == HeaderCount(s)
           items == DynvecItems(s)
           l == FromOperations(s)
<1>1. /\ items \in Seq(Slice) /\ n \in Nat /\ Len(items) = n /\ DynvecBuild(items) = s
  BY DynvecRewritten DEF OperationsVerify
<1>2. \A i \in 1 .. n : BytesVerify(items[i])
  BY DEF OperationsVerify
<1>3. l = [i \in DOMAIN items |-> BytesRead(items[i])]
  BY DEF FromOperations, OperationsRead
<1> HIDE DEF items, n, l
<1>4. DOMAIN items = 1 .. n /\ \A i \in 1 .. n : items[i] \in Slice
  BY <1>1
<1>5. \A i \in 1 .. n : BytesRead(items[i]) \in Slice /\ BytesBuild(BytesRead(items[i])) = items[i]
  BY <1>2, <1>4, BytesRewritten
<1>6. l \in Seq(Slice) /\ Len(l) = n /\ \A i \in 1 .. n : l[i] = BytesRead(items[i])
  <2>1. l \in [1 .. n -> Slice]
    BY <1>3, <1>4, <1>5
  <2>2. QED
    BY <1>1, <1>3, <1>4, <2>1
<1>7. IntoOperations(l) = s
  <2>1. [i \in DOMAIN l |-> BytesBuild(l[i])] = items
    <3>1. DOMAIN l = 1 .. n /\ items = [i \in 1 .. n |-> items[i]]
      BY <1>1, <1>6
    <3>2. QED
      BY <1>5, <1>6, <3>1
  <2>2. QED
    BY <1>1, <2>1 DEF IntoOperations, IntoBytes, OperationsBuild
<1>8. QED
  BY <1>6, <1>7 DEF l

(* Round: its fields, each of its type. *)
RoundParts ==
  [user_type : Slice,
   operations : Slice]

RoundGood(r) ==
  /\ r \in RoundParts
  /\ Uint8TVerify(r.user_type)
  /\ OperationsVerify(r.operations)

(* What from_slice looks at in a round.                                     *)
LEMMA RoundVerifyIs ==
  ASSUME NEW s
  PROVE  RoundVerify(s) <=>
           /\ HeaderVerify(s) /\ HeaderCount(s) = 2
           /\ Uint8TVerify(Part(s, 1, 2))
           /\ OperationsVerify(Part(s, 2, 2))
BY DEF RoundVerify, TableHeaderVerify

(* The getters of a round that was verified.                                *)
LEMMA RoundFieldsAre ==
  ASSUME NEW s \in Slice, RoundVerify(s)
  PROVE  \A i \in 1 .. 2 : /\ FieldInBounds(s, i, 2) /\ Field(s, i, 2) = Part(s, i, 2)
                           /\ Field(s, i, 2) \in Slice
<1>1. HeaderVerify(s) /\ HeaderCount(s) = 2
  BY RoundVerifyIs
<1>2. QED
  BY <1>1, VerifiedFields

(* A round is read as it was written.                                       *)
LEMMA RoundWritten ==
  ASSUME NEW r, RoundGood(r), Len(RoundBuild(r)) < Numbers
  PROVE  /\ RoundBuild(r) \in Slice /\ RoundVerify(RoundBuild(r)) /\ RoundRead(RoundBuild(r)) = r
         /\ RoundBuild(r) # NoSlice
<1> DEFINE parts == <<r.user_type, r.operations>>
           s == WithHeader(parts)
<1>1. parts \in Seq(Slice) /\ Len(parts) = 2 /\ parts # << >>
  BY DEF RoundGood, RoundParts
<1>2. RoundBuild(r) = s
  BY DEF RoundBuild, TableBuild
<1>3. parts[1] = r.user_type /\ parts[2] = r.operations
  OBVIOUS
<1> HIDE DEF parts
<1>4. /\ s \in Slice /\ HeaderVerify(s) /\ HeaderCount(s) = Len(parts)
      /\ \A i \in 1 .. Len(parts) : Part(s, i, Len(parts)) = parts[i]
  BY <1>1, <1>2, Written
<1> HIDE DEF s
<1>5. HeaderCount(s) = 2 /\ \A i \in 1 .. 2 : Part(s, i, 2) = parts[i]
  BY <1>1, <1>4
<1>6. /\ Part(s, 1, 2) = r.user_type
      /\ Part(s, 2, 2) = r.operations
  BY <1>3, <1>5
<1>7. RoundVerify(s)
  <2>1. Uint8TVerify(r.user_type) /\ OperationsVerify(r.operations)
    BY DEF RoundGood
  <2>2. QED
    BY <1>4, <1>5, <1>6, <2>1, RoundVerifyIs
<1>8. /\ Field(s, 1, 2) = r.user_type
      /\ Field(s, 2, 2) = r.operations
  <2>1. \A i \in 1 .. 2 : Field(s, i, 2) = Part(s, i, 2)
    BY <1>4, <1>7, RoundFieldsAre
  <2>2. QED
    BY <1>6, <2>1
<1>9. RoundRead(s) = [user_type |-> r.user_type, operations |-> r.operations]
  BY <1>8 DEF RoundRead
<1>10. r = [user_type |-> r.user_type, operations |-> r.operations]
  BY DEF RoundGood, RoundParts
<1>11. s # NoSlice
  BY <1>4 DEF HeaderVerify, HasNumber, NUMBER_SIZE, NoSlice
<1>12. QED
  BY <1>2, <1>4, <1>7, <1>9, <1>10, <1>11

(* Args: its fields, each of its type. *)
ArgsParts ==
  [user_staking_ckb : Slice,
   user_deck_size : Slice,
   begin_blocknumber : Slice,
   lock_code_hash : Slice,
   lua_code_hashes : Slice,
   user1_pkhash : Slice,
   user1_nfts : Slice,
   user2_pkhash : Slice,
   user2_nfts : Slice]

ArgsGood(r) ==
  /\ r \in ArgsParts
  /\ Uint64TVerify(r.user_staking_ckb)
  /\ Uint8TVerify(r.user_deck_size)
  /\ Uint64TVerify(r.begin_blocknumber)
  /\ Blake256Verify(r.lock_code_hash)
  /\ HashesVerify(r.lua_code_hashes)
  /\ Blake160Verify(r.user1_pkhash)
  /\ NftsVerify(r.user1_nfts)
  /\ Blake160Verify(r.user2_pkhash)
  /\ NftsVerify(r.user2_nfts)

(* What from_slice looks at in the terms.                                   *)
LEMMA ArgsVerifyIs ==
  ASSUME NEW s
  PROVE  ArgsVerify(s) <=>
           /\ HeaderVerify(s) /\ HeaderCount(s) = 9
           /\ Uint64TVerify(Part(s, 1, 9))
           /\ Uint8TVerify(Part(s, 2, 9))
           /\ Uint64TVerify(Part(s, 3, 9))
           /\ Blake256Verify(Part(s, 4, 9))
           /\ HashesVerify(Part(s, 5, 9))
           /\ Blake160Verify(Part(s, 6, 9))
           /\ NftsVerify(Part(s, 7, 9))
           /\ Blake160Verify(Part(s, 8, 9))
           /\ NftsVerify(Part(s, 9, 9))
BY DEF ArgsVerify, TableHeaderVerify

(* The getters of terms that were verified.                                 *)
LEMMA ArgsFieldsAre ==
  ASSUME NEW s \in Slice, ArgsVerify(s)
  PROVE  \A i \in 1 .. 9 : /\ FieldInBounds(s, i, 9) /\ Field(s, i, 9) = Part(s, i, 9)
                           /\ Field(s, i, 9) \in Slice
<1>1. HeaderVerify(s) /\ HeaderCount(s) = 9
  BY ArgsVerifyIs
<1>2. QED
  BY <1>1, VerifiedFields

(* Terms are read as they were written,                                     *)
LEMMA ArgsWritten ==
  ASSUME NEW r, ArgsGood(r), Len(ArgsBuild(r)) < Numbers
  PROVE  /\ ArgsBuild(r) \in Slice /\ ArgsVerify(ArgsBuild(r)) /\ ArgsRead(ArgsBuild(r)) = r
         /\ ArgsBuild(r) # NoSlice
<1> DEFINE parts == <<r.user_staking_ckb, r.user_deck_size, r.begin_blocknumber, r.lock_code_hash, r.lua_code_hashes, r.user1_pkhash, r.user1_nfts, r.user2_pkhash, r.user2_nfts>>
           s == WithHeader(parts)
<1>1. parts \in Seq(Slice) /\ Len(parts) = 9 /\ parts # << >>
  BY DEF ArgsGood, ArgsParts
<1>2. ArgsBuild(r) = s
  BY DEF ArgsBuild, TableBuild
<1>3. parts[1] = r.user_staking_ckb /\ parts[2] = r.user_deck_size /\ parts[3] = r.begin_blocknumber /\ parts[4] = r.lock_code_hash /\ parts[5] = r.lua_code_hashes /\ parts[6] = r.user1_pkhash /\ parts[7] = r.user1_nfts /\ parts[8] = r.user2_pkhash /\ parts[9] = r.user2_nfts
  OBVIOUS
<1> HIDE DEF parts
<1>4. /\ s \in Slice /\ HeaderVerify(s) /\ HeaderCount(s) = Len(parts)
      /\ \A i \in 1 .. Len(parts) : Part(s, i, Len(parts)) = parts[i]
  BY <1>1, <1>2, Written
<1> HIDE DEF s
<1>5. HeaderCount(s) = 9 /\ \A i \in 1 .. 9 : Part(s, i, 9) = parts[i]
  BY <1>1, <1>4
<1>6. /\ Part(s, 1, 9) = r.user_staking_ckb
      /\ Part(s, 2, 9) = r.user_deck_size
      /\ Part(s, 3, 9) = r.begin_blocknumber
      /\ Part(s, 4, 9) = r.lock_code_hash
      /\ Part(s, 5, 9) = r.lua_code_hashes
      /\ Part(s, 6, 9) = r.user1_pkhash
      /\ Part(s, 7, 9) = r.user1_nfts
      /\ Part(s, 8, 9) = r.user2_pkhash
      /\ Part(s, 9, 9) = r.user2_nfts
  BY <1>3, <1>5
<1>7. ArgsVerify(s)
  <2>1. Uint64TVerify(r.user_staking_ckb) /\ Uint8TVerify(r.user_deck_size) /\ Uint64TVerify(r.begin_blocknumber) /\ Blake256Verify(r.lock_code_hash) /\ HashesVerify(r.lua_code_hashes) /\ Blake160Verify(r.user1_pkhash) /\ NftsVerify(r.user1_nfts) /\ Blake160Verify(r.user2_pkhash) /\ NftsVerify(r.user2_nfts)
    BY DEF ArgsGood
  <2>2. QED
    BY <1>4, <1>5, <1>6, <2>1, ArgsVerifyIs
<1>8. /\ Field(s, 1, 9) = r.user_staking_ckb
      /\ Field(s, 2, 9) = r.user_deck_size
      /\ Field(s, 3, 9) = r.begin_blocknumber
      /\ Field(s, 4, 9) = r.lock_code_hash
      /\ Field(s, 5, 9) = r.lua_code_hashes
      /\ Field(s, 6, 9) = r.user1_pkhash
      /\ Field(s, 7, 9) = r.user1_nfts
      /\ Field(s, 8, 9) = r.user2_pkhash
      /\ Field(s, 9, 9) = r.user2_nfts
  <2>1. \A i \in 1 .. 9 : Field(s, i, 9) = Part(s, i, 9)
    BY <1>4, <1>7, ArgsFieldsAre
  <2>2. QED
    BY <1>6, <2>1
<1>9. ArgsRead(s) = [user_staking_ckb |-> r.user_staking_ckb, user_deck_size |-> r.user_deck_size, begin_blocknumber |-> r.begin_blocknumber, lock_code_hash |-> r.lock_code_hash, lua_code_hashes |-> r.lua_code_hashes, user1_pkhash |-> r.user1_pkhash, user1_nfts |-> r.user1_nfts, user2_pkhash |-> r.user2_pkhash, user2_nfts |-> r.user2_nfts]
  BY <1>8 DEF ArgsRead, ArgsField
<1>10. r = [user_staking_ckb |-> r.user_staking_ckb, user_deck_size |-> r.user_deck_size, begin_blocknumber |-> r.begin_blocknumber, lock_code_hash |-> r.lock_code_hash, lua_code_hashes |-> r.lua_code_hashes, user1_pkhash |-> r.user1_pkhash, user1_nfts |-> r.user1_nfts, user2_pkhash |-> r.user2_pkhash, user2_nfts |-> r.user2_nfts]
  BY DEF ArgsGood, ArgsParts
<1>11. s # NoSlice
  BY <1>4 DEF HeaderVerify, HasNumber, NUMBER_SIZE, NoSlice
<1>12. QED
  BY <1>2, <1>4, <1>7, <1>9, <1>10, <1>11

(* and written as they were read.                                           *)
LEMMA ArgsRewritten ==
  ASSUME NEW s \in Slice, ArgsVerify(s)
  PROVE  ArgsGood(ArgsRead(s)) /\ ArgsBuild(ArgsRead(s)) = s
<1>1. HeaderVerify(s) /\ HeaderCount(s) = 9
  BY ArgsVerifyIs
<1>2. \A i \in 1 .. 9 : Field(s, i, 9) = Part(s, i, 9) /\ Field(s, i, 9) \in Slice
  BY ArgsFieldsAre
<1> DEFINE r == ArgsRead(s)
           parts == <<r.user_staking_ckb, r.user_deck_size, r.begin_blocknumber, r.lock_code_hash, r.lua_code_hashes, r.user1_pkhash, r.user1_nfts, r.user2_pkhash, r.user2_nfts>>
<1>3. r = [user_staking_ckb |-> Field(s, 1, 9), user_deck_size |-> Field(s, 2, 9), begin_blocknumber |-> Field(s, 3, 9), lock_code_hash |-> Field(s, 4, 9), lua_code_hashes |-> Field(s, 5, 9), user1_pkhash |-> Field(s, 6, 9), user1_nfts |-> Field(s, 7, 9), user2_pkhash |-> Field(s, 8, 9), user2_nfts |-> Field(s, 9, 9)]
  BY DEF ArgsRead, ArgsField
<1>4. /\ r.user_staking_ckb = Part(s, 1, 9) /\ r.user_staking_ckb \in Slice
      /\ r.user_deck_size = Part(s, 2, 9) /\ r.user_deck_size \in Slice
      /\ r.begin_blocknumber = Part(s, 3, 9) /\ r.begin_blocknumber \in Slice
      /\ r.lock_code_hash = Part(s, 4, 9) /\ r.lock_code_hash \in Slice
      /\ r.lua_code_hashes = Part(s, 5, 9) /\ r.lua_code_hashes \in Slice
      /\ r.user1_pkhash = Part(s, 6, 9) /\ r.user1_pkhash \in Slice
      /\ r.user1_nfts = Part(s, 7, 9) /\ r.user1_nfts \in Slice
      /\ r.user2_pkhash = Part(s, 8, 9) /\ r.user2_pkhash \in Slice
      /\ r.user2_nfts = Part(s, 9, 9) /\ r.user2_nfts \in Slice
  BY <1>2, <1>3
<1>5. /\ Uint64TVerify(Part(s, 1, 9))
      /\ Uint8TVerify(Part(s, 2, 9))
      /\ Uint64TVerify(Part(s, 3, 9))
      /\ Blake256Verify(Part(s, 4, 9))
      /\ HashesVerify(Part(s, 5, 9))
      /\ Blake160Verify(Part(s, 6, 9))
      /\ NftsVerify(Part(s, 7, 9))
      /\ Blake160Verify(Part(s, 8, 9))
      /\ NftsVerify(Part(s, 9, 9))
  BY ArgsVerifyIs
<1>6. ArgsGood(r)
  <2>1. r \in ArgsParts
    BY <1>2, <1>3 DEF ArgsParts
  <2>2. QED
    BY <1>4, <1>5, <2>1 DEF ArgsGood
<1> HIDE DEF r
<1>7. DynvecItems(s) = parts
  <2>1. DynvecItems(s) \in Seq(Slice) /\ Len(DynvecItems(s)) = 9
    BY <1>1, Rewritten
  <2>2. parts \in Seq(Slice) /\ Len(parts) = 9
    BY <1>4
  <2>3. \A i \in 1 .. 9 : DynvecItems(s)[i] = Part(s, i, 9)
    BY <1>1 DEF DynvecItems
  <2>4. \A i \in 1 .. 9 : parts[i] = Part(s, i, 9)
    BY <1>4
  <2> HIDE DEF parts
  <2>5. \A i \in 1 .. 9 : DynvecItems(s)[i] = parts[i]
    BY <2>3, <2>4
  <2>6. QED
    BY <2>1, <2>2, <2>5, SeqEqual
<1>8. ArgsBuild(r) = WithHeader(parts)
  BY DEF ArgsBuild, TableBuild
<1>9. QED
  BY <1>1, <1>6, <1>7, <1>8, Rewritten DEF r

(* Challenge: its fields, each of its type. *)
ChallengeParts ==
  [count : Slice,
   challenger : Slice,
   snapshot_position : Slice,
   snapshot_hashproof : Slice,
   snapshot_signature : Slice,
   operations : Slice]

ChallengeGood(r) ==
  /\ r \in ChallengeParts
  /\ Uint8TVerify(r.count)
  /\ Uint8TVerify(r.challenger)
  /\ Uint8TVerify(r.snapshot_position)
  /\ Blake256Verify(r.snapshot_hashproof)
  /\ SignatureVerify(r.snapshot_signature)
  /\ OperationsVerify(r.operations)

(* What from_slice looks at in a challenge.                                 *)
LEMMA ChallengeVerifyIs ==
  ASSUME NEW s
  PROVE  ChallengeVerify(s) <=>
           /\ HeaderVerify(s) /\ HeaderCount(s) = 6
           /\ Uint8TVerify(Part(s, 1, 6))
           /\ Uint8TVerify(Part(s, 2, 6))
           /\ Uint8TVerify(Part(s, 3, 6))
           /\ Blake256Verify(Part(s, 4, 6))
           /\ SignatureVerify(Part(s, 5, 6))
           /\ OperationsVerify(Part(s, 6, 6))
BY DEF ChallengeVerify, TableHeaderVerify

(* The getters of a challenge that was verified.                            *)
LEMMA ChallengeFieldsAre ==
  ASSUME NEW s \in Slice, ChallengeVerify(s)
  PROVE  \A i \in 1 .. 6 : /\ FieldInBounds(s, i, 6) /\ Field(s, i, 6) = Part(s, i, 6)
                           /\ Field(s, i, 6) \in Slice
<1>1. HeaderVerify(s) /\ HeaderCount(s) = 6
  BY ChallengeVerifyIs
<1>2. QED
  BY <1>1, VerifiedFields

(* A challenge is read as it was written,                                   *)
LEMMA ChallengeWritten ==
  ASSUME NEW r, ChallengeGood(r), Len(ChallengeBuild(r)) < Numbers
  PROVE  /\ ChallengeBuild(r) \in Slice /\ ChallengeVerify(ChallengeBuild(r)) /\ ChallengeRead(ChallengeBuild(r)) = r
         /\ ChallengeBuild(r) # NoSlice
<1> DEFINE parts == <<r.count, r.challenger, r.snapshot_position, r.snapshot_hashproof, r.snapshot_signature, r.operations>>
           s == WithHeader(parts)
<1>1. parts \in Seq(Slice) /\ Len(parts) = 6 /\ parts # << >>
  BY DEF ChallengeGood, ChallengeParts
<1>2. ChallengeBuild(r) = s
  BY DEF ChallengeBuild, TableBuild
<1>3. parts[1] = r.count /\ parts[2] = r.challenger /\ parts[3] = r.snapshot_position /\ parts[4] = r.snapshot_hashproof /\ parts[5] = r.snapshot_signature /\ parts[6] = r.operations
  OBVIOUS
<1> HIDE DEF parts
<1>4. /\ s \in Slice /\ HeaderVerify(s) /\ HeaderCount(s) = Len(parts)
      /\ \A i \in 1 .. Len(parts) : Part(s, i, Len(parts)) = parts[i]
  BY <1>1, <1>2, Written
<1> HIDE DEF s
<1>5. HeaderCount(s) = 6 /\ \A i \in 1 .. 6 : Part(s, i, 6) = parts[i]
  BY <1>1, <1>4
<1>6. /\ Part(s, 1, 6) = r.count
      /\ Part(s, 2, 6) = r.challenger
      /\ Part(s, 3, 6) = r.snapshot_position
      /\ Part(s, 4, 6) = r.snapshot_hashproof
      /\ Part(s, 5, 6) = r.snapshot_signature
      /\ Part(s, 6, 6) = r.operations
  BY <1>3, <1>5
<1>7. ChallengeVerify(s)
  <2>1. Uint8TVerify(r.count) /\ Uint8TVerify(r.challenger) /\ Uint8TVerify(r.snapshot_position) /\ Blake256Verify(r.snapshot_hashproof) /\ SignatureVerify(r.snapshot_signature) /\ OperationsVerify(r.operations)
    BY DEF ChallengeGood
  <2>2. QED
    BY <1>4, <1>5, <1>6, <2>1, ChallengeVerifyIs
<1>8. /\ Field(s, 1, 6) = r.count
      /\ Field(s, 2, 6) = r.challenger
      /\ Field(s, 3, 6) = r.snapshot_position
      /\ Field(s, 4, 6) = r.snapshot_hashproof
      /\ Field(s, 5, 6) = r.snapshot_signature
      /\ Field(s, 6, 6) = r.operations
  <2>1. \A i \in 1 .. 6 : Field(s, i, 6) = Part(s, i, 6)
    BY <1>4, <1>7, ChallengeFieldsAre
  <2>2. QED
    BY <1>6, <2>1
<1>9. ChallengeRead(s) = [count |-> r.count, challenger |-> r.challenger, snapshot_position |-> r.snapshot_position, snapshot_hashproof |-> r.snapshot_hashproof, snapshot_signature |-> r.snapshot_signature, operations |-> r.operations]
  BY <1>8 DEF ChallengeRead, ChallengeField
<1>10. r = [count |-> r.count, challenger |-> r.challenger, snapshot_position |-> r.snapshot_position, snapshot_hashproof |-> r.snapshot_hashproof, snapshot_signature |-> r.snapshot_signature, operations |-> r.operations]
  BY DEF ChallengeGood, ChallengeParts
<1>11. s # NoSlice
  BY <1>4 DEF HeaderVerify, HasNumber, NUMBER_SIZE, NoSlice
<1>12. QED
  BY <1>2, <1>4, <1>7, <1>9, <1>10, <1>11

(* and written as it was read.                                              *)
LEMMA ChallengeRewritten ==
  ASSUME NEW s \in Slice, ChallengeVerify(s)
  PROVE  ChallengeGood(ChallengeRead(s)) /\ ChallengeBuild(ChallengeRead(s)) = s
<1>1. HeaderVerify(s) /\ HeaderCount(s) = 6
  BY ChallengeVerifyIs
<1>2. \A i \in 1 .. 6 : Field(s, i, 6) = Part(s, i, 6) /\ Field(s, i, 6) \in Slice
  BY ChallengeFieldsAre
<1> DEFINE r == ChallengeRead(s)
           parts == <<r.count, r.challenger, r.snapshot_position, r.snapshot_hashproof, r.snapshot_signature, r.operations>>
<1>3. r = [count |-> Field(s, 1, 6), challenger |-> Field(s, 2, 6), snapshot_position |-> Field(s, 3, 6), snapshot_hashproof |-> Field(s, 4, 6), snapshot_signature |-> Field(s, 5, 6), operations |-> Field(s, 6, 6)]
  BY DEF ChallengeRead, ChallengeField
<1>4. /\ r.count = Part(s, 1, 6) /\ r.count \in Slice
      /\ r.challenger = Part(s, 2, 6) /\ r.challenger \in Slice
      /\ r.snapshot_position = Part(s, 3, 6) /\ r.snapshot_position \in Slice
      /\ r.snapshot_hashproof = Part(s, 4, 6) /\ r.snapshot_hashproof \in Slice
      /\ r.snapshot_signature = Part(s, 5, 6) /\ r.snapshot_signature \in Slice
      /\ r.operations = Part(s, 6, 6) /\ r.operations \in Slice
  BY <1>2, <1>3
<1>5. /\ Uint8TVerify(Part(s, 1, 6))
      /\ Uint8TVerify(Part(s, 2, 6))
      /\ Uint8TVerify(Part(s, 3, 6))
      /\ Blake256Verify(Part(s, 4, 6))
      /\ SignatureVerify(Part(s, 5, 6))
      /\ OperationsVerify(Part(s, 6, 6))
  BY ChallengeVerifyIs
<1>6. ChallengeGood(r)
  <2>1. r \in ChallengeParts
    BY <1>2, <1>3 DEF ChallengeParts
  <2>2. QED
    BY <1>4, <1>5, <2>1 DEF ChallengeGood
<1> HIDE DEF r
<1>7. DynvecItems(s) = parts
  <2>1. DynvecItems(s) \in Seq(Slice) /\ Len(DynvecItems(s)) = 6
    BY <1>1, Rewritten
  <2>2. parts \in Seq(Slice) /\ Len(parts) = 6
    BY <1>4
  <2>3. \A i \in 1 .. 6 : DynvecItems(s)[i] = Part(s, i, 6)
    BY <1>1 DEF DynvecItems
  <2>4. \A i \in 1 .. 6 : parts[i] = Part(s, i, 6)
    BY <1>4
  <2> HIDE DEF parts
  <2>5. \A i \in 1 .. 6 : DynvecItems(s)[i] = parts[i]
    BY <2>3, <2>4
  <2>6. QED
    BY <2>1, <2>2, <2>5, SeqEqual
<1>8. ChallengeBuild(r) = WithHeader(parts)
  BY DEF ChallengeBuild, TableBuild
<1>9. QED
  BY <1>1, <1>6, <1>7, <1>8, Rewritten DEF r

(* A field that lies in its slice is a slice.                               *)
LEMMA FieldIn ==
  ASSUME NEW s \in Slice, NEW n \in Nat, NEW i \in Nat, FieldInBounds(s, i, n)
  PROVE  Field(s, i, n) \in Slice
<1>1. HasNumber(s, NUMBER_SIZE * i) /\ NUMBER_SIZE * i \in Nat /\ NUMBER_SIZE * (i + 1) \in Nat
  BY DEF FieldInBounds, NUMBER_SIZE
<1>2. Offset(s, i) \in Nat
  BY <1>1, NumberNat DEF Offset
<1>3. FieldEnd(s, i, n) \in Nat
  <2>1. CASE i = n /\ HeaderCount(s) = n
    BY <2>1 DEF FieldEnd, Slice
  <2>2. CASE ~(i = n /\ HeaderCount(s) = n)
    <3>1. HasNumber(s, NUMBER_SIZE * (i + 1))
      BY <2>2 DEF FieldInBounds
    <3>2. Offset(s, i + 1) \in Nat
      BY <1>1, <3>1, NumberNat DEF Offset
    <3>3. QED
      BY <2>2, <3>2 DEF FieldEnd
  <2>3. QED
    BY <2>1, <2>2
<1>4. Offset(s, i) <= FieldEnd(s, i, n) /\ FieldEnd(s, i, n) <= Len(s)
  BY DEF FieldInBounds
<1>5. QED
  BY <1>2, <1>3, <1>4, CutOfSlice DEF Field

(* What is written from slices is a slice.                                  *)
LEMMA WithHeaderIn ==
  ASSUME NEW parts \in Seq(Slice)
  PROVE  WithHeader(parts) \in Slice
BY HeaderIs DEF HeaderParts

(* Whatever slices the terms are written from, they are read back.          *)
LEMMA ArgsBuilt ==
  ASSUME NEW r \in ArgsParts
  PROVE  /\ ArgsBuild(r) \in Slice
         /\ Len(ArgsBuild(r)) < Numbers =>
               ArgsRead(ArgsBuild(r)) = r /\ ArgsBuild(r) # NoSlice
<1> DEFINE parts == <<r.user_staking_ckb, r.user_deck_size, r.begin_blocknumber, r.lock_code_hash, r.lua_code_hashes, r.user1_pkhash, r.user1_nfts, r.user2_pkhash, r.user2_nfts>>
           s == WithHeader(parts)
<1>1. parts \in Seq(Slice) /\ Len(parts) = 9 /\ parts # << >>
  BY DEF ArgsParts
<1>2. ArgsBuild(r) = s
  BY DEF ArgsBuild, TableBuild
<1>3. parts[1] = r.user_staking_ckb /\ parts[2] = r.user_deck_size /\ parts[3] = r.begin_blocknumber /\ parts[4] = r.lock_code_hash /\ parts[5] = r.lua_code_hashes /\ parts[6] = r.user1_pkhash /\ parts[7] = r.user1_nfts /\ parts[8] = r.user2_pkhash /\ parts[9] = r.user2_nfts
  OBVIOUS
<1> HIDE DEF parts
<1>4. s \in Slice
  BY <1>1, WithHeaderIn
<1>5. ASSUME Len(ArgsBuild(r)) < Numbers
      PROVE  ArgsRead(ArgsBuild(r)) = r /\ ArgsBuild(r) # NoSlice
  <2>1. /\ HeaderVerify(s) /\ HeaderCount(s) = Len(parts)
        /\ \A i \in 1 .. Len(parts) : Part(s, i, Len(parts)) = parts[i]
    BY <1>1, <1>2, <1>5, Written
  <2> HIDE DEF s
  <2>2. HeaderCount(s) = 9 /\ \A i \in 1 .. 9 : Part(s, i, 9) = parts[i]
    BY <1>1, <2>1
  <2>3. \A i \in 1 .. 9 : Field(s, i, 9) = Part(s, i, 9)
    BY <1>4, <2>1, <2>2, VerifiedFields
  <2>4. \A i \in 1 .. 9 : Field(s, i, 9) = parts[i]
    BY <2>2, <2>3
  <2>5. ArgsRead(s) = [user_staking_ckb |-> r.user_staking_ckb, user_deck_size |-> r.user_deck_size, begin_blocknumber |-> r.begin_blocknumber, lock_code_hash |-> r.lock_code_hash, lua_code_hashes |-> r.lua_code_hashes, user1_pkhash |-> r.user1_pkhash, user1_nfts |-> r.user1_nfts, user2_pkhash |-> r.user2_pkhash, user2_nfts |-> r.user2_nfts]
    BY <1>3, <2>4 DEF ArgsRead, ArgsField
  <2>6. r = [user_staking_ckb |-> r.user_staking_ckb, user_deck_size |-> r.user_deck_size, begin_blocknumber |-> r.begin_blocknumber, lock_code_hash |-> r.lock_code_hash, lua_code_hashes |-> r.lua_code_hashes, user1_pkhash |-> r.user1_pkhash, user1_nfts |-> r.user1_nfts, user2_pkhash |-> r.user2_pkhash, user2_nfts |-> r.user2_nfts]
    BY DEF ArgsParts
  <2>7. s # NoSlice
    BY <2>1 DEF HeaderVerify, HasNumber, NUMBER_SIZE, NoSlice
  <2>8. QED
    BY <1>2, <2>5, <2>6, <2>7
<1>6. QED
  BY <1>2, <1>4, <1>5

(* What is read of terms whose fields all lie in their slice.               *)
LEMMA ArgsReadIn ==
  ASSUME NEW s \in Slice, \A i \in 1 .. 9 : ArgsInBounds(s, i)
  PROVE  ArgsRead(s) \in ArgsParts
<1>1. \A i \in 1 .. 9 : ArgsField(s, i) \in Slice
  BY FieldIn DEF ArgsInBounds, ArgsField
<1>2. QED
  BY <1>1 DEF ArgsRead, ArgsParts

(* Verified terms are read without a panic.                                 *)
LEMMA ArgsReadable ==
  ASSUME NEW s \in Slice, ArgsVerify(s)
  PROVE  /\ \A i \in 1 .. 9 : ArgsInBounds(s, i)
         /\ StakingReadable(s) /\ DeckReadable(s) /\ HashesReadable(s)
         /\ UserReadable(s, 6) /\ UserReadable(s, 8)
         /\ NftsReadable(s, 7) /\ NftsReadable(s, 9)
         /\ ~FieldCountUnderflows(s)
<1>1. HeaderVerify(s) /\ HeaderCount(s) = 9
  BY ArgsVerifyIs
<1>2. \A i \in 1 .. 9 : ArgsInBounds(s, i) /\ ArgsField(s, i) = Part(s, i, 9) /\ ArgsField(s, i) \in Slice
  BY ArgsFieldsAre DEF ArgsInBounds, ArgsField
<1>3. /\ Uint64TVerify(ArgsField(s, 1)) /\ Uint8TVerify(ArgsField(s, 2))
      /\ HashesVerify(ArgsField(s, 5))
      /\ Blake160Verify(ArgsField(s, 6)) /\ NftsVerify(ArgsField(s, 7))
      /\ Blake160Verify(ArgsField(s, 8)) /\ NftsVerify(ArgsField(s, 9))
  BY <1>2, ArgsVerifyIs
<1>4. /\ FixvecInBounds(ArgsField(s, 5), Blake256Size)
      /\ FixvecInBounds(ArgsField(s, 7), Blake160Size)
      /\ FixvecInBounds(ArgsField(s, 9), Blake160Size)
  BY <1>2, <1>3, HashesRewritten, NftsRewritten
<1>5. StakingReadable(s) /\ DeckReadable(s) /\ HashesReadable(s)
  <2>1. StakingReadable(s) /\ HashesReadable(s)
    BY <1>2, <1>3, <1>4 DEF StakingReadable, HashesReadable
  <2>2. Len(ArgsField(s, 2)) = 1
    BY <1>3 DEF Uint8TVerify
  <2>3. ArgsInBounds(s, 2)
    BY <1>2
  <2>4. Len(ArgsField(s, 2)) >= 1
    BY <2>2
  <2>5. DeckReadable(s)
    BY <2>3, <2>4 DEF DeckReadable
  <2>6. QED
    BY <2>1, <2>5
<1>6. /\ UserReadable(s, 6) /\ UserReadable(s, 8)
      /\ NftsReadable(s, 7) /\ NftsReadable(s, 9)
  BY <1>2, <1>3, <1>4 DEF UserReadable, NftsReadable
<1>7. ~FieldCountUnderflows(s)
  BY <1>1 DEF HeaderVerify, FieldCountUnderflows, NUMBER_SIZE, Slice
<1>8. QED
  BY <1>2, <1>5, <1>6, <1>7

(* Operations are written to a slice, however many there are.               *)
LEMMA IntoOperationsIn ==
  ASSUME NEW l \in Seq(Slice)
  PROVE  IntoOperations(l) \in Slice
<1> DEFINE items == [i \in DOMAIN l |-> IntoBytes(l[i])]
<1>1. \A b \in Slice : IntoBytes(b) \in Slice
  <2>1. ASSUME NEW b \in Slice
        PROVE  IntoBytes(b) \in Slice
    <3>1. pack_number(Len(b)) \in Slice
      BY PackIs DEF Slice
    <3>2. QED
      BY <3>1 DEF IntoBytes, BytesBuild, Slice
  <2>2. QED
    BY <2>1
<1>2. items \in Seq(Slice)
  BY <1>1
<1> HIDE DEF items
<1>3. DynvecBuild(items) \in Slice
  <2>1. pack_number(NUMBER_SIZE) \in Slice
    BY PackIs DEF NUMBER_SIZE
  <2>2. QED
    BY <1>2, <2>1, WithHeaderIn DEF DynvecBuild
<1>4. QED
  BY <1>3 DEF IntoOperations, OperationsBuild, items

(* How long a challenge is, and a round.                                    *)
LEMMA ChallengeBuilt ==
  ASSUME NEW c \in ChallengeParts
  PROVE  /\ ChallengeBuild(c) \in Slice
         /\ Len(ChallengeBuild(c)) =
              28 + Len(c.count) + Len(c.challenger) + Len(c.snapshot_position)
                 + Len(c.snapshot_hashproof) + Len(c.snapshot_signature) + Len(c.operations)
<1> DEFINE parts == <<c.count, c.challenger, c.snapshot_position, c.snapshot_hashproof, c.snapshot_signature, c.operations>>
           e == Ends(parts)
<1>1. parts \in Seq(Slice) /\ Len(parts) = 6
  BY DEF ChallengeParts
<1>2. /\ parts[1] = c.count /\ parts[2] = c.challenger /\ parts[3] = c.snapshot_position
      /\ parts[4] = c.snapshot_hashproof /\ parts[5] = c.snapshot_signature
      /\ parts[6] = c.operations
  OBVIOUS
<1>3. \A i \in 1 .. 6 : Len(parts[i]) \in Nat
  BY <1>1 DEF Slice
<1>4. ChallengeBuild(c) = WithHeader(parts)
  BY DEF ChallengeBuild, TableBuild
<1> HIDE DEF parts
<1>5. HeaderParts(parts, 6, e)
  BY <1>1, HeaderIs
<1> HIDE DEF e
<1>6. /\ WithHeader(parts) \in Slice /\ Len(WithHeader(parts)) = e[6]
      /\ e[0] = 28 /\ \A i \in 1 .. 6 : e[i] = e[i - 1] + Len(parts[i])
  BY <1>5 DEF HeaderParts
<1>7. /\ e[1] = 28 + Len(parts[1]) /\ e[2] = e[1] + Len(parts[2]) /\ e[3] = e[2] + Len(parts[3])
      /\ e[4] = e[3] + Len(parts[4]) /\ e[5] = e[4] + Len(parts[5]) /\ e[6] = e[5] + Len(parts[6])
  BY <1>6
<1>8. /\ Len(parts[1]) \in Nat /\ Len(parts[2]) \in Nat /\ Len(parts[3]) \in Nat
      /\ Len(parts[4]) \in Nat /\ Len(parts[5]) \in Nat /\ Len(parts[6]) \in Nat
  BY <1>3
<1>9. e[6] = 28 + Len(parts[1]) + Len(parts[2]) + Len(parts[3]) + Len(parts[4]) + Len(parts[5]) + Len(parts[6])
  BY <1>7, <1>8
<1>10. QED
  BY <1>2, <1>4, <1>6, <1>9

(* How long a round is.                                                     *)
LEMMA RoundBuilt ==
  ASSUME NEW r \in RoundParts
  PROVE  /\ RoundBuild(r) \in Slice
         /\ Len(RoundBuild(r)) = 12 + Len(r.user_type) + Len(r.operations)
<1> DEFINE parts == <<r.user_type, r.operations>>
           e == Ends(parts)
<1>1. parts \in Seq(Slice) /\ Len(parts) = 2
  BY DEF RoundParts
<1>2. parts[1] = r.user_type /\ parts[2] = r.operations
  OBVIOUS
<1>3. \A i \in 1 .. 2 : Len(parts[i]) \in Nat
  BY <1>1 DEF Slice
<1>4. RoundBuild(r) = WithHeader(parts)
  BY DEF RoundBuild, TableBuild
<1> HIDE DEF parts
<1>5. HeaderParts(parts, 2, e)
  BY <1>1, HeaderIs
<1> HIDE DEF e
<1>6. /\ WithHeader(parts) \in Slice /\ Len(WithHeader(parts)) = e[2]
      /\ e[0] = 12 /\ \A i \in 1 .. 2 : e[i] = e[i - 1] + Len(parts[i])
  BY <1>5 DEF HeaderParts
<1>7. e[1] = 12 + Len(parts[1]) /\ e[2] = e[1] + Len(parts[2])
  BY <1>6
<1>8. QED
  BY <1>2, <1>3, <1>4, <1>6, <1>7

(* The arrays and their sizes.                                              *)
LEMMA Sizes ==
  /\ Blake160 = Array(Blake160Size) /\ Blake160Size \in Nat
  /\ Blake256 = Array(Blake256Size) /\ Blake256Size \in Nat
  /\ Signature = Array(SignatureSize) /\ SignatureSize \in Nat
BY SizesAssumption DEF Blake160, Blake256, Signature

(* Every array is a slice that is verified for it.                          *)
LEMMA ArraysVerified ==
  /\ \A x \in Blake160 : x \in Slice /\ Blake160Verify(x)
  /\ \A x \in Blake256 : x \in Slice /\ Blake256Verify(x)
  /\ \A x \in Signature : x \in Slice /\ SignatureVerify(x)
  /\ \A n \in Byte : IntoUint8T(n) \in Slice /\ Uint8TVerify(IntoUint8T(n)) /\ FromUint8T(IntoUint8T(n)) = n
  /\ Blake160Default \in Blake160
<1>1. \A x \in Blake160 : x \in Slice /\ Blake160Verify(x)
  BY Sizes, ArrayIs DEF Blake160Verify
<1>2. \A x \in Blake256 : x \in Slice /\ Blake256Verify(x)
  BY Sizes, ArrayIs DEF Blake256Verify
<1>3. \A x \in Signature : x \in Slice /\ SignatureVerify(x)
  BY Sizes, ArrayIs DEF SignatureVerify
<1>4. \A n \in Byte : IntoUint8T(n) \in Slice /\ Uint8TVerify(IntoUint8T(n)) /\ FromUint8T(IntoUint8T(n)) = n
  BY DEF IntoUint8T, Uint8TVerify, FromUint8T, Slice
<1>5. Blake160Default \in Blake160
  BY Sizes, BaseAssumption DEF Blake160Default, Zeros, Array, Byte
<1>6. QED
  BY <1>1, <1>2, <1>3, <1>4, <1>5

(* The list of nfts of a user who is not known yet.                         *)
LEMMA NoNfts ==
  NftsDefault \in Slice /\ NftsVerify(NftsDefault) /\ FromNfts(NftsDefault) = << >>
<1> DEFINE none == << >>
<1>1. none \in Seq(Blake160) /\ Len(none) = 0 /\ 0 < Numbers
  BY NumbersLarge
<1>2. NftsDefault = FixvecBuild(none)
  BY DEF NftsDefault, NftsBuild
<1> HIDE DEF none
<1>3. Len(none) < Numbers
  BY <1>1
<1>4. IntoNfts(none) = FixvecBuild(none)
  BY <1>1, <1>3, IntoNftsIs
<1>5. IntoNfts(none) \in Slice /\ NftsVerify(IntoNfts(none)) /\ FromNfts(IntoNfts(none)) = none
  BY <1>1, <1>3, NftsWritten
<1>6. QED
  BY <1>2, <1>4, <1>5 DEF none

(* The terms to agree on, field by field.                                   *)
LEMMA TermFields ==
  ASSUME NEW term \in Terms
  PROVE  /\ term.user_staking_ckb \in Nat /\ term.user_staking_ckb < Numbers * Numbers
         /\ term.user_deck_size \in Byte
         /\ term.lua_code_hashes \in Seq(Blake256) /\ Len(term.lua_code_hashes) < Numbers
<1>1. term \in [user_staking_ckb : Uint64, user_deck_size : Byte,
                        lua_code_hashes : Lists(Blake256)]
  BY DataAssumption
<1>2. Numbers \in Nat /\ Numbers * Numbers \in Nat
  BY NumbersLarge
<1>3. QED
  BY <1>1, <1>2 DEF Uint64, Lists

(* What else users bring to a channel.                                      *)
LEMMA Inputs ==
  /\ \A block \in Blocks : block \in Nat /\ block < Numbers * Numbers
  /\ \A pkhash \in Pkhashes : pkhash \in Blake160
  /\ \A nfts \in NftLists : nfts \in Seq(Blake160) /\ Len(nfts) < Numbers
<1>1. Numbers \in Nat /\ Numbers * Numbers \in Nat
  BY NumbersLarge
<1>2. QED
  <2>1. \A block \in Blocks : block \in Nat /\ block < Numbers * Numbers
    BY <1>1, DataAssumption DEF Uint64
  <2>2. \A pkhash \in Pkhashes : pkhash \in Blake160
    BY DataAssumption
  <2>3. NftLists \subseteq Lists(Blake160)
    BY DataAssumption
  <2>4. \A nfts \in NftLists : nfts \in Seq(Blake160) /\ Len(nfts) < Numbers
    BY <2>3 DEF Lists
  <2>5. QED
    BY <2>1, <2>2, <2>4

(* A record of terms with two of its fields, or seven, written anew.        *)
WithUser2(a, x, y) == [a EXCEPT !.user2_pkhash = x, !.user2_nfts = y]

WithTerms(a, b, c, d, e, f, g) ==
  [ArgsDefault EXCEPT
     !.user_staking_ckb = a, !.user_deck_size = b, !.begin_blocknumber = c,
     !.lock_code_hash = d, !.lua_code_hashes = e, !.user1_pkhash = f, !.user1_nfts = g]

(* A record of terms with the second user written anew,                     *)
LEMMA TermsExcept ==
  ASSUME NEW a, NEW b, NEW c, NEW d, NEW e, NEW f, NEW g, NEW h, NEW i, NEW x, NEW y
  PROVE  WithUser2([user_staking_ckb |-> a, user_deck_size |-> b, begin_blocknumber |-> c,
           lock_code_hash |-> d, lua_code_hashes |-> e, user1_pkhash |-> f, user1_nfts |-> g,
           user2_pkhash |-> h, user2_nfts |-> i], x, y)
           = [user_staking_ckb |-> a, user_deck_size |-> b, begin_blocknumber |-> c,
              lock_code_hash |-> d, lua_code_hashes |-> e, user1_pkhash |-> f, user1_nfts |-> g,
              user2_pkhash |-> x, user2_nfts |-> y]
<1> DEFINE r == [user_staking_ckb |-> a, user_deck_size |-> b, begin_blocknumber |-> c,
                 lock_code_hash |-> d, lua_code_hashes |-> e, user1_pkhash |-> f,
                 user1_nfts |-> g, user2_pkhash |-> h, user2_nfts |-> i]
           R == [user_staking_ckb : {a}, user_deck_size : {b}, begin_blocknumber : {c},
                 lock_code_hash : {d}, lua_code_hashes : {e}, user1_pkhash : {f},
                 user1_nfts : {g}, user2_pkhash : {h, x}, user2_nfts : {i, y}]
           q == [r EXCEPT !.user2_pkhash = x, !.user2_nfts = y]
<1>1. r \in R
  OBVIOUS
<1> HIDE DEF r
<1>2. q \in R /\ q.user2_pkhash = x /\ q.user2_nfts = y
  BY <1>1
<1> HIDE DEF q
<1>3. q = [user_staking_ckb |-> a, user_deck_size |-> b, begin_blocknumber |-> c,
           lock_code_hash |-> d, lua_code_hashes |-> e, user1_pkhash |-> f, user1_nfts |-> g,
           user2_pkhash |-> x, user2_nfts |-> y]
  BY <1>2
<1>4. QED
  BY <1>3, Zenon DEF q, r, WithUser2

(* and the default one with the terms and the first user.                   *)
LEMMA DefaultExcept ==
  ASSUME NEW a, NEW b, NEW c, NEW d, NEW e, NEW f, NEW g
  PROVE  WithTerms(a, b, c, d, e, f, g)
           = [user_staking_ckb |-> a, user_deck_size |-> b, begin_blocknumber |-> c,
              lock_code_hash |-> d, lua_code_hashes |-> e, user1_pkhash |-> f, user1_nfts |-> g,
              user2_pkhash |-> Blake160Default, user2_nfts |-> NftsDefault]
<1> DEFINE r == ArgsDefault
           R == [user_staking_ckb : {a, Uint64TDefault}, user_deck_size : {b, Uint8TDefault},
                 begin_blocknumber : {c, Uint64TDefault}, lock_code_hash : {d, Blake256Default},
                 lua_code_hashes : {e, HashesDefault}, user1_pkhash : {f, Blake160Default},
                 user1_nfts : {g, NftsDefault}, user2_pkhash : {Blake160Default},
                 user2_nfts : {NftsDefault}]
           q == [r EXCEPT
             !.user_staking_ckb = a, !.user_deck_size = b, !.begin_blocknumber = c,
             !.lock_code_hash = d, !.lua_code_hashes = e, !.user1_pkhash = f, !.user1_nfts = g]
<1>1. r \in R
  BY DEF ArgsDefault
<1> HIDE DEF r
<1>2. /\ q \in R
      /\ q.user_staking_ckb = a /\ q.user_deck_size = b /\ q.begin_blocknumber = c
      /\ q.lock_code_hash = d /\ q.lua_code_hashes = e /\ q.user1_pkhash = f /\ q.user1_nfts = g
  BY <1>1
<1> HIDE DEF q
<1>3. q = [user_staking_ckb |-> a, user_deck_size |-> b, begin_blocknumber |-> c,
           lock_code_hash |-> d, lua_code_hashes |-> e, user1_pkhash |-> f, user1_nfts |-> g,
           user2_pkhash |-> Blake160Default, user2_nfts |-> NftsDefault]
  BY <1>2
<1>4. QED
  BY <1>3, Zenon DEF q, r, WithTerms

(* The terms that the first user offers.                                    *)
PreparedParts(term, block, pkhash, nfts) ==
  [user_staking_ckb |-> IntoUint64T(term.user_staking_ckb),
   user_deck_size |-> IntoUint8T(term.user_deck_size),
   begin_blocknumber |-> IntoUint64T(block),
   lock_code_hash |-> IntoBlake256(LockCodeHash),
   lua_code_hashes |-> IntoHashes(term.lua_code_hashes),
   user1_pkhash |-> IntoBlake160(pkhash),
   user1_nfts |-> IntoNfts(nfts),
   user2_pkhash |-> Blake160Default,
   user2_nfts |-> NftsDefault]

PreparedValue(term, block, pkhash, nfts) ==
  [user_staking_ckb  |-> term.user_staking_ckb,
   user_deck_size    |-> term.user_deck_size,
   begin_blocknumber |-> block,
   lock_code_hash    |-> LockCodeHash,
   lua_code_hashes   |-> term.lua_code_hashes,
   user1_pkhash |-> pkhash,   user1_nfts |-> nfts,
   user2_pkhash |-> Blake160Default, user2_nfts |-> << >>]

(* An offer is accepted, and read as it was meant.                          *)
LEMMA PreparedIs ==
  ASSUME NEW term \in Terms, NEW block \in Blocks, NEW pkhash \in Pkhashes, NEW nfts \in NftLists
  PROVE  /\ PreparedArgs(term, block, pkhash, nfts) \in Slice \ {NoSlice}
         /\ ArgsVerify(PreparedArgs(term, block, pkhash, nfts))
         /\ ArgsValue(PreparedArgs(term, block, pkhash, nfts)) = PreparedValue(term, block, pkhash, nfts)
<1> DEFINE r == PreparedParts(term, block, pkhash, nfts)
           s == PreparedArgs(term, block, pkhash, nfts)
<1>1. s = ArgsBuild(r)
  <2>1. s = ArgsBuild(WithTerms(IntoUint64T(term.user_staking_ckb),
              IntoUint8T(term.user_deck_size), IntoUint64T(block), IntoBlake256(LockCodeHash),
              IntoHashes(term.lua_code_hashes), IntoBlake160(pkhash), IntoNfts(nfts)))
    BY DEF PreparedArgs, WithTerms
  <2>2. r = WithTerms(IntoUint64T(term.user_staking_ckb),
              IntoUint8T(term.user_deck_size), IntoUint64T(block), IntoBlake256(LockCodeHash),
              IntoHashes(term.lua_code_hashes), IntoBlake160(pkhash), IntoNfts(nfts))
    BY DefaultExcept DEF PreparedParts
  <2>3. QED
    BY <2>1, <2>2, Zenon
<1>2. /\ IntoUint64T(term.user_staking_ckb) \in Slice /\ Uint64TVerify(IntoUint64T(term.user_staking_ckb))
      /\ FromUint64T(IntoUint64T(term.user_staking_ckb)) = term.user_staking_ckb
  BY TermFields, Uint64Written
<1>3. /\ IntoUint8T(term.user_deck_size) \in Slice /\ Uint8TVerify(IntoUint8T(term.user_deck_size))
      /\ FromUint8T(IntoUint8T(term.user_deck_size)) = term.user_deck_size
  BY TermFields, ArraysVerified
<1>4. /\ IntoUint64T(block) \in Slice /\ Uint64TVerify(IntoUint64T(block))
      /\ FromUint64T(IntoUint64T(block)) = block
  BY Inputs, Uint64Written
<1>5. LockCodeHash \in Slice /\ Blake256Verify(LockCodeHash)
  BY DataAssumption, ArraysVerified
<1>6. /\ IntoHashes(term.lua_code_hashes) \in Slice /\ HashesVerify(IntoHashes(term.lua_code_hashes))
      /\ FromHashes(IntoHashes(term.lua_code_hashes)) = term.lua_code_hashes
  BY TermFields, HashesWritten
<1>7. pkhash \in Slice /\ Blake160Verify(pkhash)
  BY Inputs, ArraysVerified
<1>8. IntoNfts(nfts) \in Slice /\ NftsVerify(IntoNfts(nfts)) /\ FromNfts(IntoNfts(nfts)) = nfts
  BY Inputs, NftsWritten
<1>9. Blake160Default \in Slice /\ Blake160Verify(Blake160Default)
  BY ArraysVerified
<1>10. ArgsGood(r)
  BY <1>2, <1>3, <1>4, <1>5, <1>6, <1>7, <1>8, <1>9, NoNfts
     DEF ArgsGood, ArgsParts, PreparedParts, IntoBlake256, IntoBlake160
<1>11. Len(ArgsBuild(r)) < Numbers
  BY <1>1, LengthAssumption
<1>12. s \in Slice /\ ArgsVerify(s) /\ ArgsRead(s) = r /\ s # NoSlice
  <2> HIDE DEF r, s
  <2>1. QED
    BY <1>1, <1>10, <1>11, ArgsWritten
<1> HIDE DEF s
<1>13. ArgsValue(s) = PreparedValue(term, block, pkhash, nfts)
  BY <1>2, <1>3, <1>4, <1>6, <1>8, <1>12, NoNfts
     DEF ArgsValue, PreparedValue, PreparedParts, IntoBlake256, IntoBlake160, FromBlake256, FromBlake160
<1>14. QED
  BY <1>12, <1>13 DEF s

(* A completed offer.                                                       *)
CompletedParts(s, pkhash, nfts) ==
  [ArgsRead(s) EXCEPT !.user2_pkhash = IntoBlake160(pkhash),
                      !.user2_nfts   = IntoNfts(nfts)]

(* A completed offer differs from the offer in the second user only.        *)
LEMMA CompletedIs ==
  ASSUME NEW s \in Slice, ArgsVerify(s), NEW pkhash \in Pkhashes, NEW nfts \in NftLists,
         Len(CompletedArgs(s, pkhash, nfts)) < Numbers
  PROVE  /\ CompletedArgs(s, pkhash, nfts) \in Slice \ {NoSlice}
         /\ ArgsVerify(CompletedArgs(s, pkhash, nfts))
         /\ ArgsValue(CompletedArgs(s, pkhash, nfts))
              = [ArgsValue(s) EXCEPT !.user2_pkhash = pkhash, !.user2_nfts = nfts]
<1> DEFINE r == CompletedParts(s, pkhash, nfts)
           t == CompletedArgs(s, pkhash, nfts)
           q == ArgsRead(s)
<1>1. t = ArgsBuild(r)
  BY DEF CompletedArgs, CompletedParts
<1>2. ArgsGood(q)
  BY ArgsRewritten
<1>3. pkhash \in Slice /\ Blake160Verify(pkhash)
  BY Inputs, ArraysVerified
<1>4. IntoNfts(nfts) \in Slice /\ NftsVerify(IntoNfts(nfts)) /\ FromNfts(IntoNfts(nfts)) = nfts
  BY Inputs, NftsWritten
<1>5. r = [q EXCEPT !.user2_pkhash = pkhash, !.user2_nfts = IntoNfts(nfts)]
  BY DEF CompletedParts, IntoBlake160
<1>6. ArgsValue(s) = [user_staking_ckb  |-> FromUint64T(q.user_staking_ckb),
         user_deck_size    |-> FromUint8T(q.user_deck_size),
         begin_blocknumber |-> FromUint64T(q.begin_blocknumber),
         lock_code_hash    |-> FromBlake256(q.lock_code_hash),
         lua_code_hashes   |-> FromHashes(q.lua_code_hashes),
         user1_pkhash      |-> FromBlake160(q.user1_pkhash),
         user1_nfts        |-> FromNfts(q.user1_nfts),
         user2_pkhash      |-> FromBlake160(q.user2_pkhash),
         user2_nfts        |-> FromNfts(q.user2_nfts)]
  BY DEF ArgsValue
<1> HIDE DEF q, r, t
<1>7. ArgsGood(r)
  BY <1>2, <1>3, <1>4, <1>5 DEF ArgsGood, ArgsParts
<1>8. t \in Slice /\ ArgsVerify(t) /\ ArgsRead(t) = r /\ t # NoSlice
  <2>1. Len(ArgsBuild(r)) < Numbers
    BY <1>1 DEF t
  <2>2. QED
    BY <1>1, <1>7, <2>1, ArgsWritten
<1>9. /\ r.user_staking_ckb = q.user_staking_ckb /\ r.user_deck_size = q.user_deck_size
      /\ r.begin_blocknumber = q.begin_blocknumber /\ r.lock_code_hash = q.lock_code_hash
      /\ r.lua_code_hashes = q.lua_code_hashes
      /\ r.user1_pkhash = q.user1_pkhash /\ r.user1_nfts = q.user1_nfts
      /\ r.user2_pkhash = pkhash /\ r.user2_nfts = IntoNfts(nfts)
  BY <1>2, <1>5 DEF ArgsGood, ArgsParts
<1>10. ArgsValue(t) = [ArgsValue(s) EXCEPT !.user2_pkhash = pkhash, !.user2_nfts = nfts]
  <2>1. ArgsValue(t) = [user_staking_ckb  |-> FromUint64T(q.user_staking_ckb),
         user_deck_size    |-> FromUint8T(q.user_deck_size),
         begin_blocknumber |-> FromUint64T(q.begin_blocknumber),
         lock_code_hash    |-> FromBlake256(q.lock_code_hash),
         lua_code_hashes   |-> FromHashes(q.lua_code_hashes),
         user1_pkhash      |-> FromBlake160(q.user1_pkhash),
         user1_nfts        |-> FromNfts(q.user1_nfts),
         user2_pkhash      |-> pkhash,
         user2_nfts        |-> nfts]
    BY <1>4, <1>8, <1>9 DEF ArgsValue, FromBlake160
  <2>2. ArgsValue(t) = WithUser2(ArgsValue(s), pkhash, nfts)
    BY <1>6, <2>1, TermsExcept
  <2>3. QED
    BY <2>2, Zenon DEF WithUser2
<1>11. QED
  BY <1>8, <1>10 DEF t

(* Completing an offer once more does not make it longer than the other     *)
(* user's fields make it.                                                   *)
Fitting(s) ==
  (\A i \in 1 .. 9 : ArgsInBounds(s, i)) =>
     \A pkhash \in Pkhashes, nfts \in NftLists : Len(CompletedArgs(s, pkhash, nfts)) < Numbers

(* It may be completed again, by whoever else.                              *)
LEMMA CompletedFits ==
  ASSUME NEW s \in Slice, \A i \in 1 .. 9 : ArgsInBounds(s, i), Fitting(s),
         NEW pkhash \in Pkhashes, NEW nfts \in NftLists
  PROVE  CompletedArgs(s, pkhash, nfts) \in Slice \ {NoSlice} /\ Fitting(CompletedArgs(s, pkhash, nfts))
<1> DEFINE r == CompletedParts(s, pkhash, nfts)
           t == CompletedArgs(s, pkhash, nfts)
           q == ArgsRead(s)
<1>1. t = ArgsBuild(r) /\ Len(t) < Numbers
  BY DEF CompletedArgs, CompletedParts, Fitting
<1>2. q \in ArgsParts
  BY ArgsReadIn
<1>3. pkhash \in Slice
  BY Inputs, ArraysVerified
<1>4. IntoNfts(nfts) \in Slice
  BY Inputs, NftsWritten
<1>5. r = [q EXCEPT !.user2_pkhash = pkhash, !.user2_nfts = IntoNfts(nfts)]
  BY DEF CompletedParts, IntoBlake160
<1> HIDE DEF q, r, t
<1>6. r \in ArgsParts
  BY <1>2, <1>3, <1>4, <1>5 DEF ArgsParts
<1>7. t \in Slice /\ t # NoSlice /\ ArgsRead(t) = r
  BY <1>1, <1>6, ArgsBuilt
<1>8. ASSUME NEW p \in Pkhashes, NEW n \in NftLists
      PROVE  Len(CompletedArgs(t, p, n)) < Numbers
  <2>1. [r EXCEPT !.user2_pkhash = IntoBlake160(p), !.user2_nfts = IntoNfts(n)]
          = [q EXCEPT !.user2_pkhash = IntoBlake160(p), !.user2_nfts = IntoNfts(n)]
    BY <1>2, <1>5 DEF ArgsParts
  <2>2. CompletedArgs(t, p, n) = CompletedArgs(s, p, n)
    BY <1>7, <2>1 DEF CompletedArgs, q
  <2>3. QED
    BY <2>2 DEF Fitting
<1>9. QED
  BY <1>7, <1>8 DEF Fitting, t

(* A round is read from its witness as it was made.                         *)
LEMMA MadeRound ==
  ASSUME NEW rounds \in RoundLists, NEW i \in DOMAIN rounds
  PROVE  /\ MakeRound(rounds[i]) \in Slice /\ RoundVerify(MakeRound(rounds[i]))
         /\ RoundValue(MakeRound(rounds[i])) = rounds[i]
<1> DEFINE r == rounds[i]
           ut == IntoUint8T(r.user_type)
           ops == IntoOperations(r.operations)
           p == [user_type |-> ut, operations |-> ops]
<1>1. rounds \in Seq([user_type : Byte, operations : Seq(Slice)])
  BY DataAssumption
<1>2. r \in [user_type : Byte, operations : Seq(Slice)]
  <2> DEFINE R == [user_type : Byte, operations : Seq(Slice)]
  <2>1. rounds \in Seq(R)
    BY <1>1
  <2> HIDE DEF R
  <2>2. rounds[i] \in R
    BY <2>1
  <2>3. QED
    BY <2>2 DEF R
<1>3. Len(MakeRound(r)) < Numbers
  BY LengthAssumption
<1> HIDE DEF r
<1>4. MakeRound(r) = RoundBuild(p)
  BY DEF MakeRound
<1>5. ut \in Slice /\ Uint8TVerify(ut) /\ FromUint8T(ut) = r.user_type
  BY <1>2, ArraysVerified
<1>6. ops \in Slice
  BY <1>2, IntoOperationsIn
<1>7. p \in RoundParts /\ p.user_type = ut /\ p.operations = ops
  BY <1>5, <1>6 DEF RoundParts
<1> HIDE DEF p
<1>8. Len(RoundBuild(p)) = 12 + Len(ut) + Len(ops)
  BY <1>7, RoundBuilt
<1>9. Len(ops) < Numbers
  BY <1>3, <1>4, <1>5, <1>6, <1>8, NumbersLarge DEF Slice
<1>10. OperationsVerify(ops) /\ FromOperations(ops) = r.operations
  BY <1>2, <1>9, OperationsWritten
<1> HIDE DEF ut, ops
<1>11. RoundGood(p)
  BY <1>5, <1>7, <1>10 DEF RoundGood
<1>12. RoundBuild(p) \in Slice /\ RoundVerify(RoundBuild(p)) /\ RoundRead(RoundBuild(p)) = p
  BY <1>3, <1>4, <1>11, RoundWritten
<1>13. RoundValue(RoundBuild(p)) = [user_type |-> r.user_type, operations |-> r.operations]
  BY <1>5, <1>7, <1>10, <1>12 DEF RoundValue
<1>14. r = [user_type |-> r.user_type, operations |-> r.operations]
  BY <1>2
<1>15. QED
  BY <1>4, <1>12, <1>13, <1>14 DEF r

(* What a challenge says.                                                   *)
ChallengeMade(count, challenger, operations, rounds) ==
  [count              |-> IntoUint8T(count),
   challenger         |-> IntoUint8T(challenger),
   snapshot_position  |-> IntoUint8T(Len(rounds) % Base),
   snapshot_hashproof |-> IntoBlake256(Hash[rounds]),
   snapshot_signature |-> IntoSignature(SignatureOf[rounds]),
   operations         |-> IntoOperations(operations)]

ChallengeSays(count, challenger, operations, rounds) ==
  [count              |-> count,
   challenger         |-> challenger,
   snapshot_position  |-> Len(rounds) % Base,
   snapshot_hashproof |-> Hash[rounds],
   snapshot_signature |-> SignatureOf[rounds],
   operations         |-> operations]

(* How many values a byte has.                                              *)
LEMMA BaseFacts ==
  1 \in Byte /\ 2 \in Byte /\ Base \in Nat /\ Base > 2 /\ Base % 2 = 0
BY BaseAssumption, DataAssumption DEF Byte

(* The slices a challenge is written from.                                  *)
LEMMA MadeParts ==
  ASSUME NEW count \in Byte, NEW challenger \in Byte, NEW operations \in OperationLists,
         NEW rounds \in RoundLists
  PROVE  LET c == ChallengeMade(count, challenger, operations, rounds)
         IN  /\ c \in ChallengeParts
             /\ c.count = IntoUint8T(count) /\ c.challenger = IntoUint8T(challenger)
             /\ c.snapshot_position = IntoUint8T(Len(rounds) % Base)
             /\ c.snapshot_hashproof = Hash[rounds]
             /\ c.snapshot_signature = SignatureOf[rounds]
             /\ c.operations = IntoOperations(operations)
             /\ Len(rounds) % Base \in Byte
             /\ operations \in Seq(Slice)
<1>1. Len(rounds) % Base \in Byte
  <2>1. rounds \in Seq([user_type : Byte, operations : Seq(Slice)])
    BY DataAssumption
  <2>2. Len(rounds) \in Nat
    BY <2>1
  <2>3. QED
    BY <2>2, Digit
<1>2. operations \in Seq(Slice)
  BY DataAssumption
<1>3. IntoOperations(operations) \in Slice
  BY <1>2, IntoOperationsIn
<1>4. Hash[rounds] \in Slice /\ SignatureOf[rounds] \in Slice
  BY DataAssumption, ArraysVerified
<1>5. IntoUint8T(count) \in Slice /\ IntoUint8T(challenger) \in Slice /\ IntoUint8T(Len(rounds) % Base) \in Slice
  BY <1>1, ArraysVerified
<1> DEFINE c == ChallengeMade(count, challenger, operations, rounds)
<1>6. c = [count |-> IntoUint8T(count),
           challenger |-> IntoUint8T(challenger),
           snapshot_position |-> IntoUint8T(Len(rounds) % Base),
           snapshot_hashproof |-> Hash[rounds],
           snapshot_signature |-> SignatureOf[rounds],
           operations |-> IntoOperations(operations)]
  BY DEF ChallengeMade, IntoBlake256, IntoSignature
<1> HIDE DEF c
<1>7. c \in ChallengeParts
  BY <1>3, <1>4, <1>5, <1>6 DEF ChallengeParts
<1>8. /\ c.count = IntoUint8T(count) /\ c.challenger = IntoUint8T(challenger)
      /\ c.snapshot_position = IntoUint8T(Len(rounds) % Base)
      /\ c.snapshot_hashproof = Hash[rounds]
      /\ c.snapshot_signature = SignatureOf[rounds]
      /\ c.operations = IntoOperations(operations)
  BY <1>6
<1>9. QED
  BY <1>1, <1>2, <1>7, <1>8 DEF c

(* The length of a challenge does not depend on its count,                  *)
LEMMA MadeLength ==
  ASSUME NEW count \in Byte, NEW challenger \in Byte, NEW operations \in OperationLists,
         NEW rounds \in RoundLists
  PROVE  Len(ChallengeBuild(ChallengeMade(count, challenger, operations, rounds)))
           = 31 + Len(Hash[rounds]) + Len(SignatureOf[rounds]) + Len(IntoOperations(operations))
<1> DEFINE c == ChallengeMade(count, challenger, operations, rounds)
<1>1. /\ c \in ChallengeParts
      /\ c.count = IntoUint8T(count) /\ c.challenger = IntoUint8T(challenger)
      /\ c.snapshot_position = IntoUint8T(Len(rounds) % Base)
      /\ c.snapshot_hashproof = Hash[rounds]
      /\ c.snapshot_signature = SignatureOf[rounds]
      /\ c.operations = IntoOperations(operations)
      /\ Len(rounds) % Base \in Byte
  BY MadeParts
<1> HIDE DEF c
<1>2. Len(c.count) = 1 /\ Len(c.challenger) = 1 /\ Len(c.snapshot_position) = 1
  BY <1>1, ArraysVerified DEF Uint8TVerify
<1>3. Len(c.snapshot_hashproof) \in Nat /\ Len(c.snapshot_signature) \in Nat /\ Len(c.operations) \in Nat
  BY <1>1 DEF ChallengeParts, Slice
<1>4. Len(ChallengeBuild(c)) =
              28 + Len(c.count) + Len(c.challenger) + Len(c.snapshot_position)
                 + Len(c.snapshot_hashproof) + Len(c.snapshot_signature) + Len(c.operations)
  BY <1>1, ChallengeBuilt
<1>5. Len(ChallengeBuild(c)) =
              31 + Len(c.snapshot_hashproof) + Len(c.snapshot_signature) + Len(c.operations)
  BY <1>2, <1>3, <1>4
<1>6. QED
  BY <1>1, <1>5 DEF c

(* so that every challenge has a length that a header can hold.             *)
LEMMA MadeFits ==
  ASSUME NEW count \in Byte, NEW challenger \in Byte, NEW operations \in OperationLists,
         NEW rounds \in RoundLists
  PROVE  /\ Len(ChallengeBuild(ChallengeMade(count, challenger, operations, rounds))) < Numbers
         /\ Len(IntoOperations(operations)) < Numbers
<1> DEFINE c1 == ChallengeMade(1, 1, operations, rounds)
           n == 31 + Len(Hash[rounds]) + Len(SignatureOf[rounds]) + Len(IntoOperations(operations))
<1>1. ChallengeData(NoSlice, 1, operations, rounds) = ChallengeBuild(c1)
  BY DEF ChallengeData, NextCount, ChallengeMade
<1>2. Len(ChallengeBuild(c1)) < Numbers
  BY <1>1, LengthAssumption
<1>3. Len(ChallengeBuild(c1)) = n
  BY BaseFacts, MadeLength
<1>4. Len(ChallengeBuild(ChallengeMade(count, challenger, operations, rounds))) = n
  BY MadeLength
<1>5. /\ Len(Hash[rounds]) \in Nat /\ Len(SignatureOf[rounds]) \in Nat
      /\ Len(IntoOperations(operations)) \in Nat
  <2>1. Hash[rounds] \in Slice /\ SignatureOf[rounds] \in Slice
    BY DataAssumption, ArraysVerified
  <2>2. operations \in Seq(Slice)
    BY DataAssumption
  <2>3. IntoOperations(operations) \in Slice
    BY <2>2, IntoOperationsIn
  <2>4. QED
    BY <2>1, <2>3 DEF Slice
<1>6. n < Numbers
  BY <1>2, <1>3
<1>7. Len(IntoOperations(operations)) < Numbers
  <2>1. \A h, g, o \in Nat : 31 + h + g + o < Numbers => o < Numbers
    BY NumbersLarge
  <2>2. QED
    BY <1>5, <1>6, <2>1
<1> HIDE DEF n
<1>8. QED
  BY <1>4, <1>6, <1>7

(* A challenge is accepted, and read as it was meant.                       *)
LEMMA ChallengeMadeIs ==
  ASSUME NEW count \in Byte, NEW challenger \in Byte, NEW operations \in OperationLists,
         NEW rounds \in RoundLists
  PROVE  LET t == ChallengeBuild(ChallengeMade(count, challenger, operations, rounds))
         IN  /\ t \in Slice \ {NoSlice} /\ ChallengeVerify(t)
             /\ ChallengeValue(t) = ChallengeSays(count, challenger, operations, rounds)
<1> DEFINE c == ChallengeMade(count, challenger, operations, rounds)
           t == ChallengeBuild(c)
<1>1. /\ c \in ChallengeParts
      /\ c.count = IntoUint8T(count) /\ c.challenger = IntoUint8T(challenger)
      /\ c.snapshot_position = IntoUint8T(Len(rounds) % Base)
      /\ c.snapshot_hashproof = Hash[rounds]
      /\ c.snapshot_signature = SignatureOf[rounds]
      /\ c.operations = IntoOperations(operations)
      /\ Len(rounds) % Base \in Byte
      /\ operations \in Seq(Slice)
  BY MadeParts
<1>2. Len(t) < Numbers /\ Len(IntoOperations(operations)) < Numbers
  BY MadeFits
<1> HIDE DEF c
<1>3. /\ Uint8TVerify(c.count) /\ Uint8TVerify(c.challenger) /\ Uint8TVerify(c.snapshot_position)
      /\ FromUint8T(c.count) = count /\ FromUint8T(c.challenger) = challenger
      /\ FromUint8T(c.snapshot_position) = Len(rounds) % Base
  BY <1>1, ArraysVerified
<1>4. Blake256Verify(c.snapshot_hashproof) /\ SignatureVerify(c.snapshot_signature)
  BY <1>1, DataAssumption, ArraysVerified
<1>5. OperationsVerify(c.operations) /\ FromOperations(c.operations) = operations
  BY <1>1, <1>2, OperationsWritten
<1>6. ChallengeGood(c)
  BY <1>1, <1>3, <1>4, <1>5 DEF ChallengeGood
<1>7. t \in Slice /\ ChallengeVerify(t) /\ ChallengeRead(t) = c /\ t # NoSlice
  BY <1>2, <1>6, ChallengeWritten
<1> HIDE DEF t
<1>8. ChallengeValue(t) = ChallengeSays(count, challenger, operations, rounds)
  BY <1>1, <1>3, <1>5, <1>7 DEF ChallengeValue, ChallengeSays, FromBlake256
<1>9. QED
  BY <1>7, <1>8 DEF t, c

(* A verified challenge has a count and a challenger.                       *)
LEMMA OneByte ==
  ASSUME NEW x \in Slice, Uint8TVerify(x)
  PROVE  FromUint8T(x) \in Byte
<1>1. Len(x) = 1 /\ x \in Seq(Byte)
  BY DEF Slice, Uint8TVerify
<1>2. 1 \in 1 .. Len(x)
  BY <1>1
<1>3. QED
  BY <1>1, <1>2 DEF FromUint8T

(* The count and the challenger of a challenge that was verified.           *)
LEMMA ChallengeFields ==
  ASSUME NEW s \in Slice, ChallengeVerify(s)
  PROVE  /\ FromUint8T(ChallengeField(s, 1)) \in Byte
         /\ FromUint8T(ChallengeField(s, 2)) \in Byte
         /\ ChallengeValue(s).count = FromUint8T(ChallengeField(s, 1))
         /\ ChallengeValue(s).challenger = FromUint8T(ChallengeField(s, 2))
         /\ ChallengeValue(s) \in ChallengeValues
<1> DEFINE c == ChallengeRead(s)
<1>1. ChallengeGood(c)
  BY ChallengeRewritten
<1>2. c.count = ChallengeField(s, 1) /\ c.challenger = ChallengeField(s, 2)
  BY DEF ChallengeRead
<1>3. ChallengeValue(s) = [count |-> FromUint8T(c.count),
         challenger         |-> FromUint8T(c.challenger),
         snapshot_position  |-> FromUint8T(c.snapshot_position),
         snapshot_hashproof |-> FromBlake256(c.snapshot_hashproof),
         snapshot_signature |-> c.snapshot_signature,
         operations         |-> FromOperations(c.operations)]
  BY DEF ChallengeValue
<1> HIDE DEF c
<1>4. \A x \in Slice : Uint8TVerify(x) => FromUint8T(x) \in Byte
  BY OneByte
<1>5. c \in ChallengeParts /\ OperationsVerify(c.operations)
      /\ Uint8TVerify(c.count) /\ Uint8TVerify(c.challenger) /\ Uint8TVerify(c.snapshot_position)
  BY <1>1 DEF ChallengeGood
<1>6. FromUint8T(c.count) \in Byte /\ FromUint8T(c.challenger) \in Byte /\ FromUint8T(c.snapshot_position) \in Byte
  BY <1>4, <1>5 DEF ChallengeParts
<1>7. c.operations \in Slice /\ c.snapshot_hashproof \in Slice /\ c.snapshot_signature \in Slice
  BY <1>5 DEF ChallengeParts
<1>8. FromOperations(c.operations) \in Seq(Slice)
  BY <1>5, <1>7, OperationsRewritten
<1>9. ChallengeValue(s) \in ChallengeValues
  BY <1>3, <1>6, <1>7, <1>8 DEF ChallengeValues, FromBlake256
<1>10. ChallengeValue(s).count = FromUint8T(c.count) /\ ChallengeValue(s).challenger = FromUint8T(c.challenger)
  BY <1>3
<1>11. QED
  BY <1>2, <1>6, <1>9, <1>10

(* Verified terms stand for terms.                                          *)
LEMMA ArgsValueIn ==
  ASSUME NEW s \in Slice, ArgsVerify(s)
  PROVE  ArgsValue(s) \in ArgsValues
<1> DEFINE r == ArgsRead(s)
<1>1. ArgsGood(r)
  BY ArgsRewritten
<1>2. ArgsValue(s) = [user_staking_ckb  |-> FromUint64T(r.user_staking_ckb),
         user_deck_size    |-> FromUint8T(r.user_deck_size),
         begin_blocknumber |-> FromUint64T(r.begin_blocknumber),
         lock_code_hash    |-> FromBlake256(r.lock_code_hash),
         lua_code_hashes   |-> FromHashes(r.lua_code_hashes),
         user1_pkhash      |-> FromBlake160(r.user1_pkhash),
         user1_nfts        |-> FromNfts(r.user1_nfts),
         user2_pkhash      |-> FromBlake160(r.user2_pkhash),
         user2_nfts        |-> FromNfts(r.user2_nfts)]
  BY DEF ArgsValue
<1> HIDE DEF r
<1>3. \A x \in Slice : Uint8TVerify(x) => FromUint8T(x) \in Byte
  BY OneByte
<1>4. ASSUME NEW x \in Slice, Uint64TVerify(x)
      PROVE  FromUint64T(x) \in Nat
  <2>1. HasNumber(x, 0) /\ HasNumber(x, NUMBER_SIZE) /\ NUMBER_SIZE \in Nat
    BY <1>4 DEF HasNumber, NUMBER_SIZE, Uint64TVerify, Uint64Size
  <2>2. unpack_number(x, 0) \in Nat /\ unpack_number(x, NUMBER_SIZE) \in Nat
    BY <2>1, NumberNat
  <2>3. QED
    BY <2>2, NumbersLarge DEF FromUint64T
<1>5. \A x \in Slice : HashesVerify(x) => FromHashes(x) \in Seq(Slice)
  <2>1. \A x \in Slice : HashesVerify(x) => FromHashes(x) \in Seq(Blake256)
    BY HashesRewritten
  <2>2. Blake256 \subseteq Slice
    BY ArraysVerified
  <2>3. \A q \in Seq(Blake256) : q \in Seq(Slice)
    BY <2>2
  <2>4. QED
    BY <2>1, <2>3
<1>6. \A x \in Slice : NftsVerify(x) => FromNfts(x) \in Seq(Slice)
  <2>1. \A x \in Slice : NftsVerify(x) => FromNfts(x) \in Seq(Blake160)
    BY NftsRewritten
  <2>2. Blake160 \subseteq Slice
    BY ArraysVerified
  <2>3. \A q \in Seq(Blake160) : q \in Seq(Slice)
    BY <2>2
  <2>4. QED
    BY <2>1, <2>3
<1>7. /\ r.user_staking_ckb \in Slice /\ r.user_deck_size \in Slice /\ r.begin_blocknumber \in Slice
      /\ r.lock_code_hash \in Slice /\ r.lua_code_hashes \in Slice /\ r.user1_pkhash \in Slice
      /\ r.user1_nfts \in Slice /\ r.user2_pkhash \in Slice /\ r.user2_nfts \in Slice
  BY <1>1 DEF ArgsGood, ArgsParts
<1>8. /\ Uint64TVerify(r.user_staking_ckb) /\ Uint8TVerify(r.user_deck_size)
      /\ Uint64TVerify(r.begin_blocknumber) /\ HashesVerify(r.lua_code_hashes)
      /\ NftsVerify(r.user1_nfts) /\ NftsVerify(r.user2_nfts)
  BY <1>1 DEF ArgsGood
<1>9. FromUint64T(r.user_staking_ckb) \in Nat /\ FromUint64T(r.begin_blocknumber) \in Nat
  BY <1>4, <1>7, <1>8
<1>10. FromUint8T(r.user_deck_size) \in Byte
  BY <1>3, <1>7, <1>8
<1>11. /\ FromHashes(r.lua_code_hashes) \in Seq(Slice)
       /\ FromNfts(r.user1_nfts) \in Seq(Slice) /\ FromNfts(r.user2_nfts) \in Seq(Slice)
  BY <1>5, <1>6, <1>7, <1>8
<1>12. QED
  BY <1>2, <1>7, <1>9, <1>10, <1>11 DEF ArgsValues, FromBlake160, FromBlake256

(* How completing an offer may end.                                         *)
Agreed(s, term) ==
  /\ FromUint64T(ArgsField(s, 1)) = term.user_staking_ckb
  /\ FromUint8T(ArgsField(s, 2)) = term.user_deck_size
  /\ FromHashes(ArgsField(s, 5)) = term.lua_code_hashes

(* It ends well only if the terms agree, and with a panic only if something *)
(* could not be read.                                                       *)
LEMMA CompleteEnds ==
  ASSUME NEW s, NEW term, NEW nfts, NEW result \in CompleteOutcomes(s, term, nfts)
  PROVE  /\ result \in {"ok", "refused", "panic"}
         /\ result = "ok" => /\ \A i \in 1 .. 9 : ArgsInBounds(s, i)
                             /\ Agreed(s, term) /\ ~(term.user_deck_size < Len(nfts) % Base)
         /\ result = "refused" => ~Agreed(s, term) \/ term.user_deck_size < Len(nfts) % Base
         /\ StakingReadable(s) /\ DeckReadable(s) /\ HashesReadable(s)
            /\ (\A i \in 1 .. 9 : ArgsInBounds(s, i)) /\ ~FieldCountUnderflows(s)
              => result # "panic"
<1>1. CASE ~StakingReadable(s)
  BY <1>1 DEF CompleteOutcomes
<1>2. CASE /\ StakingReadable(s)
           /\ FromUint64T(ArgsField(s, 1)) # term.user_staking_ckb
  BY <1>2 DEF CompleteOutcomes, Agreed
<1>3. CASE /\ StakingReadable(s)
           /\ FromUint64T(ArgsField(s, 1)) = term.user_staking_ckb
           /\ ~DeckReadable(s)
  BY <1>3 DEF CompleteOutcomes
<1>4. CASE /\ StakingReadable(s)
           /\ FromUint64T(ArgsField(s, 1)) = term.user_staking_ckb
           /\ DeckReadable(s)
           /\ FromUint8T(ArgsField(s, 2)) # term.user_deck_size
  BY <1>4 DEF CompleteOutcomes, Agreed
<1>5. CASE /\ StakingReadable(s)
           /\ FromUint64T(ArgsField(s, 1)) = term.user_staking_ckb
           /\ DeckReadable(s)
           /\ FromUint8T(ArgsField(s, 2)) = term.user_deck_size
           /\ ~HashesReadable(s)
  BY <1>5 DEF CompleteOutcomes
<1>6. CASE /\ StakingReadable(s)
           /\ FromUint64T(ArgsField(s, 1)) = term.user_staking_ckb
           /\ DeckReadable(s)
           /\ FromUint8T(ArgsField(s, 2)) = term.user_deck_size
           /\ HashesReadable(s)
           /\ FromHashes(ArgsField(s, 5)) # term.lua_code_hashes
  BY <1>6 DEF CompleteOutcomes, Agreed
<1>7. CASE /\ StakingReadable(s) /\ DeckReadable(s) /\ HashesReadable(s)
           /\ Agreed(s, term)
           /\ term.user_deck_size < Len(nfts) % Base
  BY <1>7 DEF CompleteOutcomes, Agreed
<1>8. CASE /\ StakingReadable(s) /\ DeckReadable(s) /\ HashesReadable(s)
           /\ Agreed(s, term)
           /\ ~(term.user_deck_size < Len(nfts) % Base)
  BY <1>8 DEF CompleteOutcomes, Agreed, LastField
<1>9. QED
  BY <1>1, <1>2, <1>3, <1>4, <1>5, <1>6, <1>7, <1>8 DEF Agreed

(* How signing one may end.                                                 *)
Conflicts(s, term, pkhash, nfts) ==
  \/ FromUint64T(ArgsField(s, 1)) # term.user_staking_ckb
  \/ FromUint8T(ArgsField(s, 2)) # term.user_deck_size
  \/ ArgsField(s, 6) = pkhash /\ FromNfts(ArgsField(s, 7)) # nfts
  \/ ArgsField(s, 8) = pkhash /\ FromNfts(ArgsField(s, 9)) # nfts

(* So does signing.                                                         *)
LEMMA SignEnds ==
  ASSUME NEW s, NEW term, NEW pkhash, NEW nfts,
         NEW result \in SignOutcomes(s, term, pkhash, nfts)
  PROVE  /\ result \in {"ok", "refused", "panic"}
         /\ result = "ok" => ~Conflicts(s, term, pkhash, nfts)
         /\ result = "refused" => Conflicts(s, term, pkhash, nfts)
         /\ UserReadable(s, 6) /\ UserReadable(s, 8) /\ NftsReadable(s, 7) /\ NftsReadable(s, 9)
            /\ StakingReadable(s) /\ DeckReadable(s) /\ ~FieldCountUnderflows(s)
              => result # "panic"
<1>1. CASE ~(UserReadable(s, 6) /\ UserReadable(s, 8) /\ NftsReadable(s, 7) /\ NftsReadable(s, 9))
  BY <1>1 DEF SignOutcomes
<1>2. CASE UserReadable(s, 6) /\ UserReadable(s, 8) /\ NftsReadable(s, 7) /\ NftsReadable(s, 9)
  <2> DEFINE Of(outcome9) ==
      IF outcome9 = "panic" \/ ~StakingReadable(s) THEN {"panic"}
      ELSE IF FromUint64T(ArgsField(s, 1)) # term.user_staking_ckb THEN {"refused"}
      ELSE IF ~DeckReadable(s) THEN {"panic"}
      ELSE IF \/ FromUint8T(ArgsField(s, 2)) # term.user_deck_size
              \/ ArgsField(s, 6) = pkhash /\ FromNfts(ArgsField(s, 7)) # nfts
              \/ ArgsField(s, 8) = pkhash /\ FromNfts(ArgsField(s, 9)) # nfts
      THEN {"refused"}
      ELSE {"ok"}
  <2>1. SignOutcomes(s, term, pkhash, nfts) = UNION {Of(outcome9) : outcome9 \in LastField(s, "ok")}
    BY <1>2 DEF SignOutcomes
  <2>2. PICK outcome9 \in LastField(s, "ok") : result \in Of(outcome9)
    <3> HIDE DEF Of
    <3>1. QED
      BY <2>1
  <2>3. outcome9 \in {"ok", "panic"} /\ (~FieldCountUnderflows(s) => outcome9 = "ok")
    BY DEF LastField
  <2>4. CASE outcome9 = "panic" \/ ~StakingReadable(s)
    BY <2>2, <2>3, <2>4
  <2>5. CASE /\ outcome9 = "ok" /\ StakingReadable(s)
             /\ FromUint64T(ArgsField(s, 1)) # term.user_staking_ckb
    BY <2>2, <2>5 DEF Conflicts
  <2>6. CASE /\ outcome9 = "ok" /\ StakingReadable(s)
             /\ FromUint64T(ArgsField(s, 1)) = term.user_staking_ckb
             /\ ~DeckReadable(s)
    BY <2>2, <2>6
  <2>7. CASE /\ outcome9 = "ok" /\ StakingReadable(s) /\ DeckReadable(s)
             /\ FromUint64T(ArgsField(s, 1)) = term.user_staking_ckb
    BY <2>2, <2>7 DEF Conflicts
  <2>8. QED
    BY <2>3, <2>4, <2>5, <2>6, <2>7
<1>3. QED
  BY <1>1, <1>2

(* The fields of verified terms as values.                                  *)
LEMMA ArgsValueFields ==
  ASSUME NEW s
  PROVE  /\ ArgsValue(s).user_staking_ckb = FromUint64T(ArgsField(s, 1))
         /\ ArgsValue(s).user_deck_size = FromUint8T(ArgsField(s, 2))
         /\ ArgsValue(s).lua_code_hashes = FromHashes(ArgsField(s, 5))
         /\ ArgsValue(s).user1_pkhash = ArgsField(s, 6)
         /\ ArgsValue(s).user1_nfts = FromNfts(ArgsField(s, 7))
         /\ ArgsValue(s).user2_pkhash = ArgsField(s, 8)
         /\ ArgsValue(s).user2_nfts = FromNfts(ArgsField(s, 9))
BY DEF ArgsValue, ArgsRead, FromBlake160

-----------------------------------------------------------------------------
Turns ==
  /\ ChallengeVerify(data)
  /\ first \in {1, 2} /\ ChallengeValue(data).challenger \in {1, 2}
  /\ (ChallengeValue(data).count % 2 = 1) <=> (ChallengeValue(data).challenger = first)

DataInv ==
  /\ TypeOK
  /\ ReadsInBounds
  /\ Fitting(offer)
  /\ foreign = 0 /\ offer # NoSlice => ArgsVerify(offer)
  /\ foreign = 0 /\ data # NoSlice => Turns

(* The empty slice, which stands for no offer.                              *)
LEMMA EmptyFits ==
  NoSlice \in Slice /\ Fitting(NoSlice)
<1>1. NoSlice \in Slice /\ Len(NoSlice) = 0
  BY DEF NoSlice, Slice
<1> HIDE DEF NoSlice
<1>2. ~ArgsInBounds(NoSlice, 1)
  BY <1>1 DEF ArgsInBounds, FieldInBounds, HasNumber, NUMBER_SIZE
<1>3. QED
  BY <1>1, <1>2 DEF Fitting

(* The invariant holds at the start.                                        *)
LEMMA DataInit == Init => DataInv
<1> SUFFICES ASSUME Init
             PROVE  DataInv
  OBVIOUS
<1>1. outcome.result = "ok"
  <2>1. outcome = Outcome("", "ok", << >>, 0)
    BY DEF Init
  <2>2. Outcome("", "ok", << >>, 0).result = "ok"
    BY DEF Outcome
  <2>3. QED
    BY <2>1, <2>2, Zenon
<1>2. MaxForeign \in Nat
  BY DataAssumption
<1>3. offer = NoSlice /\ args = NoSlice /\ data = NoSlice /\ witnesses = << >> /\ foreign = 0 /\ first = 0
  BY DEF Init
<1>4. witnesses \in Seq(Slice)
  BY <1>3
<1> HIDE DEF NoSlice
<1>5. QED
  BY <1>1, <1>2, <1>3, <1>4, EmptyFits DEF DataInv, TypeOK, ReadsInBounds

(* The challenges that users make take turns, whatever their count is modulo *)
(* the number of values of a byte, since that number is even.                *)
LEMMA NextCountIs ==
  ASSUME NEW s \in Slice, s = NoSlice \/ ChallengeVerify(s), NEW challenger \in {1, 2}
  PROVE  /\ NextCount(s, challenger) \in Byte /\ challenger \in Byte
         /\ s = NoSlice => NextCount(s, challenger) = 1
         /\ s # NoSlice => /\ NextCount(s, challenger) = (ChallengeValue(s).count + 1) % Base
                           /\ ChallengeValue(s).count \in Byte
<1>1. CASE s = NoSlice
  BY <1>1, BaseFacts DEF NextCount
<1>2. CASE s # NoSlice
  <2> DEFINE c == FromUint8T(ChallengeField(s, 1))
  <2>1. c \in Byte /\ ChallengeValue(s).count = c
    BY <1>2, ChallengeFields
  <2>2. NextCount(s, challenger) = (c + 1) % Base
    BY <1>2 DEF NextCount
  <2> HIDE DEF c
  <2>3. c + 1 \in Nat
    BY <2>1, BaseFacts DEF Byte
  <2>4. (c + 1) % Base \in Byte
    BY <2>3, Digit
  <2>5. QED
    BY <1>2, <2>1, <2>2, <2>4, BaseFacts
<1>3. QED
  BY <1>1, <1>2

(* A count that wraps at an even number keeps alternating.                  *)
LEMMA Parity ==
  ASSUME NEW c \in Byte
  PROVE  ((c + 1) % Base) % 2 = 1 <=> c % 2 # 1
<1>1. c \in Nat /\ c < Base
  BY BaseFacts DEF Byte
<1>2. CASE c + 1 < Base
  <2>1. (c + 1) % Base = c + 1
    BY <1>1, <1>2, BaseFacts
  <2>2. QED
    BY <1>1, <2>1
<1>3. CASE c + 1 = Base
  <2>1. (c + 1) % Base = 0
    BY <1>1, <1>3, BaseFacts
  <2>2. QED
    BY <1>1, <1>3, <2>1, BaseFacts
<1>4. QED
  BY <1>1, <1>2, <1>3, BaseFacts

(* What is left in the cell by a challenge, after another or the first.     *)
LEMMA ChallengeDataIs ==
  ASSUME NEW s \in Slice, s = NoSlice \/ ChallengeVerify(s), NEW challenger \in {1, 2},
         NEW operations \in OperationLists, NEW rounds \in RoundLists
  PROVE  /\ ChallengeData(s, challenger, operations, rounds) \in Slice \ {NoSlice}
         /\ ChallengeVerify(ChallengeData(s, challenger, operations, rounds))
         /\ ChallengeValue(ChallengeData(s, challenger, operations, rounds))
              = ChallengeSays(NextCount(s, challenger), challenger, operations, rounds)
<1>1. NextCount(s, challenger) \in Byte /\ challenger \in Byte
  BY NextCountIs
<1>2. ChallengeData(s, challenger, operations, rounds)
        = ChallengeBuild(ChallengeMade(NextCount(s, challenger), challenger, operations, rounds))
  BY DEF ChallengeData, ChallengeMade
<1> DEFINE count == NextCount(s, challenger)
           t == ChallengeBuild(ChallengeMade(count, challenger, operations, rounds))
<1> HIDE DEF count
<1>3. /\ t \in Slice \ {NoSlice} /\ ChallengeVerify(t)
      /\ ChallengeValue(t) = ChallengeSays(count, challenger, operations, rounds)
  <2>1. count \in Byte
    BY <1>1 DEF count
  <2>2. QED
    BY <1>1, <2>1, ChallengeMadeIs
<1> HIDE DEF t
<1>4. QED
  BY <1>2, <1>3 DEF count, t

(* How a step ended.                                                        *)
LEMMA EndedIs ==
  ASSUME NEW by, NEW result, Ended(by, result)
  PROVE  outcome'.by = by /\ outcome'.result = result
BY DEF Ended, Outcome

(* What of the invariant a step must be shown to keep, when it leaves the   *)
(* challenge alone, or the offers.                                          *)
DataPart ==
  /\ data \in Slice /\ first \in 0 .. 2
  /\ foreign = 0 /\ data # NoSlice => Turns

OfferPart ==
  /\ offer \in Slice
  /\ Fitting(offer)
  /\ foreign = 0 /\ offer # NoSlice => ArgsVerify(offer)

OutcomePart ==
  /\ outcome.result \in {"ok", "refused", "panic", "overflow"}
  /\ ReadsInBounds

(* The parts make the invariant,                                            *)
LEMMA DataParts ==
  DataInv <=> /\ DataPart /\ OfferPart /\ OutcomePart
              /\ args \in Slice /\ witnesses \in Seq(Slice) /\ foreign \in 0 .. MaxForeign
BY DEF DataInv, TypeOK, DataPart, OfferPart, OutcomePart

(* also after a step.                                                       *)
LEMMA DataPartsAfter ==
  ASSUME DataPart', OfferPart', OutcomePart',
         args' \in Slice, witnesses' \in Seq(Slice), foreign' \in 0 .. MaxForeign
  PROVE  DataInv'
BY DEF DataInv, TypeOK, DataPart, OfferPart, OutcomePart

(* A step that leaves the challenge alone keeps its part,                   *)
LEMMA DataKept ==
  ASSUME DataPart, UNCHANGED <<data, first, foreign>>
  PROVE  DataPart'
<1> DEFINE turns(d, f) == /\ ChallengeVerify(d)
                          /\ f \in {1, 2} /\ ChallengeValue(d).challenger \in {1, 2}
                          /\ (ChallengeValue(d).count % 2 = 1) <=> (ChallengeValue(d).challenger = f)
           part(d, f, n) == d \in Slice /\ f \in 0 .. 2 /\ (n = 0 /\ d # NoSlice => turns(d, f))
<1>1. DataPart <=> part(data, first, foreign)
  BY DEF DataPart, Turns
<1>2. DataPart' <=> part(data', first', foreign')
  BY DEF DataPart, Turns
<1>3. data' = data /\ first' = first /\ foreign' = foreign
  OBVIOUS
<1> HIDE DEF part
<1>4. QED
  BY <1>1, <1>2, <1>3

(* and one that leaves the offer alone keeps the other.                     *)
LEMMA OfferKept ==
  ASSUME OfferPart, UNCHANGED <<offer, foreign>>
  PROVE  OfferPart'
<1>1. OfferPart' <=> /\ offer' \in Slice
                     /\ Fitting(offer')
                     /\ foreign' = 0 /\ offer' # NoSlice => ArgsVerify(offer')
  BY DEF OfferPart, Fitting
<1>2. offer' = offer /\ foreign' = foreign
  OBVIOUS
<1>3. QED
  BY <1>1, <1>2 DEF OfferPart

(* Steps that end well enough leave nothing to show of the outcome.         *)
LEMMA EndsWell ==
  ASSUME outcome'.result \in {"ok", "refused", "overflow"}
  PROVE  OutcomePart'
BY DEF OutcomePart, ReadsInBounds

(* Each step keeps the invariant: the offer of the first user,              *)
LEMMA PrepareKeeps ==
  ASSUME DataInv, NEW term \in Terms, NEW pkhash \in Pkhashes, NEW nfts \in NftLists,
         NEW block \in Blocks, Prepare(term, block, pkhash, nfts)
  PROVE  DataInv'
<1>1. UNCHANGED <<args, data, witnesses, foreign, first>>
  BY DEF Prepare
<1>2. DataPart'
  BY <1>1, DataParts, DataKept
<1>3. CASE term.user_deck_size < Len(nfts) % Base
  <2>1. Ended("Prepare", "refused") /\ UNCHANGED offer
    BY <1>3 DEF Prepare
  <2>2. OutcomePart'
    BY <2>1, EndedIs, EndsWell
  <2>3. OfferPart'
    BY <1>1, <2>1, DataParts, OfferKept
  <2>4. QED
    BY <1>1, <1>2, <2>2, <2>3, DataParts, DataPartsAfter
<1>4. CASE ~(term.user_deck_size < Len(nfts) % Base)
  <2> DEFINE s == PreparedArgs(term, block, pkhash, nfts)
  <2>1. Ended("Prepare", "ok") /\ offer' = s
    BY <1>4 DEF Prepare
  <2>2. OutcomePart'
    BY <2>1, EndedIs, EndsWell
  <2>3. s \in Slice /\ ArgsVerify(s)
    BY PreparedIs
  <2>4. Fitting(s)
    BY LengthAssumption DEF Fitting
  <2> HIDE DEF s
  <2>5. OfferPart'
    BY <2>1, <2>3, <2>4 DEF OfferPart, Fitting
  <2>6. QED
    BY <1>1, <1>2, <2>2, <2>5, DataParts, DataPartsAfter
<1>5. QED
  BY <1>3, <1>4

(* the completion by the second, of whatever offer was received,            *)
LEMMA CompleteKeeps ==
  ASSUME DataInv, NEW term \in Terms, NEW pkhash \in Pkhashes, NEW nfts \in NftLists,
         Complete(term, pkhash, nfts)
  PROVE  DataInv'
<1>1. UNCHANGED <<args, data, witnesses, foreign, first>> /\ offer # NoSlice
  BY DEF Complete
<1>2. DataPart'
  BY <1>1, DataParts, DataKept
<1>3. PICK result \in CompleteOutcomes(offer, term, nfts) :
          /\ Ended("Complete", result)
          /\ offer' = IF result = "ok" THEN CompletedArgs(offer, pkhash, nfts)
                                       ELSE offer
  BY DEF Complete
<1>4. /\ result \in {"ok", "refused", "panic"}
      /\ result = "ok" => \A i \in 1 .. 9 : ArgsInBounds(offer, i)
      /\ StakingReadable(offer) /\ DeckReadable(offer) /\ HashesReadable(offer)
            /\ (\A i \in 1 .. 9 : ArgsInBounds(offer, i)) /\ ~FieldCountUnderflows(offer)
              => result # "panic"
  BY CompleteEnds
<1>5. offer \in Slice /\ Fitting(offer) /\ foreign \in Nat
      /\ (foreign = 0 => ArgsVerify(offer))
  BY <1>1, DataAssumption, DataParts DEF OfferPart
<1>6. outcome'.by = "Complete" /\ outcome'.result = result
  BY <1>3, EndedIs
<1>7. OutcomePart'
  <2>1. foreign = 0 => result # "panic"
    BY <1>4, <1>5, ArgsReadable
  <2>2. QED
    BY <1>1, <1>4, <1>5, <1>6, <2>1 DEF OutcomePart, ReadsInBounds
<1>8. CASE result # "ok"
  <2>1. OfferPart'
    BY <1>1, <1>3, <1>8, DataParts, OfferKept
  <2>2. QED
    BY <1>1, <1>2, <1>7, <2>1, DataParts, DataPartsAfter
<1>9. CASE result = "ok"
  <2> DEFINE t == CompletedArgs(offer, pkhash, nfts)
  <2>1. offer' = t
    BY <1>3, <1>9
  <2>2. t \in Slice /\ Fitting(t)
    BY <1>4, <1>5, <1>9, CompletedFits
  <2>3. foreign = 0 => ArgsVerify(t)
    BY <1>4, <1>5, <1>9, CompletedIs DEF Fitting
  <2> HIDE DEF t
  <2>4. OfferPart'
    BY <1>1, <2>1, <2>2, <2>3 DEF OfferPart, Fitting
  <2>5. QED
    BY <1>1, <1>2, <1>7, <2>4, DataParts, DataPartsAfter
<1>10. QED
  BY <1>8, <1>9

(* the signature, which only reads,                                         *)
LEMMA SignKeeps ==
  ASSUME DataInv, NEW term \in Terms, NEW pkhash \in Pkhashes, NEW nfts \in NftLists,
         Sign(term, pkhash, nfts)
  PROVE  DataInv'
<1>1. UNCHANGED <<offer, args, data, witnesses, foreign, first>> /\ offer # NoSlice
  BY DEF Sign
<1>2. DataPart' /\ OfferPart'
  BY <1>1, DataParts, DataKept, OfferKept
<1>3. PICK result \in SignOutcomes(offer, term, pkhash, nfts) : Ended("Sign", result)
  BY DEF Sign
<1>4. /\ result \in {"ok", "refused", "panic"}
      /\ UserReadable(offer, 6) /\ UserReadable(offer, 8)
            /\ NftsReadable(offer, 7) /\ NftsReadable(offer, 9)
            /\ StakingReadable(offer) /\ DeckReadable(offer) /\ ~FieldCountUnderflows(offer)
              => result # "panic"
  BY SignEnds
<1>5. offer \in Slice /\ foreign \in Nat /\ (foreign = 0 => ArgsVerify(offer))
  BY <1>1, DataAssumption, DataParts DEF OfferPart
<1>6. outcome'.by = "Sign" /\ outcome'.result = result
  BY <1>3, EndedIs
<1>7. foreign = 0 => result # "panic"
  BY <1>4, <1>5, ArgsReadable
<1>8. OutcomePart'
  BY <1>1, <1>4, <1>5, <1>6, <1>7 DEF OutcomePart, ReadsInBounds
<1>9. QED
  BY <1>1, <1>2, <1>8, DataParts, DataPartsAfter

(* the opening,                                                             *)
LEMMA OpenKeeps ==
  ASSUME DataInv, Open
  PROVE  DataInv'
<1>1. /\ args' = offer /\ offer' = NoSlice /\ Ended("Open", "ok")
      /\ UNCHANGED <<data, witnesses, foreign, first>>
  BY DEF Open
<1>2. DataPart'
  BY <1>1, DataParts, DataKept
<1>3. OutcomePart'
  BY <1>1, EndedIs, EndsWell
<1>4. OfferPart'
  BY <1>1, EmptyFits DEF OfferPart, Fitting
<1>5. offer \in Slice
  BY DataParts DEF OfferPart
<1>6. QED
  BY <1>1, <1>2, <1>3, <1>4, <1>5, DataParts, DataPartsAfter

(* the challenge, which only what another program wrote can spoil,          *)
LEMMA ChallengeKeeps ==
  ASSUME DataInv, NEW challenger \in {1, 2}, Challenge(challenger)
  PROVE  DataInv'
<1>1. UNCHANGED <<offer, args, foreign>> /\ args # NoSlice
  BY DEF Challenge
<1>2. OfferPart'
  BY <1>1, DataParts, OfferKept
<1>3. ArgsSafe(args) /\ ChallengeSafe(data) /\ data \in Slice
  BY ArgsAreSafe, ChallengesAreSafe, DataParts DEF DataPart
<1>4. \/ /\ \/ Ended("Challenge", "refused") \/ Ended("Challenge", "overflow")
         /\ UNCHANGED <<data, witnesses, first>>
      \/ /\ data = NoSlice \/ ChallengeVerify(data)
         /\ data # NoSlice => FromUint8T(ChallengeField(data, 2)) # challenger
         /\ \E operations \in OperationLists, rounds \in RoundLists :
               /\ data' = ChallengeData(data, challenger, operations, rounds)
               /\ witnesses' = [i \in DOMAIN rounds |-> MakeRound(rounds[i])]
               /\ first' = IF data = NoSlice THEN challenger ELSE first
               /\ outcome' = Outcome("Challenge", "ok",
                     IF data = NoSlice THEN << >> ELSE <<Payee(args, challenger)>>, 0)
  BY <1>3, Zenon DEF Challenge
<1>5. CASE /\ \/ Ended("Challenge", "refused") \/ Ended("Challenge", "overflow")
           /\ UNCHANGED <<data, witnesses, first>>
  <2>1. DataPart'
    BY <1>1, <1>5, DataParts, DataKept
  <2>2. OutcomePart'
    BY <1>5, EndedIs, EndsWell
  <2>3. QED
    BY <1>1, <1>2, <1>5, <2>1, <2>2, DataParts, DataPartsAfter
<1>6. ASSUME data = NoSlice \/ ChallengeVerify(data),
             data # NoSlice => FromUint8T(ChallengeField(data, 2)) # challenger,
             NEW operations \in OperationLists, NEW rounds \in RoundLists,
             data' = ChallengeData(data, challenger, operations, rounds),
             witnesses' = [i \in DOMAIN rounds |-> MakeRound(rounds[i])],
             first' = IF data = NoSlice THEN challenger ELSE first,
             outcome' = Outcome("Challenge", "ok",
                     IF data = NoSlice THEN << >> ELSE <<Payee(args, challenger)>>, 0)
      PROVE  DataInv'
  <2> DEFINE n == NextCount(data, challenger)
             t == ChallengeData(data, challenger, operations, rounds)
  <2>1. /\ t \in Slice \ {NoSlice} /\ ChallengeVerify(t)
        /\ ChallengeValue(t) = ChallengeSays(n, challenger, operations, rounds)
    BY <1>3, <1>6, ChallengeDataIs
  <2>2. ChallengeValue(t).count = n /\ ChallengeValue(t).challenger = challenger
    BY <2>1 DEF ChallengeSays
  <2>3. /\ data = NoSlice => n = 1
        /\ data # NoSlice => /\ n = (ChallengeValue(data).count + 1) % Base
                             /\ ChallengeValue(data).count \in Byte
    BY <1>3, <1>6, NextCountIs
  <2>4. outcome'.result = "ok"
    BY <1>6 DEF Outcome
  <2>5. OutcomePart'
    BY <2>4, EndsWell
  <2>6. witnesses' \in Seq(Slice)
    <3>1. rounds \in Seq([user_type : Byte, operations : Seq(Slice)])
      BY DataAssumption
    <3>2. \A i \in DOMAIN rounds : MakeRound(rounds[i]) \in Slice
      BY MadeRound
    <3>3. DOMAIN rounds = 1 .. Len(rounds) /\ Len(rounds) \in Nat
      BY <3>1
    <3>4. [i \in 1 .. Len(rounds) |-> MakeRound(rounds[i])] \in Seq(Slice)
      BY <3>2, <3>3
    <3>5. QED
      BY <1>6, <3>3, <3>4
  <2>7. data' = t
    BY <1>6
  <2> HIDE DEF n, t
  <2>8. first' \in 0 .. 2
    BY <1>6, DataParts DEF DataPart
  <2>9. ASSUME foreign = 0
        PROVE  /\ first' \in {1, 2}
               /\ (n % 2 = 1) <=> (challenger = first')
    <3>1. CASE data = NoSlice
      BY <1>6, <2>3, <3>1
    <3>2. CASE data # NoSlice
      <4>1. /\ first \in {1, 2} /\ ChallengeValue(data).challenger \in {1, 2}
            /\ (ChallengeValue(data).count % 2 = 1) <=> (ChallengeValue(data).challenger = first)
        BY <2>9, <3>2, DataParts DEF DataPart, Turns
      <4>2. ChallengeValue(data).challenger # challenger
        BY <1>3, <1>6, <3>2, ChallengeFields
      <4>3. first' = first
        BY <1>6, <3>2
      <4>4. (n % 2 = 1) <=> ChallengeValue(data).count % 2 # 1
        BY <2>3, <3>2, Parity
      <4>5. QED
        BY <4>1, <4>2, <4>3, <4>4
    <3>3. QED
      BY <3>1, <3>2
  <2>10. DataPart'
    BY <1>1, <2>1, <2>2, <2>7, <2>8, <2>9 DEF DataPart, Turns
  <2>11. QED
    BY <1>1, <1>2, <2>5, <2>6, <2>10, DataParts, DataPartsAfter
<1>7. QED
  BY <1>4, <1>5, <1>6

(* the end of the channel,                                                  *)
LEMMA CloseKeeps ==
  ASSUME DataInv, Close
  PROVE  DataInv'
<1>1. UNCHANGED <<offer, foreign>>
  BY DEF Close
<1>2. OfferPart'
  BY <1>1, DataParts, OfferKept
<1>3. ArgsSafe(args) /\ ChallengeSafe(data)
  BY ArgsAreSafe, ChallengesAreSafe, DataParts DEF DataPart
<1>4. \/ Ended("Close", "refused") /\ UNCHANGED <<args, data, witnesses, first>>
      \/ /\ outcome' = Outcome("Close", "ok",
                  <<FromBlake160(ArgsField(args, 6)), FromBlake160(ArgsField(args, 8))>>,
                  FromUint64T(ArgsField(args, 1)))
         /\ args' = NoSlice /\ data' = NoSlice /\ witnesses' = << >> /\ first' = 0
  BY <1>3, Zenon DEF Close
<1>5. CASE Ended("Close", "refused") /\ UNCHANGED <<args, data, witnesses, first>>
  <2>1. DataPart'
    BY <1>1, <1>5, DataParts, DataKept
  <2>2. OutcomePart'
    BY <1>5, EndedIs, EndsWell
  <2>3. QED
    BY <1>1, <1>2, <1>5, <2>1, <2>2, DataParts, DataPartsAfter
<1>6. CASE /\ outcome' = Outcome("Close", "ok",
                  <<FromBlake160(ArgsField(args, 6)), FromBlake160(ArgsField(args, 8))>>,
                  FromUint64T(ArgsField(args, 1)))
           /\ args' = NoSlice /\ data' = NoSlice /\ witnesses' = << >> /\ first' = 0
  <2>1. outcome'.result = "ok"
    BY <1>6 DEF Outcome
  <2>2. OutcomePart'
    BY <2>1, EndsWell
  <2>3. DataPart'
    BY <1>6, EmptyFits DEF DataPart
  <2>4. witnesses' \in Seq(Slice) /\ args' \in Slice
    BY <1>6, EmptyFits
  <2>5. QED
    BY <1>1, <1>2, <2>2, <2>3, <2>4, DataParts, DataPartsAfter
<1>7. QED
  BY <1>4, <1>5, <1>6

(* and what other programs write, of which nothing is known but that it is  *)
(* a slice.                                                                 *)
LEMMA ForeignKeeps ==
  ASSUME DataInv, ForeignOffer \/ ForeignChallenge
  PROVE  DataInv'
<1>1. foreign \in Nat /\ foreign' = foreign + 1 /\ foreign < MaxForeign /\ MaxForeign \in Nat
  BY DataAssumption, DataParts DEF ForeignOffer, ForeignChallenge
<1>2. foreign' \in 0 .. MaxForeign /\ foreign' # 0
  BY <1>1
<1>3. Ended("Foreign", "ok") /\ UNCHANGED <<args, witnesses, first>>
  BY DEF ForeignOffer, ForeignChallenge
<1>4. OutcomePart'
  BY <1>3, EndedIs, EndsWell
<1>5. offer' \in Slice /\ Fitting(offer')
  <2>1. CASE ForeignOffer
    <3>1. offer' \in ForeignArgs
      BY <2>1 DEF ForeignOffer
    <3>2. QED
      BY <3>1, DataAssumption, LengthAssumption DEF Fitting
  <2>2. CASE ForeignChallenge
    BY <2>2, DataParts DEF ForeignChallenge, OfferPart
  <2>3. QED
    BY <2>1, <2>2
<1>6. data' \in Slice
  <2>1. CASE ForeignOffer
    BY <2>1, DataParts DEF ForeignOffer, DataPart
  <2>2. CASE ForeignChallenge
    BY <2>2, DataAssumption DEF ForeignChallenge
  <2>3. QED
    BY <2>1, <2>2
<1>7. OfferPart'
  BY <1>2, <1>5 DEF OfferPart, Fitting
<1>8. DataPart'
  BY <1>2, <1>3, <1>6, DataParts DEF DataPart
<1>9. QED
  BY <1>2, <1>3, <1>4, <1>7, <1>8, DataParts, DataPartsAfter

(* So does every step.                                                      *)
LEMMA DataStep == DataInv /\ [Next]_vars => DataInv'
<1> SUFFICES ASSUME DataInv, [Next]_vars
             PROVE  DataInv'
  OBVIOUS
<1>1. ASSUME NEW term \in Terms, NEW pkhash \in Pkhashes, NEW nfts \in NftLists,
             NEW block \in Blocks, Prepare(term, block, pkhash, nfts)
      PROVE  DataInv'
  BY <1>1, PrepareKeeps
<1>2. ASSUME NEW term \in Terms, NEW pkhash \in Pkhashes, NEW nfts \in NftLists,
             Complete(term, pkhash, nfts)
      PROVE  DataInv'
  BY <1>2, CompleteKeeps
<1>3. ASSUME NEW term \in Terms, NEW pkhash \in Pkhashes, NEW nfts \in NftLists,
             Sign(term, pkhash, nfts)
      PROVE  DataInv'
  BY <1>3, SignKeeps
<1>4. CASE Open
  BY <1>4, OpenKeeps
<1>5. ASSUME NEW challenger \in {1, 2}, Challenge(challenger)
      PROVE  DataInv'
  BY <1>5, ChallengeKeeps
<1>6. CASE Close
  BY <1>6, CloseKeeps
<1>7. CASE ForeignOffer \/ ForeignChallenge
  BY <1>7, ForeignKeeps
<1>8. CASE UNCHANGED vars
  <2>1. UNCHANGED <<offer, args, data, witnesses, outcome, foreign, first>>
    BY <1>8 DEF vars
  <2>2. DataPart' /\ OfferPart'
    BY <2>1, DataParts, DataKept, OfferKept
  <2>3. OutcomePart'
    BY <2>1, DataParts DEF OutcomePart, ReadsInBounds
  <2>4. QED
    BY <2>1, <2>2, <2>3, DataParts, DataPartsAfter
<1>9. QED
  BY <1>1, <1>2, <1>3, <1>4, <1>5, <1>6, <1>7, <1>8 DEF Next

(* The invariant of a channel's data.                                       *)
LEMMA DataInvCorrect == Spec => []DataInv
<1>1. Init => DataInv
  BY DataInit
<1>2. DataInv /\ [Next]_vars => DataInv'
  BY DataStep
<1>3. QED
  BY <1>1, <1>2, PTL DEF Spec

(* Slices stay sequences of bytes whatever steps are taken, and steps end   *)
(* in one of four ways (interact.rs and builder.rs).                        *)
THEOREM TypeCorrect == Spec => []TypeOK
<1>1. DataInv => TypeOK
  BY DEF DataInv
<1>2. QED
  BY <1>1, DataInvCorrect, PTL

(* No step leaves a slice it reads, unless another program has written the  *)
(* offer it completes or signs: what users write is verified by what they   *)
(* read, and what a channel or its challenge holds is verified before it is *)
(* read (interact.rs 106 and 157; builder.rs 470, 485, 629 and 677).        *)
THEOREM ReadsInBoundsCorrect == Spec => []ReadsInBounds
<1>1. DataInv => ReadsInBounds
  BY DEF DataInv
<1>2. QED
  BY <1>1, DataInvCorrect, PTL

(* The count of challenges, a u8 that wraps, tells whose turn it is, for    *)
(* any number of challenges (builder.rs 486 and 508).                       *)
THEOREM CountTellsTurnCorrect == Spec => []CountTellsTurn
<1>1. DataInv => CountTellsTurn
  BY DEF DataInv, CountTellsTurn, Turns
<1>2. QED
  BY <1>1, DataInvCorrect, PTL

(* Terms that are accepted have one slice only,                             *)
LEMMA CanonicalArgs ==
  ASSUME NEW s \in Slice, ArgsVerify(s)
  PROVE  /\ ArgsBuild(ArgsRead(s)) = s
         /\ IntoNfts(ArgsValue(s).user1_nfts) = ArgsRead(s).user1_nfts
         /\ IntoNfts(ArgsValue(s).user2_nfts) = ArgsRead(s).user2_nfts
         /\ IntoHashes(ArgsValue(s).lua_code_hashes) = ArgsRead(s).lua_code_hashes
<1> DEFINE r == ArgsRead(s)
<1>1. ArgsGood(r) /\ ArgsBuild(r) = s
  BY ArgsRewritten
<1>2. /\ ArgsValue(s).user1_nfts = FromNfts(r.user1_nfts)
      /\ ArgsValue(s).user2_nfts = FromNfts(r.user2_nfts)
      /\ ArgsValue(s).lua_code_hashes = FromHashes(r.lua_code_hashes)
  BY DEF ArgsValue
<1> HIDE DEF r
<1>3. /\ r.lua_code_hashes \in Slice /\ HashesVerify(r.lua_code_hashes)
      /\ r.user1_nfts \in Slice /\ NftsVerify(r.user1_nfts)
      /\ r.user2_nfts \in Slice /\ NftsVerify(r.user2_nfts)
  BY <1>1 DEF ArgsGood, ArgsParts
<1>4. IntoHashes(FromHashes(r.lua_code_hashes)) = r.lua_code_hashes
  BY <1>3, HashesRewritten
<1>5. IntoNfts(FromNfts(r.user1_nfts)) = r.user1_nfts /\ IntoNfts(FromNfts(r.user2_nfts)) = r.user2_nfts
  BY <1>3, NftsRewritten
<1>6. QED
  BY <1>1, <1>2, <1>4, <1>5 DEF r

(* and so have challenges.                                                  *)
LEMMA CanonicalChallenge ==
  ASSUME NEW s \in Slice, ChallengeVerify(s)
  PROVE  /\ ChallengeBuild(ChallengeRead(s)) = s
         /\ IntoOperations(ChallengeValue(s).operations) = ChallengeRead(s).operations
<1> DEFINE c == ChallengeRead(s)
<1>1. ChallengeGood(c) /\ ChallengeBuild(c) = s
  BY ChallengeRewritten
<1>2. ChallengeValue(s).operations = FromOperations(c.operations)
  BY DEF ChallengeValue
<1> HIDE DEF c
<1>3. c.operations \in Slice /\ OperationsVerify(c.operations)
  BY <1>1 DEF ChallengeGood, ChallengeParts
<1>4. IntoOperations(FromOperations(c.operations)) = c.operations
  BY <1>3, OperationsRewritten
<1>5. QED
  BY <1>1, <1>2, <1>4 DEF c

(* No two slices that are accepted are read as the same terms, or as the    *)
(* same challenge: the lock of a channel says its terms                     *)
(* (channel/protocol.rs).                                                   *)
THEOREM CanonicalCorrect == Spec => []Canonical
<1>1. DataInv => Canonical
  <2> SUFFICES ASSUME DataInv
               PROVE  Canonical
    OBVIOUS
  <2>1. offer \in Slice /\ args \in Slice /\ data \in Slice
    BY DEF DataInv, TypeOK
  <2>2. QED
    BY <2>1, CanonicalArgs, CanonicalChallenge DEF Canonical
<1>2. QED
  BY <1>1, DataInvCorrect, PTL

-----------------------------------------------------------------------------
(* What lock args stand for: nothing, terms, or neither.                    *)
LEMMA ArgsInIs ==
  ASSUME NEW s \in Slice
  PROVE  /\ ArgsIn[s] = None <=> s = NoSlice
         /\ ArgsIn[s] = Unreadable <=> s # NoSlice /\ ~ArgsVerify(s)
         /\ s # NoSlice /\ ArgsVerify(s) => ArgsIn[s] = ArgsValue(s)
<1>1. ArgsIn[s] = IF s = NoSlice THEN None ELSE IF ArgsVerify(s) THEN ArgsValue(s) ELSE Unreadable
  BY DEF ArgsIn
<1>2. ArgsVerify(s) => ArgsValue(s) # None /\ ArgsValue(s) # Unreadable
  BY ArgsValueIn, NoneAssumption
<1>3. QED
  BY <1>1, <1>2, NoneAssumption

(* What a cell's data stands for.                                           *)
LEMMA ChallengeInIs ==
  ASSUME NEW s \in Slice
  PROVE  /\ ChallengeIn[s] = None <=> s = NoSlice
         /\ ChallengeIn[s] = Unreadable <=> s # NoSlice /\ ~ChallengeVerify(s)
         /\ s # NoSlice /\ ChallengeVerify(s) => ChallengeIn[s] = ChallengeValue(s)
<1>1. ChallengeIn[s] = IF s = NoSlice THEN None
                       ELSE IF ChallengeVerify(s) THEN ChallengeValue(s) ELSE Unreadable
  BY DEF ChallengeIn
<1>2. ChallengeVerify(s) => ChallengeValue(s) # None /\ ChallengeValue(s) # Unreadable
  BY ChallengeFields, NoneAssumption
<1>3. QED
  BY <1>1, <1>2, NoneAssumption

(* What the witnesses of a challenge stand for: the rounds they were made   *)
(* of.                                                                      *)
LEMMA RoundsInIs ==
  ASSUME NEW rounds \in RoundLists
  PROVE  /\ [i \in DOMAIN rounds |-> MakeRound(rounds[i])] \in Seq(Slice)
         /\ RoundsIn[[i \in DOMAIN rounds |-> MakeRound(rounds[i])]] = rounds
<1> DEFINE ws == [i \in DOMAIN rounds |-> MakeRound(rounds[i])]
           R == [user_type : Byte, operations : Seq(Slice)]
<1>1. rounds \in Seq(R)
  BY DataAssumption
<1> HIDE DEF R
<1>2. DOMAIN rounds = 1 .. Len(rounds) /\ Len(rounds) \in Nat
  BY <1>1
<1>3. \A i \in DOMAIN rounds : /\ MakeRound(rounds[i]) \in Slice /\ RoundVerify(MakeRound(rounds[i]))
                               /\ RoundValue(MakeRound(rounds[i])) = rounds[i]
  BY MadeRound
<1>4. [i \in 1 .. Len(rounds) |-> MakeRound(rounds[i])] \in Seq(Slice)
  BY <1>2, <1>3
<1>5. ws \in Seq(Slice)
  BY <1>2, <1>4
<1>6. DOMAIN ws = DOMAIN rounds /\ \A i \in DOMAIN rounds : ws[i] = MakeRound(rounds[i])
  OBVIOUS
<1> HIDE DEF ws
<1>7. RoundsIn[ws] = [i \in DOMAIN ws |-> IF RoundVerify(ws[i]) THEN RoundValue(ws[i]) ELSE Unreadable]
  BY <1>5 DEF RoundsIn
<1>8. RoundsIn[ws] = [i \in DOMAIN rounds |-> rounds[i]]
  BY <1>3, <1>6, <1>7
<1>9. rounds = [i \in DOMAIN rounds |-> rounds[i]]
  BY <1>1, <1>2
<1>10. QED
  BY <1>5, <1>8, <1>9 DEF ws

-----------------------------------------------------------------------------
(* No witnesses, no rounds.                                                 *)
LEMMA NoRoundsIn == RoundsIn[<< >>] = << >>
<1> DEFINE none == << >>
<1>1. none \in Seq(Slice) /\ Len(none) = 0
  OBVIOUS
<1> HIDE DEF none
<1>2. DOMAIN none = {}
  BY <1>1
<1>3. RoundsIn[none] = [i \in DOMAIN none |-> IF RoundVerify(none[i]) THEN RoundValue(none[i]) ELSE Unreadable]
  BY <1>1 DEF RoundsIn
<1>4. RoundsIn[none] = [i \in {} |-> i]
  BY <1>2, <1>3
<1>5. [i \in {} |-> i] = << >>
  OBVIOUS
<1>6. QED
  BY <1>4, <1>5 DEF none

(* The channel starts with no records.                                      *)
LEMMA RecordsInit == Init => Records!Init
<1> SUFFICES ASSUME Init
             PROVE  Records!Init
  OBVIOUS
<1>1. offer = NoSlice /\ args = NoSlice /\ data = NoSlice /\ witnesses = << >>
      /\ outcome = Outcome("", "ok", << >>, 0)
  BY DEF Init
<1>2. ArgsIn[offer] = None /\ ArgsIn[args] = None /\ ChallengeIn[data] = None
  BY <1>1, EmptyFits, ArgsInIs, ChallengeInIs
<1>3. RoundsIn[witnesses] = << >>
  BY <1>1, NoRoundsIn, Zenon
<1>4. outcome = Records!Outcome("", "ok", << >>, 0)
  BY <1>1, Zenon DEF Outcome, Records!Outcome
<1>5. QED
  BY <1>2, <1>3, <1>4, Zenon DEF Records!Init

(* Each step of the bytes is that step of the records: the offer,           *)
LEMMA RecordsPrepare ==
  ASSUME DataInv, DataInv', NEW term \in Terms, NEW pkhash \in Pkhashes, NEW nfts \in NftLists,
         NEW block \in Blocks, Prepare(term, block, pkhash, nfts)
  PROVE  Records!Prepare(term, block, pkhash, nfts)
<1>1. /\ offer = NoSlice /\ args = NoSlice
      /\ args' = args /\ data' = data /\ witnesses' = witnesses
  BY DEF Prepare
<1>2. ArgsIn[offer] = None /\ ArgsIn[args] = None
  BY <1>1, EmptyFits, ArgsInIs
<1>3. CASE term.user_deck_size < Len(nfts) % Base
  <2>1. Ended("Prepare", "refused") /\ offer' = offer
    BY <1>3 DEF Prepare
  <2>2. Records!Ended("Prepare", "refused")
    BY <2>1 DEF Ended, Outcome, Records!Ended, Records!Outcome
  <2>3. Records!Step("Prepare")
    BY <2>1, EndedIs DEF Records!Step
  <2>4. QED
    BY <1>1, <1>2, <1>3, <2>1, <2>2, <2>3 DEF Records!Prepare
<1>4. CASE ~(term.user_deck_size < Len(nfts) % Base)
  <2>1. Ended("Prepare", "ok") /\ offer' = PreparedArgs(term, block, pkhash, nfts)
    BY <1>4 DEF Prepare
  <2>2. Records!Ended("Prepare", "ok")
    BY <2>1 DEF Ended, Outcome, Records!Ended, Records!Outcome
  <2>3. Records!Step("Prepare")
    BY <2>1, EndedIs DEF Records!Step
  <2>4. ArgsIn[offer'] = PreparedValue(term, block, pkhash, nfts)
    BY <2>1, PreparedIs, ArgsInIs
  <2>5. QED
    BY <1>1, <1>2, <1>4, <2>2, <2>3, <2>4 DEF Records!Prepare, PreparedValue
<1>5. QED
  BY <1>3, <1>4

(* the completed offer, or the refusal where terms disagree,                *)
LEMMA RecordsComplete ==
  ASSUME DataInv, DataInv', NEW term \in Terms, NEW pkhash \in Pkhashes, NEW nfts \in NftLists,
         Complete(term, pkhash, nfts)
  PROVE  Records!Complete
<1>1. /\ offer # NoSlice /\ args' = args /\ data' = data /\ witnesses' = witnesses
  BY DEF Complete
<1>2. PICK result \in CompleteOutcomes(offer, term, nfts) :
          /\ Ended("Complete", result)
          /\ offer' = IF result = "ok" THEN CompletedArgs(offer, pkhash, nfts)
                                       ELSE offer
  BY DEF Complete
<1>3. Records!Step("Complete")
  BY <1>2, EndedIs DEF Records!Step
<1>4. Records!Ended("Complete", result)
  BY <1>2 DEF Ended, Outcome, Records!Ended, Records!Outcome
<1>5. offer \in Slice /\ Fitting(offer)
  BY DEF DataInv, TypeOK
<1> DEFINE o == ArgsIn[offer]
           Agrees(t) == Records!Same(t, o) /\ o.lua_code_hashes = t.lua_code_hashes
           Fits(t) == {l \in NftLists : Len(l) % Base <= t.user_deck_size}
           Refuses(t) == /\ ~Agrees(t) \/ Fits(t) # NftLists
                         /\ Records!Ended("Complete", "refused") /\ ArgsIn[offer'] = o
           Completes(t) == /\ Agrees(t)
                           /\ Records!Ended("Complete", "ok")
                           /\ \E p \in Pkhashes, l \in Fits(t) :
                                 ArgsIn[offer'] = Records!Completed(o, p, l)
           Done == \E t \in Terms : Refuses(t) \/ Completes(t)
<1>6. ASSUME o \notin {None, Unreadable}
      PROVE  Done
  <2>1. ArgsVerify(offer) /\ o = ArgsValue(offer)
    BY <1>1, <1>5, <1>6, ArgsInIs
  <2>2. Agrees(term) <=> Agreed(offer, term)
    BY <2>1, ArgsValueFields DEF Agreed, Records!Same
  <2>3. nfts \in Fits(term) <=> ~(term.user_deck_size < Len(nfts) % Base)
    <3>1. term.user_deck_size \in Nat /\ Len(nfts) % Base \in Nat
      BY TermFields, Inputs, Digit, BaseFacts DEF Byte
    <3>2. QED
      BY <3>1
  <2>4. /\ result \in {"ok", "refused"}
        /\ result = "ok" => /\ \A i \in 1 .. 9 : ArgsInBounds(offer, i)
                            /\ Agrees(term) /\ nfts \in Fits(term)
        /\ result = "refused" => ~Agrees(term) \/ nfts \notin Fits(term)
    <3> HIDE DEF Fits, Agrees
    <3>1. /\ result \in {"ok", "refused", "panic"}
          /\ result = "ok" => /\ \A i \in 1 .. 9 : ArgsInBounds(offer, i)
                              /\ Agreed(offer, term) /\ ~(term.user_deck_size < Len(nfts) % Base)
          /\ result = "refused" => ~Agreed(offer, term) \/ term.user_deck_size < Len(nfts) % Base
          /\ StakingReadable(offer) /\ DeckReadable(offer) /\ HashesReadable(offer)
               /\ (\A i \in 1 .. 9 : ArgsInBounds(offer, i)) /\ ~FieldCountUnderflows(offer)
              => result # "panic"
      BY CompleteEnds
    <3>2. QED
      BY <1>5, <2>1, <2>2, <2>3, <3>1, ArgsReadable
  <2>5. CASE result = "refused"
    <3>1. offer' = offer
      BY <1>2, <2>5
    <3>2. ~Agrees(term) \/ Fits(term) # NftLists
      <4> HIDE DEF Fits, Agrees
      <4>1. QED
        BY <2>4, <2>5
    <3>3. Records!Ended("Complete", "refused")
      BY <1>4, <2>5
    <3>4. Refuses(term)
      <4> HIDE DEF Fits, Agrees
      <4>1. QED
        BY <3>1, <3>2, <3>3
    <3> HIDE DEF Refuses, Completes
    <3>5. QED
      BY <3>4
  <2>6. CASE result = "ok"
    <3>1. offer' = CompletedArgs(offer, pkhash, nfts)
      BY <1>2, <2>6
    <3>2. Len(CompletedArgs(offer, pkhash, nfts)) < Numbers
      BY <1>5, <2>4, <2>6 DEF Fitting
    <3>3. /\ offer' \in Slice \ {NoSlice} /\ ArgsVerify(offer')
          /\ ArgsValue(offer') = [o EXCEPT !.user2_pkhash = pkhash, !.user2_nfts = nfts]
      <4>1. /\ CompletedArgs(offer, pkhash, nfts) \in Slice \ {NoSlice}
            /\ ArgsVerify(CompletedArgs(offer, pkhash, nfts))
            /\ ArgsValue(CompletedArgs(offer, pkhash, nfts))
                  = [ArgsValue(offer) EXCEPT !.user2_pkhash = pkhash, !.user2_nfts = nfts]
        BY <1>5, <2>1, <3>2, CompletedIs
      <4> HIDE DEF o
      <4>2. QED
        BY <2>1, <3>1, <4>1
    <3>4. ArgsIn[offer'] = Records!Completed(o, pkhash, nfts)
      BY <3>3, ArgsInIs DEF Records!Completed
    <3>5. Records!Ended("Complete", "ok")
      BY <1>4, <2>6
    <3>6. Agrees(term) /\ nfts \in Fits(term)
      <4> HIDE DEF Fits, Agrees
      <4>1. QED
        BY <2>4, <2>6
    <3>7. Completes(term)
      <4> HIDE DEF Fits, Agrees, o
      <4>1. QED
        BY <3>4, <3>5, <3>6, Zenon
    <3> HIDE DEF Refuses, Completes
    <3>8. QED
      BY <3>7
  <2> HIDE DEF Done, Fits, Agrees
  <2>7. QED
    BY <2>4, <2>5, <2>6
<1>7. UNCHANGED <<ArgsIn[args], ChallengeIn[data], RoundsIn[witnesses]>>
  BY <1>1
<1>8. QED
  BY <1>3, <1>6, <1>7, Zenon DEF Records!Complete

(* the signature or its refusal,                                            *)
LEMMA RecordsSign ==
  ASSUME DataInv, NEW term \in Terms, NEW pkhash \in Pkhashes, NEW nfts \in NftLists,
         Sign(term, pkhash, nfts)
  PROVE  Records!Sign
<1>1. /\ offer # NoSlice /\ offer' = offer
      /\ args' = args /\ data' = data /\ witnesses' = witnesses
  BY DEF Sign
<1>2. PICK result \in SignOutcomes(offer, term, pkhash, nfts) : Ended("Sign", result)
  BY DEF Sign
<1>3. Records!Step("Sign")
  BY <1>2, EndedIs DEF Records!Step
<1>4. Records!Ended("Sign", result)
  BY <1>2 DEF Ended, Outcome, Records!Ended, Records!Outcome
<1>5. offer \in Slice
  BY DEF DataInv, TypeOK
<1> DEFINE o == ArgsIn[offer]
           Conflict(t, p, l) == \/ ~Records!Same(t, o)
                                \/ o.user1_pkhash = p /\ o.user1_nfts # l
                                \/ o.user2_pkhash = p /\ o.user2_nfts # l
<1>6. ASSUME o \notin {None, Unreadable}
      PROVE  IF Conflict(term, pkhash, nfts)
             THEN Records!Ended("Sign", "refused")
             ELSE Records!Ended("Sign", "ok")
  <2>1. ArgsVerify(offer) /\ o = ArgsValue(offer)
    BY <1>1, <1>5, <1>6, ArgsInIs
  <2>2. Conflict(term, pkhash, nfts) <=> Conflicts(offer, term, pkhash, nfts)
    BY <2>1, ArgsValueFields DEF Conflicts, Records!Same
  <2> HIDE DEF Conflict
  <2>3. /\ result \in {"ok", "refused"}
        /\ result = "ok" => ~Conflict(term, pkhash, nfts)
        /\ result = "refused" => Conflict(term, pkhash, nfts)
    <3>1. /\ result \in {"ok", "refused", "panic"}
          /\ result = "ok" => ~Conflicts(offer, term, pkhash, nfts)
          /\ result = "refused" => Conflicts(offer, term, pkhash, nfts)
          /\ UserReadable(offer, 6) /\ UserReadable(offer, 8)
             /\ NftsReadable(offer, 7) /\ NftsReadable(offer, 9)
             /\ StakingReadable(offer) /\ DeckReadable(offer) /\ ~FieldCountUnderflows(offer)
              => result # "panic"
      BY SignEnds
    <3>2. QED
      BY <1>5, <2>1, <2>2, <3>1, ArgsReadable
  <2>4. QED
    BY <1>4, <2>3
<1>7. QED
  BY <1>1, <1>3, <1>6, Zenon DEF Records!Sign

(* the opening,                                                             *)
LEMMA RecordsOpen ==
  ASSUME DataInv, Open
  PROVE  Records!Open
<1>1. /\ offer # NoSlice /\ args' = offer /\ offer' = NoSlice /\ Ended("Open", "ok")
      /\ data' = data /\ witnesses' = witnesses
  BY DEF Open
<1>2. Records!Ended("Open", "ok")
  BY <1>1 DEF Ended, Outcome, Records!Ended, Records!Outcome
<1>3. offer \in Slice
  BY DEF DataInv, TypeOK
<1>4. ArgsIn[offer] # None /\ ArgsIn[offer'] = None
  BY <1>1, <1>3, EmptyFits, ArgsInIs
<1>5. QED
  BY <1>1, <1>2, <1>4 DEF Records!Open

(* what other programs write,                                               *)
LEMMA RecordsForeign ==
  ASSUME DataInv, ForeignOffer \/ ForeignChallenge
  PROVE  Records!Foreign
<1>1. Records!Ended("Foreign", "ok")
  BY DEF ForeignOffer, ForeignChallenge, Ended, Outcome, Records!Ended, Records!Outcome
<1>2. offer \in Slice /\ args \in Slice
  BY DEF DataInv, TypeOK
<1>3. CASE ForeignOffer
  <2>1. offer # NoSlice /\ offer' \in ForeignArgs
        /\ args' = args /\ data' = data /\ witnesses' = witnesses
    BY <1>3 DEF ForeignOffer
  <2>2. offer' \in Slice /\ offer' # NoSlice
    BY <2>1, DataAssumption DEF NoSlice
  <2>3. ArgsIn[offer] # None /\ ArgsIn[offer'] # None
    BY <1>2, <2>1, <2>2, ArgsInIs
  <2>4. QED
    BY <1>1, <2>1, <2>3 DEF Records!Foreign
<1>4. CASE ForeignChallenge
  <2>1. args # NoSlice /\ data' \in ForeignData
        /\ args' = args /\ offer' = offer /\ witnesses' = witnesses
    BY <1>4 DEF ForeignChallenge
  <2>2. data' \in Slice /\ data' # NoSlice
    BY <2>1, DataAssumption DEF NoSlice
  <2>3. ArgsIn[args] # None /\ ChallengeIn[data'] # None
    BY <1>2, <2>1, <2>2, ArgsInIs, ChallengeInIs
  <2>4. QED
    BY <1>1, <2>1, <2>3 DEF Records!Foreign
<1>5. QED
  BY <1>3, <1>4

(* the challenge, its refusal or its overflow,                              *)
LEMMA RecordsChallenge ==
  ASSUME DataInv, NEW challenger \in {1, 2}, Challenge(challenger)
  PROVE  Records!Challenge
<1> DEFINE a == ArgsIn[args]
           d == ChallengeIn[data]
           ref(c) == \/ a = Unreadable
                     \/ d = Unreadable
                     \/ d # None /\ d.challenger = c
           Refuses(c) == /\ ref(c)
                         /\ Records!Ended("Challenge", "refused")
                         /\ ChallengeIn[data'] = d /\ RoundsIn[witnesses'] = RoundsIn[witnesses]
           Overflows(c) == /\ ~ref(c)
                           /\ d # None /\ d.count + 1 = Base
                           /\ Records!Ended("Challenge", "overflow")
                           /\ ChallengeIn[data'] = d /\ RoundsIn[witnesses'] = RoundsIn[witnesses]
           Challenges(c) ==
             /\ ~ref(c)
             /\ outcome' = Records!Outcome("Challenge", "ok",
                    IF d = None THEN << >> ELSE <<Records!Other(a, c)>>, 0)
             /\ RoundsIn[witnesses'] \in RoundLists
             /\ ChallengeIn[data'] \in
                  {[count |-> IF d = None THEN 1 ELSE (d.count + 1) % Base,
                    challenger         |-> c,
                    snapshot_position  |-> Len(RoundsIn[witnesses']) % Base,
                    snapshot_hashproof |-> Hash[RoundsIn[witnesses']],
                    snapshot_signature |-> SignatureOf[RoundsIn[witnesses']],
                    operations         |-> operations] :
                      operations \in OperationLists}
<1>1. offer' = offer /\ args' = args /\ args # NoSlice
  BY DEF Challenge
<1>2. args \in Slice /\ data \in Slice
  BY DEF DataInv, TypeOK
<1>3. ArgsSafe(args) /\ ChallengeSafe(data)
  BY <1>2, ArgsAreSafe, ChallengesAreSafe
<1>4. /\ a # None /\ (a = Unreadable <=> ~ArgsVerify(args))
      /\ ArgsVerify(args) => a = ArgsValue(args)
      /\ d = None <=> data = NoSlice
      /\ d = Unreadable <=> data # NoSlice /\ ~ChallengeVerify(data)
      /\ data # NoSlice /\ ChallengeVerify(data) => d = ChallengeValue(data)
  BY <1>1, <1>2, ArgsInIs, ChallengeInIs
<1>5. data # NoSlice /\ ChallengeVerify(data) =>
        d.challenger = FromUint8T(ChallengeField(data, 2)) /\ d.count \in Byte
  BY <1>2, <1>4, ChallengeFields
<1> HIDE DEF a, d
<1>6. ref(challenger) <=> \/ ~ArgsVerify(args) \/ (data # NoSlice /\ ~ChallengeVerify(data))
                          \/ data # NoSlice /\ ChallengeVerify(data) /\ FromUint8T(ChallengeField(data, 2)) = challenger
  BY <1>4, <1>5
<1> HIDE DEF ref
<1>7. \/ /\ Ended("Challenge", "refused")
         /\ UNCHANGED <<data, witnesses, first>>
         /\ ref(challenger)
      \/ /\ ~ref(challenger)
         /\ \/ /\ data # NoSlice
               /\ NextCount(data, challenger) = 0
               /\ Ended("Challenge", "overflow") /\ UNCHANGED <<data, witnesses, first>>
            \/ \E operations \in OperationLists, rounds \in RoundLists :
               /\ data' = ChallengeData(data, challenger, operations, rounds)
               /\ witnesses' = [i \in DOMAIN rounds |-> MakeRound(rounds[i])]
               /\ first' = IF data = NoSlice THEN challenger ELSE first
               /\ outcome' = Outcome("Challenge", "ok",
                     IF data = NoSlice THEN << >> ELSE <<Payee(args, challenger)>>, 0)
  BY <1>3, <1>6, Zenon DEF Challenge
<1>9. ASSUME ~ref(challenger), data # NoSlice, NextCount(data, challenger) = 0,
             Ended("Challenge", "overflow"), UNCHANGED <<data, witnesses, first>>
      PROVE  Overflows(challenger)
  <2>1. Records!Ended("Challenge", "overflow")
    BY <1>9 DEF Ended, Outcome, Records!Ended, Records!Outcome
  <2>2. ChallengeVerify(data) /\ d = ChallengeValue(data)
    BY <1>4, <1>6, <1>9
  <2>3. (d.count + 1) % Base = 0 /\ d.count \in Byte
    BY <1>2, <1>9, <2>2, NextCountIs
  <2>4. d.count + 1 = Base
    BY <2>3, BaseFacts DEF Byte
  <2>5. ChallengeIn[data'] = d /\ RoundsIn[witnesses'] = RoundsIn[witnesses]
    BY <1>9 DEF d
  <2>6. d # None
    BY <1>4, <1>9
  <2>7. QED
    BY <1>9, <2>1, <2>4, <2>5, <2>6
<1>10. ASSUME ~ref(challenger), NEW operations \in OperationLists, NEW rounds \in RoundLists,
              data' = ChallengeData(data, challenger, operations, rounds),
              witnesses' = [i \in DOMAIN rounds |-> MakeRound(rounds[i])],
              outcome' = Outcome("Challenge", "ok",
                     IF data = NoSlice THEN << >> ELSE <<Payee(args, challenger)>>, 0)
       PROVE  Challenges(challenger)
  <2> DEFINE n == NextCount(data, challenger)
             t == ChallengeData(data, challenger, operations, rounds)
  <2>1. ArgsVerify(args) /\ a = ArgsValue(args) /\ (data = NoSlice \/ ChallengeVerify(data))
        /\ (data # NoSlice => d = ChallengeValue(data))
    BY <1>4, <1>6, <1>10
  <2>2. /\ t \in Slice \ {NoSlice} /\ ChallengeVerify(t)
        /\ ChallengeValue(t) = ChallengeSays(n, challenger, operations, rounds)
    BY <1>2, <2>1, ChallengeDataIs
  <2>3. /\ data = NoSlice => n = 1
        /\ data # NoSlice => n = (ChallengeValue(data).count + 1) % Base
    BY <1>2, <2>1, NextCountIs
  <2>4. data' = t
    BY <1>10
  <2> HIDE DEF n, t
  <2>5. ChallengeIn[data'] = ChallengeSays(n, challenger, operations, rounds)
    BY <2>2, <2>4, ChallengeInIs
  <2>6. n = IF d = None THEN 1 ELSE (d.count + 1) % Base
    BY <1>4, <2>1, <2>3
  <2>7. RoundsIn[witnesses'] = rounds
    BY <1>10, RoundsInIs
  <2>8. ChallengeIn[data'] \in
                  {[count |-> IF d = None THEN 1 ELSE (d.count + 1) % Base,
                    challenger         |-> challenger,
                    snapshot_position  |-> Len(RoundsIn[witnesses']) % Base,
                    snapshot_hashproof |-> Hash[RoundsIn[witnesses']],
                    snapshot_signature |-> SignatureOf[RoundsIn[witnesses']],
                    operations         |-> ops] :
                      ops \in OperationLists}
    BY <2>5, <2>6, <2>7 DEF ChallengeSays
  <2>9. Payee(args, challenger) = Records!Other(a, challenger)
    BY <2>1, ArgsValueFields DEF Payee, Records!Other, FromBlake160
  <2>10. outcome' = Records!Outcome("Challenge", "ok",
                    IF d = None THEN << >> ELSE <<Records!Other(a, challenger)>>, 0)
    BY <1>4, <1>10, <2>9 DEF Outcome, Records!Outcome
  <2>11. QED
    BY <1>10, <2>7, <2>8, <2>10
<1>11. \E c \in {1, 2} : Refuses(c) \/ Overflows(c) \/ Challenges(c)
  <2> HIDE DEF Overflows, Challenges
  <2>1. CASE /\ Ended("Challenge", "refused") /\ UNCHANGED <<data, witnesses, first>>
             /\ ref(challenger)
    <3>1. Refuses(challenger)
      <4>1. Records!Ended("Challenge", "refused")
        BY <2>1 DEF Ended, Outcome, Records!Ended, Records!Outcome
      <4>2. QED
        BY <2>1, <4>1 DEF d
    <3> HIDE DEF Refuses
    <3>2. QED
      BY <3>1
  <2>2. CASE ~(/\ Ended("Challenge", "refused") /\ UNCHANGED <<data, witnesses, first>>
             /\ ref(challenger))
    <3> HIDE DEF Refuses
    <3>1. Overflows(challenger) \/ Challenges(challenger)
      BY <1>7, <1>9, <1>10, <2>2, Zenon
    <3>2. QED
      BY <3>1
  <2>3. QED
    BY <2>1, <2>2
<1>12. Records!Step("Challenge")
  BY <1>7, EndedIs DEF Records!Step, Outcome
<1>13. ArgsIn[args'] = a /\ UNCHANGED ArgsIn[offer]
  BY <1>1 DEF a
<1>14. QED
  BY <1>4, <1>11, <1>12, <1>13, Zenon DEF Records!Challenge, ref, a, d

(* and the end of the channel.                                              *)
LEMMA RecordsClose ==
  ASSUME DataInv, Close
  PROVE  Records!Close
<1> DEFINE a == ArgsIn[args]
           d == ChallengeIn[data]
           refused == \/ a = Unreadable
                      \/ d = Unreadable
                      \/ d # None /\ d.challenger \notin {1, 2}
           paid == Outcome("Close", "ok",
                  <<FromBlake160(ArgsField(args, 6)), FromBlake160(ArgsField(args, 8))>>,
                  FromUint64T(ArgsField(args, 1)))
<1>1. offer' = offer /\ args # NoSlice
  BY DEF Close
<1>2. args \in Slice /\ data \in Slice
  BY DEF DataInv, TypeOK
<1>3. ArgsSafe(args) /\ ChallengeSafe(data)
  BY <1>2, ArgsAreSafe, ChallengesAreSafe
<1>4. /\ a # None /\ (a = Unreadable <=> ~ArgsVerify(args))
      /\ ArgsVerify(args) => a = ArgsValue(args)
      /\ d = None <=> data = NoSlice
      /\ d = Unreadable <=> data # NoSlice /\ ~ChallengeVerify(data)
      /\ data # NoSlice /\ ChallengeVerify(data) => d = ChallengeValue(data)
  BY <1>1, <1>2, ArgsInIs, ChallengeInIs
<1>5. data # NoSlice /\ ChallengeVerify(data) =>
        d.challenger = FromUint8T(ChallengeField(data, 2))
  BY <1>2, <1>4, ChallengeFields
<1> HIDE DEF a, d
<1>6. refused <=> \/ ~ArgsVerify(args) \/ (data # NoSlice /\ ~ChallengeVerify(data))
                  \/ data # NoSlice /\ ChallengeVerify(data) /\ FromUint8T(ChallengeField(data, 2)) \notin {1, 2}
  BY <1>4, <1>5
<1> HIDE DEF refused
<1>7. \/ /\ Ended("Close", "refused") /\ UNCHANGED <<args, data, witnesses, first>>
         /\ refused
      \/ /\ ~refused
         /\ outcome' = paid
         /\ args' = NoSlice /\ data' = NoSlice /\ witnesses' = << >> /\ first' = 0
  BY <1>3, <1>6, Zenon DEF Close
<1>8. UNCHANGED ArgsIn[offer]
  BY <1>1
<1>9. CASE /\ Ended("Close", "refused") /\ UNCHANGED <<args, data, witnesses, first>>
           /\ refused
  <2>1. Records!Ended("Close", "refused") /\ Records!Step("Close")
    BY <1>9, EndedIs DEF Ended, Outcome, Records!Ended, Records!Outcome, Records!Step
  <2>2. ArgsIn[args'] = a /\ ChallengeIn[data'] = d /\ UNCHANGED RoundsIn[witnesses]
    BY <1>9 DEF a, d
  <2>3. QED
    BY <1>8, <1>9, <2>1, <2>2, Zenon DEF Records!Close, refused, a, d
<1>10. CASE /\ ~refused
            /\ outcome' = paid
            /\ args' = NoSlice /\ data' = NoSlice /\ witnesses' = << >> /\ first' = 0
  <2>1. a = ArgsValue(args)
    BY <1>4, <1>6, <1>10
  <2>2. outcome' = Records!Outcome("Close", "ok", <<a.user1_pkhash, a.user2_pkhash>>,
                                     a.user_staking_ckb)
    BY <1>10, <2>1, ArgsValueFields DEF Outcome, Records!Outcome, FromBlake160
  <2>3. Records!Step("Close")
    BY <1>10 DEF Outcome, Records!Step
  <2>4. ArgsIn[args'] = None /\ ChallengeIn[data'] = None
    BY <1>10, EmptyFits, ArgsInIs, ChallengeInIs
  <2>5. RoundsIn[witnesses'] = << >>
    BY <1>10, NoRoundsIn, Zenon
  <2>6. QED
    BY <1>4, <1>8, <1>10, <2>2, <2>3, <2>4, <2>5, Zenon DEF Records!Close, refused, a, d
<1>11. QED
  BY <1>7, <1>9, <1>10

(* The bytes implement the records: each step of interact.rs and builder.rs *)
(* does to the values that the slices stand for what it should, for any     *)
(* terms, lists of nfts, rounds and operations that fit into a header, and  *)
(* for whatever another program may have written.                           *)
THEOREM RecordsCorrect == Spec => RecordsImplemented
<1>1. Init => Records!Init
  BY RecordsInit
<1>2. DataInv /\ DataInv' /\ [Next]_vars => [Records!Next]_(Records!vars)
  <2> SUFFICES ASSUME DataInv, DataInv', [Next]_vars
               PROVE  [Records!Next]_(Records!vars)
    OBVIOUS
  <2>1. ASSUME NEW term \in Terms, NEW pkhash \in Pkhashes, NEW nfts \in NftLists,
               NEW block \in Blocks, Prepare(term, block, pkhash, nfts)
        PROVE  Records!Next
    BY <2>1, RecordsPrepare DEF Records!Next
  <2>2. ASSUME NEW term \in Terms, NEW pkhash \in Pkhashes, NEW nfts \in NftLists,
               Complete(term, pkhash, nfts)
        PROVE  Records!Next
    BY <2>2, RecordsComplete DEF Records!Next
  <2>3. ASSUME NEW term \in Terms, NEW pkhash \in Pkhashes, NEW nfts \in NftLists,
               Sign(term, pkhash, nfts)
        PROVE  Records!Next
    BY <2>3, RecordsSign DEF Records!Next
  <2>4. CASE Open
    BY <2>4, RecordsOpen DEF Records!Next
  <2>5. ASSUME NEW challenger \in {1, 2}, Challenge(challenger)
        PROVE  Records!Next
    BY <2>5, RecordsChallenge DEF Records!Next
  <2>6. CASE Close
    BY <2>6, RecordsClose DEF Records!Next
  <2>7. CASE ForeignOffer \/ ForeignChallenge
    BY <2>7, RecordsForeign DEF Records!Next
  <2>8. CASE UNCHANGED vars
    BY <2>8 DEF vars, Records!vars
  <2>9. QED
    BY <2>1, <2>2, <2>3, <2>4, <2>5, <2>6, <2>7, <2>8 DEF Next
<1>3. QED
  BY <1>1, <1>2, DataInvCorrect, PTL DEF Spec, RecordsImplemented, Records!Spec
=============================================================================
