---------------------------- MODULE Opening_proofs ----------------------------
(******************************************************************************)
(* Proofs about the opening of a channel in Opening.tla, for any number of     *)
(* users, cells, nfts and offers, and pages of any size. First the signatures  *)
(* of Signer.tla, for transactions of any number of inputs; then the order in  *)
(* which the indexer answers, the sums over the cells of a transaction, and    *)
(* the steps by which it is put together.                                      *)
(******************************************************************************)
EXTENDS OpeningProperties, NftStore_proofs

One == Players[1]
Two == Players[2]

(* What of a cell is a user's, and what is in the channel.                    *)
MineIn(u) == [c \in Cell |-> IF c.user = u /\ c.kind # "channel" THEN c.ckb ELSE 0]
ChannelIn == [c \in Cell |-> IF c.kind = "channel" THEN c.ckb ELSE 0]

(* Cells that are only told apart by their ids; what an nft cell can pay for.  *)
PaysOwn(c) == Exact(Bytes(c)) <= c.ckb
PaysNfts(c) == c.kind = "nft" => Exact(Count(c.nfts)) <= c.ckb
Ordinals(cells) == \A c, d \in cells : c.user = d.user /\ c.id = d.id => c = d

(* The cells that are live, and the transactions that transfer some of them.  *)
LiveOK ==
  /\ \A c \in live : c.kind \notin Special /\ PaysNfts(c)
  /\ Ordinals(live)
  /\ \A tx \in pool : tx.kind = "transfer"

Args == [stake : Nat, deck : Nat, hashes : Nat, begin : Nat, users : Seq(Users),
         nfts : [Users -> Bag]]
Parts(tx) == [args |-> tx.args, ins |-> tx.ins, outs |-> tx.outs,
              witnesses |-> tx.witnesses, signers |-> tx.signers]
OpeningType(tx) ==
  /\ tx = Parts(tx) /\ tx.args \in Args
  /\ tx.ins \in Seq(Cell) /\ tx.outs \in Seq(Cell) /\ tx.signers \subseteq Users
  /\ Len(tx.witnesses) \in Nat /\ Len(tx.witnesses) <= Len(tx.ins)

(* Who has put something in: the user who prepares, then the one who completes. *)
Alone(k, tx) == tx.args.users = <<One>> /\ tx.outs[1].ckb = Half(k[One])
Joint(k, tx) == /\ tx.args.users = <<One, Two>> /\ tx.outs[1].ckb = 2 * Half(k[One])
                /\ Half(k[One]) = Half(k[Two])
Part(tx, c) == c.user \in ToSet(tx.args.users) /\ c.kind \in {"plain", "nft"}

(* What a cell of the users may fall short of.                                *)
Void(tx, u) == \A n \in Nfts : SumOut(NftsIn(u, n), tx.ins) = 0
Funded(tx, c) ==
  \/ PaysOwn(c)
  \/ c.kind = "plain" /\ (c.ckb \in 1 .. (Base - 1) \/ Void(tx, c.user))

(* What all transactions have in common that open a channel.                  *)
Formed(k, tx) ==
  /\ OpeningType(tx)
  /\ Half(k[One]) > 0 /\ (Alone(k, tx) \/ Joint(k, tx))
  /\ IsInjective(tx.ins)
  /\ \A i \in DOMAIN tx.ins : Part(tx, tx.ins[i]) /\ PaysNfts(tx.ins[i])
  /\ tx.outs # << >> /\ tx.outs[1].kind = "channel"
  /\ \A i \in DOMAIN tx.outs \ {1} : Part(tx, tx.outs[i]) /\ Funded(tx, tx.outs[i])

Balanced(tx, u) ==
  \A n \in Nfts : SumOut(NftsIn(u, n), tx.ins) = SumOut(NftsIn(u, n), tx.outs)
PaidBy(k, tx) ==
  SumOut(MineIn(One), tx.ins) = SumOut(MineIn(One), tx.outs) + (Half(k[One]) + OpenFee)
PaidUp(tx) == SumOut(CkbIn, tx.ins) = SumOut(CkbIn, tx.outs) + OpenFee

(* What a player has checked before signing, and that the signature is good.   *)
SignedOK(k, tx, u) ==
  /\ tx.outs[1].ckb = 2 * Half(k[u])
  /\ u \in ToSet(tx.args.users) => tx.args.nfts[u] = k[u].nfts
  /\ u \in ToSet(Locks(tx)) => Signed(tx, u)
  /\ Backed(tx)

OfferOK(k, tx) ==
  /\ Formed(k, tx)
  /\ Len(tx.outs) <= IF Alone(k, tx) THEN 3 ELSE 5
  /\ \A u \in Users : Balanced(tx, u)
  /\ PaidBy(k, tx) /\ PaidUp(tx)
  /\ \A u \in {One, Two} : u \in tx.signers => SignedOK(k, tx, u)

(* A cell the indexer has been past.                                          *)
Behind(c, cursor) == \E d \in cursor : c.id <= d.id

Sought(u, t, c) ==
  c.user = u =>
    /\ t.at = "nfts" => c.kind = "nft"
    /\ t.at = "nfts" \/ c.kind = "plain" => Behind(c, t.cursor)
Collecting(k, u, t) ==
  /\ t = [at |-> t.at, tx |-> t.tx, cursor |-> t.cursor, missing |-> t.missing]
  /\ t.at \in {"nfts", "ckb"} /\ t.cursor \subseteq Cell
  /\ Formed(k, t.tx)
  /\ One \notin t.tx.signers /\ Two \notin t.tx.signers
  /\ \/ u = One /\ Alone(k, t.tx)
     \/ u = Two /\ Joint(k, t.tx) /\ PaidBy(k, t.tx)
  /\ Len(t.tx.outs) <= (IF u = One THEN 1 ELSE 3) + (IF t.at = "ckb" THEN 1 ELSE 0)
  /\ \A v \in Users \ {u} : Balanced(t.tx, v)
  /\ t.at = "nfts" => \A i \in DOMAIN t.tx.outs \ {1} : t.tx.outs[i].user # u
  /\ t.at = "ckb" => Balanced(t.tx, u)
  /\ \A i \in DOMAIN t.tx.ins : Sought(u, t, t.tx.ins[i])

TaskOK(k, u, t) == t = Idle \/ Collecting(k, u, t)

OpeningInv ==
  /\ Core /\ LiveOK
  /\ ask \in [Users -> Ask] /\ prepared \in Nat
  /\ \A tx \in offers : OfferOK(ask, tx)
  /\ task = [u \in Users |-> task[u]]
  /\ \A u \in Users : TaskOK(ask, u, task[u])
--------------------------------------------------------------------------------
(* A lock that some input has, has a first input, and only one.             *)
LEMMA FirstInput ==
  ASSUME NEW L, NEW locks \in Seq(L), NEW lock, S!Group(locks, lock) # {}
  PROVE  S!First(locks, lock) \in S!Group(locks, lock)
<1>1. S!Group(locks, lock) \in SUBSET Nat
  BY DEF S!Group
<1>2. \E x \in S!Group(locks, lock) : \A y \in S!Group(locks, lock) : x <= y
  BY <1>1, Least, Zenon
<1>3. QED
  BY <1>2 DEF S!First

(* What sign leaves at each input: a signature at the first input of every  *)
(* lock the wallet has the key of, and elsewhere what was there.            *)
Left(locks, hash, witnesses, key, enabled, i) ==
  IF locks[i] \in enabled /\ i = S!First(locks, locks[i])
  THEN S!sign_input(locks, hash, witnesses, locks[i], key, << >>)
  ELSE S!At(witnesses, i)

LEMMA SignIs ==
  ASSUME NEW L, NEW locks \in Seq(L), NEW hash, NEW witnesses, NEW key, NEW enabled
  PROVE  /\ Len(S!sign(locks, hash, witnesses, key, enabled, << >>)) = Len(locks)
         /\ S!sign(locks, hash, witnesses, key, enabled, << >>)
              = [i \in DOMAIN locks |-> Left(locks, hash, witnesses, key, enabled, i)]
<1> DEFINE w(j) == Left(locks, hash, witnesses, key, enabled, j)
           f == [j \in DOMAIN locks |-> w(j)]
           W == {w(j) : j \in DOMAIN locks}
<1>1. f \in Seq(W) /\ Len(f) = Len(locks)
  <2> HIDE DEF w
  <2>1. DOMAIN locks = 1 .. Len(locks) /\ Len(locks) \in Nat
    OBVIOUS
  <2>2. f \in [1 .. Len(locks) -> W]
    BY <2>1
  <2>3. QED
    BY <2>1, <2>2
<1>2. f \o << >> = f
  BY <1>1, ConcatEmptySeq, Zenon
<1>3. f = S!sign(locks, hash, witnesses, key, enabled, << >>)
  BY <1>2, Zenon DEF S!sign, Left
<1>4. QED
  BY <1>1, <1>3, Zenon

LEMMA SignAt ==
  ASSUME NEW L, NEW locks \in Seq(L), NEW hash, NEW witnesses, NEW key,
         NEW enabled,
         NEW i \in DOMAIN locks
  PROVE  /\ i \in DOMAIN S!sign(locks, hash, witnesses, key, enabled, << >>)
         /\ Len(S!sign(locks, hash, witnesses, key, enabled, << >>)) = Len(locks)
         /\ S!sign(locks, hash, witnesses, key, enabled, << >>)[i] =
              IF locks[i] \in enabled /\ i = S!First(locks, locks[i])
              THEN S!sign_input(locks, hash, witnesses, locks[i], key, << >>)
              ELSE S!At(witnesses, i)
<1> DEFINE signed == S!sign(locks, hash, witnesses, key, enabled, << >>)
<1>1. /\ Len(signed) = Len(locks)
      /\ signed = [j \in DOMAIN locks |-> Left(locks, hash, witnesses, key, enabled, j)]
  BY SignIs
<1> HIDE DEF signed
<1>2. i \in DOMAIN signed /\ signed[i] = Left(locks, hash, witnesses, key, enabled, i)
  BY <1>1
<1>3. QED
  BY <1>1, <1>2, Zenon DEF signed, Left

(* Nothing is beyond the inputs: there are no further witnesses.            *)
LEMMA NothingBeyond ==
  ASSUME NEW n \in Nat, NEW w, Len(w) \in Nat, Len(w) <= n
  PROVE  SubSeq(w, n + 1, Len(w)) = << >>
<1>1. 1 .. (1 + Len(w) - (n + 1)) = {}
  OBVIOUS
<1>2. QED
  BY <1>1

(* A wallet that has the key of a lock opens the lock's inputs by signing,  *)
(* whatever was in the witnesses before (wallet/signer.rs:14-60): what it   *)
(* hashes of the group's other witnesses is what it leaves in them.         *)
THEOREM SignUnlocks ==
  ASSUME NEW L, NEW locks \in Seq(L), NEW hash, NEW witnesses,
         NEW lock, NEW enabled, lock \in enabled,
         S!Group(locks, lock) # {}
  PROVE  S!Unlocks(locks, hash,
                 S!sign(locks, hash, witnesses, lock, enabled, << >>), lock)
<1> DEFINE first == S!First(locks, lock)
           signed == S!sign(locks, hash, witnesses, lock, enabled, << >>)
           rest == [i \in S!Group(locks, lock) \ {first} |-> S!At(signed, i)]
<1>1. first \in DOMAIN locks /\ locks[first] = lock
  BY FirstInput, Zenon DEF S!Group
<1>2. ASSUME NEW i \in DOMAIN locks
      PROVE  /\ i \in DOMAIN signed
             /\ Len(signed) = Len(locks)
             /\ signed[i] =
                  IF locks[i] \in enabled /\ i = S!First(locks, locks[i])
                  THEN S!sign_input(locks, hash, witnesses, locks[i], lock, << >>)
                  ELSE S!At(witnesses, i)
  BY SignAt
<1> HIDE DEF signed
<1>3. S!At(signed, first)
        = S!sign_input(locks, hash, witnesses, lock, lock, << >>)
  BY <1>1, <1>2 DEF S!At
<1>4. \A i \in S!Group(locks, lock) \ {first} : S!At(signed, i) = S!At(witnesses, i)
  BY <1>2 DEF S!Group, S!At
<1>5. rest = S!GroupWitnesses(locks, witnesses, lock)
  BY <1>4, Zenon DEF S!GroupWitnesses
<1>6. SubSeq(signed, Len(locks) + 1, Len(signed)) = << >>
  BY <1>1, <1>2, Len(locks) \in Nat, NothingBeyond
<1>7. S!At(signed, first) = S!Witness(lock, S!Digest(hash, rest, << >>))
  BY <1>3, <1>5, Zenon DEF S!sign_input
<1>8. QED
  BY <1>6, <1>7, Zenon DEF S!Unlocks, signed

(* What another wallet has signed stays good when this one signs after it   *)
(* (wallet/signer.rs:35-49): its witnesses are not touched, first or not.   *)
THEOREM SignKeeps ==
  ASSUME NEW L, NEW locks \in Seq(L), NEW hash, NEW witnesses,
         NEW key, NEW enabled, NEW other, other \notin enabled,
         S!Group(locks, other) # {},
         Len(witnesses) \in Nat, Len(witnesses) <= Len(locks),
         S!Unlocks(locks, hash, witnesses, other)
  PROVE  S!Unlocks(locks, hash,
                 S!sign(locks, hash, witnesses, key, enabled, << >>), other)
<1> DEFINE first == S!First(locks, other)
           signed == S!sign(locks, hash, witnesses, key, enabled, << >>)
           before == [i \in S!Group(locks, other) \ {first} |-> S!At(witnesses, i)]
           rest == [i \in S!Group(locks, other) \ {first} |-> S!At(signed, i)]
<1>1. first \in S!Group(locks, other)
  BY FirstInput, Zenon
<1>2. ASSUME NEW i \in DOMAIN locks
      PROVE  /\ i \in DOMAIN signed
             /\ Len(signed) = Len(locks)
             /\ signed[i] =
                  IF locks[i] \in enabled /\ i = S!First(locks, locks[i])
                  THEN S!sign_input(locks, hash, witnesses, locks[i], key, << >>)
                  ELSE S!At(witnesses, i)
  BY SignAt
<1> HIDE DEF signed
<1>3. \A i \in S!Group(locks, other) : S!At(signed, i) = S!At(witnesses, i)
  BY <1>2 DEF S!Group, S!At
<1>4. rest = before
  BY <1>3, Zenon
<1>5. SubSeq(signed, Len(locks) + 1, Len(signed)) = << >>
  <2>1. Len(signed) = Len(locks)
    BY <1>1, <1>2, Zenon DEF S!Group
  <2>2. QED
    BY <2>1, Len(locks) \in Nat, NothingBeyond
<1>6. SubSeq(witnesses, Len(locks) + 1, Len(witnesses)) = << >>
  BY Len(locks) \in Nat, NothingBeyond
<1>7. S!At(witnesses, first) = S!Witness(other, S!Digest(hash, before, << >>))
  BY <1>6, Zenon DEF S!Unlocks
<1>8. S!At(signed, first) = S!Witness(other, S!Digest(hash, rest, << >>))
  BY <1>1, <1>3, <1>4, <1>7, Zenon
<1>9. QED
  BY <1>5, <1>8, Zenon DEF S!Unlocks, signed
--------------------------------------------------------------------------------
(* The sum of two functions is the sum of their sums.                         *)
LEMMA SumPlus ==
  ASSUME NEW f, NEW g, NEW h, NEW A, IsFiniteSet(A),
         \A x \in A : f[x] = g[x] + h[x] /\ g[x] \in Int /\ h[x] \in Int
  PROVE  Sum(f, A) = Sum(g, A) + Sum(h, A)
<1> DEFINE T == {n \in Nat : \A R \in SUBSET A : Cardinality(R) = n =>
                    Sum(f, R) = Sum(g, R) + Sum(h, R)}
<1>1. \A s \in SUBSET A : IsFiniteSet(s) /\ Cardinality(s) \in Nat
  BY FS_Subset, FS_CardinalityType
<1>2. 0 \in T
  <2> SUFFICES ASSUME NEW R \in SUBSET A, Cardinality(R) = 0
               PROVE  Sum(f, R) = Sum(g, R) + Sum(h, R)
    OBVIOUS
  <2>1. R = {}
    BY <1>1, FS_EmptySet
  <2>2. Sum(f, R) = 0 /\ Sum(g, R) = 0 /\ Sum(h, R) = 0
    BY <2>1, SumEmpty
  <2>3. QED
    BY <2>2
<1>3. ASSUME NEW n \in Nat, n \in T
      PROVE  n + 1 \in T
  <2> SUFFICES ASSUME NEW R \in SUBSET A, Cardinality(R) = n + 1
               PROVE  Sum(f, R) = Sum(g, R) + Sum(h, R)
    OBVIOUS
  <2>1. PICK x : x \in R
    BY FS_EmptySet
  <2> DEFINE Q == R \ {x}
  <2>2. Q \in SUBSET A /\ Cardinality(Q) = n /\ IsFiniteSet(Q) /\ IsFiniteSet(R)
    BY <1>1, <2>1, Smaller
  <2>3. \A y \in R : f[y] \in Int /\ g[y] \in Int /\ h[y] \in Int
    OBVIOUS
  <2>4. /\ Sum(f, R) = f[x] + Sum(f, Q) /\ Sum(g, R) = g[x] + Sum(g, Q)
        /\ Sum(h, R) = h[x] + Sum(h, Q)
    BY <2>1, <2>2, <2>3, SumRemove
  <2> HIDE DEF Q
  <2>5. Sum(f, Q) = Sum(g, Q) + Sum(h, Q) /\ Sum(g, Q) \in Int /\ Sum(h, Q) \in Int
    BY <1>3, <2>2, SumType
  <2>6. f[x] = g[x] + h[x] /\ g[x] \in Int /\ h[x] \in Int
    BY <2>1
  <2>7. QED
    BY <2>4, <2>5, <2>6
<1> HIDE DEF T
<1>4. Cardinality(A) \in T
  BY <1>1, <1>2, <1>3, Induct
<1>5. QED
  BY <1>4 DEF T

(* A sum of terms that are not less.                                          *)
LEMMA SumAtLeast ==
  ASSUME NEW f, NEW g, NEW A, IsFiniteSet(A), \A x \in A : f[x] \in Nat /\ g[x] \in Nat /\ g[x] <= f[x]
  PROVE  Sum(g, A) <= Sum(f, A) /\ Sum(g, A) \in Nat /\ Sum(f, A) \in Nat
<1> DEFINE h == [x \in A |-> f[x] - g[x]]
<1>1. \A x \in A : f[x] = g[x] + h[x] /\ g[x] \in Int /\ h[x] \in Int /\ h[x] \in Nat
  OBVIOUS
<1> HIDE DEF h
<1>2. Sum(f, A) = Sum(g, A) + Sum(h, A)
  BY <1>1, SumPlus
<1>3. Sum(f, A) \in Nat /\ Sum(g, A) \in Nat /\ Sum(h, A) \in Nat
  BY <1>1, SumType
<1>4. QED
  BY <1>2, <1>3

LEMMA MeasureNat ==
  ASSUME NEW f, Measure(f), NEW c \in Cell
  PROVE  f[c] \in Nat
  BY DEF Measure

(* What some of the cells of a list hold, by a measure that is zero for others. *)
LEMMA SumOutAt ==
  ASSUME NEW f, Measure(f), NEW cells \in Seq(Cell), NEW at, at \subseteq DOMAIN cells, NEW g,
         \A i \in at : g[i] = f[cells[i]],
         \A i \in DOMAIN cells \ at : f[cells[i]] = 0
  PROVE  SumFunctionOnSet(g, at) = SumOut(f, cells)
<1> DEFINE h == [i \in DOMAIN cells |-> f[cells[i]]]
           rest == DOMAIN cells \ at
<1>1. /\ IsFiniteSet(at) /\ IsFiniteSet(rest) /\ at \cap rest = {} /\ at \cup rest = DOMAIN cells
  BY OutsFinite, FS_Subset
<1>2. \A i \in at \cup rest : h[i] \in Int
  <2>1. \A i \in DOMAIN cells : f[cells[i]] \in Nat
    BY OutsFinite, MeasureNat
  <2>2. QED
    BY <1>1, <2>1
<1>3. \A i \in at : h[i] = g[i]
  OBVIOUS
<1>4. \A i \in rest : h[i] = 0
  OBVIOUS
<1>5. SumOut(f, cells) = Sum(h, at \cup rest)
  BY <1>1, Zenon DEF SumOut
<1> HIDE DEF h, rest
<1>6. Sum(h, at \cup rest) = Sum(h, at) + Sum(h, rest)
  BY <1>1, <1>2, SumUnion
<1>7. Sum(h, rest) = 0
  BY <1>1, <1>4, SumZero
<1>8. Sum(h, at) = Sum(g, at) /\ Sum(h, at) \in Int
  BY <1>1, <1>2, <1>3, SumSame, SumType
<1>9. SumFunctionOnSet(g, at) = Sum(g, at)
  BY Zenon DEF Sum
<1>10. QED
  BY <1>5, <1>6, <1>7, <1>8, <1>9

LEMMA MineMeasure ==
  ASSUME NEW u
  PROVE  Measure(MineIn(u))
  BY DEF Measure, MineIn, Cell

LEMMA ChannelMeasure == Measure(ChannelIn)
  BY DEF Measure, ChannelIn, Cell

LEMMA CkbAtIs ==
  ASSUME NEW cells \in Seq(Cell)
  PROVE  /\ CkbOf(cells) = SumOut(CkbIn, cells)
         /\ \A u : CkbAt(cells, Owned(cells, u)) = SumOut(MineIn(u), cells)
<1> DEFINE g == [i \in DOMAIN cells |-> cells[i].ckb]
<1>1. \A i \in DOMAIN cells : cells[i] \in Cell /\ g[i] = cells[i].ckb
  BY OutsFinite
<1>2. /\ CkbOf(cells) = SumFunctionOnSet(g, DOMAIN cells)
      /\ \A u : CkbAt(cells, Owned(cells, u)) = SumFunctionOnSet(g, Owned(cells, u))
  BY Zenon DEF CkbOf, CkbAt
<1> HIDE DEF g
<1>3. SumFunctionOnSet(g, DOMAIN cells) = SumOut(CkbIn, cells)
  <2>1. \A i \in DOMAIN cells : g[i] = CkbIn[cells[i]]
    BY <1>1 DEF CkbIn
  <2>2. \A i \in DOMAIN cells \ DOMAIN cells : CkbIn[cells[i]] = 0
    OBVIOUS
  <2>3. QED
    BY <2>1, <2>2, CkbMeasure, SumOutAt
<1>4. ASSUME NEW u
      PROVE  SumFunctionOnSet(g, Owned(cells, u)) = SumOut(MineIn(u), cells)
  <2> DEFINE at == Owned(cells, u)
  <2>1. at \subseteq DOMAIN cells
    BY DEF Owned
  <2>2. \A i \in at : g[i] = MineIn(u)[cells[i]]
    BY <1>1 DEF MineIn, Owned
  <2>3. \A i \in DOMAIN cells \ at : MineIn(u)[cells[i]] = 0
    BY <1>1 DEF MineIn, Owned
  <2> HIDE DEF at
  <2>4. SumFunctionOnSet(g, at) = SumOut(MineIn(u), cells)
    BY <2>1, <2>2, <2>3, MineMeasure, SumOutAt
  <2>5. QED
    BY <2>4 DEF at
<1>5. QED
  BY <1>2, <1>3, <1>4

LEMMA NftsAtIs ==
  ASSUME NEW cells \in Seq(Cell), NEW u
  PROVE  /\ NftsAt(cells, NftCells(cells, u)) \in Bag
         /\ \A n \in Nfts : NftsAt(cells, NftCells(cells, u))[n] = SumOut(NftsIn(u, n), cells)
<1> DEFINE at == NftCells(cells, u)
<1>1. ASSUME NEW n \in Nfts
      PROVE  SumFunctionOnSet([i \in DOMAIN cells |-> cells[i].nfts[n]], at) = SumOut(NftsIn(u, n), cells)
  <2> DEFINE g == [i \in DOMAIN cells |-> cells[i].nfts[n]]
             f == NftsIn(u, n)
  <2>1. at \subseteq DOMAIN cells
    BY DEF NftCells
  <2>2. \A i \in at : g[i] = f[cells[i]]
    BY OutsFinite DEF NftsIn, NftCells
  <2>3. \A i \in DOMAIN cells \ at : f[cells[i]] = 0
    BY OutsFinite DEF NftsIn, NftCells
  <2>4. Measure(f)
    BY NftsMeasure
  <2> HIDE DEF at, g, f
  <2>5. SumFunctionOnSet(g, at) = SumOut(f, cells)
    BY <2>1, <2>2, <2>3, <2>4, SumOutAt
  <2>6. QED
    BY <2>5 DEF g, f
<1>2. NftsAt(cells, at) = [n \in Nfts |-> SumFunctionOnSet([i \in DOMAIN cells |-> cells[i].nfts[n]], at)]
  BY DEF NftsAt
<1> HIDE DEF at
<1>3. \A n \in Nfts : NftsAt(cells, at)[n] = SumOut(NftsIn(u, n), cells)
  BY <1>1, <1>2
<1>4. \A n \in Nfts : SumOut(NftsIn(u, n), cells) \in Nat
  BY NftsMeasure, SumOutNat
<1>5. NftsAt(cells, at) \in Bag
  BY <1>2, <1>3, <1>4 DEF Bag
<1>6. QED
  BY <1>3, <1>5 DEF at

(* One list after another.                                                    *)
LEMMA SumOutConcat ==
  ASSUME NEW f, Measure(f), NEW a \in Seq(Cell), NEW b \in Seq(Cell)
  PROVE  SumOut(f, a \o b) = SumOut(f, a) + SumOut(f, b)
<1> DEFINE n == Len(a)
           m == Len(b)
           both == a \o b
           g == [i \in DOMAIN both |-> f[both[i]]]
           ga == [i \in DOMAIN a |-> f[a[i]]]
           gb == [i \in DOMAIN b |-> f[b[i]]]
           h == [i \in 1 .. m |-> n + i]
           second == {h[i] : i \in 1 .. m}
<1>1. /\ n \in Nat /\ m \in Nat /\ DOMAIN a = 1 .. n /\ DOMAIN b = 1 .. m
      /\ DOMAIN both = 1 .. (n + m)
      /\ \A i \in 1 .. n : both[i] = a[i] /\ a[i] \in Cell
      /\ \A i \in 1 .. m : both[n + i] = b[i] /\ b[i] \in Cell
  OBVIOUS
<1>2. \A i \in 1 .. m : h[i] = n + i
  OBVIOUS
<1>3. \A i \in second : i \in n + 1 .. n + m
  BY <1>1
<1>4. \A i \in n + 1 .. n + m : i - n \in 1 .. m /\ h[i - n] = i
  BY <1>1
<1>5. /\ (1 .. n) \cup second = 1 .. (n + m) /\ (1 .. n) \cap second = {}
  <2> HIDE DEF h, second
  <2>1. \A i \in n + 1 .. n + m : i \in second
    BY <1>4 DEF second
  <2>2. QED
    BY <1>1, <1>3, <2>1
<1>6. /\ SumOut(f, both) = Sum(g, DOMAIN both) /\ SumOut(f, a) = Sum(ga, DOMAIN a)
      /\ SumOut(f, b) = Sum(gb, DOMAIN b)
  BY Zenon DEF SumOut
<1>7. /\ \A i \in 1 .. n : g[i] = ga[i] /\ g[i] \in Int
      /\ \A i \in 1 .. m : g[h[i]] = gb[i] /\ gb[i] \in Int
  <2>1. \A i \in 1 .. n : i \in DOMAIN both /\ g[i] = f[a[i]] /\ ga[i] = f[a[i]]
    BY <1>1
  <2>2. \A i \in 1 .. m : n + i \in DOMAIN both /\ g[n + i] = f[b[i]] /\ gb[i] = f[b[i]]
    BY <1>1
  <2> HIDE DEF both, g, ga, gb, h
  <2>3. \A i \in 1 .. n : f[a[i]] \in Int
    BY <1>1, MeasureNat
  <2>4. \A i \in 1 .. m : f[b[i]] \in Int
    BY <1>1, MeasureNat
  <2>5. QED
    BY <1>2, <2>1, <2>2, <2>3, <2>4
<1>8. IsFiniteSet(1 .. n) /\ IsFiniteSet(1 .. m)
  BY <1>1, FS_Interval
<1>9. \A i, j \in 1 .. m : h[i] = h[j] => i = j
  BY <1>1
<1> HIDE DEF n, m, both, g, ga, gb, h
<1>10. \A i \in (1 .. n) \cup second : g[i] \in Int
  BY <1>7
<1> DEFINE R == 1 .. m
<1>16. IsFiniteSet(R) /\ (\A i, j \in R : h[i] = h[j] => i = j)
       /\ (\A i \in R : g[h[i]] = gb[i] /\ gb[i] \in Int) /\ second = {h[i] : i \in R}
  BY <1>7, <1>8, <1>9
<1>11. IsFiniteSet(second) /\ Sum(g, second) = Sum(gb, R)
  <2> HIDE DEF R, second
  <2>1. QED
    BY ONLY <1>16, SumImage
<1> HIDE DEF second
<1>12. Sum(g, (1 .. n) \cup second) = Sum(g, 1 .. n) + Sum(g, second)
  BY <1>5, <1>8, <1>10, <1>11, SumUnion
<1>13. Sum(g, 1 .. n) = Sum(ga, 1 .. n)
  BY <1>7, <1>8, SumSame
<1>14. SumOut(f, both) = SumOut(f, a) + SumOut(f, b)
  BY <1>1, <1>5, <1>6, <1>11, <1>12, <1>13
<1>15. QED
  BY <1>14 DEF both

LEMMA SumOutNil ==
  ASSUME NEW f
  PROVE  SumOut(f, << >>) = 0
<1>1. DOMAIN << >> = {}
  OBVIOUS
<1>2. QED
  BY <1>1, SumEmpty DEF SumOut

(* A first cell that counts as the one in its place.                          *)
LEMMA SumOutFirst ==
  ASSUME NEW f, NEW a \in Seq(Cell), NEW b \in Seq(Cell), Len(b) = Len(a),
         \A i \in DOMAIN a : f[b[i]] = f[a[i]]
  PROVE  SumOut(f, b) = SumOut(f, a)
<1> DEFINE g == [i \in DOMAIN a |-> f[a[i]]]
           h == [i \in DOMAIN b |-> f[b[i]]]
<1>1. DOMAIN a = DOMAIN b
  OBVIOUS
<1>2. SumOut(f, a) = Sum(g, DOMAIN a) /\ SumOut(f, b) = Sum(h, DOMAIN b)
  BY Zenon DEF SumOut
<1>3. \A i \in DOMAIN a : g[i] = h[i]
  BY <1>1
<1> HIDE DEF g, h
<1>4. Sum(g, DOMAIN a) = Sum(h, DOMAIN a)
  BY <1>3, OutsFinite, SumSame
<1>5. QED
  BY <1>1, <1>2, <1>4

(* Cells that count for nothing.                                              *)
LEMMA SumOutZero ==
  ASSUME NEW f, NEW a \in Seq(Cell), \A i \in DOMAIN a : f[a[i]] = 0
  PROVE  SumOut(f, a) = 0
<1> DEFINE g == [i \in DOMAIN a |-> f[a[i]]]
<1>1. SumOut(f, a) = Sum(g, DOMAIN a)
  BY Zenon DEF SumOut
<1>2. \A i \in DOMAIN a : g[i] = 0
  OBVIOUS
<1> HIDE DEF g
<1>3. QED
  BY <1>1, <1>2, OutsFinite, SumZero

(* What nobody's list may count is in its first cell.                         *)
LEMMA SumOutOnly ==
  ASSUME NEW f, Measure(f), NEW a \in Seq(Cell), a # << >>,
         \A i \in DOMAIN a \ {1} : f[a[i]] = 0
  PROVE  SumOut(f, a) = f[a[1]]
<1> DEFINE g == [i \in DOMAIN a |-> f[a[i]]]
<1>1. SumOut(f, a) = Sum(g, DOMAIN a)
  BY Zenon DEF SumOut
<1>2. 1 \in DOMAIN a /\ a[1] \in Cell
  OBVIOUS
<1>3. \A i \in DOMAIN a : g[i] \in Int
  BY OutsFinite, MeasureNat
<1>4. g[1] = f[a[1]] /\ \A i \in DOMAIN a \ {1} : g[i] = 0
  BY <1>2
<1>5. IsFiniteSet(DOMAIN a) /\ IsFiniteSet(DOMAIN a \ {1})
  BY OutsFinite, FS_Subset
<1> HIDE DEF g
<1>6. Sum(g, DOMAIN a) = g[1] + Sum(g, DOMAIN a \ {1})
  BY <1>2, <1>3, <1>5, SumRemove
<1>7. Sum(g, DOMAIN a \ {1}) = 0
  BY <1>4, <1>5, SumZero
<1>8. g[1] \in Int
  BY <1>2, <1>3
<1>9. QED
  BY <1>1, <1>4, <1>6, <1>7, <1>8

(* What each cell counts for, of two measures that add up to a third.         *)
Splits(f, g, h, a) == \A i \in DOMAIN a : f[a[i]] = g[a[i]] + h[a[i]]

LEMMA SumOutPlus ==
  ASSUME NEW f, NEW g, Measure(g), NEW h, Measure(h), NEW a \in Seq(Cell), Splits(f, g, h, a)
  PROVE  SumOut(f, a) = SumOut(g, a) + SumOut(h, a)
<1> DEFINE ff == [i \in DOMAIN a |-> f[a[i]]]
           gg == [i \in DOMAIN a |-> g[a[i]]]
           hh == [i \in DOMAIN a |-> h[a[i]]]
           at == DOMAIN a
<1>1. SumOut(f, a) = Sum(ff, at) /\ SumOut(g, a) = Sum(gg, at) /\ SumOut(h, a) = Sum(hh, at)
  BY Zenon DEF SumOut
<1>2. \A i \in at : ff[i] = gg[i] + hh[i] /\ gg[i] \in Int /\ hh[i] \in Int
  BY OutsFinite, MeasureNat DEF Splits
<1>3. IsFiniteSet(at)
  BY OutsFinite
<1> HIDE DEF ff, gg, hh, at
<1>4. Sum(ff, at) = Sum(gg, at) + Sum(hh, at)
  BY <1>2, <1>3, SumPlus
<1>5. QED
  BY <1>1, <1>4

(* A list in which no cell is twice.                                          *)
LEMMA SumOutSet ==
  ASSUME NEW f, Measure(f), NEW a \in Seq(Cell), IsInjective(a)
  PROVE  /\ Sum(f, ToSet(a)) = SumOut(f, a) /\ IsFiniteSet(ToSet(a)) /\ ToSet(a) \subseteq Cell
<1> DEFINE g == [i \in DOMAIN a |-> f[a[i]]]
           at == DOMAIN a
<1>1. SumOut(f, a) = Sum(g, at)
  BY Zenon DEF SumOut
<1>2. /\ \A i, j \in at : a[i] = a[j] => i = j
      /\ \A i \in at : f[a[i]] = g[i] /\ g[i] \in Int /\ a[i] \in Cell
  BY OutsFinite, MeasureNat DEF IsInjective
<1>3. ToSet(a) = {a[i] : i \in at}
  BY DEF ToSet
<1>4. IsFiniteSet(at)
  BY OutsFinite
<1> HIDE DEF g, at
<1>5. IsFiniteSet({a[i] : i \in at}) /\ Sum(f, {a[i] : i \in at}) = Sum(g, at)
  BY <1>2, <1>4, SumImage
<1>6. QED
  BY <1>1, <1>2, <1>3, <1>5

(* How many nfts there are of all kinds, in some bags.                        *)
Counted(b) == [i \in DOMAIN b |-> Count(b[i])]
All(b, at) == [n \in Nfts |-> Sum([i \in DOMAIN b |-> b[i][n]], at)]

LEMMA CountIs ==
  ASSUME NEW b \in Bag
  PROVE  Count(b) = Sum(b, Nfts) /\ Count(b) \in Nat
<1>1. Count(b) = Sum(b, Nfts)
  BY Zenon DEF Count, Sum, SumFunction, Bag
<1>2. QED
  BY <1>1, CountNat DEF Bag

LEMMA CountAll ==
  ASSUME NEW A, IsFiniteSet(A), NEW b \in [A -> Bag]
  PROVE  Count(All(b, A)) = Sum(Counted(b), A)
<1> DEFINE T == {k \in Nat : \A R \in SUBSET A : Cardinality(R) = k =>
                    All(b, R) \in Bag /\ Count(All(b, R)) = Sum(Counted(b), R)}
           term(n) == [i \in DOMAIN b |-> b[i][n]]
<1>1. \A s \in SUBSET A : IsFiniteSet(s) /\ Cardinality(s) \in Nat
  BY FS_Subset, FS_CardinalityType
<1>2. IsFiniteSet(Nfts) /\ DOMAIN b = A /\ \A i \in A : b[i] \in Bag
  BY StoreAssumption
<1>3. \A i \in A : Counted(b)[i] = Count(b[i]) /\ Counted(b)[i] \in Int
  BY <1>2, CountIs DEF Counted
<1>4. \A n \in Nfts : \A i \in A : term(n)[i] = b[i][n] /\ term(n)[i] \in Int
  BY <1>2 DEF Bag
<1>5. \A R : All(b, R) = [n \in Nfts |-> Sum(term(n), R)]
  BY DEF All
<1> HIDE DEF term
<1>6. 0 \in T
  <2>1. \A n \in Nfts : All(b, {})[n] = 0
    BY <1>5, SumEmpty
  <2>2. All(b, {}) \in Bag
    BY <1>5, SumEmpty DEF Bag
  <2>3. Count(All(b, {})) = 0
    BY <1>2, <2>1, <2>2, CountIs, SumZero
  <2>4. Sum(Counted(b), {}) = 0
    BY SumEmpty
  <2>5. \A R \in SUBSET A : Cardinality(R) = 0 => R = {}
    BY <1>1, FS_EmptySet
  <2>6. QED
    BY <2>2, <2>3, <2>4, <2>5
<1>7. ASSUME NEW k \in Nat, k \in T
      PROVE  k + 1 \in T
  <2> SUFFICES ASSUME NEW R \in SUBSET A, Cardinality(R) = k + 1
               PROVE  All(b, R) \in Bag /\ Count(All(b, R)) = Sum(Counted(b), R)
    OBVIOUS
  <2>1. PICK x : x \in R
    BY FS_EmptySet
  <2> DEFINE Q == R \ {x}
  <2>2. Q \in SUBSET A /\ Cardinality(Q) = k /\ IsFiniteSet(Q) /\ IsFiniteSet(R) /\ x \in A /\ R \subseteq A
    BY <1>1, <2>1, Smaller
  <2>3. Sum(Counted(b), R) = Counted(b)[x] + Sum(Counted(b), Q)
    <3>1. \A i \in R : Counted(b)[i] \in Int
      BY <1>3
    <3>2. QED
      BY <2>1, <2>2, <3>1, SumRemove
  <2>4. ASSUME NEW n \in Nfts
        PROVE  All(b, R)[n] = b[x][n] + All(b, Q)[n]
    <3>1. \A i \in R : term(n)[i] \in Int
      BY <1>4, <2>2
    <3>2. Sum(term(n), R) = term(n)[x] + Sum(term(n), Q)
      BY <2>1, <2>2, <3>1, SumRemove
    <3> HIDE DEF Q
    <3>3. QED
      BY <1>4, <1>5, <2>2, <3>2
  <2> HIDE DEF Q
  <2>5. All(b, Q) \in Bag /\ Count(All(b, Q)) = Sum(Counted(b), Q)
    BY <1>7, <2>2
  <2>6. b[x] \in Bag /\ \A n \in Nfts : b[x][n] \in Nat /\ All(b, Q)[n] \in Nat
    BY <1>2, <2>2, <2>5 DEF Bag
  <2>7. All(b, R) \in Bag
    <3>1. \A n \in Nfts : All(b, R)[n] \in Nat
      BY <2>4, <2>6
    <3>2. All(b, R) = [n \in Nfts |-> All(b, R)[n]]
      BY <1>5
    <3>3. QED
      BY <3>1, <3>2 DEF Bag
  <2>8. Sum(All(b, R), Nfts) = Sum(b[x], Nfts) + Sum(All(b, Q), Nfts)
    <3>1. \A n \in Nfts : /\ All(b, R)[n] = b[x][n] + All(b, Q)[n]
                          /\ b[x][n] \in Int /\ All(b, Q)[n] \in Int
      BY <2>4, <2>6
    <3>2. QED
      BY <1>2, <3>1, SumPlus
  <2>9. Count(All(b, R)) = Count(b[x]) + Count(All(b, Q))
    BY <2>5, <2>6, <2>7, <2>8, CountIs
  <2>10. QED
    BY <1>3, <2>2, <2>3, <2>5, <2>7, <2>9
<1> HIDE DEF T
<1>8. Cardinality(A) \in T
  BY <1>1, <1>6, <1>7, Induct
<1>9. QED
  BY <1>8 DEF T
--------------------------------------------------------------------------------
(* The order in which the indexer answers: how many of the cells are older     *)
(* tells where a cell comes.                                                  *)
Distinct(cells) == \A c, d \in cells : c.id = d.id => c = d
Rank(cells, c) == Cardinality(Older(cells, c))

LEMMA OlderIs ==
  ASSUME NEW A, A \subseteq Cell, IsFiniteSet(A), NEW c \in A
  PROVE  /\ Older(A, c) \subseteq A /\ IsFiniteSet(Older(A, c))
         /\ Rank(A, c) \in Nat /\ Rank(A, c) < Cardinality(A) /\ Cardinality(A) \in Nat
<1>1. Older(A, c) \subseteq A \ {c}
  BY DEF Older, Cell
<1>2. IsFiniteSet(Older(A, c)) /\ IsFiniteSet(A \ {c})
  BY <1>1, FS_Subset
<1>3. Cardinality(Older(A, c)) <= Cardinality(A \ {c})
  BY <1>1, <1>2, FS_Subset
<1>4. /\ Cardinality(A) \in Nat /\ Cardinality(A \ {c}) \in Nat
      /\ Cardinality(A) = Cardinality(A \ {c}) + 1
  BY Smaller
<1>5. Cardinality(Older(A, c)) \in Nat
  BY <1>2, FS_CardinalityType
<1>6. QED
  BY <1>1, <1>2, <1>3, <1>4, <1>5 DEF Rank

(* An older cell comes first.                                                 *)
LEMMA RankOrder ==
  ASSUME NEW A, A \subseteq Cell, IsFiniteSet(A), NEW c \in A, NEW d \in A
  PROVE  Rank(A, c) < Rank(A, d) => c.id < d.id
<1> SUFFICES ASSUME ~ c.id < d.id
             PROVE  ~ Rank(A, c) < Rank(A, d)
  OBVIOUS
<1>1. c.id \in Int /\ d.id \in Int /\ \A e \in A : e.id \in Int
  BY DEF Cell
<1>2. Older(A, d) \subseteq Older(A, c)
  BY <1>1 DEF Older
<1>3. Cardinality(Older(A, d)) <= Cardinality(Older(A, c))
  BY <1>2, OlderIs, FS_Subset
<1>4. QED
  BY <1>3, OlderIs DEF Rank

(* There is a cell for every place, by induction over how many there are: of    *)
(* the newest all others are older.                                           *)
LEMMA EveryRank ==
  ASSUME NEW A, A \subseteq Cell, IsFiniteSet(A), Distinct(A)
  PROVE  \A r \in Nat : r < Cardinality(A) => \E c \in A : Rank(A, c) = r
<1> DEFINE T == {n \in Nat : \A R \in SUBSET A : Cardinality(R) = n =>
                    \A r \in Nat : r < n => \E c \in R : Rank(R, c) = r}
<1>1. \A s \in SUBSET A : IsFiniteSet(s) /\ Cardinality(s) \in Nat
  BY FS_Subset, FS_CardinalityType
<1>2. 0 \in T
  OBVIOUS
<1>3. ASSUME NEW n \in Nat, n \in T
      PROVE  n + 1 \in T
  <2> SUFFICES ASSUME NEW R \in SUBSET A, Cardinality(R) = n + 1, NEW r \in Nat, r < n + 1
               PROVE  \E c \in R : Rank(R, c) = r
    OBVIOUS
  <2> DEFINE h == [c \in Cell |-> - c.id]
  <2>1. R # {} /\ IsFiniteSet(R) /\ R \subseteq Cell
    BY <1>1, FS_EmptySet
  <2>2. \A c \in R : h[c] = - c.id /\ h[c] \in Int /\ c.id \in Int
    BY <2>1 DEF Cell
  <2> HIDE DEF h
  <2>3. PICK m \in R : \A c \in R : h[m] <= h[c]
    BY <2>1, <2>2, LeastOf
  <2>4. \A c \in R : c.id <= m.id /\ c.id \in Int /\ m.id \in Int
    BY <2>2, <2>3
  <2> DEFINE Q == R \ {m}
  <2>5. \A c \in Q : c.id < m.id
    BY <2>3, <2>4 DEF Distinct
  <2>6. Older(R, m) = Q
    BY <2>4, <2>5 DEF Older
  <2>7. \A c \in Q : Older(R, c) = Older(Q, c)
    BY <2>4, <2>5 DEF Older
  <2>8. Q \in SUBSET A /\ Cardinality(Q) = n
    BY <1>1, <2>1, <2>3, Smaller
  <2> HIDE DEF Q
  <2>9. CASE r = n
    <3>1. Rank(R, m) = n
      BY <2>6, <2>8 DEF Rank
    <3>2. QED
      BY <2>3, <2>9, <3>1
  <2>10. CASE r < n
    <3>1. PICK c \in Q : Rank(Q, c) = r
      BY <1>3, <2>8, <2>10
    <3>2. Rank(R, c) = r /\ c \in R
      BY <2>7, <3>1 DEF Rank, Q
    <3>3. QED
      BY <3>2
  <2>11. QED
    BY <2>9, <2>10
<1> HIDE DEF T
<1>4. Cardinality(A) \in T
  BY <1>1, <1>2, <1>3, Induct
<1>5. QED
  BY <1>4 DEF T

(* So all cells come, each once, and each before those that are newer.        *)
LEMMA InOrder ==
  ASSUME NEW A, A \subseteq Cell, IsFiniteSet(A), Distinct(A)
  PROVE  LET q == OldestFirst(A) IN
         /\ q \in Seq(A) /\ Len(q) = Cardinality(A) /\ Cardinality(A) \in Nat
         /\ q \in Seq(Cell) /\ IsInjective(q)
         /\ \A i \in DOMAIN q : q[i] \in A /\ q[i] \in Cell
         /\ \A i, j \in DOMAIN q : i < j => q[i].id < q[j].id
<1> DEFINE q == OldestFirst(A)
           n == Cardinality(A)
<1>1. n \in Nat
  BY FS_CardinalityType
<1>2. ASSUME NEW i \in 1 .. n
      PROVE  q[i] \in A /\ Rank(A, q[i]) = i - 1
  <2>1. i - 1 \in Nat /\ i - 1 < n
    BY <1>1
  <2>2. \E c \in A : Rank(A, c) = i - 1
    BY <2>1, EveryRank
  <2>3. q[i] = CHOOSE c \in A : Rank(A, c) = i - 1
    BY DEF OldestFirst, Rank
  <2> HIDE DEF q
  <2>4. QED
    BY <2>2, <2>3
<1>3. q = [i \in 1 .. n |-> q[i]]
  BY DEF OldestFirst
<1> HIDE DEF q, n
<1>4. q \in [1 .. n -> A] /\ DOMAIN q = 1 .. n
  BY <1>2, <1>3
<1>5. q \in Seq(A) /\ Len(q) = n
  BY <1>1, <1>4
<1>6. \A i, j \in 1 .. n : i < j => q[i].id < q[j].id
  <2> SUFFICES ASSUME NEW i \in 1 .. n, NEW j \in 1 .. n, i < j
               PROVE  q[i].id < q[j].id
    OBVIOUS
  <2>1. Rank(A, q[i]) < Rank(A, q[j]) /\ q[i] \in A /\ q[j] \in A
    BY <1>1, <1>2
  <2>2. QED
    BY <2>1, RankOrder
<1>7. IsInjective(q)
  <2> SUFFICES ASSUME NEW i \in 1 .. n, NEW j \in 1 .. n, q[i] = q[j]
               PROVE  i = j
    BY <1>4 DEF IsInjective
  <2>1. i - 1 = j - 1
    BY <1>2
  <2>2. QED
    BY <1>1, <2>1
<1>8. q \in Seq(Cell)
  BY <1>5
<1>9. QED
  BY <1>1, <1>2, <1>4, <1>5, <1>6, <1>7, <1>8 DEF q, n

LEMMA MinTwo ==
  ASSUME NEW a \in Nat, NEW b \in Nat
  PROVE  Min({a, b}) \in Nat /\ Min({a, b}) <= a /\ Min({a, b}) <= b /\ Min({a, b}) \in {a, b}
<1> DEFINE m == Min({a, b})
<1>1. m = CHOOSE x \in {a, b} : \A y \in {a, b} : x <= y
  BY Zenon DEF Min
<1>2. \E x \in {a, b} : \A y \in {a, b} : x <= y
  OBVIOUS
<1> HIDE DEF m
<1>3. m \in {a, b} /\ \A y \in {a, b} : m <= y
  BY <1>1, <1>2
<1>4. QED
  BY <1>3 DEF m

(* A page: cells of those that are asked for, the last of them the newest.    *)
LEMMA PageIs ==
  ASSUME NEW A, A \subseteq Cell, IsFiniteSet(A), Distinct(A), NEW size \in Nat
  PROVE  LET page == PageOf(A, size) IN
         /\ page \in Seq(Cell) /\ \A i \in DOMAIN page : page[i] \in A
         /\ page # << >> => /\ Last(page) \in A /\ Last(page) \in Cell
                            /\ \A i \in DOMAIN page : page[i].id <= Last(page).id
<1> DEFINE q == OldestFirst(A)
           m == Min({size, Cardinality(A)})
           page == PageOf(A, size)
<1>1. /\ q \in Seq(Cell) /\ Len(q) = Cardinality(A) /\ Cardinality(A) \in Nat
      /\ \A i \in DOMAIN q : q[i] \in A /\ q[i] \in Cell
      /\ \A i, j \in DOMAIN q : i < j => q[i].id < q[j].id
  BY InOrder
<1>2. m \in Nat /\ m <= Len(q)
  BY <1>1, MinTwo
<1>3. page = SubSeq(q, 1, m)
  BY DEF PageOf
<1> HIDE DEF q, m, page
<1>4. /\ page \in Seq(Cell) /\ Len(page) = m /\ DOMAIN page = 1 .. m
      /\ \A i \in 1 .. m : page[i] = q[i] /\ i \in DOMAIN q
  BY <1>1, <1>2, <1>3
<1>5. ASSUME page # << >>
      PROVE  /\ Last(page) \in A /\ Last(page) \in Cell
             /\ \A i \in DOMAIN page : page[i].id <= Last(page).id
  <2>1. m \in 1 .. m /\ Last(page) = q[m] /\ m \in DOMAIN q
    BY <1>2, <1>4, <1>5 DEF Last
  <2>2. q[m] \in A /\ q[m] \in Cell /\ q[m].id \in Int
    BY <1>1, <2>1 DEF Cell
  <2>3. ASSUME NEW i \in 1 .. m
        PROVE  q[i].id <= q[m].id
    <3>1. i \in DOMAIN q /\ q[i] \in Cell /\ (i < m \/ i = m)
      BY <1>1, <1>2, <1>4
    <3>2. q[i].id \in Int
      BY <3>1 DEF Cell
    <3>3. QED
      BY <1>1, <2>1, <2>2, <3>1, <3>2
  <2>4. QED
    BY <1>4, <2>1, <2>2, <2>3
<1>6. \A i \in DOMAIN page : page[i] \in A
  BY <1>1, <1>4
<1>7. QED
  BY <1>4, <1>5, <1>6 DEF page
--------------------------------------------------------------------------------
(* The players, what they ask, and the cells that are made.                   *)
LEMMA PlayersAre ==
  /\ One \in Users /\ Two \in Users /\ One # Two
  /\ Users \subseteq Keys
<1>1. Players \in Seq(Users) /\ Len(Players) = 2 /\ Players[1] # Players[2]
  BY OpeningAssumption, Zenon
<1>2. Players[1] \in Users /\ Players[2] \in Users
  BY <1>1
<1>3. QED
  BY <1>1, <1>2 DEF One, Two, Keys

LEMMA HalfNat ==
  ASSUME NEW k \in [Users -> Ask], NEW u \in Users
  PROVE  Half(k[u]) \in Nat
  BY DEF Ask, Half

LEMMA FeeNat == OpenFee \in Nat /\ Base \in Nat
  BY OpeningAssumption, StoreAssumption

LEMMA PlainPays ==
  ASSUME NEW u \in Users, NEW c \in Nat
  PROVE  /\ Plain(u, c) \in Cell /\ Plain(u, c).kind = "plain" /\ Plain(u, c).user = u
         /\ Plain(u, c).ckb = c /\ Bytes(Plain(u, c)) = 0
         /\ \A v, n : n \in Nfts => NftsIn(v, n)[Plain(u, c)] = 0
         /\ CkbIn[Plain(u, c)] = c
         /\ \A v : MineIn(v)[Plain(u, c)] = IF v = u THEN c ELSE 0
<1>1. /\ Plain(u, c) \in Cell /\ Plain(u, c).kind = "plain" /\ Plain(u, c).user = u
      /\ Plain(u, c).ckb = c
  BY PlayersAre, PlainCell
<1>2. Plain(u, c).config.table = << >> /\ Plain(u, c).nfts = Empty
  BY DEF Plain
<1>3. Count(Empty) = 0
  <2>1. Empty \in Bag /\ \A n \in Nfts : Empty[n] = 0
    BY EmptyIs DEF Bag
  <2>2. QED
    BY <2>1, CountIs, SumZero, StoreAssumption
<1>4. Len(<< >>) = 0
  OBVIOUS
<1>5. Bytes(Plain(u, c)) = 0
  <2> DEFINE p == Plain(u, c)
  <2>1. Bytes(p) = Len(p.config.table) + Count(p.nfts) + IF p.kind = "store" THEN 1 ELSE 0
    BY DEF Bytes
  <2>2. p.kind = "plain" /\ Len(p.config.table) = 0 /\ Count(p.nfts) = 0
    BY <1>1, <1>2, <1>3, <1>4
  <2> HIDE DEF p
  <2>3. Bytes(p) = 0
    BY <2>1, <2>2
  <2>4. QED
    BY <2>3 DEF p
<1>6. \A v, n : n \in Nfts => NftsIn(v, n)[Plain(u, c)] = 0
  BY <1>1 DEF NftsIn
<1>7. CkbIn[Plain(u, c)] = c
  BY <1>1 DEF CkbIn
<1>8. \A v : MineIn(v)[Plain(u, c)] = IF v = u THEN c ELSE 0
  BY <1>1 DEF MineIn
<1>9. QED
  BY <1>1, <1>5, <1>6, <1>7, <1>8

LEMMA NftCellPays ==
  ASSUME NEW u \in Users, NEW c \in Nat, NEW b \in Bag
  PROVE  /\ NftCell(u, c, b) \in Cell /\ NftCell(u, c, b).user = u /\ NftCell(u, c, b).ckb = c
         /\ NftCell(u, c, b).kind = (IF b = Empty THEN "plain" ELSE "nft")
         /\ NftCell(u, c, b).nfts = b
         /\ Bytes(NftCell(u, c, b)) = Count(b)
         /\ \A v, n : n \in Nfts => NftsIn(v, n)[NftCell(u, c, b)] = IF v = u THEN b[n] ELSE 0
         /\ CkbIn[NftCell(u, c, b)] = c
         /\ \A v : MineIn(v)[NftCell(u, c, b)] = IF v = u THEN c ELSE 0
<1> DEFINE cell == NftCell(u, c, b)
<1>1. /\ cell \in Cell /\ cell.user = u /\ cell.ckb = c
      /\ cell.kind = (IF b = Empty THEN "plain" ELSE "nft")
      /\ cell.nfts = b
      /\ \A v, n : n \in Nfts => NftsIn(v, n)[cell] = IF v = u THEN b[n] ELSE 0
  BY NftCellIs, NftCellNfts DEF Bag
<1>2. cell.config.table = << >>
  BY DEF NftCell, Plain
<1> HIDE DEF cell
<1>3. Bytes(cell) = Count(b)
  <2>1. Len(cell.config.table) = 0
    BY <1>2
  <2>2. Count(b) \in Nat
    BY CountIs
  <2>3. QED
    BY <1>1, <2>1, <2>2 DEF Bytes
<1>4. CkbIn[cell] = c /\ \A v : MineIn(v)[cell] = IF v = u THEN c ELSE 0
  BY <1>1 DEF CkbIn, MineIn
<1>5. QED
  BY <1>1, <1>3, <1>4 DEF cell

(* The cell that nft cells are merged into has the ckb of all of them, and      *)
(* occupies less than they do.                                                *)
LEMMA MergedPays ==
  ASSUME NEW cells \in Seq(Cell), NEW u \in Users, \A i \in DOMAIN cells : PaysNfts(cells[i])
  PROVE  LET b == NftsAt(cells, NftCells(cells, u))
             c == CkbAt(cells, NftCells(cells, u)) IN
         b \in Bag /\ c \in Nat /\ (b # Empty => Exact(Count(b)) <= c)
<1> DEFINE at == NftCells(cells, u)
           b == NftsAt(cells, at)
           c == CkbAt(cells, at)
           ckb == [i \in DOMAIN cells |-> cells[i].ckb]
           bags == [i \in at |-> cells[i].nfts]
           least == [i \in at |-> Base + Counted(bags)[i]]
<1>1. b \in Bag
  BY NftsAtIs
<1>2. /\ at \subseteq DOMAIN cells /\ IsFiniteSet(at)
      /\ \A i \in at : cells[i] \in Cell /\ cells[i].kind = "nft"
  BY OutsFinite, FS_Subset DEF NftCells
<1>3. c = Sum(ckb, at)
  BY Zenon DEF CkbAt, Sum
<1>4. \A i \in at : ckb[i] = cells[i].ckb /\ ckb[i] \in Nat
  BY <1>2 DEF Cell
<1>5. bags \in [at -> Bag] /\ \A i \in at : bags[i] = cells[i].nfts
  BY <1>2 DEF Cell, Bag
<1>6. b = All(bags, at)
  <2>1. \A n \in Nfts : b[n] = All(bags, at)[n]
    <3> SUFFICES ASSUME NEW n \in Nfts PROVE b[n] = All(bags, at)[n]
      OBVIOUS
    <3> DEFINE f == [i \in DOMAIN cells |-> cells[i].nfts[n]]
               g == [i \in DOMAIN bags |-> bags[i][n]]
    <3>1. b[n] = Sum(f, at)
      BY Zenon DEF NftsAt, Sum
    <3>2. All(bags, at)[n] = Sum(g, at)
      BY Zenon DEF All
    <3>3. \A i \in at : f[i] = g[i]
      BY <1>2, <1>5
    <3> HIDE DEF at, b, bags, f, g
    <3>4. QED
      BY <1>2, <3>1, <3>2, <3>3, SumSame
  <2>2. b = [n \in Nfts |-> b[n]] /\ All(bags, at) = [n \in Nfts |-> All(bags, at)[n]]
    BY DEF NftsAt, All
  <2> HIDE DEF b, bags, at
  <2>3. QED
    BY <2>1, <2>2
<1> HIDE DEF b, c, ckb, bags
<1>7. \A i \in at : Counted(bags)[i] = Count(cells[i].nfts) /\ Counted(bags)[i] \in Nat
  <2>1. \A i \in at : Counted(bags)[i] = Count(bags[i]) /\ bags[i] \in Bag
    BY <1>5 DEF Counted
  <2>2. QED
    BY <1>5, <2>1, CountIs
<1>8. Count(b) = Sum(Counted(bags), at)
  <2> HIDE DEF at
  <2>1. QED
    BY <1>2, <1>5, <1>6, CountAll
<1>9. c \in Nat
  BY <1>2, <1>3, <1>4, SumType
<1>10. ASSUME b # Empty
       PROVE  Exact(Count(b)) <= c
  <2> HIDE DEF at
  <2>1. at # {}
    <3> SUFFICES ASSUME at = {} PROVE FALSE
      OBVIOUS
    <3>1. \A n \in Nfts : b[n] = 0
      BY <1>6, SumEmpty DEF All
    <3>2. b = Empty
      BY <1>1, <3>1 DEF Bag, Empty
    <3>3. QED
      BY <1>10, <3>2
  <2>2. PICK x : x \in at
    BY <2>1
  <2> DEFINE rest == at \ {x}
  <2>3. IsFiniteSet(rest) /\ rest \subseteq at
    BY <1>2, FS_Subset
  <2>4. \A i \in at : Counted(bags)[i] + Base <= ckb[i] /\ Base \in Nat
    <3>1. \A i \in at : PaysNfts(cells[i])
      BY <1>2
    <3>2. QED
      BY <1>2, <1>4, <1>7, <3>1, FeeNat DEF PaysNfts, Exact
  <2>5. \A i \in at : Counted(bags)[i] \in Nat /\ ckb[i] \in Nat /\ Counted(bags)[i] <= ckb[i]
    BY <1>4, <1>7, <2>4
  <2>6. /\ Sum(Counted(bags), at) = Counted(bags)[x] + Sum(Counted(bags), rest)
        /\ Sum(ckb, at) = ckb[x] + Sum(ckb, rest)
    BY <1>2, <2>2, <2>5, SumRemove
  <2>7. \A i \in rest : Counted(bags)[i] \in Nat /\ ckb[i] \in Nat /\ Counted(bags)[i] <= ckb[i]
    BY <2>5
  <2> HIDE DEF rest
  <2>8. /\ Sum(Counted(bags), rest) <= Sum(ckb, rest)
        /\ Sum(Counted(bags), rest) \in Nat /\ Sum(ckb, rest) \in Nat
    BY <2>3, <2>7, SumAtLeast
  <2>9. QED
    BY <1>3, <1>8, <2>2, <2>4, <2>5, <2>6, <2>8 DEF Exact
<1>11. QED
  BY <1>1, <1>9, <1>10 DEF b, c
--------------------------------------------------------------------------------
(* A transaction of which a part is changed.                                  *)
Outs(tx, o) == [tx EXCEPT !.outs = o]
Ins(tx, o) == [tx EXCEPT !.ins = o]
Signs(tx, w, s) == [tx EXCEPT !.witnesses = w, !.signers = s]

LEMMA WithOuts ==
  ASSUME NEW tx, tx = Parts(tx), NEW o, NEW r, r = Outs(tx, o)
  PROVE  /\ r = Parts(r) /\ r.outs = o
         /\ r.args = tx.args /\ r.ins = tx.ins /\ r.witnesses = tx.witnesses /\ r.signers = tx.signers
<1> DEFINE T == [args : {tx.args}, ins : {tx.ins}, outs : {tx.outs, o}, witnesses : {tx.witnesses},
                 signers : {tx.signers}]
<1>1. tx \in T
  BY DEF Parts
<1>2. r \in T /\ r.outs = o
  BY <1>1 DEF Outs
<1>3. r = Parts(r)
  BY <1>2 DEF Parts
<1>4. QED
  BY <1>2, <1>3

LEMMA WithIns ==
  ASSUME NEW tx, tx = Parts(tx), NEW o, NEW r, r = Ins(tx, o)
  PROVE  /\ r = Parts(r) /\ r.ins = o
         /\ r.args = tx.args /\ r.outs = tx.outs /\ r.witnesses = tx.witnesses /\ r.signers = tx.signers
<1> DEFINE T == [args : {tx.args}, ins : {tx.ins, o}, outs : {tx.outs}, witnesses : {tx.witnesses},
                 signers : {tx.signers}]
<1>1. tx \in T
  BY DEF Parts
<1>2. r \in T /\ r.ins = o
  BY <1>1 DEF Ins
<1>3. r = Parts(r)
  BY <1>2 DEF Parts
<1>4. QED
  BY <1>2, <1>3

LEMMA WithSignature ==
  ASSUME NEW tx, tx = Parts(tx), NEW w, NEW s, NEW r, r = Signs(tx, w, s)
  PROVE  /\ r = Parts(r) /\ r.witnesses = w /\ r.signers = s
         /\ r.args = tx.args /\ r.ins = tx.ins /\ r.outs = tx.outs
<1> DEFINE T == [args : {tx.args}, ins : {tx.ins}, outs : {tx.outs}, witnesses : {tx.witnesses, w},
                 signers : {tx.signers, s}]
<1>1. tx \in T
  BY DEF Parts
<1>2. r \in T /\ r.witnesses = w /\ r.signers = s
  BY <1>1 DEF Signs
<1>3. r = Parts(r)
  BY <1>2 DEF Parts
<1>4. QED
  BY <1>2, <1>3

(* What is added to a transaction that is being put together.                 *)
Wider(k, tx, c, r) ==
  /\ Formed(k, r) /\ r.outs = Append(tx.outs, c) /\ Len(r.outs) = Len(tx.outs) + 1
  /\ r.args = tx.args /\ r.ins = tx.ins /\ r.witnesses = tx.witnesses /\ r.signers = tx.signers
  /\ Alone(k, r) <=> Alone(k, tx)
  /\ Joint(k, r) <=> Joint(k, tx)
  /\ \A f : Measure(f) => /\ SumOut(f, r.outs) = SumOut(f, tx.outs) + f[c]
                          /\ SumOut(f, tx.outs) \in Nat /\ f[c] \in Nat

LEMMA MoreOuts ==
  ASSUME NEW k, NEW tx, Formed(k, tx), NEW c \in Cell, Part(tx, c), Funded(tx, c),
         NEW r, r = Outs(tx, Append(tx.outs, c))
  PROVE  Wider(k, tx, c, r)
<1>1. OpeningType(tx) /\ tx = Parts(tx) /\ tx.outs \in Seq(Cell) /\ tx.outs # << >>
  BY DEF Formed, OpeningType
<1>2. /\ r = Parts(r) /\ r.outs = Append(tx.outs, c)
      /\ r.args = tx.args /\ r.ins = tx.ins /\ r.witnesses = tx.witnesses /\ r.signers = tx.signers
  <2> DEFINE o == Append(tx.outs, c)
  <2>1. r = Outs(tx, o)
    OBVIOUS
  <2> HIDE DEF o
  <2>2. /\ r = Parts(r) /\ r.outs = o
        /\ r.args = tx.args /\ r.ins = tx.ins /\ r.witnesses = tx.witnesses /\ r.signers = tx.signers
    BY ONLY <1>1, <2>1, WithOuts
  <2>3. QED
    BY <2>2 DEF o
<1>3. /\ r.outs \in Seq(Cell) /\ Len(r.outs) = Len(tx.outs) + 1 /\ r.outs # << >>
      /\ r.outs[1] = tx.outs[1]
      /\ \A i \in DOMAIN r.outs : (i \in DOMAIN tx.outs /\ r.outs[i] = tx.outs[i]) \/ r.outs[i] = c
  BY <1>1, <1>2
<1>4. OpeningType(r)
  BY <1>1, <1>2, <1>3 DEF OpeningType
<1>5. (Alone(k, r) <=> Alone(k, tx)) /\ (Joint(k, r) <=> Joint(k, tx))
  BY <1>2, <1>3 DEF Alone, Joint
<1>6. \A d : Part(r, d) <=> Part(tx, d)
  BY <1>2 DEF Part
<1>7. \A d : Funded(r, d) <=> Funded(tx, d)
  BY <1>2 DEF Funded, Void
<1>8. \A i \in DOMAIN r.outs \ {1} : Part(r, r.outs[i]) /\ Funded(r, r.outs[i])
  <2>1. \A i \in DOMAIN tx.outs \ {1} : Part(tx, tx.outs[i]) /\ Funded(tx, tx.outs[i])
    BY DEF Formed
  <2>2. QED
    BY <1>3, <1>6, <1>7, <2>1
<1>9. Formed(k, r)
  BY <1>2, <1>3, <1>4, <1>5, <1>6, <1>8 DEF Formed
<1>10. ASSUME NEW f, Measure(f)
       PROVE  /\ SumOut(f, r.outs) = SumOut(f, tx.outs) + f[c]
              /\ SumOut(f, tx.outs) \in Nat /\ f[c] \in Nat
  BY <1>1, <1>2, <1>10, SumOutAppend, SumOutNat, MeasureNat
<1>11. QED
  BY <1>2, <1>3, <1>5, <1>9, <1>10 DEF Wider

Longer(k, tx, more, r) ==
  /\ Formed(k, r) /\ r.ins = tx.ins \o more
  /\ r.args = tx.args /\ r.outs = tx.outs /\ r.witnesses = tx.witnesses /\ r.signers = tx.signers
  /\ \A i \in DOMAIN r.ins : \/ \E j \in DOMAIN tx.ins : r.ins[i] = tx.ins[j]
                             \/ \E j \in DOMAIN more : r.ins[i] = more[j]
  /\ \A f : Measure(f) => /\ SumOut(f, r.ins) = SumOut(f, tx.ins) + SumOut(f, more)
                          /\ SumOut(f, tx.ins) \in Nat /\ SumOut(f, more) \in Nat

Joins(tx, more) ==
  /\ more \in Seq(Cell) /\ IsInjective(more)
  /\ \A i \in DOMAIN more : Part(tx, more[i]) /\ PaysNfts(more[i])
  /\ \A i \in DOMAIN tx.ins, j \in DOMAIN more : tx.ins[i] # more[j]
  /\ \A i \in DOMAIN tx.outs \ {1}, n \in Nfts : SumOut(NftsIn(tx.outs[i].user, n), more) = 0

LEMMA MoreIns ==
  ASSUME NEW k, NEW tx, Formed(k, tx), NEW more, Joins(tx, more),
         NEW r, r = Ins(tx, tx.ins \o more)
  PROVE  Longer(k, tx, more, r)
<1> more \in Seq(Cell) /\ IsInjective(more)
  BY DEF Joins
<1> \A i \in DOMAIN more : Part(tx, more[i]) /\ PaysNfts(more[i])
  BY DEF Joins
<1> \A i \in DOMAIN tx.ins, j \in DOMAIN more : tx.ins[i] # more[j]
  BY DEF Joins
<1> \A i \in DOMAIN tx.outs \ {1}, n \in Nfts : SumOut(NftsIn(tx.outs[i].user, n), more) = 0
  BY DEF Joins
<1>1. OpeningType(tx) /\ tx = Parts(tx) /\ tx.ins \in Seq(Cell)
  BY DEF Formed, OpeningType
<1>2. /\ r = Parts(r) /\ r.ins = tx.ins \o more
      /\ r.args = tx.args /\ r.outs = tx.outs /\ r.witnesses = tx.witnesses /\ r.signers = tx.signers
  <2> DEFINE o == tx.ins \o more
  <2>1. r = Ins(tx, o)
    OBVIOUS
  <2> HIDE DEF o
  <2>2. /\ r = Parts(r) /\ r.ins = o
        /\ r.args = tx.args /\ r.outs = tx.outs /\ r.witnesses = tx.witnesses /\ r.signers = tx.signers
    BY ONLY <1>1, <2>1, WithIns
  <2>3. QED
    BY <2>2 DEF o
<1> DEFINE n == Len(tx.ins)
           m == Len(more)
<1>3. /\ n \in Nat /\ m \in Nat /\ DOMAIN tx.ins = 1 .. n /\ DOMAIN more = 1 .. m
      /\ r.ins \in Seq(Cell) /\ Len(r.ins) = n + m /\ DOMAIN r.ins = 1 .. (n + m)
      /\ \A i \in 1 .. n : r.ins[i] = tx.ins[i]
      /\ \A i \in n + 1 .. n + m : i - n \in 1 .. m /\ r.ins[i] = more[i - n]
  BY <1>1, <1>2
<1>4. /\ IsInjective(tx.ins) /\ Len(tx.witnesses) \in Nat /\ Len(tx.witnesses) <= n
  BY <1>1 DEF Formed, OpeningType
<1> HIDE DEF n, m
<1>5. OpeningType(r)
  BY <1>1, <1>2, <1>3, <1>4 DEF OpeningType
<1>6. \A i \in DOMAIN r.ins : \/ \E j \in DOMAIN tx.ins : r.ins[i] = tx.ins[j]
                              \/ \E j \in DOMAIN more : r.ins[i] = more[j]
  <2>1. \A i \in DOMAIN r.ins : i \in 1 .. n \/ i \in n + 1 .. n + m
    BY <1>3
  <2>2. QED
    BY <1>3, <2>1
<1>7. IsInjective(r.ins)
  <2> SUFFICES ASSUME NEW i \in 1 .. (n + m), NEW j \in 1 .. (n + m), r.ins[i] = r.ins[j]
               PROVE  i = j
    BY <1>3 DEF IsInjective
  <2>1. CASE i \in 1 .. n /\ j \in 1 .. n
    <3>1. tx.ins[i] = tx.ins[j]
      BY <1>3, <2>1
    <3>2. QED
      BY <1>3, <1>4, <2>1, <3>1 DEF IsInjective
  <2>2. CASE i \in n + 1 .. n + m /\ j \in n + 1 .. n + m
    <3>1. more[i - n] = more[j - n] /\ i - n \in 1 .. m /\ j - n \in 1 .. m
      BY <1>3, <2>2
    <3>2. i - n = j - n
      BY <1>3, <3>1 DEF IsInjective
    <3>3. QED
      BY <1>3, <3>2
  <2>3. CASE i \in 1 .. n /\ j \in n + 1 .. n + m
    <3>1. r.ins[i] = tx.ins[i] /\ r.ins[j] = more[j - n] /\ j - n \in DOMAIN more /\ i \in DOMAIN tx.ins
      BY ONLY <1>3, <2>3
    <3>2. QED
      BY <3>1
  <2>4. CASE i \in n + 1 .. n + m /\ j \in 1 .. n
    <3>1. r.ins[j] = tx.ins[j] /\ r.ins[i] = more[i - n] /\ i - n \in DOMAIN more /\ j \in DOMAIN tx.ins
      BY ONLY <1>3, <2>4
    <3>2. QED
      BY <3>1
  <2>5. QED
    BY <1>3, <2>1, <2>2, <2>3, <2>4
<1>8. \A d : Part(r, d) <=> Part(tx, d)
  BY <1>2 DEF Part
<1>9. ASSUME NEW f, Measure(f)
      PROVE  /\ SumOut(f, r.ins) = SumOut(f, tx.ins) + SumOut(f, more)
             /\ SumOut(f, tx.ins) \in Nat /\ SumOut(f, more) \in Nat
  BY <1>1, <1>2, <1>9, SumOutConcat, SumOutNat
<1>10. \A i \in DOMAIN r.outs \ {1} : Part(r, r.outs[i]) /\ Funded(r, r.outs[i])
  <2> SUFFICES ASSUME NEW i \in DOMAIN tx.outs \ {1}
               PROVE  Part(r, tx.outs[i]) /\ Funded(r, tx.outs[i])
    BY <1>2
  <2>1. Part(tx, tx.outs[i]) /\ Funded(tx, tx.outs[i])
    BY DEF Formed
  <2>2. Void(tx, tx.outs[i].user) => Void(r, tx.outs[i].user)
    <3> SUFFICES ASSUME Void(tx, tx.outs[i].user), NEW l \in Nfts
                 PROVE  SumOut(NftsIn(tx.outs[i].user, l), r.ins) = 0
      BY DEF Void
    <3> DEFINE f == NftsIn(tx.outs[i].user, l)
    <3>1. Measure(f) /\ SumOut(f, tx.ins) = 0 /\ SumOut(f, more) = 0
      BY NftsMeasure DEF Void
    <3> HIDE DEF f
    <3>2. SumOut(f, r.ins) = 0
      BY <1>9, <3>1
    <3>3. QED
      BY <3>2 DEF f
  <2>3. QED
    BY <1>8, <2>1, <2>2 DEF Funded
<1>11. \A i \in DOMAIN r.ins : Part(r, r.ins[i]) /\ PaysNfts(r.ins[i])
  <2>1. \A i \in DOMAIN tx.ins : Part(tx, tx.ins[i]) /\ PaysNfts(tx.ins[i])
    BY DEF Formed
  <2>2. QED
    BY <1>6, <1>8, <2>1
<1>12. Formed(k, r)
  BY <1>2, <1>5, <1>7, <1>10, <1>11 DEF Formed, Alone, Joint
<1>13. QED
  BY <1>2, <1>6, <1>9, <1>12 DEF Longer
--------------------------------------------------------------------------------
(* Cells that the indexer answers with are added to the inputs, by readers of    *)
(* nft cells and of plain cells alike.                                        *)
Wanted(t) == IF t.at = "nfts" THEN "nft" ELSE "plain"
More(t, taken, z, m) ==
  [at |-> t.at, tx |-> Ins(t.tx, t.tx.ins \o taken), cursor |-> {z}, missing |-> m]

(* Cells of one user that are live are of different ages.                     *)
LEMMA AheadIs ==
  ASSUME CellsOK, LiveOK, NEW u, NEW kinds, NEW cursor
  PROVE  LET A == Ahead(u, kinds, cursor) IN
         /\ A \subseteq live /\ A \subseteq Cell /\ IsFiniteSet(A) /\ Distinct(A)
         /\ \A c \in A : c.user = u /\ c.kind \in kinds /\ PaysNfts(c) /\ c.id \in Int
         /\ \A c \in A, d \in cursor : d.id < c.id
<1> DEFINE A == Ahead(u, kinds, cursor)
<1>1. A \subseteq live /\ \A c \in A : c.user = u /\ c.kind \in kinds
  BY DEF Ahead
<1>2. \A c \in A, d \in cursor : d.id < c.id
  BY DEF Ahead
<1> HIDE DEF A
<1>3. live \subseteq Cell /\ IsFiniteSet(live)
  BY DEF CellsOK
<1>4. IsFiniteSet(A)
  BY <1>1, <1>3, FS_Subset
<1>5. Distinct(A)
  BY <1>1 DEF LiveOK, Ordinals, Distinct
<1>6. \A c \in A : PaysNfts(c)
  BY <1>1 DEF LiveOK
<1>7. \A c \in A : c.id \in Int
  BY <1>1, <1>3 DEF Cell
<1>8. QED
  BY <1>1, <1>2, <1>3, <1>4, <1>5, <1>6, <1>7 DEF A

(* Who collects has put something in, or is about to.                         *)
LEMMA Partner ==
  ASSUME NEW k, NEW u, NEW t, Collecting(k, u, t)
  PROVE  /\ u \in ToSet(t.tx.args.users) /\ u \in {One, Two} /\ u \in Users
         /\ t.tx.args.users \in {<<One>>, <<One, Two>>}
<1>1. /\ u = One /\ t.tx.args.users = <<One>>
      \/ /\ u = Two /\ t.tx.args.users = <<One, Two>>
  BY DEF Collecting, Alone, Joint
<1>2. One \in ToSet(<<One>>) /\ Two \in ToSet(<<One, Two>>)
  BY DEF ToSet
<1>3. QED
  BY <1>1, <1>2, PlayersAre

LEMMA ReadStep ==
  ASSUME CellsOK, LiveOK, NEW k, NEW u, NEW t, Collecting(k, u, t),
         NEW kinds, NEW R, R \subseteq Ahead(u, kinds, t.cursor), \A c \in R : c.kind = Wanted(t),
         NEW z \in Ahead(u, kinds, t.cursor), \A c \in R : c.id <= z.id, NEW m
  PROVE  Collecting(k, u, More(t, OldestFirst(R), z, m))
<1> DEFINE A == Ahead(u, kinds, t.cursor)
           taken == OldestFirst(R)
           tx == t.tx
           r == Ins(tx, tx.ins \o taken)
           s == More(t, taken, z, m)
<1>1. /\ A \subseteq live /\ A \subseteq Cell /\ IsFiniteSet(A) /\ Distinct(A)
      /\ \A c \in A : c.user = u /\ c.kind \in kinds /\ PaysNfts(c) /\ c.id \in Int
      /\ \A c \in A, d \in t.cursor : d.id < c.id
  BY AheadIs
<1>2. R \subseteq A /\ z \in A
  OBVIOUS
<1>3. s.at = t.at /\ s.tx = r /\ s.cursor = {z} /\ s.missing = m
      /\ s = [at |-> s.at, tx |-> s.tx, cursor |-> s.cursor, missing |-> s.missing]
  BY DEF More
<1>4. /\ Formed(k, tx) /\ t.at \in {"nfts", "ckb"} /\ t.cursor \subseteq Cell
      /\ \A i \in DOMAIN tx.ins : Sought(u, t, tx.ins[i])
      /\ t.at = "nfts" => \A i \in DOMAIN tx.outs \ {1} : tx.outs[i].user # u
      /\ \A v \in Users \ {u} : Balanced(tx, v)
      /\ t.at = "ckb" => Balanced(tx, u)
  BY DEF Collecting
<1> HIDE DEF A, s
<1>5. IsFiniteSet(R) /\ Distinct(R) /\ R \subseteq Cell
  BY <1>1, <1>2, FS_Subset DEF Distinct
<1>6. /\ taken \in Seq(Cell) /\ IsInjective(taken)
      /\ \A i \in DOMAIN taken : taken[i] \in R
  BY <1>5, InOrder
<1> HIDE DEF taken
<1>7. \A i \in DOMAIN taken : /\ taken[i] \in A /\ taken[i].user = u /\ taken[i].kind = Wanted(t)
                              /\ PaysNfts(taken[i]) /\ taken[i].id <= z.id
  BY <1>1, <1>2, <1>6
<1>8. \A i \in DOMAIN taken : Part(tx, taken[i]) /\ PaysNfts(taken[i])
  <2>1. u \in ToSet(tx.args.users)
    BY Partner
  <2>2. QED
    BY <1>7, <2>1 DEF Part, Wanted
<1>9. \A i \in DOMAIN tx.ins, j \in DOMAIN taken : tx.ins[i] # taken[j]
  <2> SUFFICES ASSUME NEW i \in DOMAIN tx.ins, NEW j \in DOMAIN taken, tx.ins[i] = taken[j]
               PROVE  FALSE
    OBVIOUS
  <2>1. Behind(taken[j], t.cursor)
    <3>1. Sought(u, t, taken[j])
      BY <1>4
    <3>2. QED
      BY <1>7, <3>1 DEF Sought, Wanted
  <2>2. PICK d \in t.cursor : taken[j].id <= d.id
    BY <2>1 DEF Behind
  <2>3. d.id < taken[j].id /\ taken[j].id \in Int /\ d.id \in Int
    BY <1>1, <1>4, <1>7 DEF Cell
  <2>4. QED
    BY <2>2, <2>3
<1>10. ASSUME NEW v, NEW n \in Nfts, v # u \/ t.at = "ckb"
       PROVE  SumOut(NftsIn(v, n), taken) = 0
  <2>1. \A i \in DOMAIN taken : NftsIn(v, n)[taken[i]] = 0
    BY <1>1, <1>7, <1>10 DEF NftsIn, Wanted
  <2>2. QED
    BY <1>6, <2>1, SumOutZero
<1>11. \A i \in DOMAIN tx.outs \ {1}, n \in Nfts : SumOut(NftsIn(tx.outs[i].user, n), taken) = 0
  BY <1>4, <1>10
<1>12. /\ Formed(k, r) /\ r.ins = tx.ins \o taken
       /\ r.args = tx.args /\ r.outs = tx.outs /\ r.witnesses = tx.witnesses /\ r.signers = tx.signers
       /\ \A i \in DOMAIN r.ins : \/ \E j \in DOMAIN tx.ins : r.ins[i] = tx.ins[j]
                                  \/ \E j \in DOMAIN taken : r.ins[i] = taken[j]
       /\ \A f : Measure(f) => /\ SumOut(f, r.ins) = SumOut(f, tx.ins) + SumOut(f, taken)
                               /\ SumOut(f, tx.ins) \in Nat /\ SumOut(f, taken) \in Nat
  <2>1. r = Ins(tx, tx.ins \o taken)
    OBVIOUS
  <2>2. Joins(tx, taken)
    BY <1>6, <1>8, <1>9, <1>11 DEF Joins
  <2> HIDE DEF tx, r
  <2>3. Formed(k, tx)
    BY <1>4
  <2>4. Longer(k, tx, taken, r)
    BY ONLY <2>1, <2>2, <2>3, MoreIns
  <2>5. QED
    BY ONLY <2>4 DEF Longer
<1> HIDE DEF r
<1>13. (Alone(k, r) <=> Alone(k, tx)) /\ (Joint(k, r) <=> Joint(k, tx))
  BY <1>12 DEF Alone, Joint
<1>14. ASSUME NEW v \in Users, v # u \/ t.at = "ckb"
       PROVE  Balanced(r, v)
  <2> SUFFICES ASSUME NEW n \in Nfts
               PROVE  SumOut(NftsIn(v, n), r.ins) = SumOut(NftsIn(v, n), r.outs)
    BY DEF Balanced
  <2>1. Balanced(tx, v)
    BY <1>4, <1>14
  <2>2. SumOut(NftsIn(v, n), tx.ins) = SumOut(NftsIn(v, n), tx.outs)
    BY <2>1 DEF Balanced
  <2>3. SumOut(NftsIn(v, n), taken) = 0 /\ Measure(NftsIn(v, n))
    BY <1>10, <1>14, NftsMeasure
  <2>4. QED
    BY <1>12, <2>2, <2>3
<1>15. \A i \in DOMAIN r.ins : Sought(u, s, r.ins[i])
  <2>1. \A c : Behind(c, t.cursor) /\ c \in Cell => Behind(c, s.cursor)
    <3> SUFFICES ASSUME NEW c \in Cell, NEW d \in t.cursor, c.id <= d.id
                 PROVE  c.id <= z.id
      BY <1>3 DEF Behind
    <3>1. d.id < z.id /\ z.id \in Int /\ d.id \in Int /\ c.id \in Int
      BY <1>1, <1>2, <1>4 DEF Cell
    <3>2. QED
      BY <3>1
  <2>2. ASSUME NEW j \in DOMAIN taken
        PROVE  Sought(u, s, taken[j])
    BY <1>3, <1>4, <1>7 DEF Sought, Behind, Wanted
  <2>3. ASSUME NEW j \in DOMAIN tx.ins
        PROVE  Sought(u, s, tx.ins[j])
    <3>1. Sought(u, t, tx.ins[j]) /\ tx.ins[j] \in Cell
      <4>1. tx.ins \in Seq(Cell)
        BY <1>4 DEF Formed, OpeningType
      <4>2. QED
        BY <1>4, <4>1
    <3>2. QED
      BY <1>3, <2>1, <3>1 DEF Sought
  <2>4. QED
    BY <1>12, <2>2, <2>3
<1>16. u = Two /\ PaidBy(k, tx) => PaidBy(k, r)
  <2> SUFFICES ASSUME u = Two, PaidBy(k, tx)
               PROVE  PaidBy(k, r)
    OBVIOUS
  <2>1. \A i \in DOMAIN taken : MineIn(One)[taken[i]] = 0
    BY <1>1, <1>7, PlayersAre DEF MineIn
  <2>2. SumOut(MineIn(One), taken) = 0
    BY <1>6, <2>1, SumOutZero
  <2>3. QED
    BY <1>12, <2>2, MineMeasure DEF PaidBy
<1>17. s.cursor \subseteq Cell
  BY <1>1, <1>2, <1>3
<1>18. QED
  <2>1. /\ \/ u = One /\ Alone(k, r)
           \/ u = Two /\ Joint(k, r) /\ PaidBy(k, r)
        /\ Len(r.outs) <= (IF u = One THEN 1 ELSE 3) + (IF s.at = "ckb" THEN 1 ELSE 0)
        /\ One \notin r.signers /\ Two \notin r.signers
    BY <1>3, <1>12, <1>13, <1>16 DEF Collecting
  <2>2. s.at = "nfts" => \A i \in DOMAIN r.outs \ {1} : r.outs[i].user # u
    BY <1>3, <1>4, <1>12
  <2>3. Collecting(k, u, s)
    BY <1>3, <1>4, <1>12, <1>14, <1>15, <1>17, <2>1, <2>2, Partner DEF Collecting
  <2>4. QED
    BY <2>3 DEF s, taken
--------------------------------------------------------------------------------
(* A step of one who collects, while nothing else changes.                    *)
LEMMA InvParts ==
  ASSUME OpeningInv
  PROVE  /\ Core /\ CellsOK /\ txs \in Nat /\ LiveOK /\ ask \in [Users -> Ask] /\ prepared \in Nat
         /\ \A tx \in offers : OfferOK(ask, tx)
         /\ task = [u \in Users |-> task[u]]
         /\ \A u \in Users : TaskOK(ask, u, task[u])
  BY DEF OpeningInv, Core

LEMMA LiveKept ==
  ASSUME OpeningInv, UNCHANGED vars
  PROVE  Core' /\ LiveOK'
<1>1. UNCHANGED <<live, txs>> /\ pool' = pool
  BY DEF vars
<1>2. Core'
  BY <1>1, InvParts, CoreKept
<1>3. LiveOK'
  BY <1>1, InvParts DEF LiveOK
<1>4. QED
  BY <1>2, <1>3

LEMMA InvNext ==
  ASSUME Core', LiveOK', ask' = ask, ask \in [Users -> Ask], prepared' \in Nat,
         \A tx \in offers' : OfferOK(ask, tx),
         task' = [v \in Users |-> task'[v]], \A v \in Users : TaskOK(ask, v, task'[v])
  PROVE  OpeningInv'
<1>1. ask' \in [Users -> Ask]
  OBVIOUS
<1>2. \A tx \in offers' : OfferOK(ask', tx)
  OBVIOUS
<1>3. \A v \in Users : TaskOK(ask', v, task'[v])
  OBVIOUS
<1>4. QED
  BY <1>1, <1>2, <1>3, Zenon DEF OpeningInv

LEMMA TaskStep ==
  ASSUME OpeningInv, Core', LiveOK', ask' = ask, NEW u \in Users, NEW s, TaskOK(ask, u, s),
         task' = [task EXCEPT ![u] = s],
         prepared' \in Nat, \A tx \in offers' : OfferOK(ask, tx)
  PROVE  OpeningInv'
<1>1. task = [v \in Users |-> task[v]]
  BY InvParts
<1>2. task' = [v \in Users |-> task'[v]]
  BY <1>1
<1>3. ASSUME NEW v \in Users
      PROVE  TaskOK(ask, v, task'[v])
  <2>1. TaskOK(ask, v, task[v])
    BY InvParts
  <2>2. task'[v] = IF v = u THEN s ELSE task[v]
    BY <1>1
  <2>3. QED
    BY <2>1, <2>2
<1>4. ask \in [Users -> Ask]
  BY InvParts
<1>5. QED
  BY <1>2, <1>3, <1>4, InvNext

LEMMA FailStep ==
  ASSUME OpeningInv, NEW u \in Users, Fail(u), UNCHANGED <<vars, ask, offers, prepared>>
  PROVE  OpeningInv'
<1>1. Core' /\ LiveOK'
  BY LiveKept
<1>2. TaskOK(ask, u, Idle)
  BY DEF TaskOK
<1>3. QED
  BY <1>1, <1>2, InvParts, TaskStep DEF Fail

(* The records of those who collect.                                          *)
Pile(tk, u, ins, z, m) ==
  [tk EXCEPT ![u].tx.ins = @ \o ins, ![u].cursor = {z}, ![u].missing = m]
Heap(tk, u, ins, z) == [tk EXCEPT ![u].tx.ins = @ \o ins, ![u].cursor = {z}]
Fields(t) == [at |-> t.at, tx |-> t.tx, cursor |-> t.cursor, missing |-> t.missing]

LEMMA TaskIns ==
  ASSUME NEW tk, NEW u \in Users, tk = [v \in Users |-> tk[v]], tk[u] = Fields(tk[u]),
         NEW ins, NEW z, NEW m
  PROVE  Pile(tk, u, ins, z, m) = [tk EXCEPT ![u] = More(tk[u], ins, z, m)]
<1> DEFINE t == tk[u]
           x == Ins(t.tx, t.tx.ins \o ins)
           T == [at : {t.at}, tx : {t.tx, x}, cursor : {t.cursor, {z}}, missing : {t.missing, m}]
           b == [[[t EXCEPT !.tx = x] EXCEPT !.cursor = {z}] EXCEPT !.missing = m]
<1>1. t \in T
  BY DEF Fields
<1>2. b \in T /\ b.tx = x /\ b.cursor = {z} /\ b.missing = m /\ b.at = t.at
  BY <1>1
<1>3. b = More(t, ins, z, m)
  <2> HIDE DEF b, x
  <2>1. b = Fields(b)
    BY <1>2 DEF Fields
  <2>2. More(t, ins, z, m) = [at |-> t.at, tx |-> x, cursor |-> {z}, missing |-> m]
    BY DEF More, x
  <2>3. QED
    BY <1>2, <2>1, <2>2, Zenon DEF Fields
<1>4. Pile(tk, u, ins, z, m) = [tk EXCEPT ![u] = b]
  BY DEF Ins, Pile
<1>5. QED
  BY <1>3, <1>4, Zenon

LEMMA TaskMore ==
  ASSUME NEW tk, NEW u \in Users, tk = [v \in Users |-> tk[v]], tk[u] = Fields(tk[u]),
         NEW ins, NEW z
  PROVE  Heap(tk, u, ins, z) = [tk EXCEPT ![u] = More(tk[u], ins, z, tk[u].missing)]
<1> DEFINE t == tk[u]
           x == Ins(t.tx, t.tx.ins \o ins)
           T == [at : {t.at}, tx : {t.tx, x}, cursor : {t.cursor, {z}}, missing : {t.missing}]
           a == [[t EXCEPT !.tx = x] EXCEPT !.cursor = {z}]
<1>1. t \in T
  BY DEF Fields
<1>2. a \in T /\ a.tx = x /\ a.cursor = {z} /\ a.missing = t.missing /\ a.at = t.at
  BY <1>1
<1>3. a = More(t, ins, z, t.missing)
  <2> HIDE DEF a, x
  <2>1. a = Fields(a)
    BY <1>2 DEF Fields
  <2>2. More(t, ins, z, t.missing) = [at |-> t.at, tx |-> x, cursor |-> {z}, missing |-> t.missing]
    BY DEF More, x
  <2>3. QED
    BY <1>2, <2>1, <2>2, Zenon DEF Fields
<1>4. Heap(tk, u, ins, z) = [tk EXCEPT ![u] = a]
  BY DEF Ins, Heap
<1>5. QED
  BY <1>3, <1>4, Zenon

LEMMA Collects ==
  ASSUME OpeningInv, NEW u \in Users, task[u].at \in {"nfts", "ckb"}
  PROVE  /\ Collecting(ask, u, task[u])
         /\ task[u] = Fields(task[u])
<1>1. TaskOK(ask, u, task[u])
  BY InvParts
<1>2. task[u] # Idle
  BY DEF Idle
<1>3. Collecting(ask, u, task[u])
  BY <1>1, <1>2 DEF TaskOK
<1>4. QED
  BY <1>3 DEF Collecting, Fields

LEMMA ReadNftsStep ==
  ASSUME OpeningInv, NEW u \in Users, ReadNfts(u)
  PROVE  OpeningInv'
<1> DEFINE t == task[u]
           A == Ahead(u, {"nft"}, t.cursor)
           page == PageOf(A, NftPage)
           needed(i) == \E n \in Nfts : page[i].nfts[n] > 0
                                          /\ Total(Earlier(page, i))[n] < t.missing[n]
           R == {page[i] : i \in {j \in DOMAIN page : needed(j)}}
           taken == OldestFirst(R)
           z == Last(page)
           m == Less(t.missing, NftsOf(page))
<1>1. /\ t.at = "nfts" /\ UNCHANGED <<vars, ask, offers, prepared>>
      /\ page = << >> => Fail(u)
      /\ page # << >> => task' = [task EXCEPT ![u].tx.ins = @ \o taken, ![u].cursor = {z},
                                              ![u].missing = m]
  BY Zenon DEF ReadNfts, Cursor
<1>2. CASE page = << >>
  BY <1>1, <1>2, FailStep
<1>3. CASE page # << >>
  <2>1. /\ Collecting(ask, u, t)
        /\ t = Fields(t)
    BY <1>1, Collects
  <2>2. CellsOK /\ LiveOK /\ prepared \in Nat /\ \A tx \in offers : OfferOK(ask, tx)
    BY InvParts
  <2>3. /\ A \subseteq Cell /\ IsFiniteSet(A) /\ Distinct(A)
        /\ \A c \in A : c.kind \in {"nft"}
    BY <2>2, AheadIs
  <2>4. /\ \A i \in DOMAIN page : page[i] \in A
        /\ z \in A /\ \A i \in DOMAIN page : page[i].id <= z.id
    <3> HIDE DEF A
    <3>1. QED
      BY <1>3, <2>3, PageIs, OpeningAssumption
  <2> HIDE DEF A, page, z, m, needed
  <2>5. R \subseteq A /\ \A c \in R : c.id <= z.id
    BY <2>4
  <2>6. \A c \in R : c.kind = Wanted(t)
    BY <1>1, <2>3, <2>5 DEF Wanted
  <2> HIDE DEF R
  <2>7. TaskOK(ask, u, More(t, taken, z, m))
    <3>1. Collecting(ask, u, More(t, taken, z, m))
      BY <2>1, <2>2, <2>4, <2>5, <2>6, ReadStep DEF A
    <3>2. QED
      BY <3>1 DEF TaskOK
  <2>8. task' = [task EXCEPT ![u] = More(t, taken, z, m)]
    <3>1. task = [v \in Users |-> task[v]]
      BY InvParts
    <3> HIDE DEF taken
    <3>2. task' = Pile(task, u, taken, z, m)
      BY <1>1, <1>3, Zenon DEF Pile
    <3>3. QED
      BY <2>1, <3>1, <3>2, TaskIns
  <2>9. Core' /\ LiveOK'
    BY <1>1, LiveKept
  <2> HIDE DEF t, taken
  <2>10. QED
    BY <1>1, <2>2, <2>7, <2>8, <2>9, TaskStep
<1>4. QED
  BY <1>2, <1>3

LEMMA ReadCkbStep ==
  ASSUME OpeningInv, NEW u \in Users, ReadCkb(u)
  PROVE  OpeningInv'
<1> DEFINE t == task[u]
           A == Ahead(u, {"plain", "nft"}, t.cursor)
           page == PageOf(A, CkbPage)
           plain(cells) == {c \in cells : c.kind = "plain"}
           needed(j) == Ckb(plain(Earlier(page, j))) < Short(u, t.tx)
           R == plain({page[i] : i \in {j \in DOMAIN page : needed(j)}})
           taken == OldestFirst(R)
           z == Last(page)
<1>1. /\ t.at = "ckb" /\ UNCHANGED <<vars, ask, offers, prepared>>
      /\ page = << >> => Fail(u)
      /\ page # << >> => task' = [task EXCEPT ![u].tx.ins = @ \o taken, ![u].cursor = {z}]
  BY Zenon DEF ReadCkb, Cursor
<1>2. CASE page = << >>
  BY <1>1, <1>2, FailStep
<1>3. CASE page # << >>
  <2>1. /\ Collecting(ask, u, t)
        /\ t = Fields(t)
    BY <1>1, Collects
  <2>2. CellsOK /\ LiveOK /\ prepared \in Nat /\ \A tx \in offers : OfferOK(ask, tx)
    BY InvParts
  <2>3. A \subseteq Cell /\ IsFiniteSet(A) /\ Distinct(A)
    BY <2>2, AheadIs
  <2>4. /\ \A i \in DOMAIN page : page[i] \in A
        /\ z \in A /\ \A i \in DOMAIN page : page[i].id <= z.id
    <3> HIDE DEF A
    <3>1. QED
      BY <1>3, <2>3, PageIs, OpeningAssumption
  <2> HIDE DEF A, page, z, needed
  <2>5. R \subseteq A /\ \A c \in R : c.id <= z.id
    BY <2>4
  <2>6. \A c \in R : c.kind = Wanted(t)
    BY <1>1 DEF Wanted
  <2> HIDE DEF R
  <2>7. TaskOK(ask, u, More(t, taken, z, t.missing))
    <3>1. Collecting(ask, u, More(t, taken, z, t.missing))
      BY <2>1, <2>2, <2>4, <2>5, <2>6, ReadStep DEF A
    <3>2. QED
      BY <3>1 DEF TaskOK
  <2>8. task' = [task EXCEPT ![u] = More(t, taken, z, t.missing)]
    <3>1. task = [v \in Users |-> task[v]]
      BY InvParts
    <3> HIDE DEF taken
    <3>2. task' = Heap(task, u, taken, z)
      BY <1>1, <1>3, Zenon DEF Heap
    <3>3. QED
      BY <2>1, <3>1, <3>2, TaskMore
  <2>9. Core' /\ LiveOK'
    BY <1>1, LiveKept
  <2> HIDE DEF t, taken
  <2>10. QED
    BY <1>1, <2>2, <2>7, <2>8, <2>9, TaskStep
<1>4. QED
  BY <1>2, <1>3
--------------------------------------------------------------------------------
(* The cell of the channel, and what a user asks for.                         *)
LEMMA ChannelCellIs ==
  ASSUME NEW k \in Nat
  PROVE  /\ ChannelCell(k) \in Cell /\ ChannelCell(k).kind = "channel" /\ ChannelCell(k).ckb = k
         /\ ChannelCell(k).user = One
<1> DEFINE p == Plain(One, k)
           c == [p EXCEPT !.kind = "channel"]
<1>1. p \in Cell /\ p.ckb = k /\ p.user = One
  BY PlayersAre, PlainCell
<1> HIDE DEF p
<1>2. c \in Cell /\ c.kind = "channel" /\ c.ckb = k /\ c.user = One
  BY <1>1 DEF Cell, Kinds
<1>3. ChannelCell(k) = c
  BY DEF ChannelCell, p, One
<1>4. QED
  BY <1>2, <1>3

LEMMA AskIs ==
  ASSUME NEW k \in [Users -> Ask], NEW u \in Users
  PROVE  /\ k[u].stake \in Nat /\ k[u].deck \in Nat /\ k[u].hashes \in Nat /\ k[u].nfts \in Bag
  BY DEF Ask

(* A channel that has room for its args has room for something.               *)
LEMMA Occupied ==
  ASSUME NEW args, args.nfts \in [Users -> Bag]
  PROVE  OccupiedBy(args) \in Nat /\ OccupiedBy(args) > 0
<1> DEFINE f == [v \in Users |-> Count(args.nfts[v])]
<1>1. SumFunction(f) = Sum(f, Users)
  BY Zenon DEF Sum, SumFunction
<1>2. \A v \in Users : f[v] \in Nat
  BY CountIs
<1> HIDE DEF f
<1>3. Sum(f, Users) \in Nat
  BY <1>2, SumType, StoreAssumption
<1>4. ArgsBytes \in Nat /\ ArgsBytes > 0
  BY OpeningAssumption
<1>5. OccupiedBy(args) = ArgsBytes + SumFunction(f)
  BY DEF OccupiedBy, f
<1>6. QED
  BY <1>1, <1>3, <1>4, <1>5

(* prepare_channel_tx begins with the channel's cell, and no other.           *)
LEMMA PrepareStep ==
  ASSUME OpeningInv, Prepare
  PROVE  OpeningInv'
<1> DEFINE a == ask[One]
           args == [stake |-> a.stake, deck |-> a.deck, hashes |-> a.hashes, begin |-> prepared,
                    users |-> <<One>>, nfts |-> [v \in Users |-> IF v = One THEN a.nfts ELSE Empty]]
           cell == ChannelCell(Half(a))
           tx == [args |-> args, ins |-> << >>, outs |-> <<cell>>, witnesses |-> << >>, signers |-> {}]
           s == [at |-> "nfts", tx |-> tx, cursor |-> {}, missing |-> a.nfts]
<1>1. /\ OccupiedBy(args) <= 2 * Half(a)
      /\ task' = [task EXCEPT ![One] = s]
      /\ prepared' = prepared + 1 /\ UNCHANGED <<vars, ask, offers>>
  BY Zenon DEF Prepare, Collect, One
<1>2. ask \in [Users -> Ask] /\ prepared \in Nat /\ \A t \in offers : OfferOK(ask, t)
  BY InvParts
<1>3. One \in Users /\ One # Two
  BY PlayersAre
<1>4. args \in Args
  <2>1. /\ a.stake \in Nat /\ a.deck \in Nat /\ a.hashes \in Nat /\ a.nfts \in Bag
    BY <1>2, <1>3, AskIs
  <2>2. Empty \in Bag
    BY EmptyIs DEF Bag
  <2> HIDE DEF a
  <2>3. [v \in Users |-> IF v = One THEN a.nfts ELSE Empty] \in [Users -> Bag]
    BY <2>1, <2>2
  <2>4. <<One>> \in Seq(Users)
    BY <1>3
  <2>5. QED
    BY <1>2, <2>1, <2>3, <2>4 DEF Args
<1>5. Half(a) \in Nat /\ Half(a) > 0
  <2>1. Half(a) \in Nat
    BY <1>2, <1>3, HalfNat
  <2>2. args.nfts \in [Users -> Bag]
    BY <1>4 DEF Args
  <2> HIDE DEF args
  <2>3. OccupiedBy(args) \in Nat /\ OccupiedBy(args) > 0
    BY <2>2, Occupied
  <2>4. QED
    BY <1>1, <2>1, <2>3
<1>6. cell \in Cell /\ cell.kind = "channel" /\ cell.ckb = Half(a)
  BY <1>5, ChannelCellIs
<1>7. args.users = <<One>>
  OBVIOUS
<1> HIDE DEF cell, args
<1>8. /\ tx = Parts(tx) /\ tx.args = args /\ tx.ins = << >> /\ tx.outs = <<cell>>
      /\ tx.witnesses = << >> /\ tx.signers = {}
  BY DEF Parts
<1>9. s.at = "nfts" /\ s.tx = tx /\ s.cursor = {}
      /\ s = [at |-> s.at, tx |-> s.tx, cursor |-> s.cursor, missing |-> s.missing]
  OBVIOUS
<1> HIDE DEF tx, s
<1>10. /\ tx.outs \in Seq(Cell) /\ Len(tx.outs) = 1 /\ DOMAIN tx.outs = {1} /\ tx.outs[1] = cell
       /\ tx.outs # << >>
  BY <1>6, <1>8
<1>11. /\ tx.ins \in Seq(Cell) /\ DOMAIN tx.ins = {} /\ Len(tx.ins) = 0 /\ Len(tx.witnesses) = 0
       /\ IsInjective(tx.ins)
  BY <1>8 DEF IsInjective
<1>12. OpeningType(tx)
  BY <1>4, <1>8, <1>10, <1>11 DEF OpeningType
<1>13. Alone(ask, tx)
  BY <1>6, <1>7, <1>8, <1>10 DEF Alone
<1>14. Formed(ask, tx)
  BY <1>5, <1>6, <1>10, <1>11, <1>12, <1>13 DEF Formed
<1>15. ASSUME NEW v \in Users
       PROVE  Balanced(tx, v)
  <2> SUFFICES ASSUME NEW n \in Nfts
               PROVE  SumOut(NftsIn(v, n), tx.ins) = SumOut(NftsIn(v, n), tx.outs)
    BY DEF Balanced
  <2>1. SumOut(NftsIn(v, n), tx.ins) = 0
    BY <1>8, SumOutNil
  <2>2. NftsIn(v, n)[cell] = 0
    BY <1>6 DEF NftsIn
  <2>3. SumOut(NftsIn(v, n), tx.outs) = 0
    BY <1>10, <2>2, SumOutZero
  <2>4. QED
    BY <2>1, <2>3
<1>16. Collecting(ask, One, s)
  <2>1. s.cursor \subseteq Cell /\ One \notin s.tx.signers /\ Two \notin s.tx.signers
    BY <1>8, <1>9
  <2> Len(s.tx.outs) <= (IF One = One THEN 1 ELSE 3) + (IF s.at = "ckb" THEN 1 ELSE 0)
    BY <1>9, <1>10
  <2>2. /\ \A v \in Users \ {One} : Balanced(s.tx, v)
        /\ s.at = "ckb" => Balanced(s.tx, One)
    BY <1>9, <1>15
  <2>3. /\ s.at = "nfts" => \A i \in DOMAIN s.tx.outs \ {1} : s.tx.outs[i].user # One
        /\ \A i \in DOMAIN s.tx.ins : Sought(One, s, s.tx.ins[i])
    BY <1>9, <1>10, <1>11
  <2>4. QED
    BY <1>9, <1>13, <1>14, <2>1, <2>2, <2>3 DEF Collecting
<1>17. TaskOK(ask, One, s)
  BY <1>16 DEF TaskOK
<1>18. Core' /\ LiveOK'
  BY <1>1, LiveKept
<1>19. prepared' \in Nat /\ (\A t \in offers' : OfferOK(ask, t)) /\ ask' = ask
  BY <1>1, <1>2
<1> HIDE DEF a
<1>20. QED
  BY <1>1, <1>3, <1>17, <1>18, <1>19, TaskStep
--------------------------------------------------------------------------------
(* The user who completes joins: the channel's cell has twice as much, and the   *)
(* args name both users.                                                      *)
LEMMA AppendOne ==
  ASSUME NEW A, NEW x \in A, NEW y \in A
  PROVE  Append(<<x>>, y) = <<x, y>>
<1> DEFINE a == Append(<<x>>, y)
           b == <<x, y>>
<1>1. <<x>> \in Seq(A)
  OBVIOUS
<1>2. a \in Seq(A) /\ Len(a) = 2 /\ a[1] = x /\ a[2] = y
  BY <1>1
<1>3. b \in Seq(A) /\ Len(b) = 2 /\ b[1] = x /\ b[2] = y
  OBVIOUS
<1> HIDE DEF a, b
<1>4. \A i \in 1 .. 2 : a[i] = b[i]
  BY <1>2, <1>3
<1>5. a = b
  BY <1>2, <1>3, <1>4
<1>6. QED
  BY <1>5 DEF a, b

LEMMA ArgsJoined ==
  ASSUME NEW args \in Args, args.users = <<One>>, NEW b \in Bag
  PROVE  LET r == [args EXCEPT !.users = Append(@, Two), !.nfts[Two] = b] IN
         r \in Args /\ r.users = <<One, Two>>
<1> DEFINE users == Append(args.users, Two)
           nfts == [args.nfts EXCEPT ![Two] = b]
           r == [args EXCEPT !.users = users, !.nfts = nfts]
<1>1. users = <<One, Two>> /\ users \in Seq(Users)
  <2>1. users = Append(<<One>>, Two)
    OBVIOUS
  <2>2. Append(<<One>>, Two) = <<One, Two>> /\ <<One, Two>> \in Seq(Users)
    <3>1. <<One>> \in Seq(Users) /\ Two \in Users
      BY PlayersAre
    <3>2. Append(<<One>>, Two) \in Seq(Users)
      BY <3>1
    <3>3. Append(<<One>>, Two) = <<One, Two>>
      BY PlayersAre, AppendOne
    <3>4. QED
      BY <3>2, <3>3
  <2>3. QED
    BY <2>1, <2>2, Zenon
<1>2. nfts \in [Users -> Bag]
  BY PlayersAre DEF Args
<1> HIDE DEF users, nfts
<1>3. r \in Args /\ r.users = users
  BY <1>1, <1>2 DEF Args
<1>4. QED
  BY <1>1, <1>3 DEF users, nfts

LEMMA CellDoubled ==
  ASSUME NEW c \in Cell
  PROVE  LET d == [c EXCEPT !.ckb = 2 * @] IN
         d \in Cell /\ d.ckb = 2 * c.ckb /\ d.kind = c.kind
<1> DEFINE x == 2 * c.ckb
           d == [c EXCEPT !.ckb = x]
<1>1. x \in Nat
  BY DEF Cell
<1> HIDE DEF x
<1>2. d \in Cell /\ d.ckb = x /\ d.kind = c.kind
  BY <1>1 DEF Cell
<1>3. QED
  BY <1>2 DEF x

LEMMA JoinedIs ==
  ASSUME NEW k, NEW tx, Formed(k, tx), Alone(k, tx), NEW b \in Bag, NEW r, r = Joined(tx, Two, b)
  PROVE  /\ r = Parts(r) /\ r.args \in Args /\ r.args.users = <<One, Two>>
         /\ r.ins = tx.ins /\ r.witnesses = tx.witnesses /\ r.signers = tx.signers
         /\ r.outs \in Seq(Cell) /\ Len(r.outs) = Len(tx.outs) /\ DOMAIN r.outs = DOMAIN tx.outs
         /\ 1 \in DOMAIN tx.outs /\ r.outs # << >>
         /\ r.outs[1].kind = "channel" /\ r.outs[1].ckb = 2 * tx.outs[1].ckb
         /\ \A i \in DOMAIN tx.outs \ {1} : r.outs[i] = tx.outs[i]
<1>1. /\ tx = Parts(tx) /\ tx.args \in Args /\ tx.args.users = <<One>>
      /\ tx.outs \in Seq(Cell) /\ tx.outs # << >> /\ tx.outs[1].kind = "channel"
  BY DEF Formed, OpeningType, Alone
<1> DEFINE args == [tx.args EXCEPT !.users = Append(@, Two), !.nfts[Two] = b]
           cell == [tx.outs[1] EXCEPT !.ckb = 2 * @]
           outs == [tx.outs EXCEPT ![1] = cell]
           o == Outs([tx EXCEPT !.args = args], outs)
<1>2. args \in Args /\ args.users = <<One, Two>>
  BY <1>1, ArgsJoined
<1>3. 1 \in DOMAIN tx.outs /\ tx.outs[1] \in Cell
  BY <1>1
<1>4. cell \in Cell /\ cell.ckb = 2 * tx.outs[1].ckb /\ cell.kind = "channel"
  BY <1>1, <1>3, CellDoubled
<1>5. r = [tx EXCEPT !.args = args, !.outs = outs]
  BY Zenon DEF Joined
<1> HIDE DEF args, cell
<1>6. /\ outs \in Seq(Cell) /\ Len(outs) = Len(tx.outs) /\ DOMAIN outs = DOMAIN tx.outs
      /\ outs[1] = cell /\ \A i \in DOMAIN tx.outs \ {1} : outs[i] = tx.outs[i]
  BY <1>1, <1>3, <1>4
<1> HIDE DEF outs
<1>7. /\ r = Parts(r) /\ r.args = args /\ r.outs = outs
      /\ r.ins = tx.ins /\ r.witnesses = tx.witnesses /\ r.signers = tx.signers
  <2> DEFINE T == [args : {tx.args, args}, ins : {tx.ins}, outs : {tx.outs, outs},
                   witnesses : {tx.witnesses}, signers : {tx.signers}]
  <2>1. tx \in T
    BY <1>1 DEF Parts
  <2>2. r \in T /\ r.args = args /\ r.outs = outs
    BY <1>5, <2>1
  <2>3. r = Parts(r)
    BY <2>2 DEF Parts
  <2>4. QED
    BY <2>2, <2>3
<1>8. r.outs # << >>
  BY <1>1, <1>6, <1>7
<1>9. QED
  BY <1>2, <1>3, <1>4, <1>6, <1>7, <1>8

(* An offer that the second user can complete is as the first one has prepared  *)
(* it, and nobody's signature is on it that could be lost.                    *)
LEMMA CompletesAlone ==
  ASSUME NEW k \in [Users -> Ask], NEW tx, OfferOK(k, tx), tx.outs[1].ckb = Half(k[Two])
  PROVE  /\ Alone(k, tx) /\ Half(k[One]) = Half(k[Two])
         /\ One \notin tx.signers /\ Two \notin tx.signers
<1>1. /\ Half(k[One]) \in Nat /\ Half(k[Two]) \in Nat /\ Half(k[One]) > 0
      /\ Alone(k, tx) \/ Joint(k, tx)
  BY HalfNat, PlayersAre DEF OfferOK, Formed
<1>2. Alone(k, tx) /\ Half(k[One]) = Half(k[Two])
  BY <1>1 DEF Joint, Alone
<1>3. ASSUME NEW u \in {One, Two}, u \in tx.signers
      PROVE  FALSE
  <2>1. tx.outs[1].ckb = 2 * Half(k[u])
    BY <1>3 DEF OfferOK, SignedOK
  <2>2. Half(k[u]) = Half(k[One]) /\ tx.outs[1].ckb = Half(k[One])
    BY <1>2 DEF Alone
  <2>3. QED
    BY <1>1, <2>1, <2>2
<1>4. QED
  BY <1>2, <1>3

LEMMA CompleteStep ==
  ASSUME OpeningInv, NEW tx \in offers, Complete(tx)
  PROVE  OpeningInv'
<1> DEFINE a == ask[Two]
           r == Joined(tx, Two, a.nfts)
           s == [at |-> "nfts", tx |-> r, cursor |-> {}, missing |-> a.nfts]
<1>1. /\ tx.outs[1].ckb = Half(a)
      /\ task' = [task EXCEPT ![Two] = s]
      /\ offers' = offers \ {tx} /\ UNCHANGED <<vars, ask, prepared>>
  BY Zenon DEF Complete, Collect, Two
<1>2. ask \in [Users -> Ask] /\ prepared \in Nat /\ \A t \in offers : OfferOK(ask, t)
  BY InvParts
<1>3. One \in Users /\ Two \in Users /\ One # Two /\ a.nfts \in Bag
  BY <1>2, PlayersAre, AskIs
<1>4. OfferOK(ask, tx)
  BY <1>2
<1>5. /\ Alone(ask, tx) /\ Half(ask[One]) = Half(ask[Two]) /\ One \notin tx.signers /\ Two \notin tx.signers
  BY <1>1, <1>2, <1>4, CompletesAlone
<1>6. Formed(ask, tx) /\ PaidBy(ask, tx) /\ (\A v \in Users : Balanced(tx, v)) /\ Len(tx.outs) <= 3
  BY <1>4, <1>5 DEF OfferOK
<1>7. /\ r = Parts(r) /\ r.args \in Args /\ r.args.users = <<One, Two>>
      /\ r.ins = tx.ins /\ r.witnesses = tx.witnesses /\ r.signers = tx.signers
      /\ r.outs \in Seq(Cell) /\ Len(r.outs) = Len(tx.outs) /\ DOMAIN r.outs = DOMAIN tx.outs
      /\ 1 \in DOMAIN tx.outs /\ r.outs # << >>
      /\ r.outs[1].kind = "channel" /\ r.outs[1].ckb = 2 * tx.outs[1].ckb
      /\ \A i \in DOMAIN tx.outs \ {1} : r.outs[i] = tx.outs[i]
  <2> HIDE DEF a
  <2>1. QED
    BY <1>3, <1>5, <1>6, JoinedIs
<1>8. s.at = "nfts" /\ s.tx = r /\ s.cursor = {}
      /\ s = [at |-> s.at, tx |-> s.tx, cursor |-> s.cursor, missing |-> s.missing]
  OBVIOUS
<1> HIDE DEF r, s, a
<1>9. /\ OpeningType(tx) /\ Half(ask[One]) > 0 /\ IsInjective(tx.ins)
      /\ \A i \in DOMAIN tx.ins : Part(tx, tx.ins[i]) /\ PaysNfts(tx.ins[i])
      /\ tx.outs[1].kind = "channel"
      /\ \A i \in DOMAIN tx.outs \ {1} : Part(tx, tx.outs[i]) /\ Funded(tx, tx.outs[i])
      /\ tx.args.users = <<One>> /\ tx.outs \in Seq(Cell)
  BY <1>5, <1>6 DEF Formed, Alone, OpeningType
<1>10. Joint(ask, r)
  BY <1>5, <1>7 DEF Joint, Alone
<1>11. ToSet(<<One>>) = {One} /\ One \in ToSet(<<One, Two>>)
  BY DEF ToSet
<1>12. \A c : Part(tx, c) => Part(r, c) /\ c.user = One
  BY <1>7, <1>9, <1>11 DEF Part
<1>13. \A c : Funded(tx, c) => Funded(r, c)
  BY <1>7 DEF Funded, Void
<1>14. OpeningType(r)
  BY <1>7, <1>9 DEF OpeningType
<1>15. Formed(ask, r)
  <2>1. \A i \in DOMAIN r.ins : Part(r, r.ins[i]) /\ PaysNfts(r.ins[i])
    BY <1>7, <1>9, <1>12
  <2>2. \A i \in DOMAIN r.outs \ {1} : Part(r, r.outs[i]) /\ Funded(r, r.outs[i])
    BY <1>7, <1>9, <1>12, <1>13
  <2>3. QED
    BY <1>7, <1>9, <1>10, <1>14, <2>1, <2>2 DEF Formed
<1>16. ASSUME NEW f, \A c \in Cell : c.kind = "channel" => f[c] = 0
       PROVE  SumOut(f, r.outs) = SumOut(f, tx.outs)
  <2>1. tx.outs[1] \in Cell /\ r.outs[1] \in Cell
    BY <1>7, <1>9
  <2>2. f[tx.outs[1]] = 0 /\ f[r.outs[1]] = 0
    BY <1>7, <1>9, <1>16, <2>1
  <2>3. \A i \in DOMAIN tx.outs : f[r.outs[i]] = f[tx.outs[i]]
    BY <1>7, <2>2
  <2>4. QED
    BY <1>7, <1>9, <2>3, SumOutFirst
<1>17. ASSUME NEW v \in Users
       PROVE  Balanced(r, v)
  <2> SUFFICES ASSUME NEW n \in Nfts
               PROVE  SumOut(NftsIn(v, n), r.ins) = SumOut(NftsIn(v, n), r.outs)
    BY DEF Balanced
  <2>1. \A c \in Cell : c.kind = "channel" => NftsIn(v, n)[c] = 0
    BY DEF NftsIn
  <2>2. SumOut(NftsIn(v, n), r.outs) = SumOut(NftsIn(v, n), tx.outs)
    BY <1>16, <2>1
  <2>3. Balanced(tx, v)
    BY <1>6
  <2>4. QED
    BY <1>7, <2>2, <2>3 DEF Balanced
<1>18. PaidBy(ask, r)
  <2>1. \A c \in Cell : c.kind = "channel" => MineIn(One)[c] = 0
    BY DEF MineIn
  <2>2. SumOut(MineIn(One), r.outs) = SumOut(MineIn(One), tx.outs)
    BY <1>16, <2>1
  <2>3. QED
    BY <1>6, <1>7, <2>2 DEF PaidBy
<1>19. Collecting(ask, Two, s)
  <2>1. s.cursor \subseteq Cell /\ One \notin s.tx.signers /\ Two \notin s.tx.signers
    BY <1>5, <1>7, <1>8
  <2>2. Len(s.tx.outs) <= (IF Two = One THEN 1 ELSE 3) + (IF s.at = "ckb" THEN 1 ELSE 0)
    BY <1>3, <1>6, <1>7, <1>8
  <2>3. /\ \A v \in Users \ {Two} : Balanced(s.tx, v)
        /\ s.at = "ckb" => Balanced(s.tx, Two)
    BY <1>8, <1>17
  <2>4. s.at = "nfts" => \A i \in DOMAIN s.tx.outs \ {1} : s.tx.outs[i].user # Two
    BY <1>3, <1>7, <1>8, <1>9, <1>12
  <2>5. \A i \in DOMAIN s.tx.ins : Sought(Two, s, s.tx.ins[i])
    BY <1>3, <1>7, <1>8, <1>9, <1>12 DEF Sought
  <2>6. QED
    BY <1>8, <1>10, <1>15, <1>18, <2>1, <2>2, <2>3, <2>4, <2>5 DEF Collecting
<1>20. TaskOK(ask, Two, s)
  BY <1>19 DEF TaskOK
<1>21. Core' /\ LiveOK'
  BY <1>1, LiveKept
<1>22. prepared' \in Nat /\ (\A t \in offers' : OfferOK(ask, t)) /\ ask' = ask
  BY <1>1, <1>2
<1>23. QED
  BY <1>1, <1>3, <1>20, <1>21, <1>22, TaskStep
--------------------------------------------------------------------------------
(* The nft cells are merged, and ckb is collected next.                       *)
Merges(tk, u, c) ==
  [tk EXCEPT ![u].at = "ckb", ![u].cursor = {}, ![u].tx.outs = Append(@, c)]
Merging(t, c) ==
  [at |-> "ckb", tx |-> Outs(t.tx, Append(t.tx.outs, c)), cursor |-> {}, missing |-> t.missing]

LEMMA TaskMerge ==
  ASSUME NEW tk, NEW u \in Users, tk = [v \in Users |-> tk[v]], tk[u] = Fields(tk[u]), NEW c
  PROVE  Merges(tk, u, c) = [tk EXCEPT ![u] = Merging(tk[u], c)]
<1> DEFINE t == tk[u]
           x == Outs(t.tx, Append(t.tx.outs, c))
           T == [at : {t.at, "ckb"}, tx : {t.tx, x}, cursor : {t.cursor, {}}, missing : {t.missing}]
           b == [[[t EXCEPT !.at = "ckb"] EXCEPT !.cursor = {}] EXCEPT !.tx = x]
<1>1. t \in T
  BY DEF Fields
<1>2. b \in T /\ b.tx = x /\ b.cursor = {} /\ b.missing = t.missing /\ b.at = "ckb"
  BY <1>1
<1>3. b = Merging(t, c)
  <2> HIDE DEF b, x
  <2>1. b = Fields(b)
    BY <1>2 DEF Fields
  <2>2. Merging(t, c) = [at |-> "ckb", tx |-> x, cursor |-> {}, missing |-> t.missing]
    BY DEF Merging, x
  <2>3. QED
    BY <1>2, <2>1, <2>2, Zenon DEF Fields
<1>4. Merges(tk, u, c) = [tk EXCEPT ![u] = b]
  BY <1>1 DEF Outs, Merges
<1>5. QED
  BY <1>3, <1>4, Zenon

(* What is merged is the user's, and is paid for, or is nothing.              *)
LEMMA MergedIs ==
  ASSUME NEW k, NEW tx, Formed(k, tx), NEW u \in Users, u \in ToSet(tx.args.users)
  PROVE  LET c == Merged(u, tx.ins) IN
         /\ c \in Cell /\ c.user = u /\ Part(tx, c) /\ Funded(tx, c)
         /\ \A v, n : n \in Nfts =>
              NftsIn(v, n)[c] = IF v = u THEN SumOut(NftsIn(u, n), tx.ins) ELSE 0
         /\ \A v : v # u => MineIn(v)[c] = 0
<1> DEFINE b == NftsAt(tx.ins, NftCells(tx.ins, u))
           p == CkbAt(tx.ins, NftCells(tx.ins, u))
           c == Merged(u, tx.ins)
<1>1. tx.ins \in Seq(Cell) /\ \A i \in DOMAIN tx.ins : PaysNfts(tx.ins[i])
  BY DEF Formed, OpeningType
<1>2. b \in Bag /\ p \in Nat /\ (b # Empty => Exact(Count(b)) <= p)
  BY <1>1, MergedPays
<1>3. \A n \in Nfts : b[n] = SumOut(NftsIn(u, n), tx.ins)
  BY <1>1, NftsAtIs
<1>4. c = NftCell(u, p, b)
  BY DEF Merged
<1> HIDE DEF b, p, c
<1>5. /\ c \in Cell /\ c.user = u /\ c.ckb = p
      /\ c.kind = (IF b = Empty THEN "plain" ELSE "nft")
      /\ Bytes(c) = Count(b)
      /\ \A v, n : n \in Nfts => NftsIn(v, n)[c] = IF v = u THEN b[n] ELSE 0
      /\ \A v : MineIn(v)[c] = IF v = u THEN p ELSE 0
  <2> DEFINE d == NftCell(u, p, b)
  <2>1. /\ d \in Cell /\ d.user = u /\ d.ckb = p
        /\ d.kind = (IF b = Empty THEN "plain" ELSE "nft")
        /\ Bytes(d) = Count(b)
        /\ \A v, n : n \in Nfts => NftsIn(v, n)[d] = IF v = u THEN b[n] ELSE 0
        /\ \A v : MineIn(v)[d] = IF v = u THEN p ELSE 0
    BY ONLY u \in Users, <1>2, NftCellPays
  <2>2. c = d
    BY <1>4
  <2> HIDE DEF d
  <2>3. QED
    BY <2>1, <2>2
<1>6. Part(tx, c)
  BY <1>5 DEF Part
<1>7. Funded(tx, c)
  <2>1. CASE b # Empty
    BY <1>2, <1>5, <2>1 DEF Funded, PaysOwn
  <2>2. CASE b = Empty
    <3>1. \A n \in Nfts : b[n] = 0
      BY <2>2, EmptyIs
    <3>2. Void(tx, u)
      BY <1>3, <3>1 DEF Void
    <3>3. QED
      BY <1>5, <2>2, <3>2 DEF Funded
  <2>3. QED
    BY <2>1, <2>2
<1>8. QED
  BY <1>3, <1>5, <1>6, <1>7 DEF c

LEMMA AddNftsStep ==
  ASSUME OpeningInv, NEW u \in Users, AddNfts(u)
  PROVE  OpeningInv'
<1> DEFINE t == task[u]
           tx == t.tx
           c == Merged(u, tx.ins)
           r == Outs(tx, Append(tx.outs, c))
           s == Merging(t, c)
<1>1. /\ t.at = "nfts" /\ UNCHANGED <<vars, ask, offers, prepared>>
      /\ task' = Merges(task, u, c)
  BY Zenon DEF AddNfts, Merges
<1>2. CellsOK /\ LiveOK /\ prepared \in Nat /\ \A o \in offers : OfferOK(ask, o)
  BY InvParts
<1>3. Collecting(ask, u, t) /\ t = Fields(t) /\ task = [v \in Users |-> task[v]]
  BY <1>1, Collects, InvParts
<1>4. task' = [task EXCEPT ![u] = s]
  BY <1>1, <1>3, TaskMerge
<1>5. s.at = "ckb" /\ s.tx = r /\ s.cursor = {}
      /\ s = [at |-> s.at, tx |-> s.tx, cursor |-> s.cursor, missing |-> s.missing]
  BY DEF Merging
<1> HIDE DEF s
<1>6. /\ Formed(ask, tx)
      /\ \A i \in DOMAIN tx.ins : Sought(u, t, tx.ins[i])
      /\ \A i \in DOMAIN tx.outs \ {1} : tx.outs[i].user # u
      /\ \A v \in Users \ {u} : Balanced(tx, v)
      /\ One \notin tx.signers /\ Two \notin tx.signers
      /\ \/ u = One /\ Alone(ask, tx)
         \/ u = Two /\ Joint(ask, tx) /\ PaidBy(ask, tx)
      /\ Len(tx.outs) <= (IF u = One THEN 1 ELSE 3) + 0
  BY <1>1, <1>3 DEF Collecting
<1>7. u \in ToSet(tx.args.users) /\ u \in {One, Two}
  BY <1>3, Partner
<1>8. /\ c \in Cell /\ c.user = u /\ Part(tx, c) /\ Funded(tx, c)
      /\ \A v, n : n \in Nfts =>
           NftsIn(v, n)[c] = IF v = u THEN SumOut(NftsIn(u, n), tx.ins) ELSE 0
      /\ \A v : v # u => MineIn(v)[c] = 0
  BY <1>6, <1>7, MergedIs
<1> HIDE DEF c
<1>9. Wider(ask, tx, c, r)
  <2> HIDE DEF tx
  <2>1. QED
    BY <1>6, <1>8, MoreOuts
<1> HIDE DEF r
<1>10. /\ Formed(ask, r) /\ Len(r.outs) = Len(tx.outs) + 1
       /\ r.args = tx.args /\ r.ins = tx.ins /\ r.signers = tx.signers
       /\ Alone(ask, r) <=> Alone(ask, tx)
       /\ Joint(ask, r) <=> Joint(ask, tx)
       /\ \A f : Measure(f) => /\ SumOut(f, r.outs) = SumOut(f, tx.outs) + f[c]
                               /\ SumOut(f, tx.outs) \in Nat /\ f[c] \in Nat
  BY <1>9 DEF Wider
<1>11. /\ tx.outs \in Seq(Cell) /\ tx.outs # << >> /\ tx.outs[1].kind = "channel"
       /\ 1 \in DOMAIN tx.outs /\ \A i \in DOMAIN tx.outs : tx.outs[i] \in Cell
       /\ tx.ins \in Seq(Cell) /\ Len(tx.outs) \in Nat
  <2>1. tx.outs \in Seq(Cell) /\ tx.outs # << >> /\ tx.outs[1].kind = "channel" /\ tx.ins \in Seq(Cell)
    BY <1>6 DEF Formed, OpeningType
  <2>2. QED
    BY <2>1
<1>12. ASSUME NEW n \in Nfts
       PROVE  SumOut(NftsIn(u, n), tx.outs) = 0
  <2>1. ASSUME NEW i \in DOMAIN tx.outs
        PROVE  NftsIn(u, n)[tx.outs[i]] = 0
    <3>1. tx.outs[i] \in Cell
      BY <1>11
    <3>2. tx.outs[i].user # u \/ tx.outs[i].kind = "channel"
      BY <1>6, <1>11
    <3>3. QED
      BY <3>1, <3>2 DEF NftsIn
  <2>2. QED
    BY <1>11, <2>1, SumOutZero
<1>13. ASSUME NEW v \in Users
       PROVE  Balanced(r, v)
  <2> SUFFICES ASSUME NEW n \in Nfts
               PROVE  SumOut(NftsIn(v, n), r.ins) = SumOut(NftsIn(v, n), r.outs)
    BY DEF Balanced
  <2>1. /\ SumOut(NftsIn(v, n), r.outs) = SumOut(NftsIn(v, n), tx.outs) + NftsIn(v, n)[c]
        /\ SumOut(NftsIn(v, n), tx.outs) \in Nat /\ NftsIn(v, n)[c] \in Nat
    BY <1>10, NftsMeasure
  <2>2. CASE v = u
    BY <1>8, <1>10, <1>12, <2>1, <2>2
  <2>3. CASE v # u
    <3>1. Balanced(tx, v)
      BY <1>6, <2>3
    <3>2. SumOut(NftsIn(v, n), tx.ins) = SumOut(NftsIn(v, n), tx.outs) /\ NftsIn(v, n)[c] = 0
      BY <1>8, <2>3, <3>1 DEF Balanced
    <3>3. QED
      BY <1>10, <2>1, <3>2
  <2>4. QED
    BY <2>2, <2>3
<1>14. u = Two /\ PaidBy(ask, tx) => PaidBy(ask, r)
  <2> SUFFICES ASSUME u = Two, PaidBy(ask, tx)
               PROVE  PaidBy(ask, r)
    OBVIOUS
  <2>1. MineIn(One)[c] = 0
    BY <1>8, PlayersAre
  <2>2. SumOut(MineIn(One), r.outs) = SumOut(MineIn(One), tx.outs)
    BY <1>10, <2>1, MineMeasure
  <2>3. QED
    BY <1>10, <2>2 DEF PaidBy
<1>15. \A i \in DOMAIN tx.ins : Sought(u, s, tx.ins[i])
  <2> SUFFICES ASSUME NEW i \in DOMAIN tx.ins, tx.ins[i].user = u
               PROVE  tx.ins[i].kind # "plain"
    BY <1>5 DEF Sought
  <2>1. Sought(u, t, tx.ins[i])
    BY <1>6
  <2>2. QED
    BY <1>1, <2>1 DEF Sought
<1>16. Collecting(ask, u, s)
  <2>1. s.cursor \subseteq Cell /\ One \notin s.tx.signers /\ Two \notin s.tx.signers
    BY <1>5, <1>6, <1>10
  <2>2. Len(s.tx.outs) <= (IF u = One THEN 1 ELSE 3) + (IF s.at = "ckb" THEN 1 ELSE 0)
    BY <1>5, <1>6, <1>10, <1>11
  <2>3. /\ \A v \in Users \ {u} : Balanced(s.tx, v)
        /\ s.at = "ckb" => Balanced(s.tx, u)
    BY <1>5, <1>13
  <2>4. /\ s.at = "nfts" => \A i \in DOMAIN s.tx.outs \ {1} : s.tx.outs[i].user # u
        /\ \A i \in DOMAIN s.tx.ins : Sought(u, s, s.tx.ins[i])
    BY <1>5, <1>10, <1>15
  <2>5. \/ u = One /\ Alone(ask, s.tx)
        \/ u = Two /\ Joint(ask, s.tx) /\ PaidBy(ask, s.tx)
    BY <1>5, <1>6, <1>10, <1>14
  <2>6. QED
    BY <1>5, <1>10, <2>1, <2>2, <2>3, <2>4, <2>5 DEF Collecting
<1>17. TaskOK(ask, u, s)
  BY <1>16 DEF TaskOK
<1>18. Core' /\ LiveOK'
  BY <1>1, LiveKept
<1>19. prepared' \in Nat /\ (\A o \in offers' : OfferOK(ask, o)) /\ ask' = ask
  BY <1>1, <1>2
<1>20. QED
  BY <1>4, <1>17, <1>18, <1>19, TaskStep
--------------------------------------------------------------------------------
(* Change is given, and what was collected for is an offer. What the first user  *)
(* pays shows at once, as nobody else has put something in.                   *)
LEMMA SumOutLike ==
  ASSUME NEW f, NEW g, NEW a \in Seq(Cell), \A i \in DOMAIN a : f[a[i]] = g[a[i]]
  PROVE  SumOut(f, a) = SumOut(g, a)
<1> DEFINE p == [i \in DOMAIN a |-> f[a[i]]]
           q == [i \in DOMAIN a |-> g[a[i]]]
<1>1. p = q
  OBVIOUS
<1>2. SumOut(f, a) = Sum(p, DOMAIN a) /\ SumOut(g, a) = Sum(q, DOMAIN a)
  BY DEF SumOut
<1>3. QED
  BY <1>1, <1>2, Zenon

LEMMA NotBoth ==
  ASSUME NEW k, NEW tx, Joint(k, tx)
  PROVE  ~Alone(k, tx)
<1>1. Len(<<One>>) = 1 /\ Len(<<One, Two>>) = 2
  OBVIOUS
<1>2. QED
  BY <1>1 DEF Alone, Joint

LEMMA FirstPays ==
  ASSUME NEW k \in [Users -> Ask], NEW tx, Formed(k, tx), Alone(k, tx), PaidUp(tx)
  PROVE  PaidBy(k, tx)
<1>1. /\ tx.ins \in Seq(Cell) /\ tx.outs \in Seq(Cell) /\ tx.outs # << >>
      /\ \A i \in DOMAIN tx.ins : Part(tx, tx.ins[i])
      /\ tx.outs[1].kind = "channel"
      /\ \A i \in DOMAIN tx.outs \ {1} : Part(tx, tx.outs[i])
  BY DEF Formed, OpeningType
<1>2. tx.args.users = <<One>> /\ tx.outs[1].ckb = Half(k[One])
  BY DEF Alone
<1>3. ToSet(<<One>>) = {One}
  BY DEF ToSet
<1>4. \A c : Part(tx, c) => c.user = One /\ c.kind # "channel"
  BY <1>2, <1>3 DEF Part
<1>5. 1 \in DOMAIN tx.outs /\ (\A i \in DOMAIN tx.outs : tx.outs[i] \in Cell)
      /\ \A i \in DOMAIN tx.ins : tx.ins[i] \in Cell
  BY <1>1
<1>6. SumOut(CkbIn, tx.ins) = SumOut(MineIn(One), tx.ins)
  <2>1. \A i \in DOMAIN tx.ins : MineIn(One)[tx.ins[i]] = CkbIn[tx.ins[i]]
    BY <1>1, <1>4, <1>5 DEF CkbIn, MineIn
  <2>2. QED
    BY <1>1, <2>1, SumOutLike
<1>7. SumOut(CkbIn, tx.outs) = SumOut(MineIn(One), tx.outs) + SumOut(ChannelIn, tx.outs)
  <2>1. ASSUME NEW i \in DOMAIN tx.outs
        PROVE  CkbIn[tx.outs[i]] = MineIn(One)[tx.outs[i]] + ChannelIn[tx.outs[i]]
    <3>1. tx.outs[i] \in Cell /\ tx.outs[i].ckb \in Nat
      BY <1>5 DEF Cell
    <3>2. tx.outs[i].kind = "channel" \/ (tx.outs[i].kind # "channel" /\ tx.outs[i].user = One)
      BY <1>1, <1>4
    <3>3. QED
      BY <3>1, <3>2 DEF CkbIn, MineIn, ChannelIn
  <2> DEFINE f == CkbIn
             g == MineIn(One)
             h == ChannelIn
  <2>2. Measure(g) /\ Measure(h) /\ Splits(f, g, h, tx.outs)
    BY <2>1, MineMeasure, ChannelMeasure DEF Splits
  <2> HIDE DEF f, g, h
  <2>3. SumOut(f, tx.outs) = SumOut(g, tx.outs) + SumOut(h, tx.outs)
    <3>1. tx.outs \in Seq(Cell)
      BY <1>1
    <3>2. QED
      BY ONLY <2>2, <3>1, SumOutPlus
  <2>4. QED
    BY <2>3 DEF f, g, h
<1>8. SumOut(ChannelIn, tx.outs) = Half(k[One])
  <2>1. \A i \in DOMAIN tx.outs \ {1} : ChannelIn[tx.outs[i]] = 0
    BY <1>1, <1>4, <1>5 DEF ChannelIn
  <2>2. ChannelIn[tx.outs[1]] = Half(k[One])
    BY <1>1, <1>2, <1>5 DEF ChannelIn
  <2>3. QED
    BY <1>1, <2>1, <2>2, SumOutOnly, ChannelMeasure
<1>9. /\ SumOut(MineIn(One), tx.outs) \in Nat /\ SumOut(MineIn(One), tx.ins) \in Nat
      /\ Half(k[One]) \in Nat /\ OpenFee \in Nat
  BY <1>1, SumOutNat, MineMeasure, HalfNat, PlayersAre, FeeNat
<1>10. QED
  BY <1>6, <1>7, <1>8, <1>9 DEF PaidBy, PaidUp

(* Whether there is change or not, the offer keeps what was collected.         *)
Finished(k, u, tx, r) ==
  /\ Formed(k, r) /\ r.args = tx.args /\ r.ins = tx.ins /\ r.signers = tx.signers
  /\ Len(r.outs) \in {Len(tx.outs), Len(tx.outs) + 1}
  /\ Alone(k, r) <=> Alone(k, tx)
  /\ Joint(k, r) <=> Joint(k, tx)
  /\ \A v \in Users : Balanced(r, v)
  /\ PaidUp(r)
  /\ u = Two => PaidBy(k, r)

LEMMA FinishedOffer ==
  ASSUME NEW k \in [Users -> Ask], NEW u, NEW t, Collecting(k, u, t), t.at = "ckb",
         NEW r, Finished(k, u, t.tx, r)
  PROVE  OfferOK(k, r)
<1>1. /\ One \notin t.tx.signers /\ Two \notin t.tx.signers
      /\ \/ u = One /\ Alone(k, t.tx)
         \/ u = Two /\ Joint(k, t.tx)
      /\ Len(t.tx.outs) <= (IF u = One THEN 1 ELSE 3) + 1
      /\ OpeningType(t.tx)
  BY DEF Collecting, Formed
<1>2. Len(t.tx.outs) \in Nat
  <2>1. t.tx.outs \in Seq(Cell)
    BY <1>1 DEF OpeningType
  <2>2. QED
    BY <2>1
<1>3. Len(r.outs) <= IF Alone(k, r) THEN 3 ELSE 5
  BY <1>1, <1>2, PlayersAre, NotBoth DEF Finished
<1>4. PaidBy(k, r)
  <2>1. CASE u = One /\ Alone(k, t.tx)
    BY <2>1, FirstPays DEF Finished
  <2>2. CASE u = Two
    BY <2>2 DEF Finished
  <2>3. QED
    BY <1>1, <2>1, <2>2
<1>5. QED
  BY <1>1, <1>3, <1>4 DEF OfferOK, Finished

(* The change pays for what comes in beyond what is due.                      *)
LEMMA ChangeIs ==
  ASSUME NEW k \in [Users -> Ask], NEW tx, Formed(k, tx), NEW u \in Users, u \in ToSet(tx.args.users),
         NEW change \in Nat, change > 0
  PROVE  LET c == Plain(u, change) IN
         /\ c \in Cell /\ c.user = u /\ Part(tx, c) /\ Funded(tx, c)
         /\ \A v, n : n \in Nfts => NftsIn(v, n)[c] = 0
         /\ CkbIn[c] = change
         /\ \A v : v # u => MineIn(v)[c] = 0
<1> DEFINE c == Plain(u, change)
<1>1. /\ c \in Cell /\ c.kind = "plain" /\ c.user = u
      /\ c.ckb = change /\ Bytes(c) = 0
      /\ \A v, n : n \in Nfts => NftsIn(v, n)[c] = 0
      /\ CkbIn[c] = change
      /\ \A v : MineIn(v)[c] = IF v = u THEN change ELSE 0
  BY PlainPays
<1> HIDE DEF c
<1>2. Part(tx, c)
  BY <1>1 DEF Part
<1>3. Funded(tx, c)
  <2>1. Base \in Nat /\ (Base <= change \/ change \in 1 .. (Base - 1))
    BY FeeNat
  <2>2. Exact(Bytes(c)) = Base
    BY <1>1, <2>1 DEF Exact
  <2>3. QED
    BY <1>1, <2>1, <2>2 DEF Funded, PaysOwn
<1>4. QED
  BY <1>1, <1>2, <1>3 DEF c

LEMMA AddCkbStep ==
  ASSUME OpeningInv, NEW u \in Users, AddCkb(u)
  PROVE  OpeningInv'
<1> DEFINE t == task[u]
           tx == t.tx
           change == -Short(u, tx)
           outs == IF change > 0 THEN Append(tx.outs, Plain(u, change)) ELSE tx.outs
           r == Outs(tx, outs)
<1>1. /\ t.at = "ckb" /\ change >= 0 /\ UNCHANGED <<vars, ask, prepared>>
      /\ offers' = offers \cup {r}
      /\ task' = [task EXCEPT ![u] = Idle]
  BY Zenon DEF AddCkb, Outs
<1>2. ask \in [Users -> Ask] /\ prepared \in Nat /\ \A o \in offers : OfferOK(ask, o)
  BY InvParts
<1>3. Collecting(ask, u, t)
  BY <1>1, Collects
<1>4. /\ Formed(ask, tx) /\ (\A v \in Users : Balanced(tx, v))
      /\ u = Two => PaidBy(ask, tx)
  BY <1>1, <1>3, PlayersAre DEF Collecting
<1>5. u \in ToSet(tx.args.users)
  BY <1>3, Partner
<1>6. tx.ins \in Seq(Cell) /\ tx.outs \in Seq(Cell) /\ tx = Parts(tx)
  BY <1>4 DEF Formed, OpeningType
<1>7. /\ SumOut(CkbIn, tx.ins) \in Nat /\ SumOut(CkbIn, tx.outs) \in Nat /\ OpenFee \in Nat
      /\ CkbOf(tx.ins) = SumOut(CkbIn, tx.ins) /\ CkbOf(tx.outs) = SumOut(CkbIn, tx.outs)
  BY <1>6, SumOutNat, CkbMeasure, CkbAtIs, FeeNat
<1>8. /\ change \in Nat
      /\ SumOut(CkbIn, tx.ins) = (SumOut(CkbIn, tx.outs) + change) + OpenFee
  <2>1. Short(u, tx) = (OpenFee + SumOut(CkbIn, tx.outs)) - SumOut(CkbIn, tx.ins)
    BY <1>7 DEF Short
  <2>2. QED
    BY <1>1, <1>7, <2>1
<1> HIDE DEF change, t, tx
<1>9. ASSUME change = 0
      PROVE  Finished(ask, u, tx, r)
  <2>1. outs = tx.outs
    BY <1>9
  <2>2. r = tx
    <3> HIDE DEF outs
    <3>1. /\ r = Parts(r) /\ r.outs = outs
          /\ r.args = tx.args /\ r.ins = tx.ins /\ r.witnesses = tx.witnesses /\ r.signers = tx.signers
      BY <1>6, WithOuts
    <3>2. Parts(r) = Parts(tx)
      BY <2>1, <3>1 DEF Parts
    <3>3. QED
      BY <1>6, <3>1, <3>2
  <2> HIDE DEF r
  <2>3. PaidUp(tx)
    BY <1>7, <1>8, <1>9 DEF PaidUp
  <2>4. Finished(ask, u, tx, r)
    BY <1>4, <2>2, <2>3 DEF Finished
  <2>5. QED
    BY <2>4
<1>10. ASSUME change > 0
       PROVE  Finished(ask, u, tx, r)
  <2> DEFINE c == Plain(u, change)
  <2>1. /\ c \in Cell /\ c.user = u /\ Part(tx, c) /\ Funded(tx, c)
        /\ \A v, n : n \in Nfts => NftsIn(v, n)[c] = 0
        /\ CkbIn[c] = change
        /\ \A v : v # u => MineIn(v)[c] = 0
    BY <1>2, <1>4, <1>5, <1>8, <1>10, ChangeIs
  <2>2. r = Outs(tx, Append(tx.outs, c))
    BY <1>10
  <2> HIDE DEF c, r
  <2>3. Wider(ask, tx, c, r)
    BY <1>4, <2>1, <2>2, MoreOuts
  <2>4. /\ Formed(ask, r) /\ Len(r.outs) = Len(tx.outs) + 1
        /\ r.args = tx.args /\ r.ins = tx.ins /\ r.signers = tx.signers
        /\ Alone(ask, r) <=> Alone(ask, tx)
        /\ Joint(ask, r) <=> Joint(ask, tx)
        /\ \A f : Measure(f) => /\ SumOut(f, r.outs) = SumOut(f, tx.outs) + f[c]
                                /\ SumOut(f, tx.outs) \in Nat /\ f[c] \in Nat
    BY <2>3 DEF Wider
  <2>5. PaidUp(r)
    <3>1. SumOut(CkbIn, r.outs) = SumOut(CkbIn, tx.outs) + change
      BY <2>1, <2>4, CkbMeasure
    <3>2. QED
      BY <1>8, <2>4, <3>1 DEF PaidUp
  <2>6. ASSUME NEW v \in Users
        PROVE  Balanced(r, v)
    <3> SUFFICES ASSUME NEW n \in Nfts
                 PROVE  SumOut(NftsIn(v, n), r.ins) = SumOut(NftsIn(v, n), r.outs)
      BY DEF Balanced
    <3>1. /\ SumOut(NftsIn(v, n), r.outs) = SumOut(NftsIn(v, n), tx.outs) + NftsIn(v, n)[c]
          /\ SumOut(NftsIn(v, n), tx.outs) \in Nat /\ NftsIn(v, n)[c] = 0
      BY <2>1, <2>4, NftsMeasure
    <3>2. SumOut(NftsIn(v, n), tx.ins) = SumOut(NftsIn(v, n), tx.outs)
      BY <1>4 DEF Balanced
    <3>3. QED
      BY <2>4, <3>1, <3>2
  <2>7. u = Two => PaidBy(ask, r)
    <3> SUFFICES ASSUME u = Two
                 PROVE  PaidBy(ask, r)
      OBVIOUS
    <3>1. MineIn(One)[c] = 0
      BY <2>1, PlayersAre
    <3>2. SumOut(MineIn(One), r.outs) = SumOut(MineIn(One), tx.outs)
      BY <2>4, <3>1, MineMeasure
    <3>3. PaidBy(ask, tx)
      BY <1>4
    <3>4. QED
      BY <2>4, <3>2, <3>3 DEF PaidBy
  <2>8. Finished(ask, u, tx, r)
    BY <2>4, <2>5, <2>6, <2>7 DEF Finished
  <2>9. QED
    BY <2>8
<1>11. Finished(ask, u, tx, r)
  BY <1>8, <1>9, <1>10
<1> HIDE DEF r
<1>12. OfferOK(ask, r)
  BY <1>1, <1>2, <1>3, <1>11, FinishedOffer DEF tx
<1>13. Core' /\ LiveOK'
  BY <1>1, LiveKept
<1>14. prepared' \in Nat /\ (\A o \in offers' : OfferOK(ask, o)) /\ ask' = ask
  BY <1>1, <1>2, <1>12
<1>15. TaskOK(ask, u, Idle)
  BY DEF TaskOK
<1>16. QED
  BY <1>1, <1>13, <1>14, <1>15, TaskStep
--------------------------------------------------------------------------------
(* Signing keeps what others have signed, and is done only after looking.       *)
LEMMA LocksAre ==
  ASSUME NEW tx, tx.ins \in Seq(Cell)
  PROVE  /\ Locks(tx) \in Seq(Keys) /\ Len(Locks(tx)) = Len(tx.ins) /\ Len(tx.ins) \in Nat
         /\ DOMAIN Locks(tx) = DOMAIN tx.ins
         /\ \A i \in DOMAIN tx.ins : Locks(tx)[i] = tx.ins[i].user
         /\ \A u \in ToSet(Locks(tx)) : /\ S!Group(Locks(tx), u) # {}
                                        /\ \E i \in DOMAIN tx.ins : tx.ins[i].user = u
<1> DEFINE l == Locks(tx)
<1>1. DOMAIN tx.ins = 1 .. Len(tx.ins) /\ Len(tx.ins) \in Nat /\ \A i \in DOMAIN tx.ins : tx.ins[i].user \in Keys
  <2>1. DOMAIN tx.ins = 1 .. Len(tx.ins) /\ Len(tx.ins) \in Nat /\ \A i \in DOMAIN tx.ins : tx.ins[i] \in Cell
    OBVIOUS
  <2>2. \A c \in Cell : c.user \in Keys
    BY DEF Cell
  <2>3. QED
    BY ONLY <2>1, <2>2
<1>2. l = [i \in DOMAIN tx.ins |-> tx.ins[i].user]
  BY DEF Locks
<1> HIDE DEF l
<1>3. l \in Seq(Keys) /\ Len(l) = Len(tx.ins) /\ DOMAIN l = DOMAIN tx.ins
  BY <1>1, <1>2
<1>4. \A i \in DOMAIN tx.ins : l[i] = tx.ins[i].user
  BY <1>2
<1>5. ASSUME NEW u \in ToSet(l)
      PROVE  S!Group(l, u) # {} /\ \E i \in DOMAIN tx.ins : tx.ins[i].user = u
  <2>1. PICK i \in DOMAIN l : l[i] = u
    BY DEF ToSet
  <2>2. i \in S!Group(l, u)
    BY <2>1 DEF S!Group
  <2>3. QED
    BY <1>3, <1>4, <2>1, <2>2
<1>6. QED
  BY <1>1, <1>3, <1>4, <1>5 DEF l

LEMMA SignedKept ==
  ASSUME NEW tx, tx.ins \in Seq(Cell), Len(tx.witnesses) \in Nat, Len(tx.witnesses) <= Len(tx.ins),
         NEW u, NEW r, r.witnesses = S!sign(Locks(tx), Hash(tx), tx.witnesses, u, {u}, << >>),
         Locks(r) = Locks(tx), Hash(r) = Hash(tx)
  PROVE  /\ u \in ToSet(Locks(tx)) => Signed(r, u)
         /\ \A v \in ToSet(Locks(tx)) : Signed(tx, v) => Signed(r, v)
<1>1. /\ Locks(tx) \in Seq(Keys) /\ Len(Locks(tx)) = Len(tx.ins)
      /\ \A v \in ToSet(Locks(tx)) : S!Group(Locks(tx), v) # {}
  BY LocksAre
<1>2. ASSUME u \in ToSet(Locks(tx))
      PROVE  Signed(r, u)
  <2> DEFINE l == Locks(tx)
             h == Hash(tx)
             w == tx.witnesses
             e == {u}
  <2>1. l \in Seq(Keys) /\ S!Group(l, u) # {} /\ u \in e
    BY <1>1, <1>2
  <2> HIDE DEF l, h, w, e
  <2>2. S!Unlocks(l, h, S!sign(l, h, w, u, e, << >>), u)
    BY <2>1, SignUnlocks
  <2>3. QED
    BY <2>2, Zenon DEF Signed, l, h, w, e
<1>3. ASSUME NEW v \in ToSet(Locks(tx)), Signed(tx, v), v # u
      PROVE  Signed(r, v)
  <2> DEFINE l == Locks(tx)
             h == Hash(tx)
             w == tx.witnesses
             e == {u}
  <2>1. /\ l \in Seq(Keys) /\ S!Group(l, v) # {} /\ v \notin e
        /\ Len(w) \in Nat /\ Len(w) <= Len(l)
        /\ S!Unlocks(l, h, w, v)
    BY <1>1, <1>3 DEF Signed
  <2> HIDE DEF l, h, w, e
  <2>2. S!Unlocks(l, h, S!sign(l, h, w, u, e, << >>), v)
    BY <2>1, SignKeeps
  <2>3. QED
    BY <2>2, Zenon DEF Signed, l, h, w, e
<1>4. QED
  BY <1>2, <1>3

LEMMA SignStep ==
  ASSUME OpeningInv, NEW tx \in offers, NEW u \in Users, SignTx(u, tx)
  PROVE  OpeningInv'
<1> DEFINE a == ask[u]
           w == S!sign(Locks(tx), Hash(tx), tx.witnesses, u, {u}, << >>)
           r == Signs(tx, w, tx.signers \cup {u})
<1>1. /\ u \in ToSet(tx.args.users) => tx.args.nfts[u] = a.nfts
      /\ tx.outs[1].ckb = 2 * Half(a)
      /\ Backed(tx)
      /\ offers' = (offers \ {tx}) \cup {r}
      /\ UNCHANGED <<vars, ask, task, prepared>>
  BY Zenon DEF SignTx, Signs
<1>2. /\ ask \in [Users -> Ask] /\ prepared \in Nat /\ (\A o \in offers : OfferOK(ask, o))
      /\ task = [v \in Users |-> task[v]] /\ \A v \in Users : TaskOK(ask, v, task[v])
  BY InvParts
<1>3. /\ Formed(ask, tx) /\ OpeningType(tx)
      /\ Len(tx.outs) <= IF Alone(ask, tx) THEN 3 ELSE 5
      /\ \A v \in Users : Balanced(tx, v)
      /\ PaidBy(ask, tx) /\ PaidUp(tx)
      /\ \A v \in {One, Two} : v \in tx.signers => SignedOK(ask, tx, v)
  BY <1>2 DEF OfferOK, Formed
<1>4. /\ tx = Parts(tx) /\ tx.ins \in Seq(Cell) /\ tx.signers \subseteq Users
      /\ Len(tx.witnesses) \in Nat /\ Len(tx.witnesses) <= Len(tx.ins)
  BY <1>3 DEF OpeningType
<1>5. /\ r = Parts(r) /\ r.witnesses = w /\ r.signers = tx.signers \cup {u}
      /\ r.args = tx.args /\ r.ins = tx.ins /\ r.outs = tx.outs
  <2> DEFINE g == tx.signers \cup {u}
  <2> HIDE DEF g, w
  <2>1. QED
    BY <1>4, WithSignature DEF g
<1> HIDE DEF r
<1>6. Locks(r) = Locks(tx) /\ Hash(r) = Hash(tx)
  BY <1>5 DEF Locks, Hash
<1>7. Len(r.witnesses) = Len(r.ins) /\ Len(r.ins) \in Nat
  <2>1. Locks(tx) \in Seq(Keys) /\ Len(Locks(tx)) = Len(tx.ins) /\ Len(tx.ins) \in Nat
    BY <1>4, LocksAre
  <2> DEFINE l == Locks(tx)
             h == Hash(tx)
             x == tx.witnesses
             e == {u}
  <2>2. l \in Seq(Keys)
    BY <2>1
  <2> HIDE DEF l, h, x, e
  <2>3. Len(S!sign(l, h, x, u, e, << >>)) = Len(l)
    BY <2>2, SignIs
  <2>4. QED
    BY <1>5, <2>1, <2>3 DEF l, h, x, e
<1> HIDE DEF w
<1>8. OpeningType(r)
  BY <1>3, <1>5, <1>7 DEF OpeningType
<1>9. Formed(ask, r)
  BY <1>3, <1>5, <1>8 DEF Formed, Part, Funded, Void, Alone, Joint
<1>10. /\ Alone(ask, r) <=> Alone(ask, tx)
       /\ \A v \in Users : Balanced(r, v)
       /\ PaidBy(ask, r) /\ PaidUp(r)
  BY <1>3, <1>5 DEF Alone, Balanced, PaidBy, PaidUp
<1>11. /\ u \in ToSet(Locks(tx)) => Signed(r, u)
       /\ \A v \in ToSet(Locks(tx)) : Signed(tx, v) => Signed(r, v)
  BY <1>4, <1>5, <1>6, SignedKept DEF w
<1>12. Backed(r) <=> Backed(tx)
  BY <1>5 DEF Backed
<1>13. ASSUME NEW v \in {One, Two}, v \in r.signers
       PROVE  SignedOK(ask, r, v)
  <2>1. CASE v = u
    BY <1>1, <1>5, <1>6, <1>11, <1>12, <2>1 DEF SignedOK
  <2>2. CASE v # u
    <3>1. SignedOK(ask, tx, v)
      BY <1>3, <1>5, <1>13, <2>2
    <3>2. QED
      BY <1>5, <1>6, <1>11, <1>12, <3>1 DEF SignedOK
  <2>3. QED
    BY <2>1, <2>2
<1>14. OfferOK(ask, r)
  BY <1>3, <1>5, <1>9, <1>10, <1>13 DEF OfferOK
<1>15. Core' /\ LiveOK'
  BY <1>1, LiveKept
<1>16. prepared' \in Nat /\ (\A o \in offers' : OfferOK(ask, o)) /\ ask' = ask
  BY <1>1, <1>2, <1>14
<1>17. /\ task' = [v \in Users |-> task'[v]] /\ \A v \in Users : TaskOK(ask, v, task'[v])
  BY <1>1, <1>2
<1>18. QED
  BY <1>2, <1>15, <1>16, <1>17, InvNext
--------------------------------------------------------------------------------
(* What the chain takes: an opening, or a transfer.                           *)
LEMMA Made ==
  ASSUME txs \in Nat, NEW tx, tx.outs \in Seq(Cell), NEW seed \in Seq(Nat), NEW c \in Created(tx, seed)
  PROVE  \E i \in DOMAIN tx.outs :
           /\ c = NewCell(tx, seed, i) /\ c.id = Newest + i /\ i \in Nat
           /\ c.kind = tx.outs[i].kind /\ c.user = tx.outs[i].user /\ c.ckb = tx.outs[i].ckb
           /\ c.nfts = tx.outs[i].nfts
<1>1. PICK i \in DOMAIN tx.outs : c = NewCell(tx, seed, i)
  BY DEF Created, NewCell
<1>2. tx.outs[i] \in Cell /\ i \in Nat
  OBVIOUS
<1> DEFINE o == tx.outs[i]
           k == Newest + i
<1>3. c = [o EXCEPT !.id = k, !.seed = seed] /\ o \in Cell
  BY <1>1, <1>2 DEF NewCell
<1> HIDE DEF o, k
<1>4. c.id = k /\ c.kind = o.kind /\ c.user = o.user /\ c.ckb = o.ckb /\ c.nfts = o.nfts
  BY <1>3 DEF Cell
<1>5. QED
  BY <1>1, <1>2, <1>4 DEF o, k

LEMMA LiveNew ==
  ASSUME Core, LiveOK, NEW ins, NEW tx, tx.outs \in Seq(Cell), NEW seed \in Seq(Nat),
         live' = After(ins, tx, seed),
         \A i \in DOMAIN tx.outs : tx.outs[i].kind \notin Special /\ PaysNfts(tx.outs[i]),
         \A t \in pool' : t.kind = "transfer"
  PROVE  LiveOK'
<1>1. txs \in Nat /\ CellsOK
  BY DEF Core
<1>2. /\ \A c \in live : c.kind \notin Special /\ PaysNfts(c)
      /\ \A c, d \in live : c.user = d.user /\ c.id = d.id => c = d
  BY DEF LiveOK, Ordinals
<1>3. /\ Newest \in Int /\ \A c \in live : c.id <= Newest /\ c.id \in Int
      /\ \A c \in Created(tx, seed) : c.id > Newest /\ c.id \in Int
  BY <1>1, AfterIs
<1>4. \A c \in Created(tx, seed) : \E i \in DOMAIN tx.outs :
        /\ c = NewCell(tx, seed, i) /\ c.id = Newest + i /\ i \in Nat
        /\ c.kind = tx.outs[i].kind /\ c.ckb = tx.outs[i].ckb /\ c.nfts = tx.outs[i].nfts
  BY <1>1, Made
<1>5. ASSUME NEW c \in Created(tx, seed)
      PROVE  c.kind \notin Special /\ PaysNfts(c)
  BY <1>4 DEF PaysNfts
<1>6. ASSUME NEW c \in Created(tx, seed), NEW d \in Created(tx, seed), c.id = d.id
      PROVE  c = d
  <2>1. PICK i \in DOMAIN tx.outs : c = NewCell(tx, seed, i) /\ c.id = Newest + i /\ i \in Nat
    BY <1>4
  <2>2. PICK j \in DOMAIN tx.outs : d = NewCell(tx, seed, j) /\ d.id = Newest + j /\ j \in Nat
    BY <1>4
  <2>3. i = j
    BY <1>3, <1>6, <2>1, <2>2
  <2>4. QED
    BY <2>1, <2>2, <2>3
<1>7. live' = (live \ ins) \cup Created(tx, seed)
  BY DEF After
<1>8. \A c \in live' : c.kind \notin Special /\ PaysNfts(c)
  BY <1>2, <1>5, <1>7
<1>9. ASSUME NEW c \in live', NEW d \in live', c.user = d.user, c.id = d.id
      PROVE  c = d
  <2>1. CASE c \in live /\ d \in live
    BY <1>2, <1>9, <2>1
  <2>2. CASE c \in Created(tx, seed) /\ d \in Created(tx, seed)
    BY <1>6, <1>9, <2>2
  <2>3. CASE c \in live /\ d \in Created(tx, seed)
    BY <1>3, <1>9, <2>3
  <2>4. CASE c \in Created(tx, seed) /\ d \in live
    BY <1>3, <1>9, <2>4
  <2>5. QED
    BY <1>7, <2>1, <2>2, <2>3, <2>4
<1>10. QED
  BY <1>8, <1>9 DEF LiveOK, Ordinals

(* An opening has at most five outputs, and nothing that there is one of.      *)
LEMMA OpenNewest ==
  ASSUME txs \in Nat, txs' = txs + 2
  PROVE  Newest' = Newest + 6 /\ Newest \in Int /\ Newest <= Newest' /\ Newest' \in Int
<1> DEFINE longest == Max({Len(Wallet[u]) : u \in Keys})
<1>1. Newest = longest + 3 * txs /\ Newest' = longest + 3 * txs'
  BY DEF Newest
<1>2. longest \in Nat
  BY LongestNat
<1> HIDE DEF longest
<1>3. QED
  BY <1>1, <1>2

LEMMA PaysNftsOwn ==
  ASSUME NEW c \in Cell, c.kind = "nft" => PaysOwn(c)
  PROVE  PaysNfts(c)
<1>1. c.config.table \in Seq([nft : Nfts, rate : Nat]) /\ c.nfts \in [Nfts -> Nat] /\ c.ckb \in Nat
  BY DEF Cell, Config
<1>2. Len(c.config.table) \in Nat
  BY <1>1
<1>3. Count(c.nfts) \in Nat
  BY <1>1, CountNat
<1>4. ASSUME c.kind = "nft"
      PROVE  Exact(Count(c.nfts)) <= c.ckb
  <2>1. Bytes(c) = Len(c.config.table) + Count(c.nfts)
    BY <1>2, <1>3, <1>4 DEF Bytes
  <2>2. Exact(Bytes(c)) <= c.ckb
    BY <1>4 DEF PaysOwn
  <2>3. Base \in Nat
    BY StoreAssumption
  <2> DEFINE k == Count(c.nfts)
             m == Len(c.config.table)
  <2> HIDE DEF k, m
  <2>4. Base + (m + k) <= c.ckb /\ k \in Nat /\ m \in Nat
    BY <1>2, <1>3, <2>1, <2>2 DEF Exact, k, m
  <2>5. Base + k <= c.ckb
    BY <1>1, <2>3, <2>4
  <2>6. QED
    BY <2>5 DEF Exact, k
<1>5. QED
  BY <1>4 DEF PaysNfts

LEMMA OpenOuts ==
  ASSUME NEW k, NEW tx, OfferOK(k, tx)
  PROVE  /\ tx.outs \in Seq(Cell) /\ tx.ins \in Seq(Cell) /\ Len(tx.outs) \in Nat /\ Len(tx.outs) <= 5
         /\ \A i \in DOMAIN tx.outs :
              tx.outs[i].kind \in {"channel", "plain", "nft"} /\ PaysNfts(tx.outs[i])
<1>1. /\ Formed(k, tx) /\ OpeningType(tx)
      /\ Len(tx.outs) <= IF Alone(k, tx) THEN 3 ELSE 5
  BY DEF OfferOK, Formed
<1>2. tx.outs \in Seq(Cell) /\ tx.ins \in Seq(Cell)
  BY <1>1 DEF OpeningType
<1>3. Len(tx.outs) \in Nat
  BY <1>2
<1>4. Len(tx.outs) <= 5
  BY <1>1, <1>3
<1>5. ASSUME NEW i \in DOMAIN tx.outs
      PROVE  tx.outs[i].kind \in {"channel", "plain", "nft"} /\ PaysNfts(tx.outs[i])
  <2>1. tx.outs[i] \in Cell
    BY <1>2
  <2>2. CASE i = 1
    BY <1>1, <2>2 DEF Formed, PaysNfts
  <2>3. CASE i # 1
    <3>1. Part(tx, tx.outs[i]) /\ Funded(tx, tx.outs[i])
      BY <1>1, <2>3 DEF Formed
    <3>2. tx.outs[i].kind \in {"plain", "nft"} /\ (tx.outs[i].kind = "nft" => PaysOwn(tx.outs[i]))
      BY <3>1 DEF Part, Funded
    <3>3. QED
      BY <2>1, <3>2, PaysNftsOwn
  <2>4. QED
    BY <2>2, <2>3
<1>6. QED
  BY <1>2, <1>3, <1>4, <1>5

(* A transfer makes nothing there is one of, so it stays what it is.          *)
LEMMA TransferKept ==
  ASSUME Newest \in Int, Newest' \in Int, Newest <= Newest', NEW t, TxOK(t), t.kind = "transfer"
  PROVE  TxOK(t)'
<1>1. TxType(t)'
  <2>1. TxType(t) /\ \A c \in t.ins \cup t.deps : c.id \in Int /\ c.id <= Newest
    BY DEF TxOK, TxType, Cell
  <2>2. \A c \in t.ins \cup t.deps : c.id <= Newest'
    BY <2>1
  <2>3. QED
    BY <2>1, <2>2 DEF TxType
<1>2. Owners(t)' /\ OutsOK(t)'
  BY DEF TxOK, Owners, OutsOK
<1>3. \A kind \in Special : ~ Makes(t, kind)
  BY DEF TxOK, OutsOK, Makes
<1>4. \A kind \in Special : (\E c \in t.ins : c.kind = kind) => Makes(t, kind)
  BY DEF TxOK, Replaces
<1>5. Replaces(t)'
  BY <1>3, <1>4 DEF Replaces, Makes
<1>6. Paying(t)' /\ Packed(t)' /\ Priced(t)' /\ Moved(t)'
  BY DEF TxOK, Paying, Packed, Priced, Moved
<1>7. QED
  BY <1>1, <1>2, <1>5, <1>6 DEF TxOK

LEMMA Opens ==
  ASSUME NEW tx, Open(tx)
  PROVE  /\ Fresh(tx) /\ Accepts(tx) /\ txs' = txs + 2
         /\ live' = After(ToSet(tx.ins), tx, << >>) /\ << >> \in Seq(Nat)
         /\ pool' = pool /\ offers' = offers \ {tx} /\ UNCHANGED <<ask, task, prepared>>
  BY DEF Open, After

LEMMA OpenCells ==
  ASSUME Core, LiveOK, NEW k, NEW tx, OfferOK(k, tx), Open(tx)
  PROVE  CellsOK' /\ LiveOK' /\ Sole'
<1>1. /\ txs' = txs + 2 /\ txs \in Nat /\ CellsOK
      /\ live' = After(ToSet(tx.ins), tx, << >>) /\ << >> \in Seq(Nat)
      /\ pool' = pool
  BY Opens DEF Core
<1>2. /\ tx.outs \in Seq(Cell) /\ Len(tx.outs) \in Nat /\ Len(tx.outs) <= 5
      /\ \A i \in DOMAIN tx.outs :
           tx.outs[i].kind \in {"channel", "plain", "nft"} /\ PaysNfts(tx.outs[i])
  BY OpenOuts
<1>3. LiveOK'
  <2>1. \A i \in DOMAIN tx.outs : tx.outs[i].kind \notin Special /\ PaysNfts(tx.outs[i])
    BY <1>2 DEF Special
  <2>2. \A t \in pool' : t.kind = "transfer"
    BY <1>1 DEF LiveOK
  <2>3. QED
    BY <1>1, <1>2, <2>1, <2>2, LiveNew
<1>4. /\ live' \subseteq Cell /\ IsFiniteSet(live')
      /\ \A c \in live : c.id <= Newest /\ c.id \in Int
      /\ \A c \in Created(tx, << >>) : /\ c.id > Newest /\ c.id <= Newest + Len(tx.outs)
                                        /\ c.id \in Int
  BY <1>1, <1>2, AfterIs
<1>5. Newest' = Newest + 6 /\ Newest \in Int /\ Newest' \in Int
  BY <1>1, OpenNewest
<1>6. ASSUME NEW c \in live'
      PROVE  c.id <= Newest' /\ c.kind \notin Special
  <2>1. c.kind \notin Special
    BY <1>3 DEF LiveOK
  <2>2. c \in live \/ c \in Created(tx, << >>)
    BY <1>1 DEF After
  <2>3. c.id <= Newest'
    BY <1>2, <1>4, <1>5, <2>2
  <2>4. QED
    BY <2>1, <2>3
<1>7. CellsOK'
  BY <1>4, <1>6 DEF CellsOK, Special
<1>8. Sole'
  BY <1>6 DEF Sole
<1>9. QED
  BY <1>3, <1>7, <1>8

LEMMA OpenStep ==
  ASSUME OpeningInv, NEW tx \in offers, Open(tx)
  PROVE  OpeningInv'
<1>1. /\ txs' = txs + 2 /\ pool' = pool /\ offers' = offers \ {tx} /\ UNCHANGED <<ask, task, prepared>>
  BY Opens
<1>2. /\ Core /\ txs \in Nat /\ LiveOK /\ ask \in [Users -> Ask] /\ prepared \in Nat
      /\ \A o \in offers : OfferOK(ask, o)
      /\ task = [v \in Users |-> task[v]] /\ \A v \in Users : TaskOK(ask, v, task[v])
  BY InvParts
<1>3. CellsOK' /\ LiveOK' /\ Sole'
  BY <1>2, OpenCells
<1>4. Newest \in Int /\ Newest' \in Int /\ Newest <= Newest'
  BY <1>1, <1>2, OpenNewest
<1>5. \A t \in pool' : TxOK(t)'
  BY <1>1, <1>2, <1>4, TransferKept DEF Core, LiveOK
<1>6. Core'
  BY <1>1, <1>2, <1>3, <1>5 DEF Core
<1>7. prepared' \in Nat /\ (\A o \in offers' : OfferOK(ask, o)) /\ ask' = ask
  BY <1>1, <1>2
<1>8. /\ task' = [v \in Users |-> task'[v]] /\ \A v \in Users : TaskOK(ask, v, task'[v])
  BY <1>1, <1>2
<1>9. QED
  BY <1>2, <1>3, <1>6, <1>7, <1>8, InvNext

(* The steps of NftStore.tla.                                                 *)
LEMMA CommitLive ==
  ASSUME Core, LiveOK, NEW tx \in pool, Commit(tx), NEW seed, Taking(tx, seed)
  PROVE  LiveOK'
<1>1. /\ OutsOK(tx) /\ tx.outs \in Seq(Cell) /\ seed \in Seq(Nat)
  BY TakenIs
<1>2. live' = After(tx.ins, tx, seed) /\ pool' = pool \ {tx}
  BY DEF Taking
<1>3. tx.kind = "transfer" /\ \A t \in pool' : t.kind = "transfer"
  BY <1>2 DEF LiveOK
<1>4. ASSUME NEW i \in DOMAIN tx.outs
      PROVE  tx.outs[i].kind \notin Special /\ PaysNfts(tx.outs[i])
  <2>1. tx.outs[i].kind \notin Special
    BY <1>1, <1>3 DEF OutsOK
  <2>2. PaysOwn(tx.outs[i])
    BY DEF Commit, Pays, PaysOwn
  <2>3. tx.outs[i] \in Cell
    BY <1>1
  <2>4. QED
    BY <2>1, <2>2, <2>3, PaysNftsOwn
<1>5. QED
  BY <1>1, <1>2, <1>3, <1>4, LiveNew

LEMMA OrdinaryStep ==
  ASSUME OpeningInv, Ordinary
  PROVE  OpeningInv'
<1>1. /\ Core /\ CellsOK /\ LiveOK /\ ask \in [Users -> Ask] /\ prepared \in Nat
      /\ \A o \in offers : OfferOK(ask, o)
      /\ task = [v \in Users |-> task[v]] /\ \A v \in Users : TaskOK(ask, v, task[v])
  BY InvParts
<1>2. UNCHANGED <<ask, offers, task, prepared>>
  BY DEF Ordinary, openingVars
<1>3. Core' /\ LiveOK'
  <2>1. ASSUME NEW u \in Users, NEW v \in Users, NEW w \in Wishes, Transfer(u, v, w)
        PROVE  Core' /\ LiveOK'
    <3>1. Added("transfer")
      BY <1>1, <2>1, AddTransfer
    <3>2. /\ Core' /\ UNCHANGED <<live, txs, bought, revealed>>
          /\ \E tx : tx.kind = "transfer" /\ pool' = pool \cup {tx}
      BY <1>1, <3>1, BuildStep
    <3>3. LiveOK'
      BY <1>1, <3>2 DEF LiveOK
    <3>4. QED
      BY <3>2, <3>3
  <2>2. ASSUME NEW tx \in pool, Commit(tx)
        PROVE  Core' /\ LiveOK'
    <3>1. PICK seed : Taking(tx, seed)
      BY <2>2, CommitTakes
    <3>2. QED
      BY <1>1, <2>2, <3>1, CommitCore, CommitLive
  <2>3. ASSUME NEW tx \in pool, Refuse(tx)
        PROVE  Core' /\ LiveOK'
    <3>1. pool' \subseteq pool /\ UNCHANGED <<live, txs>>
      BY <2>3 DEF Refuse
    <3>2. Core'
      BY <1>1, <3>1, CoreKept
    <3>3. LiveOK'
      BY <1>1, <3>1 DEF LiveOK
    <3>4. QED
      BY <3>2, <3>3
  <2>4. QED
    BY <2>1, <2>2, <2>3 DEF Ordinary
<1>4. prepared' \in Nat /\ (\A o \in offers' : OfferOK(ask, o)) /\ ask' = ask
  BY <1>1, <1>2
<1>5. /\ task' = [v \in Users |-> task'[v]] /\ \A v \in Users : TaskOK(ask, v, task'[v])
  BY <1>1, <1>2
<1>6. QED
  BY <1>1, <1>3, <1>4, <1>5, InvNext
--------------------------------------------------------------------------------
(* At first: plain cells numbered from one, and nft cells before them.        *)
Card(u, i) == [NftCell(u, Exact(Count(Cards[u][i])), Cards[u][i]) EXCEPT !.id = -i]
Deck(u) == {Card(u, i) : i \in DOMAIN Cards[u]}

LEMMA ImageFinite ==
  ASSUME NEW h, NEW D, IsFiniteSet(D)
  PROVE  IsFiniteSet({h[x] : x \in D})
<1> DEFINE T == {h[x] : x \in D}
           m == [x \in D |-> h[x]]
<1>1. m \in [D -> T] /\ \A t \in T : \E s \in D : m[s] = t
  OBVIOUS
<1> HIDE DEF T, m
<1>2. m \in Surjection(D, T)
  BY <1>1 DEF Surjection
<1>3. IsFiniteSet(T)
  BY <1>2, FS_Surjection
<1>4. QED
  BY <1>3 DEF T

LEMMA CardIs ==
  ASSUME NEW u \in Users, NEW i \in DOMAIN Cards[u]
  PROVE  /\ i \in Nat /\ i > 0
         /\ Card(u, i) \in Cell /\ Card(u, i).id = -i /\ Card(u, i).user = u
         /\ Card(u, i).kind \in {"plain", "nft"} /\ PaysNfts(Card(u, i))
<1> DEFINE b == Cards[u][i]
           k == Exact(Count(Cards[u][i]))
           p == NftCell(u, k, b)
           c == [p EXCEPT !.id = -i]
<1>1. i \in Nat /\ i > 0 /\ b \in Bag
  <2>1. Cards[u] \in Seq(Bag)
    BY OpeningAssumption
  <2>2. QED
    BY <2>1
<1>2. b \in [Nfts -> Nat] /\ Count(b) \in Nat /\ k = Exact(Count(b))
  BY <1>1, CountNat DEF Bag
<1>3. k \in Nat
  BY <1>2, ExactNat
<1>4. p \in Cell /\ p.user = u /\ p.kind \in {"plain", "nft"} /\ p.ckb = k /\ p.nfts = b
  <2> HIDE DEF k, b
  <2>1. QED
    BY <1>2, <1>3, NftCellIs
<1>5. c = [p EXCEPT !.id = -i] /\ Card(u, i) = c
  BY DEF Card
<1> HIDE DEF p, c, k, b
<1>6. -i \in Int
  BY <1>1
<1>7. c \in Cell /\ c.id = -i /\ c.user = u /\ c.kind \in {"plain", "nft"} /\ c.ckb = k /\ c.nfts = b
  <2> DEFINE j == -i
  <2>1. c = [p EXCEPT !.id = j] /\ j \in Int
    BY <1>5, <1>6
  <2> HIDE DEF j
  <2>2. c \in Cell /\ c.id = j /\ c.user = p.user /\ c.kind = p.kind /\ c.ckb = p.ckb /\ c.nfts = p.nfts
    BY <1>4, <2>1 DEF Cell
  <2>3. QED
    BY <1>4, <2>2 DEF j
<1>8. PaysNfts(c)
  BY <1>2, <1>3, <1>7 DEF PaysNfts
<1>9. QED
  BY <1>1, <1>5, <1>7, <1>8

LEMMA DeckIs ==
  ASSUME NEW u \in Users
  PROVE  IsFiniteSet(Deck(u))
<1> DEFINE D == DOMAIN Cards[u]
           h == [i \in D |-> Card(u, i)]
<1>1. IsFiniteSet(D)
  <2>1. Cards[u] \in Seq(Bag)
    BY OpeningAssumption
  <2>2. D = 1 .. Len(Cards[u]) /\ Len(Cards[u]) \in Nat
    BY <2>1
  <2>3. IsFiniteSet(1 .. Len(Cards[u]))
    BY <2>2, FS_Interval
  <2>4. QED
    BY <2>2, <2>3
<1>2. Deck(u) = {h[i] : i \in D}
  BY DEF Deck
<1> HIDE DEF h, D
<1>3. QED
  BY <1>1, <1>2, ImageFinite

(* What a user has at first.                                                  *)
Has(u) == Family(u) \cup Deck(u)

LEMMA HasIs ==
  ASSUME NEW u \in Users
  PROVE  /\ Has(u) \subseteq Cell /\ IsFiniteSet(Has(u))
         /\ \A c \in Has(u) : /\ c.user = u /\ c.kind \in {"plain", "nft"} /\ PaysNfts(c)
                              /\ c.id \in Int /\ (c.id <= 0 \/ c.id <= Len(Wallet[u]))
         /\ \A c, d \in Has(u) : c.id = d.id => c = d
<1>1. u \in Keys
  BY DEF Keys
<1>2. /\ Family(u) \subseteq Cell /\ IsFiniteSet(Family(u))
      /\ \A c \in Family(u) : c.kind = "plain" /\ c.user = u /\ c.id <= Len(Wallet[u])
  BY <1>1, FamilySum
<1>3. \A c \in Family(u) : \E i \in DOMAIN Wallet[u] :
        c = [Plain(u, Wallet[u][i]) EXCEPT !.id = i] /\ c.id = i /\ i \in Nat /\ i > 0
  <2>1. ASSUME NEW i \in DOMAIN Wallet[u], NEW c, c = [Plain(u, Wallet[u][i]) EXCEPT !.id = i]
        PROVE  c.id = i /\ i \in Nat /\ i > 0
    <3>1. c.id = i
      BY <2>1 DEF Plain
    <3>2. Wallet[u] \in Seq(Nat)
      BY <1>1, StoreAssumption
    <3>3. QED
      BY <3>1, <3>2
  <2>2. QED
    BY <2>1 DEF Family
<1>4. \A c \in Deck(u) : \E i \in DOMAIN Cards[u] :
        c = Card(u, i) /\ c.id = -i /\ i \in Nat /\ i > 0
  BY CardIs DEF Deck
<1>5. \A c \in Deck(u) : c \in Cell /\ c.user = u /\ c.kind \in {"plain", "nft"} /\ PaysNfts(c)
  BY CardIs DEF Deck
<1>6. IsFiniteSet(Has(u)) /\ Has(u) \subseteq Cell
  BY <1>2, <1>5, DeckIs, FS_Union DEF Has
<1>7. ASSUME NEW c \in Has(u)
      PROVE  /\ c.user = u /\ c.kind \in {"plain", "nft"} /\ PaysNfts(c)
             /\ c.id \in Int /\ (c.id <= 0 \/ c.id <= Len(Wallet[u]))
  <2>1. c.id \in Int
    BY <1>6 DEF Cell
  <2>2. CASE c \in Family(u)
    BY <1>2, <2>1, <2>2 DEF PaysNfts
  <2>3. CASE c \in Deck(u)
    BY <1>4, <1>5, <2>1, <2>3
  <2>4. QED
    BY <2>2, <2>3 DEF Has
<1>8. ASSUME NEW c \in Has(u), NEW d \in Has(u), c.id = d.id
      PROVE  c = d
  <2>1. \A x, y \in Deck(u) : x.id = y.id => x = y
    BY <1>4
  <2>2. \A x, y \in Family(u) : x.id = y.id => x = y
    BY <1>3
  <2>3. \A x \in Deck(u), y \in Family(u) : x.id # y.id
    BY <1>3, <1>4
  <2>4. QED
    BY <1>8, <2>1, <2>2, <2>3 DEF Has
<1>9. QED
  BY <1>6, <1>7, <1>8

LEMMA InitCells ==
  ASSUME OpeningInit
  PROVE  Core /\ LiveOK
<1>1. live = UNION {Has(u) : u \in Users} /\ pool = {} /\ txs = 0
  BY DEF OpeningInit, Has, Family, Deck, Card
<1>2. \A c \in live : \E u \in Users : c \in Has(u)
  BY <1>1
<1>3. IsFiniteSet(live)
  <2> DEFINE h == [u \in Users |-> Has(u)]
             F == {h[u] : u \in Users}
  <2>1. {Has(u) : u \in Users} = F
    OBVIOUS
  <2>2. \A A \in F : IsFiniteSet(A)
    BY HasIs
  <2> HIDE DEF h
  <2>3. IsFiniteSet(F)
    BY ImageFinite, StoreAssumption
  <2> HIDE DEF F
  <2>4. QED
    BY <1>1, <2>1, <2>2, <2>3, FS_UNION
<1>4. Newest \in Int /\ 0 <= Newest /\ \A u \in Users : Len(Wallet[u]) <= Newest /\ Len(Wallet[u]) \in Nat
  <2>1. Newest \in Int /\ \A u \in Keys : Len(Wallet[u]) <= Newest
    BY <1>1, NewestNat
  <2>2. \A u \in Keys : Len(Wallet[u]) \in Nat
    BY StoreAssumption
  <2>3. Composer \in Keys /\ Users \subseteq Keys
    BY DEF Keys
  <2>4. QED
    BY <2>1, <2>2, <2>3
<1>5. \A c \in live : /\ c \in Cell /\ c.id \in Int /\ c.id <= Newest
                      /\ c.kind \in {"plain", "nft"} /\ PaysNfts(c)
  <2>1. ASSUME NEW c \in live
        PROVE  /\ c \in Cell /\ c.id \in Int /\ c.id <= Newest
               /\ c.kind \in {"plain", "nft"} /\ PaysNfts(c)
    <3>1. PICK u \in Users : c \in Has(u)
      BY <1>2
    <3>2. /\ c \in Cell /\ c.kind \in {"plain", "nft"} /\ PaysNfts(c)
          /\ c.id \in Int /\ (c.id <= 0 \/ c.id <= Len(Wallet[u]))
      BY <3>1, HasIs
    <3>3. c.id <= Newest
      BY <1>4, <3>2
    <3>4. QED
      BY <3>2, <3>3
  <2>2. QED
    BY <2>1
<1>6. ASSUME NEW c \in live, NEW d \in live, c.user = d.user, c.id = d.id
      PROVE  c = d
  <2>1. PICK u \in Users : c \in Has(u)
    BY <1>2
  <2>2. PICK v \in Users : d \in Has(v)
    BY <1>2
  <2>3. c.user = u /\ d.user = v
    BY <2>1, <2>2, HasIs
  <2>4. d \in Has(u)
    BY <1>6, <2>2, <2>3
  <2>5. QED
    BY <1>6, <2>1, <2>4, HasIs
<1>7. LiveOK
  BY <1>1, <1>5, <1>6 DEF LiveOK, Ordinals, Special
<1>8. CellsOK /\ Sole
  BY <1>3, <1>5 DEF CellsOK, Sole, Special
<1>9. QED
  BY <1>1, <1>7, <1>8 DEF Core

LEMMA OpeningInitInv ==
  ASSUME OpeningInit
  PROVE  OpeningInv
<1>1. Core /\ LiveOK
  BY InitCells
<1>2. ask \in [Users -> Ask]
  <2>1. ask \in [Users -> UNION {Asks[u] : u \in Users}] /\ \A u \in Users : ask[u] \in Asks[u]
    BY DEF OpeningInit
  <2>2. \A u \in Users : Asks[u] \subseteq Ask
    BY OpeningAssumption
  <2>3. QED
    BY <2>1, <2>2
<1>3. /\ offers = {} /\ prepared = 0 /\ task = [u \in Users |-> Idle]
  BY DEF OpeningInit
<1>4. task = [u \in Users |-> task[u]] /\ \A u \in Users : TaskOK(ask, u, task[u])
  BY <1>3 DEF TaskOK
<1>5. QED
  BY <1>1, <1>2, <1>3, <1>4 DEF OpeningInv

LEMMA OpeningKept ==
  ASSUME OpeningInv, UNCHANGED allVars
  PROVE  OpeningInv'
<1>1. UNCHANGED vars /\ UNCHANGED <<ask, offers, task, prepared>>
  BY DEF allVars, openingVars
<1>2. Core' /\ LiveOK'
  BY <1>1, LiveKept
<1>3. /\ ask \in [Users -> Ask] /\ prepared \in Nat
      /\ \A o \in offers : OfferOK(ask, o)
      /\ task = [v \in Users |-> task[v]] /\ \A v \in Users : TaskOK(ask, v, task[v])
  BY InvParts
<1>4. prepared' \in Nat /\ (\A o \in offers' : OfferOK(ask, o)) /\ ask' = ask
  BY <1>1, <1>3
<1>5. /\ task' = [v \in Users |-> task'[v]] /\ \A v \in Users : TaskOK(ask, v, task'[v])
  BY <1>1, <1>3
<1>6. QED
  BY <1>2, <1>3, <1>4, <1>5, InvNext

(* So the invariant holds of every state.                                     *)
LEMMA OpeningSteps ==
  ASSUME OpeningInv, OpeningNext
  PROVE  OpeningInv'
<1>1. CASE Prepare
  BY <1>1, PrepareStep
<1>2. ASSUME NEW tx \in offers, Complete(tx)
      PROVE  OpeningInv'
  BY <1>2, CompleteStep
<1>3. ASSUME NEW tx \in offers, Open(tx)
      PROVE  OpeningInv'
  BY <1>3, OpenStep
<1>4. ASSUME NEW tx \in offers, NEW u \in Users, SignTx(u, tx)
      PROVE  OpeningInv'
  BY <1>4, SignStep
<1>5. ASSUME NEW u \in Users, ReadNfts(u) \/ AddNfts(u) \/ ReadCkb(u) \/ AddCkb(u)
      PROVE  OpeningInv'
  BY <1>5, ReadNftsStep, AddNftsStep, ReadCkbStep, AddCkbStep
<1>6. CASE Ordinary
  BY <1>6, OrdinaryStep
<1>7. QED
  BY <1>1, <1>2, <1>3, <1>4, <1>5, <1>6 DEF OpeningNext

(* The invariant of the opening (interact.rs:150-370, tx_extends.rs:92-252): what *)
(* is collected, whatever is live by then, is balanced and paid for, and what  *)
(* the players have signed is what they asked for.                            *)
THEOREM OpeningInvCorrect == OpeningSpec => []OpeningInv
<1>1. OpeningInit => OpeningInv
  BY OpeningInitInv
<1>2. OpeningInv /\ [OpeningNext]_allVars => OpeningInv'
  BY OpeningSteps, OpeningKept
<1>3. QED
  BY <1>1, <1>2, PTL DEF OpeningSpec
--------------------------------------------------------------------------------
(* Who puts something into an opening.                                        *)
LEMMA Parties ==
  ASSUME NEW k, NEW tx, Formed(k, tx)
  PROVE  /\ tx.args.users \in {<<One>>, <<One, Two>>} /\ One \in ToSet(tx.args.users)
         /\ ToSet(tx.args.users) \subseteq {One, Two}
         /\ Two \in ToSet(tx.args.users) => Joint(k, tx)
         /\ tx.outs[1].ckb = 2 * Half(k[One]) /\ Half(k[One]) \in Nat => Joint(k, tx)
<1>1. Alone(k, tx) \/ Joint(k, tx)
  BY DEF Formed
<1>2. ToSet(<<One>>) = {One} /\ ToSet(<<One, Two>>) = {One, Two}
  BY DEF ToSet
<1>3. tx.args.users \in {<<One>>, <<One, Two>>}
  BY <1>1 DEF Alone, Joint
<1>4. One \in ToSet(tx.args.users) /\ ToSet(tx.args.users) \subseteq {One, Two}
  BY <1>2, <1>3
<1>5. ASSUME Two \in ToSet(tx.args.users)
      PROVE  Joint(k, tx)
  BY <1>1, <1>2, <1>5, PlayersAre DEF Alone
<1>6. ASSUME tx.outs[1].ckb = 2 * Half(k[One]), Half(k[One]) \in Nat
      PROVE  Joint(k, tx)
  <2>1. Half(k[One]) > 0
    BY DEF Formed
  <2> DEFINE h == Half(k[One])
  <2>2. h \in Nat /\ h > 0 /\ tx.outs[1].ckb = 2 * h
    BY <1>6, <2>1
  <2>3. Alone(k, tx) => tx.outs[1].ckb = h
    BY DEF Alone
  <2> HIDE DEF h
  <2>4. ~ Alone(k, tx)
    BY <2>2, <2>3
  <2>5. QED
    BY <1>1, <2>4
<1>7. QED
  BY <1>3, <1>4, <1>5, <1>6

(* A cell that cannot pay for itself is one of the three exceptions.           *)
LEMMA PaidFor ==
  ASSUME NEW k, NEW tx, OfferOK(k, tx), Backed(tx), Joint(k, tx), NEW i \in DOMAIN tx.outs \ {1}
  PROVE  PaysFor(tx, i) \/ WithoutNfts(tx) \/ SmallChange(tx)
<1>1. Formed(k, tx) /\ OpeningType(tx) /\ \A u \in Users : Balanced(tx, u)
  BY DEF OfferOK, Formed
<1>2. tx.outs \in Seq(Cell) /\ tx.ins \in Seq(Cell) /\ tx.args.nfts \in [Users -> Bag]
  BY <1>1 DEF OpeningType, Args
<1> DEFINE c == tx.outs[i]
           u == c.user
<1>3. Part(tx, c) /\ Funded(tx, c)
  BY <1>1 DEF Formed
<1>4. u \in ToSet(tx.args.users) /\ u \in Users
  BY <1>1, <1>3, Parties, PlayersAre DEF Part
<1>5. CASE PaysOwn(c)
  BY <1>5 DEF PaysFor, Occupies, PaysOwn
<1>6. CASE c.kind = "plain" /\ c.ckb \in 1 .. (Base - 1)
  BY <1>6 DEF SmallChange
<1>7. CASE Void(tx, u)
  <2>1. PICK j \in DOMAIN tx.args.users : tx.args.users[j] = u
    BY <1>4 DEF ToSet
  <2>2. \A n \in Nfts : tx.args.nfts[u][n] <= NftsAt(tx.outs, NftCells(tx.outs, u))[n]
    BY <2>1 DEF Backed
  <2>3. \A n \in Nfts : NftsAt(tx.outs, NftCells(tx.outs, u))[n] = SumOut(NftsIn(u, n), tx.outs)
    BY <1>2, NftsAtIs
  <2>4. \A n \in Nfts : SumOut(NftsIn(u, n), tx.outs) = 0
    BY <1>1, <1>4, <1>7 DEF Void, Balanced
  <2>5. tx.args.nfts[u] \in [Nfts -> Nat]
    BY <1>2, <1>4 DEF Bag
  <2> HIDE DEF u
  <2>6. \A n \in Nfts : tx.args.nfts[u][n] = 0
    <3>1. ASSUME NEW n \in Nfts
          PROVE  tx.args.nfts[u][n] = 0
      <4>1. tx.args.nfts[u][n] <= 0
        BY <2>2, <2>3, <2>4
      <4>2. tx.args.nfts[u][n] \in Nat
        BY <2>5
      <4>3. QED
        BY <4>1, <4>2
    <3>2. QED
      BY <3>1
  <2>7. tx.args.nfts[u] = Empty
    BY <2>5, <2>6 DEF Empty
  <2>8. QED
    BY <1>4, <2>7 DEF WithoutNfts
<1>8. QED
  BY <1>3, <1>5, <1>6, <1>7 DEF Funded

(* The chain takes what both users have signed (interact.rs:305-370,           *)
(* tx_extends.rs:92-252): the witnesses of each unlock that user's inputs,     *)
(* whoever signed first, the outputs are paid for, and every cell pays for     *)
(* what it occupies but in three cases. For any nfts, stakes and cells.        *)
THEOREM SignedOpensCorrect == OpeningSpec => []SignedOpens
<1>1. ASSUME OpeningInv
      PROVE  SignedOpens
  <2>1. ASSUME NEW tx \in offers, tx.signers = Users, Fresh(tx),
               ~ WithoutNfts(tx), ~ SmallChange(tx), ~ TooManyNfts(tx)
        PROVE  Accepts(tx)
    <3>1. OfferOK(ask, tx) /\ ask \in [Users -> Ask]
      BY <1>1, InvParts
    <3>2. Formed(ask, tx) /\ PaidUp(tx) /\ tx.ins \in Seq(Cell) /\ tx.outs \in Seq(Cell)
      BY <3>1 DEF OfferOK, Formed, OpeningType
    <3>3. SignedOK(ask, tx, One) /\ SignedOK(ask, tx, Two)
      BY <2>1, <3>1, PlayersAre DEF OfferOK
    <3>4. tx.outs[1].ckb = 2 * Half(ask[One]) /\ Backed(tx)
      BY <3>3 DEF SignedOK
    <3>5. Half(ask[One]) \in Nat
      BY <3>1, HalfNat, PlayersAre
    <3>6. Joint(ask, tx)
      BY <3>2, <3>4, <3>5, Parties
    <3>7. ASSUME NEW i \in DOMAIN tx.outs
          PROVE  PaysFor(tx, i)
      <4>1. CASE i = 1
        <5>1. OccupiedBy(tx.args) \in Nat
          BY <3>2, Occupied DEF Formed, OpeningType, Args
        <5>2. ~ OccupiedBy(tx.args) > 2 * Half(ask[One])
          BY <2>1 DEF TooManyNfts, One
        <5> DEFINE o == OccupiedBy(tx.args)
                   h == Half(ask[One])
        <5> HIDE DEF o, h
        <5>3. o \in Nat /\ h \in Nat /\ ~ o > 2 * h /\ tx.outs[1].ckb = 2 * h
          BY <3>4, <3>5, <5>1, <5>2 DEF o, h
        <5>4. o <= tx.outs[1].ckb
          BY <5>3
        <5>5. QED
          BY <4>1, <5>4 DEF PaysFor, Occupies, o
      <4>2. CASE i # 1
        BY <2>1, <3>1, <3>4, <3>6, <4>2, PaidFor
      <4>3. QED
        BY <4>1, <4>2
    <3>8. CkbOf(tx.outs) <= CkbOf(tx.ins)
      <4>1. CkbOf(tx.outs) = SumOut(CkbIn, tx.outs) /\ CkbOf(tx.ins) = SumOut(CkbIn, tx.ins)
        BY <3>2, CkbAtIs
      <4>2. SumOut(CkbIn, tx.outs) \in Nat
        BY <3>2, CkbMeasure, SumOutNat
      <4>3. QED
        BY <3>2, <4>1, <4>2, FeeNat DEF PaidUp
    <3>9. ASSUME NEW u \in ToSet(Locks(tx))
          PROVE  Signed(tx, u)
      <4>1. PICK i \in DOMAIN tx.ins : tx.ins[i].user = u
        BY <3>2, LocksAre
      <4>2. Part(tx, tx.ins[i])
        BY <3>2 DEF Formed
      <4>3. u \in {One, Two}
        BY <3>2, <4>1, <4>2, Parties DEF Part
      <4>4. QED
        BY <3>3, <3>9, <4>3 DEF SignedOK
    <3>10. IsInjective(tx.ins)
      BY <3>2 DEF Formed
    <3>11. QED
      BY <3>7, <3>8, <3>9, <3>10 DEF Accepts
  <2>2. QED
    BY <2>1 DEF SignedOpens
<1>2. QED
  BY <1>1, OpeningInvCorrect, PTL

(* What the second user puts in is what the first one does not.               *)
LEMMA TwoPays ==
  ASSUME NEW k, k \in [Users -> Ask], NEW tx, OfferOK(k, tx), Joint(k, tx)
  PROVE  SumOut(MineIn(Two), tx.ins) = SumOut(MineIn(Two), tx.outs) + Half(k[Two])
<1> DEFINE both == [c \in Cell |-> MineIn(Two)[c] + ChannelIn[c]]
           h == Half(k[One])
<1>1. Formed(k, tx) /\ OpeningType(tx) /\ PaidBy(k, tx) /\ PaidUp(tx)
  BY DEF OfferOK, Formed
<1>2. tx.outs \in Seq(Cell) /\ tx.ins \in Seq(Cell) /\ h \in Nat
  BY <1>1, HalfNat, PlayersAre DEF OpeningType
<1>3. Measure(MineIn(One)) /\ Measure(MineIn(Two)) /\ Measure(ChannelIn) /\ Measure(CkbIn)
  BY MineMeasure, ChannelMeasure, CkbMeasure
<1>4. \A c \in Cell : (c.user \in {One, Two} /\ c.kind \in {"plain", "nft"}) \/ c.kind = "channel" =>
        CkbIn[c] = MineIn(One)[c] + (MineIn(Two)[c] + ChannelIn[c])
  <2>1. ASSUME NEW c \in Cell
        PROVE  /\ CkbIn[c] = c.ckb /\ c.ckb \in Nat
               /\ MineIn(One)[c] = IF c.user = One /\ c.kind # "channel" THEN c.ckb ELSE 0
               /\ MineIn(Two)[c] = IF c.user = Two /\ c.kind # "channel" THEN c.ckb ELSE 0
               /\ ChannelIn[c] = IF c.kind = "channel" THEN c.ckb ELSE 0
    BY DEF CkbIn, MineIn, ChannelIn, Cell
  <2>2. QED
    BY <2>1, PlayersAre
<1>5. Measure(both)
  <2>1. ASSUME NEW c \in Cell
        PROVE  both[c] \in Nat
    BY <1>3, MeasureNat
  <2>2. ASSUME NEW c \in Cell, NEW i \in Int, NEW s \in Seq(Nat)
        PROVE  both[[c EXCEPT !.id = i, !.seed = s]] = both[c]
    <3> DEFINE d == [c EXCEPT !.id = i, !.seed = s]
    <3>1. d \in Cell
      BY DEF Cell
    <3>2. \A f : Measure(f) => f[d] = f[c]
      BY Zenon DEF Measure
    <3>3. MineIn(Two)[d] = MineIn(Two)[c] /\ ChannelIn[d] = ChannelIn[c]
      BY <1>3, <3>2
    <3> HIDE DEF d
    <3>4. both[d] = both[c]
      BY <3>1, <3>3
    <3>5. QED
      BY <3>4 DEF d
  <2>3. QED
    BY <2>1, <2>2 DEF Measure
<1>6. \A c \in Cell : both[c] = MineIn(Two)[c] + ChannelIn[c]
  OBVIOUS
<1> HIDE DEF both
<1>7. \A i \in DOMAIN tx.ins : /\ tx.ins[i] \in Cell /\ tx.ins[i].user \in {One, Two}
                               /\ tx.ins[i].kind \in {"plain", "nft"}
  <2>1. \A i \in DOMAIN tx.ins : tx.ins[i] \in Cell /\ Part(tx, tx.ins[i])
    BY <1>1, <1>2 DEF Formed
  <2>2. ToSet(tx.args.users) \subseteq {One, Two}
    BY <1>1, Parties
  <2>3. QED
    BY <2>1, <2>2 DEF Part
<1>8. \A i \in DOMAIN tx.outs \ {1} : /\ tx.outs[i] \in Cell /\ tx.outs[i].user \in {One, Two}
                                      /\ tx.outs[i].kind \in {"plain", "nft"}
  <2>1. \A i \in DOMAIN tx.outs \ {1} : tx.outs[i] \in Cell /\ Part(tx, tx.outs[i])
    BY <1>1, <1>2 DEF Formed
  <2>2. ToSet(tx.args.users) \subseteq {One, Two}
    BY <1>1, Parties
  <2>3. QED
    BY <2>1, <2>2 DEF Part
<1>9. 1 \in DOMAIN tx.outs /\ tx.outs[1] \in Cell /\ tx.outs[1].kind = "channel"
  <2>1. tx.outs # << >> /\ tx.outs[1].kind = "channel"
    BY <1>1 DEF Formed
  <2>2. QED
    BY <1>2, <2>1
<1>10. Splits(CkbIn, MineIn(One), both, tx.ins) /\ Splits(CkbIn, MineIn(One), both, tx.outs)
  BY <1>4, <1>6, <1>7, <1>8, <1>9 DEF Splits
<1>11. Splits(both, MineIn(Two), ChannelIn, tx.ins) /\ Splits(both, MineIn(Two), ChannelIn, tx.outs)
  BY <1>6, <1>7, <1>8, <1>9 DEF Splits
<1>12. /\ SumOut(CkbIn, tx.ins) = SumOut(MineIn(One), tx.ins) + SumOut(both, tx.ins)
       /\ SumOut(CkbIn, tx.outs) = SumOut(MineIn(One), tx.outs) + SumOut(both, tx.outs)
  BY <1>2, <1>3, <1>5, <1>10, SumOutPlus
<1>13. /\ SumOut(both, tx.ins) = SumOut(MineIn(Two), tx.ins) + SumOut(ChannelIn, tx.ins)
       /\ SumOut(both, tx.outs) = SumOut(MineIn(Two), tx.outs) + SumOut(ChannelIn, tx.outs)
  BY <1>2, <1>3, <1>11, SumOutPlus
<1>14. SumOut(ChannelIn, tx.ins) = 0
  <2>1. \A i \in DOMAIN tx.ins : ChannelIn[tx.ins[i]] = 0
    BY <1>7 DEF ChannelIn
  <2>2. QED
    BY <1>2, <2>1, SumOutZero
<1>15. SumOut(ChannelIn, tx.outs) = 2 * h
  <2>1. \A i \in DOMAIN tx.outs \ {1} : ChannelIn[tx.outs[i]] = 0
    BY <1>8 DEF ChannelIn
  <2>2. ChannelIn[tx.outs[1]] = tx.outs[1].ckb
    BY <1>9 DEF ChannelIn
  <2>3. tx.outs # << >>
    BY <1>1 DEF Formed
  <2>4. SumOut(ChannelIn, tx.outs) = ChannelIn[tx.outs[1]]
    BY <1>2, <1>3, <2>1, <2>3, SumOutOnly
  <2>5. QED
    BY <2>2, <2>4 DEF Joint
<1>16. /\ SumOut(MineIn(One), tx.ins) \in Nat /\ SumOut(MineIn(One), tx.outs) \in Nat
       /\ SumOut(MineIn(Two), tx.ins) \in Nat /\ SumOut(MineIn(Two), tx.outs) \in Nat
  BY <1>2, <1>3, SumOutNat
<1>17. /\ SumOut(MineIn(One), tx.ins) = SumOut(MineIn(One), tx.outs) + (h + OpenFee)
       /\ SumOut(CkbIn, tx.ins) = SumOut(CkbIn, tx.outs) + OpenFee
       /\ Half(k[Two]) = h
  BY <1>1 DEF PaidBy, PaidUp, Joint
<1> DEFINE i1 == SumOut(MineIn(One), tx.ins)
           o1 == SumOut(MineIn(One), tx.outs)
           i2 == SumOut(MineIn(Two), tx.ins)
           o2 == SumOut(MineIn(Two), tx.outs)
<1>18. SumOut(both, tx.ins) = i2 /\ SumOut(both, tx.outs) = o2 + 2 * h
  BY <1>13, <1>14, <1>15, <1>16
<1>19. i1 + i2 = (o1 + (o2 + 2 * h)) + OpenFee
  BY <1>12, <1>17, <1>18
<1>20. i1 = o1 + (h + OpenFee) /\ h \in Nat /\ i1 \in Nat /\ o1 \in Nat /\ i2 \in Nat /\ o2 \in Nat
  BY <1>2, <1>16, <1>17
<1> HIDE DEF h, i1, i2, o1, o2
<1>21. i2 = o2 + h
  BY ONLY <1>19, <1>20, FeeNat
<1>22. QED
  BY <1>17, <1>21 DEF i2, o2

LEMMA OthersPayNothing ==
  ASSUME NEW k, NEW tx, Formed(k, tx), NEW u, u \notin ToSet(tx.args.users)
  PROVE  SumOut(MineIn(u), tx.ins) = 0 /\ SumOut(MineIn(u), tx.outs) = 0
<1>1. tx.outs \in Seq(Cell) /\ tx.ins \in Seq(Cell)
  BY DEF Formed, OpeningType
<1>2. \A i \in DOMAIN tx.ins : tx.ins[i] \in Cell /\ tx.ins[i].user # u
  BY <1>1 DEF Formed, Part
<1>3. \A i \in DOMAIN tx.outs : tx.outs[i] \in Cell /\ (tx.outs[i].user # u \/ tx.outs[i].kind = "channel")
  <2>1. ASSUME NEW i \in DOMAIN tx.outs
        PROVE  tx.outs[i] \in Cell /\ (tx.outs[i].user # u \/ tx.outs[i].kind = "channel")
    BY <1>1 DEF Formed, Part
  <2>2. QED
    BY <2>1
<1>4. \A i \in DOMAIN tx.ins : MineIn(u)[tx.ins[i]] = 0
  BY <1>2 DEF MineIn
<1>5. \A i \in DOMAIN tx.outs : MineIn(u)[tx.outs[i]] = 0
  BY <1>3 DEF MineIn
<1>6. QED
  BY <1>1, <1>4, <1>5, SumOutZero

(* A user who signs an opening pays stake and bet, and the first one the fee,   *)
(* gets all nfts back that went in, and finds those that were asked for in the *)
(* list (interact.rs:150-216, tx_extends.rs:92-252); one who has no part in it *)
(* pays nothing. For any nfts, stakes, cells and pages.                       *)
THEOREM SignsOwnShareCorrect == OpeningSpec => []SignsOwnShare
<1>1. ASSUME OpeningInv
      PROVE  SignsOwnShare
  <2>1. ASSUME NEW tx \in offers, NEW u \in tx.signers
        PROVE  LET back == NftsAt(tx.outs, NftCells(tx.outs, u)) IN
                 /\ IsInjective(tx.ins)
                 /\ CkbAt(tx.ins, Owned(tx.ins, u)) - CkbAt(tx.outs, Owned(tx.outs, u)) = Share(tx, u)
                 /\ NftsAt(tx.ins, NftCells(tx.ins, u)) = back
                 /\ u \in ToSet(tx.args.users) =>
                      /\ tx.args.nfts[u] = ask[u].nfts
                      /\ \A n \in Nfts : ask[u].nfts[n] <= back[n]
    <3> DEFINE back == NftsAt(tx.outs, NftCells(tx.outs, u))
               front == NftsAt(tx.ins, NftCells(tx.ins, u))
    <3>1. OfferOK(ask, tx) /\ ask \in [Users -> Ask]
      BY <1>1, InvParts
    <3>2. /\ Formed(ask, tx) /\ PaidBy(ask, tx) /\ tx.ins \in Seq(Cell) /\ tx.outs \in Seq(Cell)
          /\ u \in Users /\ Balanced(tx, u)
      BY <3>1 DEF OfferOK, Formed, OpeningType
    <3>3. /\ CkbAt(tx.ins, Owned(tx.ins, u)) = SumOut(MineIn(u), tx.ins)
          /\ CkbAt(tx.outs, Owned(tx.outs, u)) = SumOut(MineIn(u), tx.outs)
      BY <3>2, CkbAtIs
    <3>4. SumOut(MineIn(u), tx.ins) - SumOut(MineIn(u), tx.outs) = Share(tx, u)
      <4>1. SumOut(MineIn(u), tx.ins) \in Nat /\ SumOut(MineIn(u), tx.outs) \in Nat
        BY <3>2, MineMeasure, SumOutNat
      <4>2. Half(ask[u]) \in Nat
        BY <3>1, <3>2, HalfNat
      <4> DEFINE a == SumOut(MineIn(u), tx.ins)
                 b == SumOut(MineIn(u), tx.outs)
                 h == Half(ask[u])
      <4>3. CASE u = One
        <5>1. a = b + (h + OpenFee)
          BY <3>2, <4>3 DEF PaidBy
        <5>2. Share(tx, u) = h + OpenFee
          BY <3>2, <4>3, Parties DEF Share, One
        <5> HIDE DEF a, b, h
        <5>3. a - b = h + OpenFee
          BY <4>1, <4>2, <5>1, FeeNat DEF a, b, h
        <5>4. QED
          BY <5>2, <5>3 DEF a, b
      <4>4. CASE u = Two /\ Two \in ToSet(tx.args.users)
        <5>1. a = b + h
          BY <3>1, <3>2, <4>4, Parties, TwoPays
        <5>2. Share(tx, u) = h
          BY <4>2, <4>4, PlayersAre DEF Share, One
        <5> HIDE DEF a, b, h
        <5>3. a - b = h
          BY <4>1, <4>2, <5>1 DEF a, b, h
        <5>4. QED
          BY <5>2, <5>3 DEF a, b
      <4>5. CASE u \notin ToSet(tx.args.users)
        BY <3>2, <4>5, OthersPayNothing DEF Share
      <4>6. QED
        BY <3>2, <4>3, <4>4, <4>5, Parties
    <3>5. /\ front \in Bag /\ back \in Bag
          /\ \A n \in Nfts : front[n] = SumOut(NftsIn(u, n), tx.ins) /\ back[n] = SumOut(NftsIn(u, n), tx.outs)
      BY <3>2, NftsAtIs
    <3>6. ASSUME u \in ToSet(tx.args.users)
          PROVE  tx.args.nfts[u] = ask[u].nfts /\ \A n \in Nfts : ask[u].nfts[n] <= back[n]
      <4>1. u \in {One, Two}
        BY <3>2, <3>6, Parties
      <4>2. SignedOK(ask, tx, u)
        BY <2>1, <3>1, <4>1 DEF OfferOK
      <4>3. tx.args.nfts[u] = ask[u].nfts /\ Backed(tx)
        BY <3>6, <4>2 DEF SignedOK
      <4>4. PICK j \in DOMAIN tx.args.users : tx.args.users[j] = u
        BY <3>6 DEF ToSet
      <4>5. \A n \in Nfts : tx.args.nfts[u][n] <= back[n]
        BY <4>3, <4>4 DEF Backed
      <4>6. QED
        BY <4>3, <4>5
    <3> HIDE DEF front, back
    <3>7. front = back
      <4>1. \A n \in Nfts : front[n] = back[n]
        BY <3>2, <3>5 DEF Balanced
      <4>2. QED
        BY <3>5, <4>1 DEF Bag
    <3>8. IsInjective(tx.ins)
      BY <3>2 DEF Formed
    <3>9. QED
      BY <3>3, <3>4, <3>6, <3>7, <3>8 DEF front, back
  <2>2. QED
    BY <2>1, Zenon DEF SignsOwnShare
<1>2. QED
  BY <1>1, OpeningInvCorrect, PTL
--------------------------------------------------------------------------------
(* The nfts of each user.                                                     *)
LEMMA HoldsAre ==
  ASSUME CellsOK, CellsOK'
  PROVE  /\ Holds \in [Users -> [Nfts -> Nat]] /\ Holds' \in [Users -> [Nfts -> Nat]]
         /\ \A u \in Users, n \in Nfts : /\ Holds[u][n] = Sum(NftsIn(u, n), live)
                                         /\ Holds'[u][n] = Sum(NftsIn(u, n), live')
<1> DEFINE bags == [Nfts -> Nat]
<1>1. /\ \A u \in Users : Holds[u] = Total(Of("nft", u)) /\ Holds'[u] = Total(Of("nft", u))'
      /\ Holds = [u \in Users |-> Holds[u]] /\ Holds' = [u \in Users |-> Holds'[u]]
  BY DEF Holds
<1>2. \A u \in Users : Total(Of("nft", u)) \in bags /\ Total(Of("nft", u))' \in bags
  BY OwnedNow, OwnedNext
<1>3. Holds \in [Users -> bags] /\ Holds' \in [Users -> bags]
  BY <1>1, <1>2
<1>4. ASSUME NEW u \in Users, NEW n \in Nfts
      PROVE  Holds[u][n] = Sum(NftsIn(u, n), live) /\ Holds'[u][n] = Sum(NftsIn(u, n), live')
  <2>1. Total(Of("nft", u))[n] = Sum(NftsIn(u, n), live)
    BY OwnedNow
  <2>2. Total(Of("nft", u))'[n] = Sum(NftsIn(u, n), live')
    BY OwnedNext
  <2>3. QED
    BY <1>1, <2>1, <2>2
<1>5. QED
  BY <1>3, <1>4

LEMMA OpenHolds ==
  ASSUME Core, LiveOK, NEW k, NEW tx, OfferOK(k, tx), Open(tx)
  PROVE  Holds' = Holds
<1>1. /\ Fresh(tx) /\ live' = After(ToSet(tx.ins), tx, << >>) /\ << >> \in Seq(Nat)
      /\ txs \in Nat /\ CellsOK
  BY Opens DEF Core
<1>2. tx.ins \in Seq(Cell) /\ tx.outs \in Seq(Cell) /\ IsInjective(tx.ins) /\ \A u \in Users : Balanced(tx, u)
  BY DEF OfferOK, Formed, OpeningType
<1>3. CellsOK'
  BY OpenCells
<1>4. ToSet(tx.ins) \subseteq live
  BY <1>1 DEF Fresh
<1>5. ASSUME NEW u \in Users, NEW n \in Nfts
      PROVE  Sum(NftsIn(u, n), live') = Sum(NftsIn(u, n), live)
  <2> DEFINE f == NftsIn(u, n)
             in == ToSet(tx.ins)
  <2>1. Measure(f)
    BY NftsMeasure
  <2>2. SumOut(f, tx.ins) = SumOut(f, tx.outs)
    BY <1>2 DEF Balanced
  <2> HIDE DEF f
  <2>3. Sum(f, in) = SumOut(f, tx.ins)
    BY <1>2, <2>1, SumOutSet
  <2>4. in \subseteq live
    BY <1>4
  <2> HIDE DEF in
  <2>5. /\ Sum(f, After(in, tx, << >>)) = Sum(f, live) - Sum(f, in) + SumOut(f, tx.outs)
        /\ Sum(f, live) \in Nat /\ Sum(f, in) \in Nat
    BY <1>1, <1>2, <2>1, <2>4, CommitSum
  <2>6. Sum(f, live') = Sum(f, live)
    BY <1>1, <2>2, <2>3, <2>5 DEF in
  <2>7. QED
    BY <2>6 DEF f
<1>6. /\ Holds \in [Users -> [Nfts -> Nat]] /\ Holds' \in [Users -> [Nfts -> Nat]]
      /\ \A u \in Users, n \in Nfts : Holds'[u][n] = Holds[u][n]
  BY <1>1, <1>3, <1>5, HoldsAre
<1>7. \A u \in Users : Holds'[u] = Holds[u]
  BY <1>6
<1>8. QED
  BY <1>6, <1>7

LEMMA CommitHolds ==
  ASSUME Core, NEW tx, NEW seed, Taking(tx, seed), tx.kind = "transfer"
  PROVE  \/ Holds' = Holds
         \/ \E u \in Users, v \in Users, w \in Wishes : Moves!Transfer(u, v, w)
<1> DEFINE in(u, n) == Sum(NftsIn(u, n), tx.ins)
           out(u, n) == SumOut(NftsIn(u, n), tx.outs)
           bags == [Nfts -> Nat]
<1>1. /\ Holds \in [Users -> bags] /\ Holds' \in [Users -> bags]
      /\ \A u \in Users, n \in Nfts : /\ Holds[u][n] = Sum(NftsIn(u, n), live)
                                      /\ Holds'[u][n] = Sum(NftsIn(u, n), live')
  BY CellsKept, HoldsAre DEF Core
<1>2. \A u \in Users, n \in Nfts :
           /\ Holds'[u][n] = (Holds[u][n] - in(u, n)) + out(u, n)
           /\ in(u, n) \in Nat /\ out(u, n) \in Nat /\ in(u, n) <= Holds[u][n]
           /\ Holds[u][n] \in Nat /\ Holds'[u][n] \in Nat
  <2>1. ASSUME NEW u \in Users, NEW n \in Nfts
        PROVE  /\ Holds'[u][n] = (Holds[u][n] - in(u, n)) + out(u, n)
               /\ in(u, n) \in Nat /\ out(u, n) \in Nat /\ in(u, n) <= Holds[u][n]
               /\ Holds[u][n] \in Nat /\ Holds'[u][n] \in Nat
    <3> DEFINE f == NftsIn(u, n)
    <3>1. Measure(f)
      BY NftsMeasure
    <3>2. /\ tx.outs \in Seq(Cell) /\ seed \in Seq(Nat) /\ tx.ins \subseteq live /\ txs \in Nat /\ CellsOK
          /\ live' = After(tx.ins, tx, seed)
      BY TakenIs DEF Taking, Core
    <3>3. Holds[u][n] = Sum(f, live) /\ Holds'[u][n] = Sum(f, live')
      BY <1>1
    <3> HIDE DEF f
    <3>4. /\ Sum(f, After(tx.ins, tx, seed)) = Sum(f, live) - Sum(f, tx.ins) + SumOut(f, tx.outs)
          /\ Sum(f, After(tx.ins, tx, seed)) \in Nat /\ Sum(f, live) \in Nat /\ Sum(f, tx.ins) \in Nat
          /\ SumOut(f, tx.outs) \in Nat /\ Sum(f, tx.ins) <= Sum(f, live)
      BY <3>1, <3>2, CommitSum
    <3>5. QED
      BY <3>2, <3>3, <3>4 DEF f
  <2>2. QED
    BY <2>1
<1>3. /\ Wishes \subseteq bags
      /\ \/ \A u \in Users, n \in Nfts : out(u, n) = in(u, n)
         \/ \E v, t \in Users, w \in Wishes : v # t /\ \A u \in Users, n \in Nfts :
              in(u, n) + (IF u = t THEN w[n] ELSE 0) = out(u, n) + IF u = v THEN w[n] ELSE 0
  <2>1. Moved(tx)
    BY TakenIs DEF TxOK
  <2>2. QED
    BY <2>1, StoreAssumption DEF Moved
<1> HIDE DEF in, out
<1>4. CASE \A u \in Users, n \in Nfts : out(u, n) = in(u, n)
  <2>1. \A u \in Users, n \in Nfts : Holds'[u][n] = Holds[u][n]
    BY <1>2, <1>4
  <2>2. \A u \in Users : Holds'[u] = Holds[u]
    BY <1>1, <2>1
  <2>3. QED
    BY <1>1, <2>2
<1>5. ASSUME NEW v \in Users, NEW t \in Users, NEW w \in Wishes, v # t,
             \A u \in Users, n \in Nfts :
               in(u, n) + (IF u = t THEN w[n] ELSE 0) = out(u, n) + IF u = v THEN w[n] ELSE 0
      PROVE  Moves!Transfer(v, t, w)
  <2>1. ASSUME NEW u \in Users, NEW n \in Nfts
        PROVE  /\ Holds'[u][n] = IF u = v THEN Holds[u][n] - w[n]
                                 ELSE IF u = t THEN Holds[u][n] + w[n] ELSE Holds[u][n]
               /\ u = v => w[n] <= Holds[u][n]
    <3>1. w[n] \in Nat
      BY <1>3
    <3>2. QED
      BY <1>2, <1>5, <3>1
  <2>2. Holds' = [Holds EXCEPT ![v] = [n \in Nfts |-> Holds[v][n] - w[n]],
                               ![t] = [n \in Nfts |-> Holds[t][n] + w[n]]]
    <3>1. \A u \in Users : Holds'[u] = IF u = v THEN [n \in Nfts |-> Holds[v][n] - w[n]]
                                    ELSE IF u = t THEN [n \in Nfts |-> Holds[t][n] + w[n]] ELSE Holds[u]
      BY <1>1, <2>1
    <3>2. QED
      BY <1>1, <1>5, <3>1
  <2>3. QED
    BY <1>5, <2>1, <2>2 DEF Moves!Transfer, Moves!Has, Moves!Minus, Moves!Plus
<1>6. QED
  BY <1>3, <1>4, <1>5

(* Openings move no nft, and transfers what their sender has (tx_extends.rs:    *)
(* 166-252), whatever is spent while cells are collected and offers pass.     *)
StayStep ==
  Holds' # Holds => \E u \in Users, v \in Users, w \in Wishes : Moves!Transfer(u, v, w)

LEMMA OrdinaryHolds ==
  ASSUME OpeningInv, Ordinary
  PROVE  StayStep
<1>1. Core /\ CellsOK /\ LiveOK
  BY InvParts
<1>2. ASSUME live' = live
      PROVE  StayStep
  BY <1>2 DEF StayStep, Holds, Of
<1>3. ASSUME NEW u \in Users, NEW v \in Users, NEW w \in Wishes, Transfer(u, v, w)
      PROVE  StayStep
  <2>1. Added("transfer")
    BY <1>1, <1>3, AddTransfer
  <2>2. live' = live
    BY <1>1, <2>1, BuildStep
  <2>3. QED
    BY <1>2, <2>2
<1>4. ASSUME NEW tx \in pool, Commit(tx)
      PROVE  StayStep
  <2>1. PICK seed : Taking(tx, seed)
    BY <1>4, CommitTakes
  <2>2. tx.kind = "transfer"
    BY <1>1 DEF LiveOK
  <2>3. QED
    BY <1>1, <2>1, <2>2, CommitHolds DEF StayStep
<1>5. ASSUME NEW tx \in pool, Refuse(tx)
      PROVE  StayStep
  BY <1>2, <1>5 DEF Refuse
<1>6. QED
  BY <1>3, <1>4, <1>5 DEF Ordinary

(* So no user loses or gains an nft by opening a channel, for any number of    *)
(* users, openings and transfers that interleave in any way.                  *)
THEOREM NftsStayCorrect == OpeningSpec => NftsStay
<1>1. ASSUME OpeningInv, OpeningNext
      PROVE  StayStep
  <2>1. ASSUME live' = live
        PROVE  StayStep
    BY <2>1 DEF StayStep, Holds, Of
  <2>2. CASE Prepare
    BY <2>1, <2>2 DEF Prepare, vars
  <2>3. ASSUME NEW tx \in offers, Complete(tx)
        PROVE  StayStep
    BY <2>1, <2>3 DEF Complete, vars
  <2>4. ASSUME NEW tx \in offers, Open(tx)
        PROVE  StayStep
    <3>1. Core /\ LiveOK /\ OfferOK(ask, tx)
      BY <1>1, InvParts
    <3>2. Holds' = Holds
      BY <2>4, <3>1, OpenHolds
    <3>3. QED
      BY <3>2 DEF StayStep
  <2>5. ASSUME NEW tx \in offers, NEW u \in Users, SignTx(u, tx)
        PROVE  StayStep
    BY <2>1, <2>5 DEF SignTx, vars
  <2>6. ASSUME NEW u \in Users, ReadNfts(u) \/ AddNfts(u) \/ ReadCkb(u) \/ AddCkb(u)
        PROVE  StayStep
    BY <2>1, <2>6 DEF ReadNfts, AddNfts, ReadCkb, AddCkb, vars
  <2>7. CASE Ordinary
    BY <1>1, <2>7, OrdinaryHolds
  <2>8. QED
    BY <1>1, <2>2, <2>3, <2>4, <2>5, <2>6, <2>7 DEF OpeningNext
<1>2. ASSUME UNCHANGED allVars
      PROVE  StayStep \/ live' = live
  BY <1>2 DEF allVars, vars
<1>3. OpeningInv /\ [OpeningNext]_allVars => [StayStep]_live
  BY <1>1, <1>2
<1>4. [][StayStep]_live <=> NftsStay
  BY DEF StayStep, NftsStay
<1>5. QED
  BY <1>3, <1>4, OpeningInvCorrect, PTL DEF OpeningSpec
==============================================================================
