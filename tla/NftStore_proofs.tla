--------------------------- MODULE NftStore_proofs ---------------------------
(******************************************************************************)
(* Proofs about the nft store of NftStore.tla, for any number of users, nfts,  *)
(* configs, cells and transactions under way. The sums come first, by          *)
(* induction over finite sets; then what each action builds, what the chain    *)
(* takes, and the theorems.                                                    *)
(******************************************************************************)
EXTENDS NftStoreProperties, FiniteSetTheorems, SequenceTheorems, WellFoundedInduction, TLAPS

(* The sums that Count, Total, Ckb and the rest of NftStore.tla are made of.  *)
Sum(f, S) == SumFunctionOnSet(f, S)

(* A set of naturals that is not empty has a least element.                   *)
LEMMA Least ==
  ASSUME NEW T \in SUBSET Nat, T # {}
  PROVE  \E x \in T : \A y \in T : x <= y
<1>1. PICK x \in T : \A y \in T : ~ (<<y, x>> \in OpToRel(<, Nat))
  BY NatLessThanWellFounded, WFMin, Zenon
<1>2. ASSUME NEW y \in T
      PROVE  x <= y
  <2>1. x \in Nat /\ y \in Nat
    OBVIOUS
  <2>2. ~ (y < x)
    BY <1>1, <2>1 DEF OpToRel
  <2>3. QED
    BY <2>1, <2>2
<1>3. QED
  BY <1>2

(* Induction over the naturals, with a set in place of a predicate.           *)
LEMMA Induct ==
  ASSUME NEW T, 0 \in T, \A n \in Nat : n \in T => n + 1 \in T
  PROVE  \A n \in Nat : n \in T
<1> SUFFICES ASSUME Nat \ T # {} PROVE FALSE
  OBVIOUS
<1>1. PICK x \in Nat \ T : \A y \in Nat \ T : x <= y
  BY Least
<1>2. x - 1 \in Nat /\ x - 1 \in T
  BY <1>1
<1> QED BY <1>1, <1>2

(* How a sum is folded: an element is picked, and added to what the fold of the *)
(* others is.                                                                 *)
Pick(s) == CHOOSE x \in s : TRUE
Iterates(it, f, S) ==
  it = [s \in SUBSET S |-> IF s = {} THEN 0 ELSE f[Pick(s)] + it[s \ {Pick(s)}]]

(* What is picked is in the set, and without it the set is smaller by one.    *)
LEMMA Picked ==
  ASSUME NEW S, S # {}
  PROVE  Pick(S) \in S
  BY DEF Pick

LEMMA Smaller ==
  ASSUME NEW S, IsFiniteSet(S), NEW x \in S
  PROVE  /\ IsFiniteSet(S \ {x})
         /\ Cardinality(S) \in Nat /\ Cardinality(S \ {x}) \in Nat
         /\ Cardinality(S) = Cardinality(S \ {x}) + 1
<1>1. IsFiniteSet(S \ {x}) /\ Cardinality(S \ {x}) = Cardinality(S) - 1
  BY FS_RemoveElement
<1>2. Cardinality(S) \in Nat /\ Cardinality(S \ {x}) \in Nat
  BY <1>1, FS_CardinalityType
<1>3. QED
  BY <1>1, <1>2

(* A fold, up to sets of a size.                                              *)
Small(S, n) == {s \in SUBSET S : Cardinality(s) <= n}
Term(it, f, s) == IF s = {} THEN 0 ELSE f[Pick(s)] + it[s \ {Pick(s)}]

(* There is a fold for every finite set, by induction over its size; and a sum *)
(* is what one gives.                                                         *)
LEMMA SumIterates ==
  ASSUME NEW f, NEW S, IsFiniteSet(S)
  PROVE  \E it : Iterates(it, f, S) /\ Sum(f, S) = it[S]
<1> DEFINE T == {n \in Nat : \E it : /\ it = [s \in Small(S, n) |-> it[s]]
                                     /\ \A s \in Small(S, n) : it[s] = Term(it, f, s)}
<1>1. \A s \in SUBSET S : IsFiniteSet(s) /\ Cardinality(s) \in Nat
  BY FS_Subset, FS_CardinalityType
<1>2. \A s \in SUBSET S : Cardinality(s) = 0 => s = {}
  BY <1>1, FS_EmptySet
<1>3. \A s \in SUBSET S : s # {} => /\ s \ {Pick(s)} \in SUBSET S
                                    /\ Cardinality(s \ {Pick(s)}) < Cardinality(s)
  BY <1>1, Picked, Smaller
<1>4. 0 \in T
  <2> DEFINE it == [s \in Small(S, 0) |-> 0]
  <2>1. \A s \in Small(S, 0) : s = {}
    BY <1>1, <1>2 DEF Small
  <2>2. \A s \in Small(S, 0) : it[s] = 0
    OBVIOUS
  <2>3. it = [s \in Small(S, 0) |-> it[s]]
    OBVIOUS
  <2> HIDE DEF it
  <2>4. QED
    BY <2>1, <2>2, <2>3 DEF Term
<1>5. ASSUME NEW n \in Nat, n \in T
      PROVE  n + 1 \in T
  <2>1. PICK it : \A s \in Small(S, n) : it[s] = Term(it, f, s)
    BY <1>5
  <2> DEFINE jt == [s \in Small(S, n + 1) |-> Term(it, f, s)]
  <2>2. \A s \in Small(S, n + 1) : jt[s] = Term(it, f, s)
    OBVIOUS
  <2>3. jt = [s \in Small(S, n + 1) |-> jt[s]]
    OBVIOUS
  <2> HIDE DEF jt
  <2>4. \A s \in Small(S, n) : s \in Small(S, n + 1) /\ jt[s] = it[s]
    BY <1>1, <2>1, <2>2 DEF Small
  <2>5. \A s \in Small(S, n + 1) : s # {} => s \ {Pick(s)} \in Small(S, n)
    BY <1>1, <1>3 DEF Small
  <2>6. \A s \in Small(S, n + 1) : Term(it, f, s) = Term(jt, f, s)
    BY <2>4, <2>5 DEF Term
  <2>7. QED
    BY <2>2, <2>3, <2>6
<1> HIDE DEF T
<1>6. Cardinality(S) \in T
  BY <1>1, <1>4, <1>5, Induct
<1>7. PICK it : /\ it = [s \in Small(S, Cardinality(S)) |-> it[s]]
                /\ \A s \in Small(S, Cardinality(S)) : it[s] = Term(it, f, s)
  BY <1>6 DEF T
<1>8. Small(S, Cardinality(S)) = SUBSET S
  <2>1. \A s \in SUBSET S : Cardinality(s) <= Cardinality(S)
    BY FS_Subset
  <2>2. QED
    BY <2>1 DEF Small
<1>9. Iterates(it, f, S)
  BY <1>7, <1>8 DEF Iterates, Term
<1> DEFINE iter == CHOOSE i : Iterates(i, f, S)
<1>10. Iterates(iter, f, S)
  BY <1>9, Zenon
<1>11. Sum(f, S) = iter[S]
  BY Zenon DEF Sum, SumFunctionOnSet, FoldFunctionOnSet, MapThenFoldSet, Iterates, Pick
<1>12. QED
  BY <1>10, <1>11

(* Two folds of functions that agree on a set give it the same.               *)
LEMMA IteratesAgree ==
  ASSUME NEW f, NEW g, NEW S, NEW R, IsFiniteSet(S), R \subseteq S,
         \A x \in R : f[x] = g[x],
         NEW it, NEW jt, Iterates(it, f, S), Iterates(jt, g, R)
  PROVE  it[R] = jt[R]
<1> DEFINE T == {n \in Nat : \A s \in SUBSET R : Cardinality(s) = n => it[s] = jt[s]}
<1>1. \A s \in SUBSET R : IsFiniteSet(s) /\ Cardinality(s) \in Nat
  BY FS_Subset, FS_CardinalityType
<1>2. \A s \in SUBSET R : /\ it[s] = Term(it, f, s) /\ jt[s] = Term(jt, g, s)
  BY DEF Iterates, Term
<1>3. 0 \in T
  BY <1>1, <1>2, FS_EmptySet DEF Term
<1>4. ASSUME NEW n \in Nat, n \in T
      PROVE  n + 1 \in T
  <2> SUFFICES ASSUME NEW s \in SUBSET R, Cardinality(s) = n + 1
               PROVE  it[s] = jt[s]
    OBVIOUS
  <2>1. s # {}
    BY FS_EmptySet
  <2>2. s \ {Pick(s)} \in SUBSET R /\ Cardinality(s \ {Pick(s)}) = n /\ Pick(s) \in R
    BY <1>1, <2>1, Picked, Smaller
  <2>3. it[s \ {Pick(s)}] = jt[s \ {Pick(s)}] /\ f[Pick(s)] = g[Pick(s)]
    BY <1>4, <2>2
  <2>4. QED
    BY <1>2, <2>1, <2>3 DEF Term
<1> HIDE DEF T
<1>5. Cardinality(R) \in T
  BY <1>1, <1>3, <1>4, Induct
<1>6. QED
  BY <1>5 DEF T

(* So sums depend on nothing but the values that are summed.                  *)
LEMMA SumSame ==
  ASSUME NEW f, NEW g, NEW S, IsFiniteSet(S), \A x \in S : f[x] = g[x]
  PROVE  Sum(f, S) = Sum(g, S)
<1>1. PICK it : Iterates(it, f, S) /\ Sum(f, S) = it[S]
  BY SumIterates
<1>2. PICK jt : Iterates(jt, g, S) /\ Sum(g, S) = jt[S]
  BY SumIterates
<1>3. QED
  BY <1>1, <1>2, IteratesAgree

(* The sum of nothing is zero.                                                *)
LEMMA SumEmpty ==
  ASSUME NEW f
  PROVE  Sum(f, {}) = 0
<1>1. PICK it : Iterates(it, f, {}) /\ Sum(f, {}) = it[{}]
  BY SumIterates, FS_EmptySet
<1>2. QED
  BY <1>1 DEF Iterates

(* A sum is the value of the element that is picked and the sum of the rest.  *)
LEMMA SumPick ==
  ASSUME NEW f, NEW S, IsFiniteSet(S), S # {}
  PROVE  Sum(f, S) = f[Pick(S)] + Sum(f, S \ {Pick(S)})
<1>1. Pick(S) \in S /\ IsFiniteSet(S \ {Pick(S)})
  BY Picked, Smaller
<1>2. PICK it : Iterates(it, f, S) /\ Sum(f, S) = it[S]
  BY SumIterates
<1>3. PICK jt : Iterates(jt, f, S \ {Pick(S)}) /\ Sum(f, S \ {Pick(S)}) = jt[S \ {Pick(S)}]
  BY <1>1, SumIterates
<1>4. it[S \ {Pick(S)}] = jt[S \ {Pick(S)}]
  BY <1>2, <1>3, IteratesAgree
<1>5. it[S] = f[Pick(S)] + it[S \ {Pick(S)}]
  BY <1>2 DEF Iterates
<1>6. QED
  BY <1>2, <1>3, <1>4, <1>5

(* Sums of integers are integers, sums of naturals are naturals.              *)
LEMMA SumType ==
  ASSUME NEW f, NEW S, IsFiniteSet(S)
  PROVE  /\ (\A x \in S : f[x] \in Int) => Sum(f, S) \in Int
         /\ (\A x \in S : f[x] \in Nat) => Sum(f, S) \in Nat
<1> DEFINE T == {n \in Nat : \A R \in SUBSET S : Cardinality(R) = n =>
                    /\ (\A x \in S : f[x] \in Int) => Sum(f, R) \in Int
                    /\ (\A x \in S : f[x] \in Nat) => Sum(f, R) \in Nat}
<1>1. \A s \in SUBSET S : IsFiniteSet(s) /\ Cardinality(s) \in Nat
  BY FS_Subset, FS_CardinalityType
<1>2. 0 \in T
  BY <1>1, SumEmpty, FS_EmptySet
<1>3. ASSUME NEW n \in Nat, n \in T
      PROVE  n + 1 \in T
  <2> SUFFICES ASSUME NEW R \in SUBSET S, Cardinality(R) = n + 1
               PROVE  /\ (\A x \in S : f[x] \in Int) => Sum(f, R) \in Int
                      /\ (\A x \in S : f[x] \in Nat) => Sum(f, R) \in Nat
    OBVIOUS
  <2>1. R # {}
    BY FS_EmptySet
  <2>2. R \ {Pick(R)} \in SUBSET S /\ Cardinality(R \ {Pick(R)}) = n /\ Pick(R) \in S
    BY <1>1, <2>1, Picked, Smaller
  <2>3. Sum(f, R) = f[Pick(R)] + Sum(f, R \ {Pick(R)})
    BY <1>1, <2>1, SumPick
  <2>4. QED
    BY <1>3, <2>2, <2>3
<1> HIDE DEF T
<1>4. Cardinality(S) \in T
  BY <1>1, <1>2, <1>3, Induct
<1>5. QED
  BY <1>4 DEF T

(* It does not matter which element is picked.                                *)
LEMMA SumRemove ==
  ASSUME NEW f, NEW S, IsFiniteSet(S), NEW x \in S, \A y \in S : f[y] \in Int
  PROVE  Sum(f, S) = f[x] + Sum(f, S \ {x})
<1> DEFINE T == {n \in Nat : \A R \in SUBSET S : Cardinality(R) = n =>
                    \A y \in R : Sum(f, R) = f[y] + Sum(f, R \ {y})}
<1>1. \A s \in SUBSET S : IsFiniteSet(s) /\ Cardinality(s) \in Nat
  BY FS_Subset, FS_CardinalityType
<1>2. 0 \in T
  BY <1>1, FS_EmptySet
<1>3. ASSUME NEW n \in Nat, n \in T
      PROVE  n + 1 \in T
  <2> SUFFICES ASSUME NEW R \in SUBSET S, Cardinality(R) = n + 1, NEW y \in R
               PROVE  Sum(f, R) = f[y] + Sum(f, R \ {y})
    OBVIOUS
  <2> DEFINE p == Pick(R)
  <2>1. p \in R /\ Sum(f, R) = f[p] + Sum(f, R \ {p})
    BY <1>1, Picked, SumPick
  <2> HIDE DEF p
  <2>2. CASE p = y
    BY <2>1, <2>2
  <2>3. CASE p # y
    <3>1. /\ R \ {p} \in SUBSET S /\ Cardinality(R \ {p}) = n /\ y \in R \ {p}
          /\ R \ {y} \in SUBSET S /\ Cardinality(R \ {y}) = n /\ p \in R \ {y}
      BY <1>1, <2>1, <2>3, Smaller
    <3>2. Sum(f, R \ {p}) = f[y] + Sum(f, (R \ {p}) \ {y})
      BY <1>3, <3>1
    <3>3. Sum(f, R \ {y}) = f[p] + Sum(f, (R \ {y}) \ {p})
      BY <1>3, <3>1
    <3>4. (R \ {p}) \ {y} = (R \ {y}) \ {p} /\ (R \ {p}) \ {y} \in SUBSET S
      OBVIOUS
    <3>5. Sum(f, (R \ {p}) \ {y}) \in Int /\ f[p] \in Int /\ f[y] \in Int
      BY <1>1, <2>1, <3>4, SumType
    <3>6. Sum(f, R \ {y}) = f[p] + Sum(f, (R \ {p}) \ {y})
      BY <3>3, <3>4, Zenon
    <3> DEFINE rest == Sum(f, (R \ {p}) \ {y})
    <3> HIDE DEF rest
    <3>7. Sum(f, R \ {p}) = f[y] + rest /\ Sum(f, R \ {y}) = f[p] + rest /\ rest \in Int
      BY <3>2, <3>5, <3>6 DEF rest
    <3>8. QED
      BY <2>1, <3>5, <3>7
  <2>4. QED
    BY <2>2, <2>3
<1> HIDE DEF T
<1>4. Cardinality(S) \in T
  BY <1>1, <1>2, <1>3, Induct
<1>5. QED
  BY <1>4 DEF T

(* The sum with one more element.                                             *)
LEMMA SumAdd ==
  ASSUME NEW f, NEW S, IsFiniteSet(S), NEW x, x \notin S, \A y \in S \cup {x} : f[y] \in Int
  PROVE  Sum(f, S \cup {x}) = Sum(f, S) + f[x]
<1>1. IsFiniteSet(S \cup {x}) /\ (S \cup {x}) \ {x} = S
  BY FS_AddElement
<1>2. Sum(f, S \cup {x}) = f[x] + Sum(f, S)
  BY <1>1, SumRemove
<1>3. Sum(f, S) \in Int
  BY SumType
<1>4. QED
  BY <1>2, <1>3

(* The sum over two disjoint sets.                                            *)
LEMMA SumUnion ==
  ASSUME NEW f, NEW A, NEW B, IsFiniteSet(A), IsFiniteSet(B), A \cap B = {},
         \A x \in A \cup B : f[x] \in Int
  PROVE  Sum(f, A \cup B) = Sum(f, A) + Sum(f, B)
<1> DEFINE T == {n \in Nat : \A R \in SUBSET B : Cardinality(R) = n =>
                    Sum(f, A \cup R) = Sum(f, A) + Sum(f, R)}
<1>1. \A s \in SUBSET B : /\ IsFiniteSet(s) /\ Cardinality(s) \in Nat
                          /\ IsFiniteSet(A \cup s)
                          /\ Sum(f, s) \in Int /\ Sum(f, A \cup s) \in Int
  BY FS_Subset, FS_CardinalityType, FS_Union, SumType
<1>2. 0 \in T
  <2> SUFFICES ASSUME NEW R \in SUBSET B, Cardinality(R) = 0
               PROVE  Sum(f, A \cup R) = Sum(f, A) + Sum(f, R)
    OBVIOUS
  <2>1. R = {} /\ A \cup R = A
    BY <1>1, FS_EmptySet
  <2>2. QED
    BY <1>1, <2>1, SumEmpty
<1>3. ASSUME NEW n \in Nat, n \in T
      PROVE  n + 1 \in T
  <2> SUFFICES ASSUME NEW R \in SUBSET B, Cardinality(R) = n + 1
               PROVE  Sum(f, A \cup R) = Sum(f, A) + Sum(f, R)
    OBVIOUS
  <2>1. R # {}
    BY FS_EmptySet
  <2>2. PICK x : x \in R
    BY <2>1
  <2> DEFINE Q == R \ {x}
  <2>10. IsFiniteSet(R)
    BY <1>1
  <2>11. Cardinality(Q) \in Nat /\ Cardinality(R) = Cardinality(Q) + 1
    BY <2>2, <2>10, Smaller, Zenon
  <2>9. Cardinality(Q) = n /\ Q \in SUBSET B
    BY <2>11
  <2>3. /\ Q \in SUBSET B /\ Cardinality(Q) = n
        /\ x \notin A \cup Q /\ A \cup R = (A \cup Q) \cup {x} /\ R = Q \cup {x}
    BY <2>2, <2>9
  <2> HIDE DEF Q
  <2>4. Sum(f, A \cup Q) = Sum(f, A) + Sum(f, Q)
    BY <1>3, <2>3
  <2>5. Sum(f, A \cup R) = Sum(f, A \cup Q) + f[x]
    BY <1>1, <2>2, <2>3, SumAdd
  <2>6. Sum(f, R) = Sum(f, Q) + f[x]
    BY <1>1, <2>2, <2>3, SumAdd
  <2>7. Sum(f, A) \in Int /\ Sum(f, Q) \in Int /\ f[x] \in Int
    BY <1>1, <2>2, <2>3, SumType
  <2>8. QED
    BY <2>4, <2>5, <2>6, <2>7
<1> HIDE DEF T
<1>4. Cardinality(B) \in T
  BY <1>1, <1>2, <1>3, Induct
<1>5. QED
  BY <1>4 DEF T

(* A sum over an image that is one to one.                                    *)
LEMMA SumImage ==
  ASSUME NEW f, NEW g, NEW h, NEW S, IsFiniteSet(S),
         \A x, y \in S : h[x] = h[y] => x = y,
         \A x \in S : f[h[x]] = g[x] /\ g[x] \in Int
  PROVE  /\ IsFiniteSet({h[x] : x \in S})
         /\ Sum(f, {h[x] : x \in S}) = Sum(g, S)
<1> DEFINE Image(R) == {h[x] : x \in R}
           T == {n \in Nat : \A R \in SUBSET S : Cardinality(R) = n =>
                    IsFiniteSet(Image(R)) /\ Sum(f, Image(R)) = Sum(g, R)}
<1>1. \A s \in SUBSET S : IsFiniteSet(s) /\ Cardinality(s) \in Nat
  BY FS_Subset, FS_CardinalityType
<1>2. 0 \in T
  BY <1>1, SumEmpty, FS_EmptySet
<1>3. ASSUME NEW n \in Nat, n \in T
      PROVE  n + 1 \in T
  <2> SUFFICES ASSUME NEW R \in SUBSET S, Cardinality(R) = n + 1
               PROVE  IsFiniteSet(Image(R)) /\ Sum(f, Image(R)) = Sum(g, R)
    OBVIOUS
  <2>1. R # {}
    BY FS_EmptySet
  <2>2. PICK x : x \in R
    BY <2>1
  <2> DEFINE Q == R \ {x}
  <2>3. Q \in SUBSET S /\ Cardinality(Q) = n /\ x \notin Q /\ R = Q \cup {x}
    BY <1>1, <2>2, Smaller
  <2>4. Image(R) = Image(Q) \cup {h[x]} /\ h[x] \notin Image(Q)
    BY <2>2, <2>3
  <2> HIDE DEF Q
  <2>5. IsFiniteSet(Image(Q)) /\ Sum(f, Image(Q)) = Sum(g, Q)
    BY <1>3, <2>3
  <2>6. \A y \in Image(Q) \cup {h[x]} : f[y] \in Int
    BY <2>2, <2>3
  <2> HIDE DEF Image
  <2>7. IsFiniteSet(Image(R)) /\ Sum(f, Image(R)) = Sum(f, Image(Q)) + f[h[x]]
    BY <2>4, <2>5, <2>6, SumAdd, FS_AddElement
  <2>8. Sum(g, R) = Sum(g, Q) + g[x]
    BY <1>1, <2>2, <2>3, SumAdd
  <2>9. QED
    BY <2>2, <2>5, <2>7, <2>8
<1> HIDE DEF T
<1>4. Cardinality(S) \in T
  BY <1>1, <1>2, <1>3, Induct
<1>5. QED
  BY <1>4 DEF T

(* The sum of zeros.                                                          *)
LEMMA SumZero ==
  ASSUME NEW f, NEW S, IsFiniteSet(S), \A x \in S : f[x] = 0
  PROVE  Sum(f, S) = 0
<1> DEFINE T == {n \in Nat : \A R \in SUBSET S : Cardinality(R) = n => Sum(f, R) = 0}
<1>1. \A s \in SUBSET S : IsFiniteSet(s) /\ Cardinality(s) \in Nat
  BY FS_Subset, FS_CardinalityType
<1>2. 0 \in T
  BY <1>1, SumEmpty, FS_EmptySet
<1>3. ASSUME NEW n \in Nat, n \in T
      PROVE  n + 1 \in T
  <2> SUFFICES ASSUME NEW R \in SUBSET S, Cardinality(R) = n + 1
               PROVE  Sum(f, R) = 0
    OBVIOUS
  <2>1. PICK x : x \in R
    BY FS_EmptySet
  <2>2. Sum(f, R) = f[x] + Sum(f, R \ {x})
    BY <1>1, <2>1, SumRemove
  <2>3. R \ {x} \in SUBSET S /\ Cardinality(R \ {x}) = n
    BY <1>1, <2>1, Smaller
  <2>4. QED
    BY <1>3, <2>1, <2>2, <2>3
<1> HIDE DEF T
<1>4. Cardinality(S) \in T
  BY <1>1, <1>2, <1>3, Induct
<1>5. QED
  BY <1>4 DEF T

--------------------------------------------------------------------------------
(* The cells, of NftStore.tla and of the modules that extend it.              *)
Kinds == {"plain", "config", "store", "nft", "channel"}
Cell == [id : Int, seed : Seq(Nat), kind : Kinds, user : Keys, ckb : Nat,
         config : Config, packages : Nat, nfts : [Nfts -> Nat]]

CkbIn == [c \in Cell |-> c.ckb]
PackagesIn(u) == [c \in Cell |-> IF c.kind = "store" /\ c.user = u THEN c.packages ELSE 0]
NftsIn(u, n) == [c \in Cell |-> IF c.kind = "nft" /\ c.user = u THEN c.nfts[n] ELSE 0]

SumOut(f, outs) == Sum([i \in DOMAIN outs |-> f[outs[i]]], DOMAIN outs)

(* The kinds of cells there is one of: a config, and a store of each user.    *)
Special == {"config", "store"}
Draws == {Ripped(c, s, n) : c \in {d \in Configs : Valid(d)}, s \in Seeds, n \in Counts}

(* Cells are older than what comes next; a config is one the composer may     *)
(* compose, and a store is waiting to be revealed with a seed only.           *)
CellsOK ==
  /\ live \subseteq Cell /\ IsFiniteSet(live)
  /\ \A c \in live :
       /\ c.id <= Newest
       /\ c.kind = "config" => c.user = Composer /\ c.config \in Configs /\ Valid(c.config)
       /\ c.kind = "store" => c.user \in Users
       /\ c.kind = "store" /\ c.packages > 0 => c.seed \in Seeds /\ c.packages \in Counts

(* There is one cell of a special kind.                                       *)
Sole ==
  \A c, d \in live : c.kind \in Special /\ c.kind = d.kind /\ c.user = d.user => c = d

(* A transaction of the pool; its cells are not newer than what is live.      *)
TxType(tx) ==
  /\ tx.by \in Keys /\ tx.packages \in Nat
  /\ tx.ins \subseteq Cell /\ IsFiniteSet(tx.ins) /\ tx.deps \subseteq Cell
  /\ \A c \in tx.ins \cup tx.deps : c.id <= Newest
  /\ tx.outs \in Seq(Cell) /\ Len(tx.outs) \in 1 .. 3

(* It is of one user, and gives others nothing but nfts.                      *)
Owners(tx) ==
  /\ \A c \in tx.ins : c.user = tx.by
  /\ \A i \in DOMAIN tx.outs :
       \/ tx.outs[i].user = tx.by
       \/ tx.outs[i].kind \notin Special /\ tx.outs[i].user \in Users

(* What it makes is as CellsOK asks for, and of each special kind once.       *)
OutsOK(tx) ==
  \A i \in DOMAIN tx.outs : LET o == tx.outs[i] IN
    /\ o.kind = "config" => o.user = Composer /\ o.config \in Configs /\ Valid(o.config)
    /\ o.kind = "store" => o.user \in Users
    /\ o.kind = "store" /\ o.packages > 0 => tx.kind = "purchase" /\ o.packages \in Counts
    /\ o.kind \in Special =>
         /\ tx.kind # "transfer"
         /\ \A j \in DOMAIN tx.outs : tx.outs[j].kind = o.kind => i = j

(* Why there is one of each: a transaction that makes a special cell spends the *)
(* one there is, or, if there is none, the oldest plain cell; so two of them  *)
(* spend a cell in common, and only one of them is taken.                     *)
Makes(tx, kind) == \E i \in DOMAIN tx.outs : tx.outs[i].kind = kind
Replaces(tx) ==
  \A kind \in Special :
    /\ (\E c \in tx.ins : c.kind = kind) => Makes(tx, kind)
    /\ Live(tx) /\ Makes(tx, kind) =>
         /\ Of(kind, tx.by) \subseteq tx.ins
         /\ Of(kind, tx.by) = {} => LET oldest == First(Of("plain", tx.by)) IN oldest # {} /\ oldest \subseteq tx.ins

(* What a transaction takes, it gives, but for the fee.                       *)
Paying(tx) == Sum(CkbIn, tx.ins) = SumOut(CkbIn, tx.outs) + Fee

(* Packages are paid for, or revealed, or kept.                               *)
Packed(tx) ==
  \A u \in Users :
    SumOut(PackagesIn(u), tx.outs) + (IF tx.kind = "reveal" /\ tx.by = u THEN tx.packages ELSE 0)
      = Sum(PackagesIn(u), tx.ins) + (IF tx.kind = "purchase" /\ tx.by = u THEN tx.packages ELSE 0)

(* A store that is replaced is replaced as the config among the deps says.    *)
Priced(tx) ==
  \A s \in tx.ins, i \in DOMAIN tx.outs : LET t == tx.outs[i] IN
    s.kind = "store" /\ t.kind = "store" =>
      \E c \in tx.deps :
        /\ c.kind = "config" /\ c.user = Composer
        /\ IF t.packages > 0 THEN t.ckb = s.ckb + c.config.price * t.packages
           ELSE /\ t.ckb = s.ckb
                /\ \A n \in Nfts : SumOut(NftsIn(tx.by, n), tx.outs)
                     = Sum(NftsIn(tx.by, n), tx.ins) + Ripped(c.config, s.seed, s.packages)[n]

(* Nfts move as in NftLedger.tla: not at all, to a user who gains them, from a *)
(* user who discards them, or from one user to another.                       *)
Moved(tx) ==
  LET in(u, n) == Sum(NftsIn(u, n), tx.ins)
      out(u, n) == SumOut(NftsIn(u, n), tx.outs) IN
  \/ \A u \in Users, n \in Nfts : out(u, n) = in(u, n)
  \/ /\ tx.kind # "transfer"
     /\ \E v \in Users, w \in Wishes \cup Draws : \A u \in Users, n \in Nfts :
          out(u, n) = in(u, n) + IF u = v THEN w[n] ELSE 0
  \/ /\ tx.kind # "transfer"
     /\ \E v \in Users, w \in Wishes : \A u \in Users, n \in Nfts :
          in(u, n) = out(u, n) + IF u = v THEN w[n] ELSE 0
  \/ \E v, t \in Users, w \in Wishes : v # t /\ \A u \in Users, n \in Nfts :
       in(u, n) + (IF u = t THEN w[n] ELSE 0) = out(u, n) + IF u = v THEN w[n] ELSE 0

TxOK(tx) ==
  /\ TxType(tx) /\ Owners(tx) /\ OutsOK(tx) /\ Replaces(tx)
  /\ Paying(tx) /\ Packed(tx) /\ Priced(tx) /\ Moved(tx)

(* The inductive invariant.                                                   *)
Core ==
  /\ txs \in Nat /\ CellsOK /\ Sole
  /\ \A tx \in pool : TxOK(tx)

StoreInv ==
  /\ Core
  /\ bought \in [Users -> Nat] /\ revealed \in [Users -> Nat]
  /\ CkbAccounted /\ PackagesAccounted
--------------------------------------------------------------------------------
(* What the cells are that transactions make.                                 *)
Nothing == [price |-> 0, count |-> 0, table |-> << >>]

LEMMA EmptyIs == Empty \in [Nfts -> Nat] /\ \A n \in Nfts : Empty[n] = 0
  BY DEF Empty

LEMMA CountNat ==
  ASSUME NEW b \in [Nfts -> Nat]
  PROVE  Count(b) \in Nat
<1>1. Count(b) = Sum(b, Nfts)
  BY Zenon DEF Count, Sum, SumFunction
<1>2. QED
  BY <1>1, SumType, StoreAssumption

LEMMA ExactNat ==
  ASSUME NEW n \in Nat
  PROVE  Exact(n) \in Nat
  BY StoreAssumption DEF Exact

LEMMA NothingConfig == Nothing \in Config
<1>1. << >> \in Seq([nft : Nfts, rate : Nat])
  OBVIOUS
<1>2. QED
  BY <1>1 DEF Nothing, Config

LEMMA PlainCell ==
  ASSUME NEW u \in Keys, NEW k \in Nat
  PROVE  /\ Plain(u, k) \in Cell
         /\ Plain(u, k).kind = "plain" /\ Plain(u, k).user = u /\ Plain(u, k).ckb = k
         /\ Plain(u, k).packages = 0
         /\ DOMAIN Plain(u, k) = {"id", "seed", "kind", "user", "ckb", "config", "packages", "nfts"}
<1>1. << >> \in Seq(Nat)
  OBVIOUS
<1>2. Plain(u, k) = [id |-> 0, seed |-> << >>, kind |-> "plain", user |-> u, ckb |-> k,
                     config |-> Nothing, packages |-> 0, nfts |-> Empty]
  BY Zenon DEF Plain, Nothing
<1>3. QED
  BY <1>1, <1>2, EmptyIs, NothingConfig DEF Cell, Kinds

LEMMA ConfigCellIs ==
  ASSUME NEW c \in Configs
  PROVE  /\ ConfigCell(c) \in Cell
         /\ ConfigCell(c).kind = "config" /\ ConfigCell(c).user = Composer
         /\ ConfigCell(c).config = c /\ ConfigCell(c).ckb = Exact(Len(c.table))
<1>1. Exact(Len(c.table)) \in Nat
  <2>1. Len(c.table) \in Nat
    BY StoreAssumption DEF Config
  <2>2. QED
    BY <2>1, ExactNat
<1>2. Composer \in Keys /\ c \in Config
  BY StoreAssumption DEF Keys
<1> DEFINE p == Plain(Composer, Exact(Len(c.table)))
<1>3. p \in Cell /\ p.ckb = Exact(Len(c.table)) /\ p.user = Composer
  BY <1>1, <1>2, PlainCell
<1>4. ConfigCell(c) = [p EXCEPT !.kind = "config", !.config = c]
  BY DEF ConfigCell
<1> HIDE DEF p
<1>5. QED
  BY <1>2, <1>3, <1>4 DEF Cell, Kinds

LEMMA StoreCellIs ==
  ASSUME NEW u \in Users, NEW k \in Nat, NEW n \in Nat
  PROVE  /\ StoreCell(u, k, n) \in Cell
         /\ StoreCell(u, k, n).kind = "store" /\ StoreCell(u, k, n).user = u
         /\ StoreCell(u, k, n).ckb = k /\ StoreCell(u, k, n).packages = n
<1> DEFINE p == Plain(u, k)
<1>1. p \in Cell /\ p.ckb = k /\ p.user = u
  BY PlainCell DEF Keys
<1>2. StoreCell(u, k, n) = [p EXCEPT !.kind = "store", !.packages = n]
  BY DEF StoreCell
<1> HIDE DEF p
<1>3. QED
  BY <1>1, <1>2 DEF Cell, Kinds

LEMMA NftCellIs ==
  ASSUME NEW u \in Users, NEW k \in Nat, NEW b \in [Nfts -> Nat]
  PROVE  /\ NftCell(u, k, b) \in Cell
         /\ NftCell(u, k, b).kind = IF b = Empty THEN "plain" ELSE "nft"
         /\ NftCell(u, k, b).user = u
         /\ NftCell(u, k, b).ckb = k /\ NftCell(u, k, b).nfts = b
<1> DEFINE p == Plain(u, k)
           kind == IF b = Empty THEN "plain" ELSE "nft"
<1>1. p \in Cell /\ p.ckb = k /\ p.user = u
  BY PlainCell DEF Keys
<1>2. NftCell(u, k, b) = [p EXCEPT !.kind = kind, !.nfts = b]
  BY DEF NftCell
<1>3. kind \in Kinds
  BY DEF Kinds
<1> HIDE DEF p, kind
<1>4. NftCell(u, k, b) \in Cell /\ NftCell(u, k, b).kind = kind
  BY <1>1, <1>2, <1>3 DEF Cell
<1>5. NftCell(u, k, b).user = u /\ NftCell(u, k, b).ckb = k /\ NftCell(u, k, b).nfts = b
  BY <1>1, <1>2, <1>3 DEF Cell
<1>6. QED
  BY <1>4, <1>5 DEF kind

Measure(f) ==
  /\ \A c \in Cell : f[c] \in Nat
  /\ \A c \in Cell, i \in Int, s \in Seq(Nat) :
       f[[c EXCEPT !.id = i, !.seed = s]] = f[c]

LEMMA CkbMeasure == Measure(CkbIn)
  BY DEF Measure, CkbIn, Cell

LEMMA PackagesMeasure ==
  ASSUME NEW u
  PROVE  Measure(PackagesIn(u))
  BY DEF Measure, PackagesIn, Cell

LEMMA NftsMeasure ==
  ASSUME NEW u, NEW n \in Nfts
  PROVE  Measure(NftsIn(u, n))
  BY DEF Measure, NftsIn, Cell

LEMMA SumNat ==
  ASSUME NEW f, Measure(f), NEW S, S \subseteq Cell, IsFiniteSet(S)
  PROVE  Sum(f, S) \in Nat
  BY SumType DEF Measure

LEMMA MeasureInt ==
  ASSUME NEW f, Measure(f), NEW S, S \subseteq Cell
  PROVE  \A c \in S : f[c] \in Int
<1>1. ASSUME NEW c \in S
      PROVE  f[c] \in Nat
  BY DEF Measure
<1>2. QED
  BY <1>1
--------------------------------------------------------------------------------
(* A finite set has an element of the least value.                            *)
LEMMA LeastOf ==
  ASSUME NEW S, IsFiniteSet(S), S # {}, NEW h, \A x \in S : h[x] \in Int
  PROVE  \E x \in S : \A y \in S : h[x] <= h[y]
<1> DEFINE T == {n \in Nat : \A R \in SUBSET S : Cardinality(R) = n /\ R # {} =>
                    \E x \in R : \A y \in R : h[x] <= h[y]}
<1>1. \A s \in SUBSET S : IsFiniteSet(s) /\ Cardinality(s) \in Nat
  BY FS_Subset, FS_CardinalityType
<1>2. 0 \in T
  BY <1>1, FS_EmptySet
<1>3. ASSUME NEW n \in Nat, n \in T
      PROVE  n + 1 \in T
  <2> SUFFICES ASSUME NEW R \in SUBSET S, Cardinality(R) = n + 1, R # {}
               PROVE  \E x \in R : \A y \in R : h[x] <= h[y]
    OBVIOUS
  <2>1. PICK z : z \in R
    OBVIOUS
  <2> DEFINE Q == R \ {z}
  <2>2. IsFiniteSet(R)
    BY <1>1
  <2>3. Cardinality(Q) \in Nat /\ Cardinality(R) = Cardinality(Q) + 1
    BY <2>1, <2>2, Smaller, Zenon
  <2>4. Cardinality(Q) = n /\ Q \in SUBSET S /\ R = Q \cup {z} /\ z \in S
    BY <2>1, <2>3
  <2> HIDE DEF Q
  <2>5. CASE Q = {}
    BY <2>1, <2>4, <2>5
  <2>6. CASE Q # {}
    <3>1. PICK x \in Q : \A y \in Q : h[x] <= h[y]
      BY <1>3, <2>4, <2>6
    <3>2. h[x] \in Int /\ h[z] \in Int /\ \A y \in R : h[y] \in Int
      BY <2>4, <3>1
    <3>3. CASE h[x] <= h[z]
      <4>1. x \in R /\ \A y \in R : h[x] <= h[y]
        BY <2>4, <3>1, <3>3
      <4>2. QED
        BY <4>1
    <3>4. CASE h[z] < h[x]
      <4>1. \A y \in Q : h[z] <= h[y]
        BY <2>4, <3>1, <3>2, <3>4
      <4>2. z \in R /\ \A y \in R : h[z] <= h[y]
        BY <2>1, <2>4, <3>2, <4>1
      <4>3. QED
        BY <4>2
    <3>5. QED
      BY <3>2, <3>3, <3>4
  <2>7. QED
    BY <2>5, <2>6
<1> HIDE DEF T
<1>4. Cardinality(S) \in T
  BY <1>1, <1>2, <1>3, Induct
<1>5. QED
  BY <1>4 DEF T

(* If there are cells, one of them is the oldest.                             *)
LEMMA Oldest ==
  ASSUME NEW S, S \subseteq Cell, IsFiniteSet(S), S # {}
  PROVE  First(S) # {}
<1> DEFINE h == [c \in Cell |-> c.id]
<1>1. \A c \in S : h[c] = c.id /\ h[c] \in Int
  BY DEF Cell
<1> HIDE DEF h
<1>2. PICK x \in S : \A y \in S : h[x] <= h[y]
  BY <1>1, LeastOf
<1>3. x \in First(S)
  BY <1>1, <1>2 DEF First
<1>4. QED
  BY <1>3

(* Ckb and the sums over outputs, by measures.                                *)
LEMMA CkbSum ==
  ASSUME NEW S, S \subseteq Cell, IsFiniteSet(S)
  PROVE  Ckb(S) = Sum(CkbIn, S) /\ Ckb(S) \in Nat
<1> DEFINE g == [c \in S |-> c.ckb]
<1>1. Ckb(S) = Sum(g, S)
  BY Zenon DEF Ckb, Sum, SumFunction
<1>2. \A c \in S : g[c] = CkbIn[c]
  BY DEF CkbIn
<1> HIDE DEF g
<1>3. Sum(g, S) = Sum(CkbIn, S)
  BY <1>2, SumSame
<1>4. QED
  BY <1>1, <1>3, SumNat, CkbMeasure

LEMMA OutsFinite ==
  ASSUME NEW outs \in Seq(Cell)
  PROVE  /\ IsFiniteSet(DOMAIN outs) /\ DOMAIN outs = 1 .. Len(outs) /\ Len(outs) \in Nat
         /\ \A i \in DOMAIN outs : outs[i] \in Cell
<1>1. DOMAIN outs = 1 .. Len(outs) /\ Len(outs) \in Nat
  OBVIOUS
<1>2. IsFiniteSet(1 .. Len(outs))
  BY <1>1, FS_Interval
<1>3. QED
  BY <1>1, <1>2

LEMMA SumOutNat ==
  ASSUME NEW f, Measure(f), NEW outs \in Seq(Cell)
  PROVE  SumOut(f, outs) \in Nat
<1> DEFINE g == [i \in DOMAIN outs |-> f[outs[i]]]
<1>1. \A i \in DOMAIN outs : g[i] \in Nat
  BY OutsFinite DEF Measure
<1> HIDE DEF g
<1>2. Sum(g, DOMAIN outs) \in Nat
  BY <1>1, OutsFinite, SumType
<1>3. QED
  BY <1>2, Zenon DEF SumOut, g

LEMMA SumOutAppend ==
  ASSUME NEW f, Measure(f), NEW outs \in Seq(Cell), NEW c \in Cell
  PROVE  SumOut(f, Append(outs, c)) = SumOut(f, outs) + f[c]
<1> DEFINE more == Append(outs, c)
           n == Len(outs)
           g == [i \in DOMAIN outs |-> f[outs[i]]]
           h == [i \in DOMAIN more |-> f[more[i]]]
<1>1. /\ DOMAIN outs = 1 .. n /\ n \in Nat
      /\ DOMAIN more = (1 .. n) \cup {n + 1} /\ n + 1 \notin 1 .. n
  OBVIOUS
<1>2. /\ \A i \in 1 .. n : h[i] = g[i] /\ h[i] \in Nat
      /\ h[n + 1] = f[c] /\ f[c] \in Nat
  <2>1. /\ \A i \in 1 .. n : more[i] = outs[i] /\ outs[i] \in Cell
        /\ more[n + 1] = c
    OBVIOUS
  <2>2. \A i \in 1 .. n : h[i] = f[outs[i]] /\ g[i] = f[outs[i]]
    BY <1>1, <2>1
  <2>3. h[n + 1] = f[c]
    BY <1>1, <2>1
  <2> HIDE DEF more, n, g, h
  <2>4. QED
    BY <2>1, <2>2, <2>3 DEF Measure
<1>3. SumOut(f, outs) = Sum(g, DOMAIN outs) /\ SumOut(f, more) = Sum(h, DOMAIN more)
  BY Zenon DEF SumOut
<1> HIDE DEF more, n, g, h
<1>4. IsFiniteSet(1 .. n)
  BY <1>1, FS_Interval
<1>9. \A i \in (1 .. n) \cup {n + 1} : h[i] \in Int
  BY <1>2
<1>5. Sum(h, (1 .. n) \cup {n + 1}) = Sum(h, 1 .. n) + h[n + 1]
  BY <1>1, <1>4, <1>9, SumAdd
<1>6. Sum(h, 1 .. n) = Sum(g, 1 .. n)
  BY <1>2, <1>4, SumSame
<1>7. SumOut(f, more) = SumOut(f, outs) + f[c]
  BY <1>1, <1>2, <1>3, <1>5, <1>6
<1>8. QED
  BY <1>7 DEF more

LEMMA SumOutOne ==
  ASSUME NEW f, Measure(f), NEW c \in Cell
  PROVE  SumOut(f, <<c>>) = f[c]
<1>1. << >> \in Seq(Cell) /\ <<c>> = Append(<< >>, c)
  OBVIOUS
<1>2. SumOut(f, << >>) = 0
  <2>1. DOMAIN << >> = {}
    OBVIOUS
  <2>2. QED
    BY <2>1, SumEmpty DEF SumOut
<1>3. SumOut(f, <<c>>) = SumOut(f, << >>) + f[c]
  BY <1>1, SumOutAppend, Zenon
<1>4. f[c] \in Nat
  BY DEF Measure
<1>5. QED
  BY <1>2, <1>3, <1>4

LEMMA SumOutTwo ==
  ASSUME NEW f, Measure(f), NEW c \in Cell, NEW d \in Cell
  PROVE  SumOut(f, <<c, d>>) = f[c] + f[d]
<1>1. <<c>> \in Seq(Cell) /\ <<c, d>> = Append(<<c>>, d)
  OBVIOUS
<1>2. SumOut(f, <<c, d>>) = SumOut(f, <<c>>) + f[d]
  BY <1>1, SumOutAppend, Zenon
<1>3. QED
  BY <1>2, SumOutOne

LEMMA RequiredIs ==
  ASSUME NEW outs \in Seq(Cell)
  PROVE  Required(outs) = Fee + SumOut(CkbIn, outs) /\ Required(outs) \in Nat
<1> DEFINE g == [i \in DOMAIN outs |-> outs[i].ckb]
           h == [i \in DOMAIN outs |-> CkbIn[outs[i]]]
<1>1. Required(outs) = Fee + Sum(g, DOMAIN outs)
  BY Zenon DEF Required, Sum, SumFunction
<1>2. \A i \in DOMAIN outs : g[i] = h[i]
  BY OutsFinite DEF CkbIn
<1>3. SumOut(CkbIn, outs) = Sum(h, DOMAIN outs)
  BY Zenon DEF SumOut
<1> HIDE DEF g, h
<1>4. Sum(g, DOMAIN outs) = Sum(h, DOMAIN outs)
  BY <1>2, OutsFinite, SumSame
<1>5. QED
  BY <1>1, <1>3, <1>4, SumOutNat, CkbMeasure, StoreAssumption
--------------------------------------------------------------------------------
Built(tx, kind, u, in, deps, outs, n) ==
  /\ tx.kind = kind /\ tx.by = u /\ tx.deps = deps /\ tx.packages = n
  /\ in \subseteq tx.ins /\ tx.ins \subseteq live /\ IsFiniteSet(tx.ins)
  /\ \A c \in tx.ins \ in : c.kind = "plain" /\ c.user = u
  /\ tx.outs \in Seq(Cell)
  /\ \/ tx.outs = outs
     \/ \E k \in Nat : tx.outs = Append(outs, Plain(u, k))
  /\ Sum(CkbIn, tx.ins) = SumOut(CkbIn, tx.outs) + Fee
  /\ Required(outs) > Ckb(in) => /\ First(Of("plain", u)) # {}
                                 /\ First(Of("plain", u)) \subseteq tx.ins

(* The plain cells that pay: if anything is missing, the oldest one is among  *)
(* them.                                                                      *)
LEMMA Payment ==
  ASSUME CellsOK, NEW u, NEW in, in \subseteq live, \A c \in in : c.kind # "plain",
         NEW short \in Int, NEW taken, taken = Taken(u, short)
  PROVE  /\ taken \subseteq live /\ IsFiniteSet(taken) /\ IsFiniteSet(in)
         /\ \A c \in taken : c.kind = "plain" /\ c.user = u
         /\ Ckb(taken) \in Nat /\ Ckb(in) \in Nat
         /\ Sum(CkbIn, in \cup taken) = Ckb(in) + Ckb(taken)
         /\ short > 0 /\ Ckb(taken) >= short =>
              First(Of("plain", u)) # {} /\ First(Of("plain", u)) \subseteq taken
<1>1. taken \subseteq Of("plain", u) /\ taken \subseteq live
  BY DEF Taken, Of
<1>2. \A c \in taken : c.kind = "plain" /\ c.user = u
  BY <1>1 DEF Of
<1>3. /\ IsFiniteSet(taken) /\ IsFiniteSet(in) /\ IsFiniteSet(Of("plain", u))
      /\ Of("plain", u) \subseteq Cell /\ taken \subseteq Cell /\ in \subseteq Cell
  BY <1>1, FS_Subset DEF Of, CellsOK
<1>4. /\ Ckb(taken) = Sum(CkbIn, taken) /\ Ckb(taken) \in Nat
      /\ Ckb(in) = Sum(CkbIn, in) /\ Ckb(in) \in Nat
  BY <1>3, CkbSum
<1>5. Sum(CkbIn, in \cup taken) = Sum(CkbIn, in) + Sum(CkbIn, taken)
  <2>1. in \cap taken = {}
    BY <1>2
  <2>2. \A c \in in \cup taken : CkbIn[c] \in Int
    BY <1>3, CkbMeasure, MeasureInt
  <2>3. QED
    BY <1>3, <2>1, <2>2, SumUnion
<1>6. ASSUME short > 0, Ckb(taken) >= short
      PROVE  First(Of("plain", u)) # {} /\ First(Of("plain", u)) \subseteq taken
  <2>1. Ckb({}) = 0
    <3>1. Ckb({}) = Sum(CkbIn, {})
      BY CkbSum, FS_EmptySet
    <3>2. QED
      BY <3>1, SumEmpty
  <2>2. taken # {}
    BY <1>4, <1>6, <2>1
  <2>3. First(Of("plain", u)) # {}
    BY <1>1, <1>3, <2>2, Oldest
  <2>4. ASSUME NEW c \in First(Of("plain", u))
        PROVE  c \in taken
    <3>1. c \in Of("plain", u) /\ \A d \in Of("plain", u) : c.id <= d.id
      BY <2>4 DEF First
    <3>2. \A d \in Of("plain", u) : d.id \in Int
      BY <1>3 DEF Cell
    <3>3. {d \in Of("plain", u) : d.id < c.id} = {}
      BY <3>1, <3>2
    <3>4. Ckb({d \in Of("plain", u) : d.id < c.id}) < short
      BY <1>6, <2>1, <3>3
    <3>5. QED
      BY <3>1, <3>4 DEF Taken
  <2>5. QED
    BY <2>3, <2>4
<1>7. QED
  BY <1>1, <1>2, <1>3, <1>4, <1>5, <1>6

(* Build puts such a transaction in the pool.                                 *)
LEMMA BuildTx ==
  ASSUME CellsOK, NEW kind, NEW u \in Keys, NEW in, in \subseteq live,
         \A c \in in : c.kind # "plain", NEW deps,
         NEW outs \in Seq(Cell), NEW n, Build(kind, u, in, deps, outs, n)
  PROVE  /\ UNCHANGED <<live, txs, bought, revealed>>
         /\ \E tx : pool' = pool \cup {tx} /\ Built(tx, kind, u, in, deps, outs, n)
<1> DEFINE short == Required(outs) - Ckb(in)
           taken == Taken(u, short)
           change == Ckb(taken) - short
           back == IF change # 0 THEN <<Plain(u, change)>> ELSE << >>
           tx == [kind |-> kind, by |-> u, ins |-> in \cup taken, deps |-> deps, packages |-> n,
                  outs |-> outs \o back]
<1>1. /\ change >= 0
      /\ pool' = pool \cup {tx}
      /\ UNCHANGED <<live, txs, bought, revealed>>
  BY Zenon DEF Build, Enough
<1>2. /\ tx.kind = kind /\ tx.by = u /\ tx.deps = deps /\ tx.packages = n
      /\ tx.ins = in \cup taken /\ tx.outs = outs \o back
  OBVIOUS
<1>3. Ckb(in) \in Nat
  <2>1. in \subseteq Cell /\ IsFiniteSet(in)
    BY FS_Subset DEF CellsOK
  <2>2. QED
    BY <2>1, CkbSum
<1>4. short \in Int
  BY <1>3, RequiredIs
<1>5. /\ taken \subseteq live /\ IsFiniteSet(taken) /\ IsFiniteSet(in)
      /\ \A c \in taken : c.kind = "plain" /\ c.user = u
      /\ Ckb(taken) \in Nat /\ Ckb(in) \in Nat
      /\ Sum(CkbIn, in \cup taken) = Ckb(in) + Ckb(taken)
      /\ short > 0 /\ Ckb(taken) >= short =>
           First(Of("plain", u)) # {} /\ First(Of("plain", u)) \subseteq taken
  <2> HIDE DEF short
  <2>1. QED
    BY <1>4, Payment
<1>6. change \in Nat
  <2> HIDE DEF short, taken
  <2>1. QED
    BY <1>1, <1>4, <1>5
<1>7. CASE change = 0
  <2>1. tx.outs = outs
    <3>1. outs \o << >> = outs
      BY ConcatEmptySeq, Zenon
    <3>2. QED
      BY <1>2, <1>7, <3>1
  <2>2. Sum(CkbIn, tx.ins) = SumOut(CkbIn, tx.outs) + Fee
    <3> HIDE DEF taken, tx
    <3>1. Ckb(taken) = Fee + SumOut(CkbIn, outs) - Ckb(in)
      BY <1>3, <1>5, <1>7, RequiredIs, SumOutNat, CkbMeasure, StoreAssumption
    <3>2. SumOut(CkbIn, outs) \in Nat /\ Fee \in Nat
      BY SumOutNat, CkbMeasure, StoreAssumption
    <3>3. Sum(CkbIn, tx.ins) = Ckb(in) + Ckb(taken)
      BY <1>2, <1>5
    <3>4. QED
      BY <1>3, <2>1, <3>1, <3>2, <3>3
  <2>3. Built(tx, kind, u, in, deps, outs, n)
    <3> HIDE DEF tx, taken
    <3>1. short > 0 => Ckb(taken) >= short
      BY <1>1, <1>4, <1>5
    <3>2. Required(outs) > Ckb(in) => short > 0
      BY <1>3, RequiredIs
    <3>6. IsFiniteSet(in \cup taken)
      BY <1>5, FS_Union
    <3>3. IsFiniteSet(tx.ins)
      BY <1>2, <3>6
    <3> HIDE DEF short, change
    <3>4. QED
      BY <1>2, <1>5, <2>1, <2>2, <3>1, <3>2, <3>3 DEF Built
  <2>4. QED
    BY <1>1, <2>3
<1>8. CASE change # 0
  <2>1. tx.outs = Append(outs, Plain(u, change))
    <3> HIDE DEF short, taken, change
    <3>1. outs \o <<Plain(u, change)>> = Append(outs, Plain(u, change))
      OBVIOUS
    <3>2. QED
      BY <1>2, <1>8, <3>1
  <2>2. Plain(u, change) \in Cell /\ CkbIn[Plain(u, change)] = change
    <3> HIDE DEF change
    <3>1. QED
      BY <1>6, PlainCell DEF CkbIn
  <2>3. SumOut(CkbIn, tx.outs) = SumOut(CkbIn, outs) + change
    <3> HIDE DEF change, tx
    <3>1. QED
      BY <2>1, <2>2, SumOutAppend, CkbMeasure
  <2>4. Sum(CkbIn, tx.ins) = SumOut(CkbIn, tx.outs) + Fee
    <3> HIDE DEF taken, tx
    <3>1. Ckb(taken) = change + Fee + SumOut(CkbIn, outs) - Ckb(in)
      BY <1>3, <1>5, RequiredIs, SumOutNat, CkbMeasure, StoreAssumption
    <3> HIDE DEF change
    <3>2. QED
      BY <1>2, <1>5, <1>6, <2>3, <3>1, SumOutNat, CkbMeasure, StoreAssumption
  <2>5. Built(tx, kind, u, in, deps, outs, n)
    <3> HIDE DEF tx, taken
    <3>1. short > 0 => Ckb(taken) >= short
      BY <1>1, <1>4, <1>5
    <3>2. Required(outs) > Ckb(in) => short > 0
      BY <1>3, RequiredIs
    <3>6. IsFiniteSet(in \cup taken)
      BY <1>5, FS_Union
    <3>3. IsFiniteSet(tx.ins)
      BY <1>2, <3>6
    <3> HIDE DEF short, change
    <3>4. tx.outs \in Seq(Cell)
      BY <2>1, <2>2
    <3>5. QED
      BY <1>2, <1>5, <1>6, <2>1, <2>4, <3>1, <3>2, <3>3, <3>4 DEF Built
  <2>6. QED
    BY <1>1, <2>5
<1>9. QED
  BY <1>7, <1>8

LEMMA BuiltSum ==
  ASSUME CellsOK, NEW f, Measure(f), \A c \in Cell : c.kind = "plain" => f[c] = 0,
         NEW tx, NEW kind, NEW u \in Keys, NEW in, NEW deps, NEW outs \in Seq(Cell), NEW n,
         Built(tx, kind, u, in, deps, outs, n)
  PROVE  Sum(f, tx.ins) = Sum(f, in) /\ SumOut(f, tx.outs) = SumOut(f, outs)
<1>1. Sum(f, tx.ins) = Sum(f, in)
  <2> DEFINE rest == tx.ins \ in
  <2>1. tx.ins = in \cup rest /\ in \cap rest = {} /\ tx.ins \subseteq Cell
    BY DEF Built, CellsOK
  <2>2. IsFiniteSet(in) /\ IsFiniteSet(rest)
    BY FS_Subset DEF Built
  <2>3. \A c \in rest : f[c] = 0
    BY <2>1 DEF Built
  <2>4. \A c \in in \cup rest : f[c] \in Int
    BY <2>1, MeasureInt
  <2>5. Sum(f, in) \in Nat
    BY <2>1, <2>2, SumNat
  <2> HIDE DEF rest
  <2>6. Sum(f, rest) = 0
    BY <2>2, <2>3, SumZero
  <2>7. Sum(f, in \cup rest) = Sum(f, in) + Sum(f, rest)
    BY <2>1, <2>2, <2>4, SumUnion
  <2>8. QED
    BY <2>1, <2>5, <2>6, <2>7
<1>2. CASE tx.outs = outs
  BY <1>1, <1>2
<1>3. ASSUME NEW k \in Nat, tx.outs = Append(outs, Plain(u, k))
      PROVE  SumOut(f, tx.outs) = SumOut(f, outs)
  <2>1. Plain(u, k) \in Cell /\ f[Plain(u, k)] = 0
    BY PlainCell
  <2>2. SumOut(f, tx.outs) = SumOut(f, outs) + f[Plain(u, k)]
    BY <1>3, <2>1, SumOutAppend
  <2>3. QED
    BY <2>1, <2>2, SumOutNat
<1>4. QED
  BY <1>1, <1>2, <1>3 DEF Built
--------------------------------------------------------------------------------
Main(kind, u, in, deps, outs, n) ==
  [kind |-> kind, by |-> u, ins |-> in, deps |-> deps, outs |-> outs, packages |-> n]

Sound(m) ==
  /\ m.by \in Keys /\ m.packages \in Nat
  /\ m.ins \subseteq live /\ m.deps \subseteq live
  /\ \A c \in m.ins : c.kind # "plain"
  /\ m.outs \in Seq(Cell) /\ Len(m.outs) \in 1 .. 2
  /\ Owners(m) /\ OutsOK(m) /\ Packed(m) /\ Priced(m) /\ Moved(m)
  /\ \A kind \in Special :
       /\ (\E c \in m.ins : c.kind = kind) => Makes(m, kind)
       /\ Makes(m, kind) =>
            /\ Of(kind, m.by) \subseteq m.ins
            /\ Of(kind, m.by) = {} => Required(m.outs) > Ckb(m.ins)

Takes(tx, m) == Built(tx, m.kind, m.by, m.ins, m.deps, m.outs, m.packages)

(* The outputs of a transaction that is paid for: one may be added, the change. *)
LEMMA TakesOuts ==
  ASSUME NEW m, Sound(m), NEW tx, Takes(tx, m)
  PROVE  /\ tx.outs \in Seq(Cell) /\ Len(tx.outs) \in 1 .. 3
         /\ \A i \in DOMAIN m.outs : i \in DOMAIN tx.outs /\ tx.outs[i] = m.outs[i]
         /\ \A i \in DOMAIN tx.outs :
              \/ i \in DOMAIN m.outs /\ tx.outs[i] = m.outs[i]
              \/ tx.outs[i].kind = "plain" /\ tx.outs[i].user = m.by
<1>1. /\ m.outs \in Seq(Cell) /\ Len(m.outs) \in 1 .. 2 /\ DOMAIN m.outs = 1 .. Len(m.outs)
      /\ m.by \in Keys
  BY DEF Sound
<1>2. CASE tx.outs = m.outs
  BY <1>1, <1>2
<1>3. ASSUME NEW k \in Nat, tx.outs = Append(m.outs, Plain(m.by, k))
      PROVE  /\ tx.outs \in Seq(Cell) /\ Len(tx.outs) \in 1 .. 3
             /\ \A i \in DOMAIN m.outs : i \in DOMAIN tx.outs /\ tx.outs[i] = m.outs[i]
             /\ \A i \in DOMAIN tx.outs :
                  \/ i \in DOMAIN m.outs /\ tx.outs[i] = m.outs[i]
                  \/ tx.outs[i].kind = "plain" /\ tx.outs[i].user = m.by
  <2> DEFINE p == Plain(m.by, k)
             n == Len(m.outs)
  <2>1. p \in Cell /\ p.kind = "plain" /\ p.user = m.by
    BY <1>1, PlainCell
  <2> HIDE DEF p
  <2>2. tx.outs = Append(m.outs, p)
    BY <1>3 DEF p
  <2>3. /\ tx.outs \in Seq(Cell) /\ Len(tx.outs) = n + 1 /\ DOMAIN tx.outs = 1 .. n + 1
        /\ \A i \in 1 .. n : tx.outs[i] = m.outs[i]
        /\ tx.outs[n + 1] = p
    BY <1>1, <2>1, <2>2
  <2>4. n \in 1 .. 2 /\ DOMAIN m.outs = 1 .. n
    BY <1>1
  <2> HIDE DEF n
  <2>5. \A i \in 1 .. n + 1 : i \in 1 .. n \/ i = n + 1
    BY <2>4
  <2>6. QED
    BY <2>1, <2>3, <2>4, <2>5
<1>4. QED
  BY <1>2, <1>3 DEF Takes, Built

(* Plain cells hold neither packages nor nfts, so paying moves none.          *)
LEMMA PackagesOfPlain ==
  ASSUME NEW u
  PROVE  \A c \in Cell : c.kind = "plain" => PackagesIn(u)[c] = 0
  BY DEF PackagesIn

LEMMA NftsOfPlain ==
  ASSUME NEW u, NEW n
  PROVE  \A c \in Cell : c.kind = "plain" => NftsIn(u, n)[c] = 0
  BY DEF NftsIn

LEMMA TakesSum ==
  ASSUME CellsOK, NEW m, Sound(m), NEW tx, Takes(tx, m)
  PROVE  /\ \A u : /\ Sum(PackagesIn(u), tx.ins) = Sum(PackagesIn(u), m.ins)
                   /\ SumOut(PackagesIn(u), tx.outs) = SumOut(PackagesIn(u), m.outs)
         /\ \A u, n : n \in Nfts =>
              /\ Sum(NftsIn(u, n), tx.ins) = Sum(NftsIn(u, n), m.ins)
              /\ SumOut(NftsIn(u, n), tx.outs) = SumOut(NftsIn(u, n), m.outs)
<1>1. m.by \in Keys /\ m.outs \in Seq(Cell)
  BY DEF Sound
<1>2. Built(tx, m.kind, m.by, m.ins, m.deps, m.outs, m.packages)
  BY DEF Takes
<1>3. ASSUME NEW u
      PROVE  /\ Sum(PackagesIn(u), tx.ins) = Sum(PackagesIn(u), m.ins)
             /\ SumOut(PackagesIn(u), tx.outs) = SumOut(PackagesIn(u), m.outs)
  BY <1>1, <1>2, PackagesMeasure, PackagesOfPlain, BuiltSum
<1>4. ASSUME NEW u, NEW n \in Nfts
      PROVE  /\ Sum(NftsIn(u, n), tx.ins) = Sum(NftsIn(u, n), m.ins)
             /\ SumOut(NftsIn(u, n), tx.outs) = SumOut(NftsIn(u, n), m.outs)
  BY <1>1, <1>2, NftsMeasure, NftsOfPlain, BuiltSum
<1>5. QED
  BY <1>3, <1>4

(* So what holds before paying holds for the transaction of the pool.         *)
LEMMA SoundTx ==
  ASSUME CellsOK, NEW m, Sound(m), NEW tx, Takes(tx, m)
  PROVE  TxOK(tx)
<1>1. /\ tx.kind = m.kind /\ tx.by = m.by /\ tx.deps = m.deps /\ tx.packages = m.packages
      /\ m.ins \subseteq tx.ins /\ tx.ins \subseteq live /\ IsFiniteSet(tx.ins)
      /\ \A c \in tx.ins \ m.ins : c.kind = "plain" /\ c.user = m.by
      /\ Sum(CkbIn, tx.ins) = SumOut(CkbIn, tx.outs) + Fee
      /\ Required(m.outs) > Ckb(m.ins) => First(Of("plain", m.by)) # {}
                                          /\ First(Of("plain", m.by)) \subseteq tx.ins
  BY DEF Takes, Built
<1>2. /\ tx.outs \in Seq(Cell) /\ Len(tx.outs) \in 1 .. 3
      /\ \A i \in DOMAIN m.outs : i \in DOMAIN tx.outs /\ tx.outs[i] = m.outs[i]
      /\ \A i \in DOMAIN tx.outs :
           \/ i \in DOMAIN m.outs /\ tx.outs[i] = m.outs[i]
           \/ tx.outs[i].kind = "plain" /\ tx.outs[i].user = m.by
  BY TakesOuts
<1>3. /\ \A u : /\ Sum(PackagesIn(u), tx.ins) = Sum(PackagesIn(u), m.ins)
                /\ SumOut(PackagesIn(u), tx.outs) = SumOut(PackagesIn(u), m.outs)
      /\ \A u, n : n \in Nfts =>
           /\ Sum(NftsIn(u, n), tx.ins) = Sum(NftsIn(u, n), m.ins)
           /\ SumOut(NftsIn(u, n), tx.outs) = SumOut(NftsIn(u, n), m.outs)
  BY TakesSum
<1>4. TxType(tx)
  <2>1. m.by \in Keys /\ m.packages \in Nat /\ m.deps \subseteq live
    BY DEF Sound
  <2>2. live \subseteq Cell /\ \A c \in live : c.id <= Newest
    BY DEF CellsOK
  <2>3. QED
    BY <1>1, <1>2, <2>1, <2>2 DEF TxType
<1>5. Owners(tx)
  <2>1. Owners(m)
    BY DEF Sound
  <2>2. QED
    BY <1>1, <1>2, <2>1 DEF Owners
<1>6. \A kind \in Special : kind # "plain"
  BY DEF Special
<1>7. OutsOK(tx)
  <2>1. OutsOK(m)
    BY DEF Sound
  <2> SUFFICES ASSUME NEW i \in DOMAIN tx.outs, tx.outs[i].kind # "plain"
               PROVE  LET o == tx.outs[i] IN
                 /\ o.kind = "config" => o.user = Composer /\ o.config \in Configs /\ Valid(o.config)
                 /\ o.kind = "store" => o.user \in Users
                 /\ o.kind = "store" /\ o.packages > 0 => tx.kind = "purchase" /\ o.packages \in Counts
                 /\ o.kind \in Special =>
                      /\ tx.kind # "transfer"
                      /\ \A j \in DOMAIN tx.outs : tx.outs[j].kind = o.kind => i = j
    BY <1>6 DEF OutsOK
  <2>2. i \in DOMAIN m.outs /\ tx.outs[i] = m.outs[i]
    BY <1>2
  <2>3. \A j \in DOMAIN tx.outs : tx.outs[j].kind = tx.outs[i].kind =>
          j \in DOMAIN m.outs /\ tx.outs[j] = m.outs[j]
    BY <1>2
  <2>4. QED
    BY <1>1, <2>1, <2>2, <2>3 DEF OutsOK
<1>8. Replaces(tx)
  <2> SUFFICES ASSUME NEW kind \in Special
               PROVE  /\ (\E c \in tx.ins : c.kind = kind) => Makes(tx, kind)
                      /\ Makes(tx, kind) =>
                           /\ Of(kind, tx.by) \subseteq tx.ins
                           /\ Of(kind, tx.by) = {} =>
                                First(Of("plain", tx.by)) # {} /\ First(Of("plain", tx.by)) \subseteq tx.ins
    BY DEF Replaces
  <2>1. Makes(tx, kind) <=> Makes(m, kind)
    BY <1>2, <1>6 DEF Makes
  <2>2. (\E c \in tx.ins : c.kind = kind) => \E c \in m.ins : c.kind = kind
    BY <1>1, <1>6
  <2>3. /\ (\E c \in m.ins : c.kind = kind) => Makes(m, kind)
        /\ Makes(m, kind) =>
             /\ Of(kind, m.by) \subseteq m.ins
             /\ Of(kind, m.by) = {} => Required(m.outs) > Ckb(m.ins)
    BY DEF Sound
  <2>4. QED
    BY <1>1, <2>1, <2>2, <2>3
<1>9. Packed(tx)
  <2>1. Packed(m)
    BY DEF Sound
  <2>2. QED
    BY <1>1, <1>3, <2>1 DEF Packed
<1>10. Priced(tx)
  <2>1. Priced(m)
    BY DEF Sound
  <2> SUFFICES ASSUME NEW s \in tx.ins, NEW i \in DOMAIN tx.outs,
                      s.kind = "store", tx.outs[i].kind = "store"
               PROVE  \E c \in tx.deps :
        /\ c.kind = "config" /\ c.user = Composer
        /\ IF tx.outs[i].packages > 0 THEN tx.outs[i].ckb = s.ckb + c.config.price * tx.outs[i].packages
           ELSE /\ tx.outs[i].ckb = s.ckb
                /\ \A n \in Nfts : SumOut(NftsIn(tx.by, n), tx.outs)
                     = Sum(NftsIn(tx.by, n), tx.ins) + Ripped(c.config, s.seed, s.packages)[n]
    BY DEF Priced
  <2>2. s \in m.ins /\ i \in DOMAIN m.outs /\ tx.outs[i] = m.outs[i]
    BY <1>1, <1>2
  <2>3. PICK c \in m.deps :
        /\ c.kind = "config" /\ c.user = Composer
        /\ IF m.outs[i].packages > 0 THEN m.outs[i].ckb = s.ckb + c.config.price * m.outs[i].packages
           ELSE /\ m.outs[i].ckb = s.ckb
                /\ \A n \in Nfts : SumOut(NftsIn(m.by, n), m.outs)
                     = Sum(NftsIn(m.by, n), m.ins) + Ripped(c.config, s.seed, s.packages)[n]
    BY <2>1, <2>2 DEF Priced
  <2>4. QED
    BY <1>1, <1>3, <2>2, <2>3
<1>11. Moved(tx)
  <2>1. Moved(m)
    BY DEF Sound
  <2>2. QED
    BY <1>1, <1>3, <2>1 DEF Moved
<1>12. QED
  BY <1>1, <1>4, <1>5, <1>7, <1>8, <1>9, <1>10, <1>11 DEF TxOK, Paying
--------------------------------------------------------------------------------
(* Small sums.                                                                *)
LEMMA SumOne ==
  ASSUME NEW f, Measure(f), NEW c \in Cell
  PROVE  Sum(f, {c}) = f[c] /\ IsFiniteSet({c})
<1>1. IsFiniteSet({}) /\ IsFiniteSet({c})
  BY FS_EmptySet, FS_Singleton
<1>5. f[c] \in Nat
  BY DEF Measure
<1>2. f[c] \in Nat /\ {} \cup {c} = {c} /\ \A y \in {} \cup {c} : f[y] \in Int
  BY <1>5
<1>3. Sum(f, {} \cup {c}) = Sum(f, {}) + f[c]
  BY <1>1, <1>2, SumAdd
<1>4. QED
  BY <1>1, <1>2, <1>3, SumEmpty

LEMMA NoNfts ==
  ASSUME NEW S, IsFiniteSet(S), S \subseteq Cell, \A c \in S : c.kind # "nft"
  PROVE  \A u, n : Sum(NftsIn(u, n), S) = 0
<1>1. ASSUME NEW u, NEW n
      PROVE  Sum(NftsIn(u, n), S) = 0
  <2>1. \A c \in S : NftsIn(u, n)[c] = 0
    BY DEF NftsIn
  <2>2. QED
    BY <2>1, SumZero
<1>2. QED
  BY <1>1

LEMMA NoPackages ==
  ASSUME NEW S, IsFiniteSet(S), S \subseteq Cell, \A c \in S : c.kind # "store"
  PROVE  \A u : Sum(PackagesIn(u), S) = 0
<1>1. ASSUME NEW u
      PROVE  Sum(PackagesIn(u), S) = 0
  <2>1. \A c \in S : PackagesIn(u)[c] = 0
    BY DEF PackagesIn
  <2>2. QED
    BY <2>1, SumZero
<1>2. QED
  BY <1>1

LEMMA NftCellNfts ==
  ASSUME NEW u \in Users, NEW k \in Nat, NEW b \in [Nfts -> Nat], NEW v, NEW n \in Nfts
  PROVE  NftsIn(v, n)[NftCell(u, k, b)] = IF v = u THEN b[n] ELSE 0
<1> DEFINE c == NftCell(u, k, b)
<1>1. /\ c \in Cell /\ c.user = u /\ c.nfts = b
      /\ c.kind = IF b = Empty THEN "plain" ELSE "nft"
  BY NftCellIs
<1> HIDE DEF c
<1>2. NftsIn(v, n)[c] = IF v = u THEN b[n] ELSE 0
  BY <1>1, EmptyIs DEF NftsIn
<1>3. QED
  BY <1>2 DEF c

(* What packages hold is a number of each nft.                                *)
LEMMA RippedBag ==
  ASSUME NEW c \in Config, NEW seed, NEW n \in Nat
  PROVE  Ripped(c, seed, n) \in [Nfts -> Nat]
<1>1. n * c.count \in Nat
  <2>1. c.count \in Nat
    BY DEF Config
  <2>2. QED
    BY <2>1
<1>2. ASSUME NEW x \in Nfts
      PROVE  Cardinality({i \in 1 .. (n * c.count) : Draw(c.table, seed[i]) = x}) \in Nat
  <2>1. IsFiniteSet(1 .. (n * c.count))
    BY <1>1, FS_Interval
  <2>2. IsFiniteSet({i \in 1 .. (n * c.count) : Draw(c.table, seed[i]) = x})
    BY <2>1, FS_Subset
  <2>3. QED
    BY <2>2, FS_CardinalityType
<1>3. QED
  BY <1>2 DEF Ripped

(* The first special cell is the only one.                                    *)
LEMMA SoleFirst ==
  ASSUME CellsOK, Sole, NEW kind \in Special, NEW u
  PROVE  /\ First(Of(kind, u)) = Of(kind, u)
         /\ Of(kind, u) \subseteq live /\ Of(kind, u) \subseteq Cell
         /\ \A c \in Of(kind, u) : /\ c.kind = kind /\ c.user = u
                                   /\ Of(kind, u) = {c}
<1>1. Of(kind, u) \subseteq live /\ Of(kind, u) \subseteq Cell
      /\ \A c \in Of(kind, u) : c.kind = kind /\ c.user = u
  BY DEF Of, CellsOK
<1>2. ASSUME NEW c \in Of(kind, u)
      PROVE  Of(kind, u) = {c}
  BY <1>1, <1>2 DEF Sole
<1>3. ASSUME NEW c \in Of(kind, u), NEW d \in Of(kind, u)
      PROVE  c.id <= d.id
  <2>1. c = d
    BY <1>1, <1>3 DEF Sole
  <2>2. c.id \in Int
    BY <1>1 DEF Cell
  <2>3. QED
    BY <2>1, <2>2
<1>4. QED
  BY <1>1, <1>2, <1>3 DEF First

LEMMA NothingIn ==
  /\ IsFiniteSet({}) /\ Ckb({}) = 0
<1>1. IsFiniteSet({})
  BY FS_EmptySet
<1>2. Ckb({}) = Sum(CkbIn, {})
  BY <1>1, CkbSum
<1>3. QED
  BY <1>1, <1>2, SumEmpty

LEMMA NotNft ==
  ASSUME NEW c \in Cell, c.kind # "nft"
  PROVE  \A u, n : NftsIn(u, n)[c] = 0
  BY DEF NftsIn

LEMMA NotStore ==
  ASSUME NEW c \in Cell, c.kind # "store"
  PROVE  \A u : PackagesIn(u)[c] = 0
  BY DEF PackagesIn

(* Transactions of one or two outputs, before they are paid for.              *)
LEMMA OneOut ==
  ASSUME NEW c \in Cell, NEW outs, outs = <<c>>
  PROVE  /\ outs \in Seq(Cell) /\ Len(outs) = 1 /\ DOMAIN outs = {1} /\ outs[1] = c
         /\ \A u : SumOut(PackagesIn(u), outs) = PackagesIn(u)[c]
         /\ \A u, n : n \in Nfts => SumOut(NftsIn(u, n), outs) = NftsIn(u, n)[c]
         /\ Required(outs) = Fee + c.ckb
<1>1. /\ outs \in Seq(Cell) /\ Len(outs) = 1 /\ DOMAIN outs = {1} /\ outs[1] = c
  OBVIOUS
<1>2. ASSUME NEW f, Measure(f)
      PROVE  SumOut(f, outs) = f[c]
  BY <1>2, SumOutOne, Zenon
<1>3. SumOut(CkbIn, outs) = c.ckb
  <2>1. SumOut(CkbIn, outs) = CkbIn[c]
    BY <1>2, CkbMeasure, Zenon
  <2>2. QED
    BY <2>1 DEF CkbIn
<1>4. QED
  BY <1>1, <1>2, <1>3, PackagesMeasure, NftsMeasure, RequiredIs

LEMMA TwoOuts ==
  ASSUME NEW c \in Cell, NEW d \in Cell, NEW outs, outs = <<c, d>>
  PROVE  /\ outs \in Seq(Cell) /\ Len(outs) = 2 /\ DOMAIN outs = {1, 2}
         /\ outs[1] = c /\ outs[2] = d
         /\ \A u : SumOut(PackagesIn(u), outs) = PackagesIn(u)[c] + PackagesIn(u)[d]
         /\ \A u, n : n \in Nfts => SumOut(NftsIn(u, n), outs) = NftsIn(u, n)[c] + NftsIn(u, n)[d]
<1>1. /\ outs \in Seq(Cell) /\ Len(outs) = 2 /\ DOMAIN outs = {1, 2} /\ outs[1] = c /\ outs[2] = d
  OBVIOUS
<1>2. ASSUME NEW f, Measure(f)
      PROVE  SumOut(f, outs) = f[c] + f[d]
  BY <1>2, SumOutTwo, Zenon
<1>3. QED
  BY <1>1, <1>2, PackagesMeasure, NftsMeasure

(* A step that builds a transaction of a kind. Each action that builds is one. *)
Added(kind) ==
  \E m, tx : /\ Sound(m) /\ Takes(tx, m) /\ m.kind = kind
             /\ pool' = pool \cup {tx} /\ UNCHANGED <<live, txs, bought, revealed>>

LEMMA AddedBy ==
  ASSUME CellsOK, NEW kind, NEW u, NEW in, NEW deps, NEW outs, NEW n,
         Sound(Main(kind, u, in, deps, outs, n)), Build(kind, u, in, deps, outs, n)
  PROVE  Added(kind)
<1> DEFINE m == Main(kind, u, in, deps, outs, n)
<1>1. /\ m.kind = kind /\ m.by = u /\ m.ins = in /\ m.deps = deps /\ m.outs = outs
      /\ m.packages = n
  BY DEF Main
<1> HIDE DEF m
<1>2. Sound(m)
  BY DEF m
<1>3. /\ u \in Keys /\ in \subseteq live /\ \A c \in in : c.kind # "plain"
      /\ outs \in Seq(Cell)
  BY <1>1, <1>2 DEF Sound
<1>4. /\ UNCHANGED <<live, txs, bought, revealed>>
      /\ \E tx : pool' = pool \cup {tx} /\ Built(tx, kind, u, in, deps, outs, n)
  BY <1>3, BuildTx
<1>5. QED
  BY <1>1, <1>2, <1>4 DEF Added, Takes

(* NFTConfig composed, the old one replaced (builder.rs build_tx_compose_nft). *)
LEMMA AddCompose ==
  ASSUME CellsOK, Sole, NEW c \in Configs, Compose(c)
  PROVE  Added("compose")
<1> DEFINE in == ConfigFound
           outs == <<ConfigCell(c)>>
           m == Main("compose", Composer, in, {}, outs, 0)
<1>1. Valid(c) /\ Build("compose", Composer, in, {}, outs, 0)
  BY DEF Compose, Replaced
<1>2. /\ m.kind = "compose" /\ m.by = Composer /\ m.ins = in /\ m.deps = {} /\ m.outs = outs
      /\ m.packages = 0
  BY DEF Main
<1>3. /\ in = Of("config", Composer) /\ in \subseteq live /\ in \subseteq Cell
      /\ \A d \in in : d.kind = "config" /\ d.user = Composer
  BY SoleFirst DEF ConfigFound, Special
<1>4. /\ ConfigCell(c) \in Cell /\ ConfigCell(c).kind = "config" /\ ConfigCell(c).user = Composer
      /\ ConfigCell(c).config = c /\ ConfigCell(c).ckb = Exact(Len(c.table))
  BY ConfigCellIs
<1> DEFINE o == ConfigCell(c)
<1> HIDE DEF m, in, o
<1>5. outs \in Seq(Cell) /\ Len(outs) = 1 /\ DOMAIN outs = {1} /\ outs[1] = o
  BY <1>4 DEF o
<1>6. /\ o \in Cell /\ o.kind = "config" /\ o.user = Composer
      /\ o.config = c /\ o.ckb = Exact(Len(c.table))
  BY <1>4 DEF o
<1>7. outs = <<o>>
  BY DEF o
<1> HIDE DEF outs
<1>8. Composer \in Keys /\ Composer \notin Users
  BY StoreAssumption DEF Keys
<1>9. IsFiniteSet(in)
  BY <1>3, FS_Subset DEF CellsOK
<1>10. Owners(m) /\ OutsOK(m)
  BY <1>1, <1>2, <1>3, <1>5, <1>6 DEF Owners, OutsOK
<1>11. Packed(m)
  <2>1. \A u : SumOut(PackagesIn(u), outs) = 0
    BY <1>6, <1>7, OneOut, NotStore
  <2>2. \A u : Sum(PackagesIn(u), in) = 0
    BY <1>3, <1>9, NoPackages
  <2>3. QED
    BY <1>2, <2>1, <2>2 DEF Packed
<1>12. Priced(m)
  BY <1>2, <1>3 DEF Priced
<1>13. Moved(m)
  <2>1. \A u, n : n \in Nfts => SumOut(NftsIn(u, n), outs) = 0
    BY <1>6, <1>7, OneOut, NotNft
  <2>2. \A u, n : Sum(NftsIn(u, n), in) = 0
    BY <1>3, <1>9, NoNfts
  <2>3. QED
    BY <1>2, <2>1, <2>2 DEF Moved
<1>14. Makes(m, "config") /\ ~ Makes(m, "store")
  BY <1>2, <1>5, <1>6 DEF Makes
<1>15. in = {} => Required(outs) > Ckb(in)
  <2>1. Required(outs) = Fee + o.ckb
    BY <1>6, <1>7, OneOut
  <2>2. Len(c.table) \in Nat \ {0}
    BY <1>1, StoreAssumption DEF Valid, Config
  <2>3. Fee + o.ckb > 0
    BY <1>6, <2>2, StoreAssumption DEF Exact
  <2>4. QED
    BY <2>1, <2>3, NothingIn
<1>16. Sound(m)
  BY <1>2, <1>3, <1>5, <1>8, <1>10, <1>11, <1>12, <1>13, <1>14, <1>15 DEF Sound, Special
<1>17. QED
  BY <1>1, <1>16, AddedBy DEF m

(* Nfts issued; the config cell is spent and made again.                      *)
LEMMA AddIssue ==
  ASSUME CellsOK, Sole, NEW v \in Users, NEW w \in Wishes, Issue(v, w)
  PROVE  Added("issue")
<1>1. PICK c \in ConfigFound :
        Build("issue", Composer, {c}, {},
              <<NftCell(v, Exact(Count(w)), w), [c EXCEPT !.id = 0]>>, 0)
  BY DEF Issue
<1> DEFINE a == NftCell(v, Exact(Count(w)), w)
           b == [c EXCEPT !.id = 0]
           outs == <<a, b>>
           m == Main("issue", Composer, {c}, {}, outs, 0)
<1>2. /\ m.kind = "issue" /\ m.by = Composer /\ m.ins = {c} /\ m.deps = {} /\ m.outs = outs
      /\ m.packages = 0
  BY DEF Main
<1>3. /\ c \in live /\ c \in Cell /\ c.kind = "config" /\ c.user = Composer
      /\ Of("config", Composer) = {c}
      /\ c.config \in Configs /\ Valid(c.config)
  BY SoleFirst DEF ConfigFound, Special, CellsOK
<1>4. w \in [Nfts -> Nat]
  BY StoreAssumption
<1>5. /\ a \in Cell /\ a.user = v /\ a.kind \in {"plain", "nft"}
      /\ \A u, n : n \in Nfts => NftsIn(u, n)[a] = IF u = v THEN w[n] ELSE 0
  <2>1. Exact(Count(w)) \in Nat
    BY <1>4, CountNat, ExactNat
  <2>2. QED
    BY <1>4, <2>1, NftCellIs, NftCellNfts
<1>6. b \in Cell /\ b.kind = "config" /\ b.user = Composer /\ b.config = c.config
  <2>1. DOMAIN c = {"id", "seed", "kind", "user", "ckb", "config", "packages", "nfts"}
    BY <1>3 DEF Cell
  <2>2. b.kind = "config" /\ b.user = Composer /\ b.config = c.config
    BY <1>3, <2>1
  <2>3. b \in Cell
    BY <1>3, 0 \in Int DEF Cell, Kinds
  <2>4. QED
    BY <2>2, <2>3
<1> HIDE DEF a, b
<1>7. /\ outs \in Seq(Cell) /\ Len(outs) = 2 /\ DOMAIN outs = {1, 2}
      /\ outs[1] = a /\ outs[2] = b
      /\ \A u : SumOut(PackagesIn(u), outs) = PackagesIn(u)[a] + PackagesIn(u)[b]
      /\ \A u, n : n \in Nfts => SumOut(NftsIn(u, n), outs) = NftsIn(u, n)[a] + NftsIn(u, n)[b]
  BY <1>5, <1>6, TwoOuts
<1> HIDE DEF outs, m
<1>8. Composer \in Keys /\ Composer \notin Users
  BY StoreAssumption DEF Keys
<1>9. IsFiniteSet({c})
  BY FS_Singleton
<1>10. Owners(m) /\ OutsOK(m)
  <2>1. Owners(m)
    BY <1>2, <1>3, <1>5, <1>6, <1>7 DEF Owners, Special
  <2>2. OutsOK(m)
    BY <1>2, <1>3, <1>5, <1>6, <1>7 DEF OutsOK, Special
  <2>3. QED
    BY <2>1, <2>2
<1>11. Packed(m)
  <2>1. \A u : SumOut(PackagesIn(u), outs) = 0
    BY <1>5, <1>6, <1>7, NotStore
  <2>2. \A u : Sum(PackagesIn(u), {c}) = 0
    BY <1>3, <1>9, NoPackages
  <2>3. QED
    BY <1>2, <2>1, <2>2 DEF Packed
<1>12. Priced(m)
  BY <1>2, <1>3 DEF Priced
<1>13. Moved(m)
  <2>1. \A u, n : n \in Nfts => SumOut(NftsIn(u, n), outs) = IF u = v THEN w[n] ELSE 0
    BY <1>4, <1>5, <1>6, <1>7, NotNft
  <2>2. \A u, n : Sum(NftsIn(u, n), {c}) = 0
    BY <1>3, <1>9, NoNfts
  <2>3. \A u \in Users, n \in Nfts :
          SumOut(NftsIn(u, n), m.outs) = Sum(NftsIn(u, n), m.ins) + IF u = v THEN w[n] ELSE 0
    BY <1>2, <1>4, <2>1, <2>2
  <2>4. m.kind # "transfer" /\ w \in Wishes \cup Draws
    BY <1>2
  <2>5. QED
    BY <2>3, <2>4, Zenon DEF Moved
<1>14. Makes(m, "config") /\ ~ Makes(m, "store")
  BY <1>2, <1>5, <1>6, <1>7 DEF Makes
<1>15. Sound(m)
  BY <1>2, <1>3, <1>7, <1>8, <1>10, <1>11, <1>12, <1>13, <1>14 DEF Sound, Special
<1>16. QED
  BY <1>1, <1>15, AddedBy, Zenon DEF m, outs, a, b

(* A store, for a user who has none.                                          *)
LEMMA AddCreate ==
  ASSUME CellsOK, Sole, NEW u \in Users, CreateStore(u)
  PROVE  Added("create")
<1>1. PICK d \in ConfigFound : Build("create", u, {}, {d}, <<StoreCell(u, Exact(1), 0)>>, 0)
  BY DEF CreateStore, Deps
<1> DEFINE o == StoreCell(u, Exact(1), 0)
           outs == <<o>>
           m == Main("create", u, {}, {d}, outs, 0)
<1>2. /\ m.kind = "create" /\ m.by = u /\ m.ins = {} /\ m.deps = {d} /\ m.outs = outs
      /\ m.packages = 0
  BY DEF Main
<1>3. d \in live
  BY SoleFirst DEF ConfigFound, Special
<1>4. /\ o \in Cell /\ o.kind = "store" /\ o.user = u /\ o.packages = 0
      /\ o.ckb = Exact(1)
  BY ExactNat, StoreCellIs
<1> HIDE DEF o
<1>5. /\ outs \in Seq(Cell) /\ Len(outs) = 1 /\ DOMAIN outs = {1} /\ outs[1] = o
      /\ \A v : SumOut(PackagesIn(v), outs) = PackagesIn(v)[o]
      /\ \A v, n : n \in Nfts => SumOut(NftsIn(v, n), outs) = NftsIn(v, n)[o]
      /\ Required(outs) = Fee + o.ckb
  BY <1>4, OneOut
<1> HIDE DEF outs, m
<1>6. u \in Keys
  BY DEF Keys
<1>7. Owners(m) /\ OutsOK(m)
  BY <1>2, <1>4, <1>5 DEF Owners, OutsOK
<1>8. Packed(m)
  <2>1. \A v : SumOut(PackagesIn(v), outs) = 0
    BY <1>4, <1>5 DEF PackagesIn
  <2>2. \A v : Sum(PackagesIn(v), {}) = 0
    BY SumEmpty
  <2>3. QED
    BY <1>2, <2>1, <2>2 DEF Packed
<1>9. Priced(m)
  BY <1>2 DEF Priced
<1>10. Moved(m)
  <2>1. \A v, n : n \in Nfts => SumOut(NftsIn(v, n), outs) = 0
    BY <1>4, <1>5, NotNft
  <2>2. \A v, n : Sum(NftsIn(v, n), {}) = 0
    BY SumEmpty
  <2>3. QED
    BY <1>2, <2>1, <2>2 DEF Moved
<1>11. Makes(m, "store") /\ ~ Makes(m, "config")
  BY <1>2, <1>4, <1>5 DEF Makes
<1>12. Of("store", u) = {} /\ Required(outs) > Ckb({})
  <2>1. Fee + o.ckb > 0
    BY <1>4, StoreAssumption DEF Exact
  <2>2. QED
    BY <1>5, <2>1, NothingIn DEF CreateStore, MayCreate
<1>13. Sound(m)
  BY <1>2, <1>3, <1>5, <1>6, <1>7, <1>8, <1>9, <1>10, <1>11, <1>12 DEF Sound, Special
<1>14. QED
  BY <1>1, <1>13, AddedBy, Zenon DEF m, outs, o

(* Packages bought, at the price of the config among the deps.                *)
LEMMA AddPurchase ==
  ASSUME CellsOK, Sole, NEW u \in Users, NEW n \in Counts, Purchase(u, n)
  PROVE  Added("purchase")
<1>1. PICK d \in ConfigFound, s \in StoreFound(u) :
        /\ MayBuy(s)
        /\ Build("purchase", u, {s}, {d}, <<StoreCell(u, Paid(s, d.config.price * n), n)>>, n)
  BY DEF Purchase, Deps
<1> DEFINE k == Paid(s, d.config.price * n)
           o == StoreCell(u, k, n)
           outs == <<o>>
           m == Main("purchase", u, {s}, {d}, outs, n)
<1>2. /\ m.kind = "purchase" /\ m.by = u /\ m.ins = {s} /\ m.deps = {d} /\ m.outs = outs
      /\ m.packages = n
  BY DEF Main
<1>3. /\ d \in live /\ d \in Cell /\ d.kind = "config" /\ d.user = Composer
      /\ s \in live /\ s \in Cell /\ s.kind = "store" /\ s.user = u
      /\ Of("store", u) = {s}
  BY SoleFirst DEF ConfigFound, StoreFound, Special
<1>4. s.packages = 0 /\ n \in Nat
  BY <1>1, StoreAssumption DEF MayBuy
<1>5. k \in Nat /\ k = s.ckb + d.config.price * n
  <2>1. d.config.price \in Nat /\ s.ckb \in Nat
    BY <1>3 DEF Cell, Config
  <2>2. d.config.price * n \in Nat
    BY <1>4, <2>1
  <2>3. QED
    BY <2>1, <2>2 DEF Paid
<1> HIDE DEF k
<1>6. o \in Cell /\ o.kind = "store" /\ o.user = u /\ o.packages = n /\ o.ckb = k
  BY <1>4, <1>5, StoreCellIs
<1> HIDE DEF o
<1>7. /\ outs \in Seq(Cell) /\ Len(outs) = 1 /\ DOMAIN outs = {1} /\ outs[1] = o
      /\ \A v : SumOut(PackagesIn(v), outs) = PackagesIn(v)[o]
      /\ \A v, x : x \in Nfts => SumOut(NftsIn(v, x), outs) = NftsIn(v, x)[o]
  BY <1>6, OneOut
<1> HIDE DEF outs, m
<1>8. u \in Keys
  BY DEF Keys
<1>9. Owners(m) /\ OutsOK(m)
  BY <1>2, <1>3, <1>6, <1>7 DEF Owners, OutsOK
<1>10. IsFiniteSet({s}) /\ \A v : Sum(PackagesIn(v), {s}) = PackagesIn(v)[s]
  BY <1>3, SumOne, PackagesMeasure
<1>11. Packed(m)
  <2>1. \A v : PackagesIn(v)[s] = 0 /\ PackagesIn(v)[o] = IF v = u THEN n ELSE 0
    BY <1>3, <1>4, <1>6 DEF PackagesIn
  <2>2. ASSUME NEW v \in Users
        PROVE  SumOut(PackagesIn(v), outs) = 0 + IF u = v THEN n ELSE 0
    BY <1>4, <1>7, <2>1
  <2>3. \A v : Sum(PackagesIn(v), {s}) = 0
    BY <1>10, <2>1
  <2>4. QED
    BY <1>2, <1>4, <2>2, <2>3 DEF Packed
<1>12. \A v, x : x \in Nfts => SumOut(NftsIn(v, x), outs) = 0
  BY <1>6, <1>7, NotNft
<1>13. \A v, x : Sum(NftsIn(v, x), {s}) = 0
  BY <1>3, <1>10, NoNfts
<1>14. Moved(m)
  BY <1>2, <1>12, <1>13 DEF Moved
<1>15. Priced(m)
  <2>1. CASE n > 0
    BY <1>2, <1>3, <1>5, <1>6, <1>7, <2>1 DEF Priced
  <2>2. CASE n = 0
    <3>1. o.ckb = s.ckb
      <4>1. d.config.price * n = 0 /\ s.ckb \in Nat
        BY <1>3, <2>2 DEF Cell, Config
      <4>2. QED
        BY <1>5, <1>6, <4>1
    <3>2. \A x \in Nfts : Ripped(d.config, s.seed, s.packages)[x] = 0
      <4>1. s.packages * d.config.count = 0
        BY <1>3, <1>4 DEF Cell, Config
      <4>2. \A S : {i \in 1 .. 0 : S[i] = 0} = {}
        OBVIOUS
      <4>3. QED
        BY <4>1, FS_EmptySet DEF Ripped
    <3>3. \A x \in Nfts : SumOut(NftsIn(u, x), outs)
                           = Sum(NftsIn(u, x), {s}) + Ripped(d.config, s.seed, s.packages)[x]
      BY <1>12, <1>13, <3>2
    <3>4. ~ (o.packages > 0)
      BY <1>6, <2>2
    <3>5. ASSUME NEW t \in m.ins, NEW i \in DOMAIN m.outs
          PROVE  /\ t = s /\ m.outs[i] = o /\ d \in m.deps
                 /\ \A x \in Nfts : SumOut(NftsIn(m.by, x), m.outs)
                      = Sum(NftsIn(m.by, x), m.ins) + Ripped(d.config, t.seed, t.packages)[x]
      BY <1>2, <1>7, <3>3, <3>5
    <3>6. QED
      BY <1>3, <3>1, <3>4, <3>5, Zenon DEF Priced
  <2>3. QED
    BY <1>4, <2>1, <2>2
<1>16. Makes(m, "store") /\ ~ Makes(m, "config")
  BY <1>2, <1>6, <1>7 DEF Makes
<1>19. m.ins \subseteq live /\ m.deps \subseteq live /\ \A c \in m.ins : c.kind # "plain"
  BY <1>2, <1>3
<1>20. \A kind \in Special :
         /\ (\E c \in m.ins : c.kind = kind) => Makes(m, kind)
         /\ Makes(m, kind) =>
              /\ Of(kind, m.by) \subseteq m.ins
              /\ Of(kind, m.by) = {} => Required(m.outs) > Ckb(m.ins)
  BY <1>2, <1>3, <1>16 DEF Special
<1>21. m.by \in Keys /\ m.packages \in Nat /\ m.outs \in Seq(Cell) /\ Len(m.outs) \in 1 .. 2
  BY <1>2, <1>4, <1>7, <1>8
<1>17. Sound(m)
  BY <1>9, <1>11, <1>14, <1>15, <1>19, <1>20, <1>21, Zenon DEF Sound
<1>18. QED
  BY <1>1, <1>17, AddedBy, Zenon DEF m, outs, o, k

(* Packages revealed: the nfts are those that the config among the deps and the *)
(* seed of the store say.                                                     *)
LEMMA AddReveal ==
  ASSUME CellsOK, Sole, NEW u \in Users, Reveal(u)
  PROVE  Added("reveal")
<1>1. PICK d \in ConfigFound, s \in StoreFound(u) :
        /\ s.packages > 0
        /\ LET nfts == Ripped(d.config, s.seed, s.packages) IN
             Build("reveal", u, {s}, {d},
                   <<StoreCell(u, s.ckb, 0), NftCell(u, Exact(Count(nfts)), nfts)>>, s.packages)
  BY DEF Reveal, Deps
<1> DEFINE nfts == Ripped(d.config, s.seed, s.packages)
           o == StoreCell(u, s.ckb, 0)
           a == NftCell(u, Exact(Count(nfts)), nfts)
           outs == <<o, a>>
           n == s.packages
           m == Main("reveal", u, {s}, {d}, outs, n)
<1>2. /\ m.kind = "reveal" /\ m.by = u /\ m.ins = {s} /\ m.deps = {d} /\ m.outs = outs
      /\ m.packages = n
  BY DEF Main
<1>3. /\ d \in live /\ d \in Cell /\ d.kind = "config" /\ d.user = Composer
      /\ d.config \in Configs /\ Valid(d.config)
      /\ s \in live /\ s \in Cell /\ s.kind = "store" /\ s.user = u
      /\ Of("store", u) = {s}
  BY SoleFirst DEF ConfigFound, StoreFound, Special, CellsOK
<1>4. /\ n \in Nat /\ n > 0 /\ s.seed \in Seeds /\ n \in Counts /\ s.ckb \in Nat
      /\ d.config \in Config
  BY <1>1, <1>3 DEF CellsOK, Cell
<1>5. nfts \in [Nfts -> Nat] /\ nfts \in Draws
  BY <1>3, <1>4, RippedBag DEF Draws
<1> HIDE DEF nfts
<1>6. o \in Cell /\ o.kind = "store" /\ o.user = u /\ o.packages = 0 /\ o.ckb = s.ckb
  BY <1>4, StoreCellIs
<1>7. /\ a \in Cell /\ a.user = u /\ a.kind \in {"plain", "nft"}
      /\ \A v, x : x \in Nfts => NftsIn(v, x)[a] = IF v = u THEN nfts[x] ELSE 0
  <2>1. Exact(Count(nfts)) \in Nat
    BY <1>5, CountNat, ExactNat
  <2>2. QED
    BY <1>5, <2>1, NftCellIs, NftCellNfts
<1> HIDE DEF o, a
<1>8. /\ outs \in Seq(Cell) /\ Len(outs) = 2 /\ DOMAIN outs = {1, 2}
      /\ outs[1] = o /\ outs[2] = a
      /\ \A v : SumOut(PackagesIn(v), outs) = PackagesIn(v)[o] + PackagesIn(v)[a]
      /\ \A v, x : x \in Nfts => SumOut(NftsIn(v, x), outs) = NftsIn(v, x)[o] + NftsIn(v, x)[a]
  BY <1>6, <1>7, TwoOuts
<1> HIDE DEF outs, m
<1>9. u \in Keys
  BY DEF Keys
<1>10. Owners(m) /\ OutsOK(m)
  <2>1. Owners(m)
    BY <1>2, <1>3, <1>6, <1>7, <1>8 DEF Owners
  <2>2. OutsOK(m)
    BY <1>2, <1>6, <1>7, <1>8 DEF OutsOK, Special
  <2>3. QED
    BY <2>1, <2>2
<1>11. IsFiniteSet({s}) /\ \A v : Sum(PackagesIn(v), {s}) = PackagesIn(v)[s]
  BY <1>3, SumOne, PackagesMeasure
<1>12. Packed(m)
  <2>1. \A v : PackagesIn(v)[o] = 0 /\ PackagesIn(v)[s] = IF v = u THEN n ELSE 0
    BY <1>3, <1>6 DEF PackagesIn
  <2>2. \A v : PackagesIn(v)[a] = 0
    BY <1>7, NotStore
  <2>3. \A v : SumOut(PackagesIn(v), outs) = 0
    BY <1>8, <2>1, <2>2
  <2>4. \A v : Sum(PackagesIn(v), {s}) = IF v = u THEN n ELSE 0
    BY <1>11, <2>1
  <2>5. ASSUME NEW v \in Users
        PROVE  SumOut(PackagesIn(v), outs) + (IF u = v THEN n ELSE 0) = Sum(PackagesIn(v), {s}) + 0
    <3>1. n \in Nat /\ SumOut(PackagesIn(v), outs) = 0
            /\ Sum(PackagesIn(v), {s}) = IF v = u THEN n ELSE 0
      BY <1>4, <2>3, <2>4
    <3> HIDE DEF n
    <3>2. QED
      BY <3>1
  <2>6. QED
    BY <1>2, <2>5 DEF Packed
<1>13. \A v, x : x \in Nfts => SumOut(NftsIn(v, x), outs) = IF v = u THEN nfts[x] ELSE 0
  BY <1>5, <1>6, <1>7, <1>8, NotNft
<1>14. \A v, x : Sum(NftsIn(v, x), {s}) = 0
  BY <1>3, <1>11, NoNfts
<1>15. Moved(m)
  <2>1. \A v \in Users, x \in Nfts :
          SumOut(NftsIn(v, x), m.outs) = Sum(NftsIn(v, x), m.ins) + IF v = u THEN nfts[x] ELSE 0
    <3>1. ASSUME NEW v \in Users, NEW x \in Nfts
          PROVE  SumOut(NftsIn(v, x), outs) = 0 + IF v = u THEN nfts[x] ELSE 0
      BY <1>5, <1>13
    <3>2. QED
      BY <1>2, <1>14, <3>1
  <2>2. m.kind # "transfer" /\ nfts \in Wishes \cup Draws
    BY <1>2, <1>5
  <2>3. QED
    BY <2>1, <2>2, Zenon DEF Moved
<1>16. Priced(m)
  <2>1. ASSUME NEW t \in m.ins, NEW i \in DOMAIN m.outs, m.outs[i].kind = "store"
        PROVE  /\ t = s /\ m.outs[i] = o /\ d \in m.deps
               /\ \A x \in Nfts : SumOut(NftsIn(m.by, x), m.outs)
                    = Sum(NftsIn(m.by, x), m.ins) + nfts[x]
    <3>1. \A x \in Nfts : SumOut(NftsIn(u, x), outs) = Sum(NftsIn(u, x), {s}) + nfts[x]
      BY <1>5, <1>13, <1>14
    <3>2. QED
      BY <1>2, <1>7, <1>8, <2>1, <3>1
  <2>2. ~ (o.packages > 0)
    BY <1>6
  <2>3. QED
    BY <1>3, <1>6, <2>1, <2>2, Zenon DEF Priced, nfts
<1>17. Makes(m, "store") /\ ~ Makes(m, "config")
  BY <1>2, <1>6, <1>7, <1>8 DEF Makes
<1>18. m.ins \subseteq live /\ m.deps \subseteq live /\ \A c \in m.ins : c.kind # "plain"
  BY <1>2, <1>3
<1>19. \A kind \in Special :
         /\ (\E c \in m.ins : c.kind = kind) => Makes(m, kind)
         /\ Makes(m, kind) =>
              /\ Of(kind, m.by) \subseteq m.ins
              /\ Of(kind, m.by) = {} => Required(m.outs) > Ckb(m.ins)
  BY <1>2, <1>3, <1>17 DEF Special
<1>20. m.by \in Keys /\ m.packages \in Nat /\ m.outs \in Seq(Cell) /\ Len(m.outs) \in 1 .. 2
  BY <1>2, <1>4, <1>8, <1>9
<1>21. Sound(m)
  BY <1>10, <1>12, <1>15, <1>16, <1>18, <1>19, <1>20, Zenon DEF Sound
<1>22. QED
  BY <1>1, <1>21, AddedBy, Zenon DEF m, outs, o, a, nfts, n

--------------------------------------------------------------------------------
(* More cells, a greater sum.                                                 *)
LEMMA SumMonotonic ==
  ASSUME NEW f, Measure(f), NEW A, NEW B, A \subseteq B, B \subseteq Cell, IsFiniteSet(B)
  PROVE  Sum(f, A) <= Sum(f, B)
<1> DEFINE rest == B \ A
<1>1. IsFiniteSet(A) /\ IsFiniteSet(rest) /\ B = A \cup rest /\ A \cap rest = {}
  BY FS_Subset
<1>2. \A c \in A \cup rest : f[c] \in Int
  BY MeasureInt
<1>3. Sum(f, A) \in Nat /\ Sum(f, rest) \in Nat
  BY <1>1, SumNat
<1> HIDE DEF rest
<1>4. Sum(f, A \cup rest) = Sum(f, A) + Sum(f, rest)
  BY <1>1, <1>2, SumUnion
<1>5. QED
  BY <1>1, <1>3, <1>4

(* Total, by measures.                                                        *)
NftsAll(n) == [c \in Cell |-> c.nfts[n]]

LEMMA AllMeasure ==
  ASSUME NEW n \in Nfts
  PROVE  Measure(NftsAll(n))
  BY DEF Measure, NftsAll, Cell

LEMMA TotalIs ==
  ASSUME NEW S, S \subseteq Cell, IsFiniteSet(S)
  PROVE  /\ Total(S) \in [Nfts -> Nat]
         /\ \A n \in Nfts : Total(S)[n] = Sum(NftsAll(n), S)
<1>1. ASSUME NEW n \in Nfts
      PROVE  /\ SumFunction([c \in S |-> c.nfts[n]]) = Sum(NftsAll(n), S)
             /\ Sum(NftsAll(n), S) \in Nat
  <2> DEFINE g == [c \in S |-> c.nfts[n]]
  <2>1. SumFunction(g) = Sum(g, S)
    BY Zenon DEF Sum, SumFunction
  <2>2. \A c \in S : g[c] = NftsAll(n)[c]
    BY DEF NftsAll
  <2> HIDE DEF g
  <2>3. Sum(g, S) = Sum(NftsAll(n), S)
    BY <2>2, SumSame
  <2>4. QED
    BY <2>1, <2>3, AllMeasure, SumNat DEF g
<1>2. QED
  BY <1>1 DEF Total

LEMMA TotalOf ==
  ASSUME NEW u, NEW S, S \subseteq Cell, IsFiniteSet(S),
         \A c \in S : c.kind = "nft" /\ c.user = u
  PROVE  \A v, n : n \in Nfts => Sum(NftsIn(v, n), S) = IF v = u THEN Total(S)[n] ELSE 0
<1>1. ASSUME NEW v, NEW n \in Nfts, v = u
      PROVE  Sum(NftsIn(v, n), S) = Total(S)[n]
  <2>1. \A c \in S : NftsIn(v, n)[c] = NftsAll(n)[c]
    BY <1>1 DEF NftsIn, NftsAll
  <2>2. QED
    BY <2>1, SumSame, TotalIs
<1>2. ASSUME NEW v, NEW n \in Nfts, v # u
      PROVE  Sum(NftsIn(v, n), S) = 0
  <2>1. \A c \in S : NftsIn(v, n)[c] = 0
    BY <1>2 DEF NftsIn
  <2>2. QED
    BY <2>1, SumZero
<1>3. QED
  BY <1>1, <1>2

(* The cells of Holding hold all that is required: the newest cell that holds *)
(* an nft is left out only when the older ones have enough of it.             *)
LEMMA HoldingCovers ==
  ASSUME CellsOK, NEW u \in Users, NEW w \in [Nfts -> Nat], Covers(u, w)
  PROVE  /\ Holding(u, w) \subseteq Of("nft", u) /\ Of("nft", u) \subseteq live
         /\ IsFiniteSet(Holding(u, w)) /\ Holding(u, w) \subseteq Cell
         /\ \A n \in Nfts : w[n] <= Total(Holding(u, w))[n]
<1> DEFINE all == Of("nft", u)
           older(c) == {d \in all : d.id < c.id}
           held == Holding(u, w)
<1>1. /\ held \subseteq all /\ all \subseteq live /\ IsFiniteSet(all) /\ all \subseteq Cell
      /\ IsFiniteSet(held) /\ held \subseteq Cell
  BY FS_Subset DEF Holding, Of, CellsOK
<1>2. ASSUME NEW n \in Nfts
      PROVE  w[n] <= Total(held)[n]
  <2> DEFINE needed == {c \in all : Total(older(c))[n] < w[n]}
             f == NftsAll(n)
  <2>1. Measure(f) /\ \A c \in Cell : f[c] = c.nfts[n]
    BY AllMeasure DEF NftsAll
  <2>2. \A S \in SUBSET all : Total(S)[n] = Sum(f, S) /\ Sum(f, S) \in Nat
    <3> SUFFICES ASSUME NEW S \in SUBSET all PROVE Total(S)[n] = Sum(f, S) /\ Sum(f, S) \in Nat
      OBVIOUS
    <3>1. S \subseteq Cell /\ IsFiniteSet(S)
      BY <1>1, FS_Subset
    <3>2. QED
      BY <2>1, <3>1, TotalIs, SumNat
  <2> HIDE DEF f
  <2>3. needed \subseteq all /\ IsFiniteSet(needed) /\ needed \subseteq Cell
    BY <1>1, FS_Subset
  <2>4. Sum(f, needed) <= Sum(f, held)
    <3> DEFINE rest == needed \ held
               both == needed \cap held
    <3>1. \A c \in rest : f[c] = 0
      <4> SUFFICES ASSUME NEW c \in rest PROVE f[c] = 0
        OBVIOUS
      <4>1. c \in Cell /\ c \in all /\ c \notin held /\ Total(older(c))[n] < w[n]
        BY <2>3
      <4>2. ~ (c.nfts[n] > 0)
        BY <4>1 DEF Holding
      <4>3. f[c] \in Nat /\ f[c] = c.nfts[n]
        BY <2>1, <4>1 DEF Measure
      <4>4. QED
        BY <4>2, <4>3
    <3>2. IsFiniteSet(rest) /\ IsFiniteSet(both) /\ needed = both \cup rest /\ both \cap rest = {}
      BY <2>3, FS_Subset
    <3>3. \A c \in both \cup rest : f[c] \in Int
      BY <2>1, <2>3, MeasureInt
    <3>4. both \subseteq held /\ both \in SUBSET all
      BY <1>1
    <3> HIDE DEF rest, both, held, needed
    <3>5. Sum(f, rest) = 0
      BY <3>1, <3>2, SumZero
    <3>6. Sum(f, both \cup rest) = Sum(f, both) + Sum(f, rest)
      BY <3>2, <3>3, SumUnion
    <3>7. Sum(f, both) <= Sum(f, held)
      BY <1>1, <2>1, <3>4, SumMonotonic
    <3>8. Sum(f, both) \in Nat
      BY <2>2, <3>4
    <3>9. QED
      BY <3>2, <3>5, <3>6, <3>7, <3>8
  <2>5. w[n] <= Sum(f, needed)
    <3>1. CASE needed = all
      <4>1. w[n] <= Total(all)[n]
        BY DEF Covers
      <4>2. QED
        BY <2>2, <3>1, <4>1
    <3>2. CASE needed # all
      <4> DEFINE late == all \ needed
      <4>1. late \subseteq Cell /\ IsFiniteSet(late) /\ late # {}
        BY <1>1, <2>3, <3>2, FS_Subset
      <4>2. First(late) # {}
        BY <4>1, Oldest
      <4>3. PICK c \in late : \A d \in late : c.id <= d.id
        BY <4>2 DEF First
      <4>4. c \in all /\ ~ (Total(older(c))[n] < w[n])
        BY <4>3
      <4>5. older(c) \subseteq needed
        <5> SUFFICES ASSUME NEW d \in older(c), d \in late PROVE FALSE
          OBVIOUS
        <5>1. d.id < c.id /\ c.id <= d.id /\ c.id \in Int /\ d.id \in Int
          BY <1>1, <4>3 DEF Cell
        <5>2. QED
          BY <5>1
      <4>6. older(c) \in SUBSET all
        OBVIOUS
      <4>7. Sum(f, older(c)) <= Sum(f, needed)
        BY <2>1, <2>3, <4>5, SumMonotonic
      <4>8. Total(older(c))[n] = Sum(f, older(c)) /\ Sum(f, older(c)) \in Nat
        BY <2>2, <4>6
      <4>9. Sum(f, needed) \in Nat /\ w[n] \in Nat
        BY <2>2, <2>3
      <4> HIDE DEF older, needed
      <4>10. QED
        BY <4>4, <4>7, <4>8, <4>9
    <3>3. QED
      BY <3>1, <3>2
  <2>6. Total(held)[n] = Sum(f, held) /\ Sum(f, held) \in Nat /\ Sum(f, needed) \in Nat /\ w[n] \in Nat
    BY <1>1, <2>2, <2>3
  <2>7. QED
    BY <2>4, <2>5, <2>6
<1>3. QED
  BY <1>1, <1>2

(* What comes back is what is left, so no nft is lost.                        *)
LEMMA BackIs ==
  ASSUME CellsOK, NEW u \in Users, NEW w \in [Nfts -> Nat], Covers(u, w),
         NEW in, in = Holding(u, w), NEW b, b = Back(u, in, w)
  PROVE  /\ in \subseteq live /\ in \subseteq Cell /\ IsFiniteSet(in)
         /\ \A c \in in : c.kind = "nft" /\ c.user = u
         /\ b \in Cell /\ b.user = u /\ b.kind \in {"plain", "nft"}
         /\ \A v, n : n \in Nfts => NftsIn(v, n)[b] = IF v = u THEN Total(in)[n] - w[n] ELSE 0
         /\ \A v, n : n \in Nfts => Sum(NftsIn(v, n), in) = IF v = u THEN Total(in)[n] ELSE 0
         /\ \A v : Sum(PackagesIn(v), in) = 0
         /\ \A n \in Nfts : Total(in)[n] \in Nat /\ w[n] \in Nat /\ w[n] <= Total(in)[n]
<1>1. /\ in \subseteq Of("nft", u) /\ in \subseteq live /\ IsFiniteSet(in) /\ in \subseteq Cell
      /\ \A n \in Nfts : w[n] <= Total(in)[n]
  BY HoldingCovers
<1>2. \A c \in in : c.kind = "nft" /\ c.user = u
  BY <1>1 DEF Of
<1>3. Total(in) \in [Nfts -> Nat]
  BY <1>1, TotalIs
<1>4. \A n \in Nfts : Total(in)[n] \in Nat /\ w[n] \in Nat /\ w[n] <= Total(in)[n]
  BY <1>1, <1>3
<1>5. Rest(in, w) \in [Nfts -> Nat] /\ \A n \in Nfts : Rest(in, w)[n] = Total(in)[n] - w[n]
  BY <1>4 DEF Rest
<1>6. Ckb(in) \in Nat
  BY <1>1, CkbSum
<1>7. b = NftCell(u, Ckb(in), Rest(in, w))
  BY DEF Back
<1>8. /\ b \in Cell /\ b.user = u /\ b.kind \in {"plain", "nft"}
      /\ \A v, n : n \in Nfts => NftsIn(v, n)[b] = IF v = u THEN Rest(in, w)[n] ELSE 0
  BY <1>5, <1>6, <1>7, NftCellIs, NftCellNfts
<1>9. \A v, n : n \in Nfts => NftsIn(v, n)[b] = IF v = u THEN Total(in)[n] - w[n] ELSE 0
  BY <1>5, <1>8
<1>10. \A v, n : n \in Nfts => Sum(NftsIn(v, n), in) = IF v = u THEN Total(in)[n] ELSE 0
  <2>1. in \subseteq Cell /\ IsFiniteSet(in) /\ \A c \in in : c.kind = "nft" /\ c.user = u
    BY <1>1, <1>2
  <2>2. ASSUME NEW v, NEW n \in Nfts
        PROVE  Sum(NftsIn(v, n), in) = IF v = u THEN Total(in)[n] ELSE 0
    <3>1. ASSUME NEW S, S \subseteq Cell, IsFiniteSet(S), \A c \in S : c.kind = "nft" /\ c.user = u
          PROVE  \A x, y : y \in Nfts => Sum(NftsIn(x, y), S) = IF x = u THEN Total(S)[y] ELSE 0
      BY <3>1, TotalOf, Zenon
    <3>2. QED
      BY <2>1, <3>1
  <2>3. QED
    BY <2>2
<1>11. \A v : Sum(PackagesIn(v), in) = 0
  BY <1>1, <1>2, NoPackages
<1>12. QED
  BY <1>1, <1>2, <1>4, <1>8, <1>9, <1>10, <1>11

(* Nfts discarded: they are gone, and no others.                              *)
LEMMA AddDiscard ==
  ASSUME CellsOK, NEW u \in Users, NEW w \in Wishes, Discard(u, w)
  PROVE  Added("discard")
<1> DEFINE in == Holding(u, w)
           b == Back(u, in, w)
           outs == <<b>>
           m == Main("discard", u, in, {}, outs, 0)
<1>1. Covers(u, w) /\ Build("discard", u, in, {}, outs, 0)
  BY DEF Discard
<1>2. /\ m.kind = "discard" /\ m.by = u /\ m.ins = in /\ m.deps = {} /\ m.outs = outs
      /\ m.packages = 0
  BY DEF Main
<1>3. w \in [Nfts -> Nat]
  BY StoreAssumption
<1>4. /\ in \subseteq live /\ in \subseteq Cell /\ IsFiniteSet(in)
      /\ \A c \in in : c.kind = "nft" /\ c.user = u
      /\ b \in Cell /\ b.user = u /\ b.kind \in {"plain", "nft"}
      /\ \A v, n : n \in Nfts => NftsIn(v, n)[b] = IF v = u THEN Total(in)[n] - w[n] ELSE 0
      /\ \A v, n : n \in Nfts => Sum(NftsIn(v, n), in) = IF v = u THEN Total(in)[n] ELSE 0
      /\ \A v : Sum(PackagesIn(v), in) = 0
      /\ \A n \in Nfts : Total(in)[n] \in Nat /\ w[n] \in Nat /\ w[n] <= Total(in)[n]
  BY <1>1, <1>3, BackIs, Zenon
<1> HIDE DEF in, b
<1>5. /\ outs \in Seq(Cell) /\ Len(outs) = 1 /\ DOMAIN outs = {1} /\ outs[1] = b
      /\ \A v : SumOut(PackagesIn(v), outs) = PackagesIn(v)[b]
      /\ \A v, n : n \in Nfts => SumOut(NftsIn(v, n), outs) = NftsIn(v, n)[b]
  BY <1>4, OneOut
<1> HIDE DEF outs, m
<1>6. m.by \in Keys /\ m.packages \in Nat /\ m.outs \in Seq(Cell) /\ Len(m.outs) \in 1 .. 2
  BY <1>2, <1>5 DEF Keys
<1>7. m.ins \subseteq live /\ m.deps \subseteq live /\ \A c \in m.ins : c.kind # "plain"
  BY <1>2, <1>4
<1>8. Owners(m) /\ OutsOK(m)
  <2>1. Owners(m)
    BY <1>2, <1>4, <1>5 DEF Owners
  <2>2. OutsOK(m)
    BY <1>2, <1>4, <1>5 DEF OutsOK, Special
  <2>3. QED
    BY <2>1, <2>2
<1>9. Packed(m)
  <2>1. \A v : SumOut(PackagesIn(v), outs) = 0
    BY <1>4, <1>5, NotStore
  <2>2. QED
    BY <1>2, <1>4, <2>1 DEF Packed
<1>10. Priced(m)
  BY <1>2, <1>4 DEF Priced
<1>11. Moved(m)
  <2>1. \A v \in Users, n \in Nfts :
          Sum(NftsIn(v, n), m.ins) = SumOut(NftsIn(v, n), m.outs) + IF v = u THEN w[n] ELSE 0
    <3>1. ASSUME NEW v \in Users, NEW n \in Nfts
          PROVE  Sum(NftsIn(v, n), in) = SumOut(NftsIn(v, n), outs) + IF v = u THEN w[n] ELSE 0
      <4>1. /\ Sum(NftsIn(v, n), in) = IF v = u THEN Total(in)[n] ELSE 0
            /\ SumOut(NftsIn(v, n), outs) = IF v = u THEN Total(in)[n] - w[n] ELSE 0
            /\ Total(in)[n] \in Nat /\ w[n] \in Nat
        BY <1>4, <1>5
      <4>2. QED
        BY <4>1
    <3>2. QED
      BY <1>2, <3>1
  <2>2. QED
    BY <1>2, <2>1 DEF Moved
<1>12. \A kind \in Special : ~ Makes(m, kind) /\ ~ \E c \in m.ins : c.kind = kind
  BY <1>2, <1>4, <1>5 DEF Makes, Special
<1>13. Sound(m)
  BY <1>6, <1>7, <1>8, <1>9, <1>10, <1>11, <1>12, Zenon DEF Sound
<1>14. QED
  BY <1>1, <1>13, AddedBy, Zenon DEF m, outs, b, in

(* Nfts sent: the receiver gains what the sender loses; a user who sends nfts to *)
(* the same user keeps them.                                                  *)
LEMMA AddTransfer ==
  ASSUME CellsOK, NEW u \in Users, NEW v \in Users, NEW w \in Wishes, Transfer(u, v, w)
  PROVE  Added("transfer")
<1> DEFINE in == Holding(u, w)
           a == NftCell(v, Exact(Count(w)), w)
           b == Back(u, in, w)
           outs == <<a, b>>
           m == Main("transfer", u, in, {}, outs, 0)
<1>1. Covers(u, w) /\ Build("transfer", u, in, {}, outs, 0)
  BY DEF Transfer
<1>2. /\ m.kind = "transfer" /\ m.by = u /\ m.ins = in /\ m.deps = {} /\ m.outs = outs
      /\ m.packages = 0
  BY DEF Main
<1>3. w \in [Nfts -> Nat]
  BY StoreAssumption
<1>4. /\ in \subseteq live /\ in \subseteq Cell /\ IsFiniteSet(in)
      /\ \A c \in in : c.kind = "nft" /\ c.user = u
      /\ b \in Cell /\ b.user = u /\ b.kind \in {"plain", "nft"}
      /\ \A x, n : n \in Nfts => NftsIn(x, n)[b] = IF x = u THEN Total(in)[n] - w[n] ELSE 0
      /\ \A x, n : n \in Nfts => Sum(NftsIn(x, n), in) = IF x = u THEN Total(in)[n] ELSE 0
      /\ \A x : Sum(PackagesIn(x), in) = 0
      /\ \A n \in Nfts : Total(in)[n] \in Nat /\ w[n] \in Nat /\ w[n] <= Total(in)[n]
  BY <1>1, <1>3, BackIs, Zenon
<1>5. /\ a \in Cell /\ a.user = v /\ a.kind \in {"plain", "nft"}
      /\ \A x, n : n \in Nfts => NftsIn(x, n)[a] = IF x = v THEN w[n] ELSE 0
  <2>1. Exact(Count(w)) \in Nat
    BY <1>3, CountNat, ExactNat
  <2>2. QED
    BY <1>3, <2>1, NftCellIs, NftCellNfts
<1> HIDE DEF in, a, b
<1>6. /\ outs \in Seq(Cell) /\ Len(outs) = 2 /\ DOMAIN outs = {1, 2}
      /\ outs[1] = a /\ outs[2] = b
      /\ \A x : SumOut(PackagesIn(x), outs) = PackagesIn(x)[a] + PackagesIn(x)[b]
      /\ \A x, n : n \in Nfts => SumOut(NftsIn(x, n), outs) = NftsIn(x, n)[a] + NftsIn(x, n)[b]
  BY <1>4, <1>5, TwoOuts
<1> HIDE DEF outs, m
<1>7. m.by \in Keys /\ m.packages \in Nat /\ m.outs \in Seq(Cell) /\ Len(m.outs) \in 1 .. 2
  BY <1>2, <1>6 DEF Keys
<1>8. m.ins \subseteq live /\ m.deps \subseteq live /\ \A c \in m.ins : c.kind # "plain"
  BY <1>2, <1>4
<1>9. Owners(m) /\ OutsOK(m)
  <2>1. Owners(m)
    BY <1>2, <1>4, <1>5, <1>6 DEF Owners, Special
  <2>2. OutsOK(m)
    BY <1>2, <1>4, <1>5, <1>6 DEF OutsOK, Special
  <2>3. QED
    BY <2>1, <2>2
<1>10. Packed(m)
  <2>1. \A x : SumOut(PackagesIn(x), outs) = 0
    BY <1>4, <1>5, <1>6, NotStore
  <2>2. QED
    BY <1>2, <1>4, <2>1 DEF Packed
<1>11. Priced(m)
  BY <1>2, <1>4 DEF Priced
<1>12. Moved(m)
  <2>1. ASSUME NEW x \in Users, NEW n \in Nfts
        PROVE  /\ Sum(NftsIn(x, n), in) = IF x = u THEN Total(in)[n] ELSE 0
               /\ SumOut(NftsIn(x, n), outs)
                    = (IF x = v THEN w[n] ELSE 0) + (IF x = u THEN Total(in)[n] - w[n] ELSE 0)
               /\ Total(in)[n] \in Nat /\ w[n] \in Nat
    BY <1>4, <1>5, <1>6
  <2>2. CASE u = v
    <3>1. ASSUME NEW x \in Users, NEW n \in Nfts
          PROVE  SumOut(NftsIn(x, n), outs) = Sum(NftsIn(x, n), in)
      BY <2>1, <2>2
    <3>2. QED
      BY <1>2, <3>1 DEF Moved
  <2>3. CASE u # v
    <3>1. ASSUME NEW x \in Users, NEW n \in Nfts
          PROVE  Sum(NftsIn(x, n), in) + (IF x = v THEN w[n] ELSE 0)
                   = SumOut(NftsIn(x, n), outs) + IF x = u THEN w[n] ELSE 0
      BY <2>1, <2>3
    <3>2. \A x \in Users, n \in Nfts :
            Sum(NftsIn(x, n), m.ins) + (IF x = v THEN w[n] ELSE 0)
              = SumOut(NftsIn(x, n), m.outs) + IF x = u THEN w[n] ELSE 0
      BY <1>2, <3>1
    <3>3. QED
      BY <2>3, <3>2, Zenon DEF Moved
  <2>4. QED
    BY <2>2, <2>3
<1>13. \A kind \in Special : ~ Makes(m, kind) /\ ~ \E c \in m.ins : c.kind = kind
  BY <1>2, <1>4, <1>5, <1>6 DEF Makes, Special
<1>14. Sound(m)
  BY <1>7, <1>8, <1>9, <1>10, <1>11, <1>12, <1>13, Zenon DEF Sound
<1>15. QED
  BY <1>1, <1>14, AddedBy, Zenon DEF m, outs, a, b, in
--------------------------------------------------------------------------------
(* What stays true of a transaction while no cell changes.                    *)
LEMMA TxKept ==
  ASSUME UNCHANGED <<live, txs>>, NEW tx, TxOK(tx)
  PROVE  TxOK(tx)'
<1>1. TxType(tx)' /\ Owners(tx)' /\ OutsOK(tx)'
  BY DEF TxOK, TxType, Newest, Owners, OutsOK
<1>2. Replaces(tx)'
  BY DEF TxOK, Replaces, Live, Of, First, Makes
<1>3. Paying(tx)' /\ Packed(tx)' /\ Priced(tx)' /\ Moved(tx)'
  BY DEF TxOK, Paying, Packed, Priced, Moved
<1>4. QED
  BY <1>1, <1>2, <1>3 DEF TxOK

(* Building keeps the invariant.                                              *)
LEMMA BuildStep ==
  ASSUME Core, NEW kind, Added(kind)
  PROVE  /\ Core' /\ UNCHANGED <<live, txs, bought, revealed>>
         /\ \E tx : tx.kind = kind /\ pool' = pool \cup {tx}
<1>1. PICK m, tx : /\ Sound(m) /\ Takes(tx, m) /\ m.kind = kind
                   /\ pool' = pool \cup {tx} /\ UNCHANGED <<live, txs, bought, revealed>>
  BY DEF Added
<1>2. CellsOK /\ \A t \in pool : TxOK(t)
  BY DEF Core
<1>3. TxOK(tx) /\ tx.kind = kind
  BY <1>1, <1>2, SoundTx DEF Takes, Built
<1>4. ASSUME NEW t \in pool'
      PROVE  TxOK(t)'
  <2>1. TxOK(t)
    BY <1>1, <1>2, <1>3
  <2>2. QED
    BY <1>1, <2>1, TxKept
<1>5. (txs \in Nat)' /\ CellsOK' /\ Sole'
  BY <1>1 DEF Core, CellsOK, Sole, Newest
<1>6. QED
  BY <1>1, <1>3, <1>4, <1>5 DEF Core
--------------------------------------------------------------------------------
(* The ids: what is made is newer than all there is.                          *)
LEMMA LongestNat ==
  /\ Max({Len(Wallet[u]) : u \in Keys}) \in Nat
  /\ \A v \in Keys : Len(Wallet[v]) <= Max({Len(Wallet[u]) : u \in Keys})
<1> DEFINE S == {Len(Wallet[u]) : u \in Keys}
           h == [u \in Keys |-> - Len(Wallet[u])]
<1>1. \A u \in Keys : Len(Wallet[u]) \in Nat /\ h[u] = - Len(Wallet[u])
  BY StoreAssumption
<1>2. S \subseteq Nat
  BY <1>1
<1>3. IsFiniteSet(Keys) /\ Keys # {}
  <2>1. IsFiniteSet(Users) /\ IsFiniteSet({Composer})
    BY StoreAssumption, FS_Singleton
  <2>2. IsFiniteSet(Keys)
    BY <2>1, FS_Union DEF Keys
  <2>3. QED
    BY <2>2 DEF Keys
<1> HIDE DEF h
<1>4. PICK k \in Keys : \A u \in Keys : h[k] <= h[u]
  <2>1. \A u \in Keys : h[u] \in Int
    BY <1>1
  <2>2. QED
    BY <1>3, <2>1, LeastOf
<1>5. \A u \in Keys : Len(Wallet[k]) >= Len(Wallet[u])
  BY <1>1, <1>4
<1>6. Len(Wallet[k]) \in S /\ \A y \in S : Len(Wallet[k]) >= y
  BY <1>5
<1> DEFINE longest == Max(S)
<1>7. longest = CHOOSE z \in S : \A y \in S : z >= y
  BY Zenon DEF Max
<1> HIDE DEF longest
<1>8. longest \in S /\ \A y \in S : longest >= y
  BY <1>5, <1>6, <1>7, Zenon
<1>10. \A u \in Keys : Len(Wallet[u]) <= longest
  BY <1>8
<1>11. longest \in Nat
  BY <1>2, <1>8
<1>12. QED
  BY <1>10, <1>11 DEF longest

LEMMA NewestGrows ==
  ASSUME txs \in Nat, txs' = txs + 1
  PROVE  Newest' = Newest + 3 /\ Newest \in Int /\ Newest <= Newest' /\ Newest' \in Int
<1> DEFINE longest == Max({Len(Wallet[u]) : u \in Keys})
<1>1. Newest = longest + 3 * txs /\ Newest' = longest + 3 * txs'
  BY DEF Newest
<1>2. longest \in Nat
  BY LongestNat
<1> HIDE DEF longest
<1>3. QED
  BY <1>1, <1>2

LEMMA NewestNat ==
  ASSUME txs \in Nat
  PROVE  /\ Newest \in Int
         /\ \A u \in Keys : Len(Wallet[u]) <= Newest
<1> DEFINE longest == Max({Len(Wallet[u]) : u \in Keys})
<1>1. Newest = longest + 3 * txs
  BY DEF Newest
<1>2. longest \in Nat /\ \A u \in Keys : Len(Wallet[u]) <= longest /\ Len(Wallet[u]) \in Nat
  BY LongestNat, StoreAssumption
<1> HIDE DEF longest
<1>3. QED
  BY <1>1, <1>2

(* The cells a transaction makes, when the chain takes it.                    *)
NewCell(tx, seed, i) == [tx.outs[i] EXCEPT !.id = Newest + i, !.seed = seed]

LEMMA NewCellIs ==
  ASSUME txs \in Nat, NEW tx, tx.outs \in Seq(Cell), NEW seed \in Seq(Nat), NEW i \in DOMAIN tx.outs
  PROVE  LET c == NewCell(tx, seed, i) IN
         /\ i \in Nat /\ tx.outs[i] \in Cell
         /\ c \in Cell /\ c.id = Newest + i /\ c.id > Newest /\ c.id <= Newest + Len(tx.outs)
         /\ c.seed = seed
         /\ c.kind = tx.outs[i].kind /\ c.user = tx.outs[i].user /\ c.ckb = tx.outs[i].ckb
         /\ c.config = tx.outs[i].config /\ c.packages = tx.outs[i].packages
         /\ \A f : Measure(f) => f[c] = f[tx.outs[i]] /\ f[c] \in Nat
<1> DEFINE o == tx.outs[i]
           k == Newest + i
           c == NewCell(tx, seed, i)
           last == Len(tx.outs)
<1>2. i \in 1 .. last /\ last \in Nat /\ o \in Cell
  OBVIOUS
<1>3. k \in Int /\ k > Newest /\ k <= Newest + last /\ k = Newest + i
  BY <1>2, NewestNat
<1>4. c = [o EXCEPT !.id = k, !.seed = seed]
  BY DEF NewCell
<1> HIDE DEF o, k, c, last
<1>5. DOMAIN o = {"id", "seed", "kind", "user", "ckb", "config", "packages", "nfts"}
  BY <1>2 DEF Cell
<1>6. c \in Cell
  BY <1>2, <1>3, <1>4 DEF Cell
<1>7. c.id = k /\ c.seed = seed /\ c.kind = o.kind /\ c.user = o.user /\ c.ckb = o.ckb
      /\ c.config = o.config /\ c.packages = o.packages
  BY <1>4, <1>5
<1>8. \A f : Measure(f) => f[c] = f[o] /\ f[c] \in Nat
  BY <1>2, <1>3, <1>4, <1>6 DEF Measure
<1>9. QED
  BY <1>2, <1>3, <1>6, <1>7, <1>8 DEF o, c, last

(* They count as its outputs do.                                              *)
LEMMA CreatedSum ==
  ASSUME txs \in Nat, NEW tx, tx.outs \in Seq(Cell), NEW seed \in Seq(Nat), NEW f, Measure(f)
  PROVE  /\ IsFiniteSet(Created(tx, seed))
         /\ Sum(f, Created(tx, seed)) = SumOut(f, tx.outs)
<1> DEFINE S == DOMAIN tx.outs
           h == [i \in S |-> NewCell(tx, seed, i)]
           g == [i \in S |-> f[tx.outs[i]]]
<1>2. IsFiniteSet(S)
  BY OutsFinite
<1>3. ASSUME NEW i \in S
      PROVE  h[i].id = Newest + i /\ i \in Nat /\ f[h[i]] = g[i] /\ g[i] \in Int
  <2>1. h[i] = NewCell(tx, seed, i) /\ g[i] = f[tx.outs[i]]
    OBVIOUS
  <2>2. NewCell(tx, seed, i).id = Newest + i /\ i \in Nat
    BY NewCellIs, Zenon
  <2>3. f[NewCell(tx, seed, i)] = f[tx.outs[i]] /\ f[NewCell(tx, seed, i)] \in Nat
    BY NewCellIs, Zenon
  <2> HIDE DEF h, g
  <2>4. QED
    BY <2>1, <2>2, <2>3
<1>4. Created(tx, seed) = {h[i] : i \in S}
  BY DEF Created, NewCell
<1>5. SumOut(f, tx.outs) = Sum(g, S)
  BY Zenon DEF SumOut
<1> HIDE DEF h, g, S
<1>6. \A i, j \in S : h[i] = h[j] => i = j
  <2>1. Newest \in Int
    BY NewestNat
  <2>2. QED
    BY <1>3, <2>1
<1>7. QED
  BY <1>2, <1>3, <1>4, <1>5, <1>6, SumImage

(* The cells after a transaction is taken.                                    *)
After(ins, tx, seed) == (live \ ins) \cup Created(tx, seed)

LEMMA AfterIs ==
  ASSUME txs \in Nat, CellsOK, NEW ins, NEW tx, tx.outs \in Seq(Cell), NEW seed \in Seq(Nat)
  PROVE  /\ After(ins, tx, seed) \subseteq Cell /\ IsFiniteSet(After(ins, tx, seed))
         /\ Created(tx, seed) \subseteq Cell
         /\ IsFiniteSet(Created(tx, seed)) /\ Created(tx, seed) \cap live = {}
         /\ Newest \in Int /\ \A c \in live : c.id <= Newest /\ c.id \in Int
         /\ \A c \in Created(tx, seed) : /\ c.id > Newest /\ c.id <= Newest + Len(tx.outs)
                                          /\ c.id \in Int
<1>1. Newest \in Int
  BY NewestNat
<1>2. ASSUME NEW c \in Created(tx, seed)
      PROVE  /\ c \in Cell /\ c.id > Newest /\ c.id <= Newest + Len(tx.outs)
             /\ c.id \in Int
  <2>1. PICK i \in DOMAIN tx.outs : c = NewCell(tx, seed, i)
    BY DEF Created, NewCell
  <2>2. c \in Cell /\ c.id > Newest /\ c.id <= Newest + Len(tx.outs)
    BY <2>1, NewCellIs, Zenon
  <2>3. QED
    BY <2>2 DEF Cell
<1>3. \A c \in live : c.id <= Newest /\ c.id \in Int
  BY DEF CellsOK, Cell
<1>4. Created(tx, seed) \cap live = {}
  BY <1>1, <1>2, <1>3
<1>5. IsFiniteSet(Created(tx, seed))
  BY CreatedSum, CkbMeasure
<1>6. IsFiniteSet(After(ins, tx, seed))
  <2>1. IsFiniteSet(live \ ins)
    BY FS_Subset DEF CellsOK
  <2>2. QED
    BY <1>5, <2>1, FS_Union DEF After
<1>7. After(ins, tx, seed) \subseteq Cell /\ Created(tx, seed) \subseteq Cell
  BY <1>2 DEF After, CellsOK
<1>8. QED
  BY <1>1, <1>2, <1>3, <1>4, <1>5, <1>6, <1>7

(* What can be counted, changes by what the transaction takes and gives.      *)
LEMMA CommitSum ==
  ASSUME txs \in Nat, CellsOK, NEW ins, ins \subseteq live, NEW tx, tx.outs \in Seq(Cell),
         NEW seed \in Seq(Nat), NEW f, Measure(f)
  PROVE  /\ Sum(f, After(ins, tx, seed)) = Sum(f, live) - Sum(f, ins) + SumOut(f, tx.outs)
         /\ Sum(f, After(ins, tx, seed)) \in Nat /\ Sum(f, live) \in Nat /\ Sum(f, ins) \in Nat
         /\ SumOut(f, tx.outs) \in Nat /\ Sum(f, ins) <= Sum(f, live)
<1> DEFINE rest == live \ ins
           new == Created(tx, seed)
           after == After(ins, tx, seed)
<1>1. live \subseteq Cell /\ IsFiniteSet(live) /\ IsFiniteSet(ins)
  BY FS_Subset DEF CellsOK
<1>2. /\ after = rest \cup new /\ rest \cap new = {} /\ IsFiniteSet(new)
      /\ IsFiniteSet(rest) /\ after \subseteq Cell /\ IsFiniteSet(after)
  BY <1>1, AfterIs, FS_Subset DEF After
<1>3. live = rest \cup ins /\ rest \cap ins = {}
  OBVIOUS
<1>4. Sum(f, new) = SumOut(f, tx.outs)
  BY CreatedSum
<1> HIDE DEF rest, new, after
<1>5. /\ \A c \in rest \cup new : f[c] \in Int
      /\ \A c \in rest \cup ins : f[c] \in Int
  BY <1>1, <1>2, <1>3, MeasureInt
<1>6. Sum(f, rest \cup new) = Sum(f, rest) + Sum(f, new)
  BY <1>2, <1>5, SumUnion
<1>7. Sum(f, rest \cup ins) = Sum(f, rest) + Sum(f, ins)
  BY <1>1, <1>2, <1>3, <1>5, SumUnion
<1>8. /\ Sum(f, after) \in Nat /\ Sum(f, live) \in Nat /\ Sum(f, ins) \in Nat
      /\ Sum(f, rest) \in Nat /\ SumOut(f, tx.outs) \in Nat
  <2>1. rest \subseteq Cell /\ ins \subseteq Cell
    BY <1>1, <1>3
  <2>2. QED
    BY <1>1, <1>2, <2>1, SumNat, SumOutNat
<1>9. QED
  BY <1>2, <1>3, <1>4, <1>6, <1>7, <1>8 DEF after
--------------------------------------------------------------------------------
(* The chain takes a transaction.                                             *)
Taking(tx, seed) ==
  /\ tx \in pool /\ Live(tx) /\ seed \in Seq(Nat)
  /\ tx.kind = "purchase" => seed \in Seeds
  /\ live' = After(tx.ins, tx, seed)
  /\ pool' = pool \ {tx}
  /\ txs' = txs + 1
  /\ bought' = [u \in Users |->
       bought[u] + IF tx.kind = "purchase" /\ tx.by = u THEN tx.packages ELSE 0]
  /\ revealed' = [u \in Users |->
       revealed[u] + IF tx.kind = "reveal" /\ tx.by = u THEN tx.packages ELSE 0]

LEMMA CommitTakes ==
  ASSUME NEW tx \in pool, Commit(tx)
  PROVE  \E seed : Taking(tx, seed)
<1>1. PICK seed \in IF tx.kind = "purchase" THEN Seeds ELSE {<< >>} :
        live' = (live \ tx.ins) \cup Created(tx, seed)
  BY DEF Commit
<1>2. << >> \in Seq(Nat) /\ Seeds \subseteq Seq(Nat)
  BY StoreAssumption
<1>3. seed \in Seq(Nat) /\ (tx.kind = "purchase" => seed \in Seeds)
  BY <1>1, <1>2
<1>4. QED
  BY <1>1, <1>3 DEF Commit, Taking, After

LEMMA CreatedFrom ==
  ASSUME txs \in Nat, NEW tx, tx.outs \in Seq(Cell), NEW seed \in Seq(Nat), NEW c \in Created(tx, seed)
  PROVE  \E i \in DOMAIN tx.outs :
           /\ c = NewCell(tx, seed, i) /\ c.seed = seed
           /\ c.kind = tx.outs[i].kind /\ c.user = tx.outs[i].user /\ c.ckb = tx.outs[i].ckb
           /\ c.config = tx.outs[i].config /\ c.packages = tx.outs[i].packages
<1>1. PICK i \in DOMAIN tx.outs : c = NewCell(tx, seed, i)
  BY DEF Created, NewCell
<1>2. QED
  BY <1>1, NewCellIs, Zenon

LEMMA TakenIs ==
  ASSUME Core, NEW tx, NEW seed, Taking(tx, seed)
  PROVE  /\ TxOK(tx) /\ TxType(tx) /\ tx.outs \in Seq(Cell) /\ Len(tx.outs) <= 3 /\ Owners(tx) /\ OutsOK(tx) /\ Replaces(tx)
         /\ tx.ins \subseteq live /\ tx.deps \subseteq live /\ seed \in Seq(Nat)
         /\ live' = (live \ tx.ins) \cup Created(tx, seed)
<1>1. TxOK(tx) /\ Live(tx) /\ seed \in Seq(Nat) /\ live' = After(tx.ins, tx, seed)
  BY DEF Core, Taking
<1>2. tx.outs \in Seq(Cell) /\ Len(tx.outs) <= 3
  <2>1. tx.outs \in Seq(Cell) /\ Len(tx.outs) \in 1 .. 3
    BY <1>1, Zenon DEF TxOK, TxType
  <2> DEFINE n == Len(tx.outs)
  <2>2. n \in 1 .. 3
    BY <2>1
  <2> HIDE DEF n
  <2>3. n <= 3
    BY <2>2
  <2>4. QED
    BY <2>1, <2>3 DEF n
<1>3. QED
  BY <1>1, <1>2 DEF TxOK, Live, After

(* The parts of the invariant, each kept when a transaction is taken.         *)
LEMMA CellsKept ==
  ASSUME Core, NEW tx, NEW seed, Taking(tx, seed)
  PROVE  CellsOK'
<1>1. /\ tx.outs \in Seq(Cell) /\ Len(tx.outs) <= 3 /\ OutsOK(tx) /\ seed \in Seq(Nat)
      /\ live' = (live \ tx.ins) \cup Created(tx, seed)
  BY TakenIs
<1>2. /\ live' = After(tx.ins, tx, seed) /\ txs' = txs + 1 /\ CellsOK /\ txs \in Nat
      /\ tx.kind = "purchase" => seed \in Seeds
  BY DEF Taking, Core
<1>3. Newest' = Newest + 3 /\ Newest \in Int
  BY <1>2, NewestGrows
<1>4. /\ live' \subseteq Cell /\ IsFiniteSet(live')
      /\ \A c \in live : c.id <= Newest /\ c.id \in Int
      /\ \A c \in Created(tx, seed) : c.id > Newest /\ c.id <= Newest + 3
  <2>1. Len(tx.outs) \in Nat /\ Len(tx.outs) <= 3
    BY <1>1
  <2>2. /\ live' \subseteq Cell /\ IsFiniteSet(live')
        /\ \A c \in live : c.id <= Newest /\ c.id \in Int
        /\ \A c \in Created(tx, seed) : /\ c.id > Newest /\ c.id <= Newest + Len(tx.outs)
                                         /\ c.id \in Int
    BY <1>1, <1>2, AfterIs
  <2>3. \A c \in Created(tx, seed) : c.id <= Newest + 3
    BY <1>3, <2>1, <2>2
  <2>4. QED
    BY <2>2, <2>3
<1>5. ASSUME NEW c \in live'
      PROVE  /\ c.id <= Newest'
             /\ c.kind = "config" => c.user = Composer /\ c.config \in Configs /\ Valid(c.config)
             /\ c.kind = "store" => c.user \in Users
             /\ c.kind = "store" /\ c.packages > 0 => c.seed \in Seeds /\ c.packages \in Counts
  <2>1. CASE c \in live
    BY <1>2, <1>3, <1>4, <2>1 DEF CellsOK
  <2>2. CASE c \in Created(tx, seed)
    <3>1. PICK i \in DOMAIN tx.outs :
           /\ c.seed = seed
           /\ c.kind = tx.outs[i].kind /\ c.user = tx.outs[i].user
           /\ c.config = tx.outs[i].config /\ c.packages = tx.outs[i].packages
      BY <1>1, <1>2, <2>2, CreatedFrom
    <3>2. c.id <= Newest'
      BY <1>3, <1>4, <2>2
    <3>3. /\ tx.outs[i].kind = "config" =>
               tx.outs[i].user = Composer /\ tx.outs[i].config \in Configs /\ Valid(tx.outs[i].config)
          /\ tx.outs[i].kind = "store" => tx.outs[i].user \in Users
          /\ tx.outs[i].kind = "store" /\ tx.outs[i].packages > 0 =>
               tx.kind = "purchase" /\ tx.outs[i].packages \in Counts
      BY <1>1, Zenon DEF OutsOK
    <3>4. QED
      BY <1>2, <3>1, <3>2, <3>3
  <2>3. QED
    BY <1>1, <2>1, <2>2
<1>6. QED
  BY <1>4, <1>5 DEF CellsOK

(* A special cell is made by the user it is of, and the old one is spent.     *)
LEMMA NewSpecial ==
  ASSUME Core, NEW tx, NEW seed, Taking(tx, seed),
         NEW c \in Created(tx, seed), c.kind \in Special
  PROVE  c.user = tx.by /\ Makes(tx, c.kind) /\ Of(c.kind, tx.by) \subseteq tx.ins
<1>1. tx.outs \in Seq(Cell) /\ Owners(tx) /\ Replaces(tx) /\ seed \in Seq(Nat) /\ Live(tx)
      /\ txs \in Nat
  BY TakenIs DEF Taking, Core
<1>2. PICK i \in DOMAIN tx.outs : c.kind = tx.outs[i].kind /\ c.user = tx.outs[i].user
  BY <1>1, CreatedFrom
<1>3. c.user = tx.by
  BY <1>1, <1>2 DEF Owners
<1>4. Makes(tx, c.kind)
  BY <1>2 DEF Makes
<1>5. QED
  BY <1>1, <1>3, <1>4 DEF Replaces

(* So there is no second one.                                                 *)
LEMMA SoleKept ==
  ASSUME Core, NEW tx, NEW seed, Taking(tx, seed)
  PROVE  Sole'
<1>1. /\ tx.outs \in Seq(Cell) /\ Len(tx.outs) <= 3 /\ OutsOK(tx) /\ seed \in Seq(Nat)
      /\ live' = (live \ tx.ins) \cup Created(tx, seed)
  BY TakenIs
<1>2. ASSUME NEW c \in live \ tx.ins, NEW d \in Created(tx, seed),
             c.kind \in Special, c.kind = d.kind, c.user = d.user
      PROVE  FALSE
  <2>1. d.user = tx.by /\ Of(d.kind, tx.by) \subseteq tx.ins
    BY <1>2, NewSpecial
  <2>2. c \in Of(d.kind, tx.by)
    BY <1>2, <2>1 DEF Of
  <2>3. QED
    BY <1>2, <2>1, <2>2
<1>3. ASSUME NEW c \in Created(tx, seed), NEW d \in Created(tx, seed),
             c.kind \in Special, c.kind = d.kind
      PROVE  c = d
  <2>1. PICK i \in DOMAIN tx.outs : c = NewCell(tx, seed, i) /\ c.kind = tx.outs[i].kind
    BY <1>1, CreatedFrom DEF Core
  <2>2. PICK j \in DOMAIN tx.outs : d = NewCell(tx, seed, j) /\ d.kind = tx.outs[j].kind
    BY <1>1, CreatedFrom DEF Core
  <2>3. i = j
    BY <1>1, <1>3, <2>1, <2>2 DEF OutsOK
  <2>4. QED
    BY <2>1, <2>2, <2>3
<1>4. ASSUME NEW c \in live', NEW d \in live', c.kind \in Special, c.kind = d.kind, c.user = d.user
      PROVE  c = d
  <2>1. CASE c \in live \ tx.ins /\ d \in live \ tx.ins
    BY <1>4, <2>1 DEF Core, Sole
  <2>2. QED
    BY <1>1, <1>2, <1>3, <1>4, <2>1
<1>5. QED
  BY <1>4 DEF Sole

(* And the others of the pool can only be taken while what they replace is what *)
(* there is: had this transaction made a special cell of the same user, they  *)
(* would spend a cell in common.                                              *)
LEMMA ReplacesKept ==
  ASSUME Core, NEW tx, NEW seed, Taking(tx, seed), NEW t \in pool, Live(t)',
         NEW kind \in Special, Makes(t, kind)
  PROVE  /\ Of(kind, t.by)' \subseteq t.ins
         /\ Of(kind, t.by)' = {} =>
              First(Of("plain", t.by)') # {} /\ First(Of("plain", t.by)') \subseteq t.ins
<1>1. /\ tx.outs \in Seq(Cell) /\ Replaces(tx) /\ seed \in Seq(Nat) /\ Live(tx)
      /\ live' = (live \ tx.ins) \cup Created(tx, seed) /\ tx.ins \subseteq live
  BY TakenIs DEF Taking
<1>2. TxType(t) /\ Replaces(t)
  BY DEF Core, TxOK
<1>3. /\ \A c \in live : c.id <= Newest /\ c.id \in Int
      /\ \A c \in Created(tx, seed) : c.id > Newest /\ c.id \in Int
      /\ Newest \in Int
  BY <1>1, AfterIs DEF Core
<1>4. t.ins \cup t.deps \subseteq live \ tx.ins
  <2>1. \A c \in t.ins \cup t.deps : c.id <= Newest /\ c \in live'
    BY <1>2 DEF TxType, Live
  <2>2. \A c \in Created(tx, seed) : ~ c.id <= Newest
    BY <1>3
  <2>3. QED
    BY <1>1, <2>1, <2>2
<1>5. /\ Of(kind, t.by) \subseteq t.ins
      /\ Of(kind, t.by) = {} =>
           First(Of("plain", t.by)) # {} /\ First(Of("plain", t.by)) \subseteq t.ins
  BY <1>2, <1>4 DEF Replaces, Live
<1>6. ASSUME NEW c \in Of(kind, t.by)', c \in Created(tx, seed)
      PROVE  FALSE
  <2>1. c.kind = kind /\ c.user = t.by
    BY DEF Of
  <2>2. c.user = tx.by /\ Makes(tx, kind) /\ Of(kind, tx.by) \subseteq tx.ins
    BY <1>6, <2>1, NewSpecial
  <2>3. t.by = tx.by
    BY <2>1, <2>2
  <2>4. Of(kind, tx.by) = {} =>
          First(Of("plain", tx.by)) # {} /\ First(Of("plain", tx.by)) \subseteq tx.ins
    BY <1>1, <2>2 DEF Replaces
  <2>5. QED
    BY <1>4, <1>5, <2>2, <2>3, <2>4
<1>7. Of(kind, t.by)' \subseteq Of(kind, t.by)
  BY <1>1, <1>6 DEF Of
<1>8. ASSUME Of(kind, t.by)' = {}
      PROVE  First(Of("plain", t.by)') # {} /\ First(Of("plain", t.by)') \subseteq t.ins
  <2> DEFINE old == Of("plain", t.by)
             new == Of("plain", t.by)'
  <2>1. Of(kind, t.by) = {}
    <3>1. \A c \in Of(kind, t.by) : c \in live'
      BY <1>1, <1>4, <1>5
    <3>2. QED
      BY <1>8, <3>1 DEF Of
  <2>2. PICK o \in First(old) : o \in t.ins
    BY <1>5, <2>1
  <2>3. o \in old /\ \A c \in old : o.id <= c.id
    BY <2>2 DEF First
  <2>4. o \in live \ tx.ins
    BY <1>4, <2>2
  <2>5. o \in new
    BY <1>1, <2>3, <2>4 DEF Of
  <2>6. \A c \in new : c \in old \/ c \in Created(tx, seed)
    BY <1>1 DEF Of
  <2>7. \A c \in new : o.id <= c.id /\ (c \in Created(tx, seed) => ~ c.id <= o.id)
    BY <1>3, <2>3, <2>4, <2>6
  <2>8. old \subseteq live
    BY DEF Of
  <2> HIDE DEF old, new
  <2>9. o \in First(new)
    BY <2>5, <2>7 DEF First
  <2>10. ASSUME NEW c \in First(new)
         PROVE  c \in t.ins
    <3>1. c \in new /\ c.id <= o.id
      BY <2>5 DEF First
    <3>2. c \in old
      BY <2>6, <2>7, <3>1
    <3>3. \A d \in old : c.id <= d.id
      BY <1>3, <2>3, <2>4, <2>8, <3>1, <3>2
    <3>4. c \in First(old)
      BY <3>2, <3>3 DEF First
    <3>5. QED
      BY <1>5, <2>1, <3>4 DEF old
  <2>11. QED
    BY <2>9, <2>10 DEF new
<1>9. QED
  BY <1>5, <1>7, <1>8

LEMMA PoolKept ==
  ASSUME Core, NEW tx, NEW seed, Taking(tx, seed), NEW t \in pool'
  PROVE  TxOK(t)'
<1>1. t \in pool /\ TxOK(t) /\ txs \in Nat /\ txs' = txs + 1
  BY DEF Taking, Core
<1>2. Newest <= Newest' /\ Newest \in Int /\ Newest' \in Int
  BY <1>1, NewestGrows
<1>3. TxType(t)'
  <2>1. \A c \in t.ins \cup t.deps : c.id \in Int /\ c.id <= Newest
    BY <1>1 DEF TxOK, TxType, Cell
  <2>2. \A c \in t.ins \cup t.deps : c.id <= Newest'
    BY <1>2, <2>1
  <2>3. QED
    BY <1>1, <2>2 DEF TxOK, TxType
<1>4. Owners(t)' /\ OutsOK(t)'
  BY <1>1 DEF TxOK, Owners, OutsOK
<1>5. Replaces(t)'
  <2>1. \A kind \in Special : (\E c \in t.ins : c.kind = kind) => Makes(t, kind)
    BY <1>1 DEF TxOK, Replaces
  <2>2. ASSUME NEW kind \in Special, Live(t)', Makes(t, kind)
        PROVE  /\ Of(kind, t.by)' \subseteq t.ins
               /\ Of(kind, t.by)' = {} =>
                    First(Of("plain", t.by)') # {} /\ First(Of("plain", t.by)') \subseteq t.ins
    BY <1>1, <2>2, ReplacesKept
  <2>3. QED
    BY <2>1, <2>2 DEF Replaces, Makes, First
<1>6. Paying(t)' /\ Packed(t)' /\ Priced(t)' /\ Moved(t)'
  BY <1>1 DEF TxOK, Paying, Packed, Priced, Moved
<1>7. QED
  BY <1>3, <1>4, <1>5, <1>6 DEF TxOK
--------------------------------------------------------------------------------
(* The packages in a user's store, by measures.                               *)
LEMMA PackagesOf ==
  ASSUME NEW S, S \subseteq Cell, IsFiniteSet(S), NEW u,
         NEW R, R = {c \in S : c.kind = "store" /\ c.user = u}
  PROVE  SumFunction([s \in R |-> s.packages]) = Sum(PackagesIn(u), S)
<1> DEFINE g == [s \in R |-> s.packages]
           f == PackagesIn(u)
           rest == S \ R
<1>1. SumFunction(g) = Sum(g, R)
  BY Zenon DEF Sum, SumFunction
<1>2. \A s \in R : g[s] = f[s]
  BY DEF PackagesIn
<1>3. \A s \in rest : f[s] = 0
  BY DEF PackagesIn
<1>4. S = R \cup rest /\ R \cap rest = {} /\ R \subseteq Cell /\ IsFiniteSet(R) /\ IsFiniteSet(rest)
  BY FS_Subset
<1>5. Measure(f)
  BY PackagesMeasure
<1> HIDE DEF g, f, rest
<1>6. \A s \in R \cup rest : f[s] \in Int
  BY <1>4, <1>5, MeasureInt
<1>7. Sum(f, R \cup rest) = Sum(f, R) + Sum(f, rest)
  BY <1>4, <1>6, SumUnion
<1>8. Sum(f, rest) = 0
  BY <1>3, <1>4, SumZero
<1>9. Sum(g, R) = Sum(f, R)
  BY <1>2, <1>4, SumSame
<1>10. Sum(f, R) \in Nat
  BY <1>4, <1>5, SumNat
<1>11. SumFunction(g) = Sum(f, S)
  <2>1. Sum(f, R \cup rest) = Sum(f, R)
    BY <1>7, <1>8, <1>10
  <2>2. Sum(f, S) = Sum(f, R \cup rest)
    BY <1>4
  <2>3. QED
    BY <1>1, <1>9, <2>1, <2>2
<1>12. QED
  BY <1>11 DEF g, f

LEMMA CkbKept ==
  ASSUME StoreInv, NEW tx, NEW seed, Taking(tx, seed)
  PROVE  CkbAccounted'
<1> DEFINE all == SumFunction([u \in Keys |-> SumFunction(Wallet[u])])
<1>1. Core /\ tx.outs \in Seq(Cell) /\ Paying(tx) /\ seed \in Seq(Nat) /\ tx.ins \subseteq live
  BY TakenIs DEF TxOK, StoreInv
<1>2. /\ live' = After(tx.ins, tx, seed) /\ txs' = txs + 1 /\ txs \in Nat
      /\ live \subseteq Cell /\ IsFiniteSet(live) /\ Ckb(live) + Fee * txs = all
  BY DEF Taking, StoreInv, Core, CellsOK, CkbAccounted
<1>3. live' \subseteq Cell /\ IsFiniteSet(live')
  BY <1>1, <1>2, AfterIs DEF Core
<1>4. Ckb(live) = Sum(CkbIn, live) /\ Ckb(live') = Sum(CkbIn, live')
  BY <1>2, <1>3, CkbSum
<1>5. /\ Sum(CkbIn, live') = Sum(CkbIn, live) - Sum(CkbIn, tx.ins) + SumOut(CkbIn, tx.outs)
      /\ Sum(CkbIn, live') \in Nat /\ Sum(CkbIn, live) \in Nat /\ Sum(CkbIn, tx.ins) \in Nat
      /\ SumOut(CkbIn, tx.outs) \in Nat
  <2>1. Measure(CkbIn)
    BY CkbMeasure
  <2>2. QED
    BY <1>1, <1>2, <2>1, CommitSum DEF Core
<1>6. Sum(CkbIn, tx.ins) = SumOut(CkbIn, tx.outs) + Fee
  BY <1>1 DEF Paying
<1>7. Fee * txs' = Fee * txs + Fee /\ Fee * txs \in Nat /\ Fee \in Nat
  <2>1. Fee \in Nat
    BY StoreAssumption
  <2>2. QED
    BY <1>2, <2>1
<1>8. Ckb(live') + Fee * txs' = Ckb(live) + Fee * txs
  BY <1>4, <1>5, <1>6, <1>7
<1>9. Ckb(live') + Fee * txs' = all
  BY <1>2, <1>8
<1>10. QED
  BY <1>9 DEF CkbAccounted

LEMMA PackagesKept ==
  ASSUME StoreInv, NEW tx, NEW seed, Taking(tx, seed)
  PROVE  PackagesAccounted' /\ (bought \in [Users -> Nat])' /\ (revealed \in [Users -> Nat])'
<1>1. Core /\ TxType(tx) /\ tx.outs \in Seq(Cell) /\ Packed(tx) /\ seed \in Seq(Nat) /\ tx.ins \subseteq live
  BY TakenIs DEF TxOK, StoreInv
<1>2. /\ live' = After(tx.ins, tx, seed) /\ live \subseteq Cell /\ IsFiniteSet(live)
      /\ bought \in [Users -> Nat] /\ revealed \in [Users -> Nat]
  BY DEF Taking, StoreInv, Core, CellsOK
<1>3. live' \subseteq Cell /\ IsFiniteSet(live')
  BY <1>1, <1>2, AfterIs DEF Core
<1>4. tx.packages \in Nat
  BY <1>1 DEF TxType
<1>5. ASSUME NEW u \in Users
      PROVE  /\ bought'[u] = revealed'[u] + SumFunction([s \in Of("store", u)' |-> s.packages])
             /\ bought'[u] \in Nat /\ revealed'[u] \in Nat
  <2> DEFINE f == PackagesIn(u)
             paid == IF tx.kind = "purchase" /\ tx.by = u THEN tx.packages ELSE 0
             open == IF tx.kind = "reveal" /\ tx.by = u THEN tx.packages ELSE 0
  <2>1. Measure(f)
    BY PackagesMeasure
  <2>2. bought'[u] = bought[u] + paid /\ revealed'[u] = revealed[u] + open
    BY DEF Taking
  <2>3. paid \in Nat /\ open \in Nat
    BY <1>4
  <2>4. SumOut(f, tx.outs) + open = Sum(f, tx.ins) + paid
    BY <1>1 DEF Packed
  <2>5. bought[u] = revealed[u] + SumFunction([s \in Of("store", u) |-> s.packages])
    BY DEF StoreInv, PackagesAccounted
  <2>6. SumFunction([s \in Of("store", u) |-> s.packages]) = Sum(f, live)
    <3>1. Of("store", u) = {c \in live : c.kind = "store" /\ c.user = u}
      BY DEF Of
    <3>2. QED
      BY <1>2, <3>1, PackagesOf, Zenon
  <2>7. SumFunction([s \in Of("store", u)' |-> s.packages]) = Sum(f, live')
    <3>1. Of("store", u)' = {c \in live' : c.kind = "store" /\ c.user = u}
      BY DEF Of
    <3>2. QED
      BY <1>3, <3>1, PackagesOf, Zenon
  <2> HIDE DEF f, paid, open
  <2>8. /\ Sum(f, live') = Sum(f, live) - Sum(f, tx.ins) + SumOut(f, tx.outs)
        /\ Sum(f, live') \in Nat /\ Sum(f, live) \in Nat /\ Sum(f, tx.ins) \in Nat
        /\ SumOut(f, tx.outs) \in Nat
    BY <1>1, <1>2, <2>1, CommitSum DEF Core
  <2>9. bought[u] \in Nat /\ revealed[u] \in Nat
    BY <1>2
  <2>10. bought'[u] = revealed'[u] + Sum(f, live')
    BY <2>2, <2>3, <2>4, <2>5, <2>6, <2>8, <2>9
  <2>11. QED
    BY <2>2, <2>3, <2>7, <2>9, <2>10
<1>6. PackagesAccounted'
  BY <1>5 DEF PackagesAccounted
<1>7. bought' = [u \in Users |-> bought'[u]] /\ revealed' = [u \in Users |-> revealed'[u]]
  BY DEF Taking
<1>8. QED
  BY <1>5, <1>6, <1>7

(* So the invariant is kept by every step.                                    *)
LEMMA CommitCore ==
  ASSUME Core, NEW tx, NEW seed, Taking(tx, seed)
  PROVE  Core'
<1>1. (txs \in Nat)'
  BY DEF Taking, Core
<1>2. \A t \in pool' : TxOK(t)'
  BY PoolKept
<1>3. QED
  BY <1>1, <1>2, CellsKept, SoleKept DEF Core

LEMMA CommitStep ==
  ASSUME StoreInv, NEW tx \in pool, Commit(tx)
  PROVE  StoreInv' /\ \E seed : Taking(tx, seed)
<1>1. PICK seed : Taking(tx, seed)
  BY CommitTakes
<1>2. QED
  BY <1>1, CommitCore, CkbKept, PackagesKept DEF StoreInv

LEMMA CoreKept ==
  ASSUME Core, UNCHANGED <<live, txs>>, pool' \subseteq pool
  PROVE  Core'
<1>1. \A t \in pool' : TxOK(t)'
  BY TxKept DEF Core
<1>2. QED
  BY <1>1 DEF Core, CellsOK, Sole, Newest

LEMMA StoreKept ==
  ASSUME StoreInv, Core', UNCHANGED <<live, txs, bought, revealed>>
  PROVE  StoreInv' /\ UNCHANGED live
  BY DEF StoreInv, CkbAccounted, PackagesAccounted, Of

LEMMA AddedStep ==
  ASSUME StoreInv, NEW kind, Added(kind)
  PROVE  StoreInv' /\ UNCHANGED live
<1>1. Core' /\ UNCHANGED <<live, txs, bought, revealed>>
  BY BuildStep DEF StoreInv
<1>2. QED
  BY <1>1, StoreKept

LEMMA RefuseStep ==
  ASSUME StoreInv, NEW tx \in pool, Refuse(tx)
  PROVE  StoreInv' /\ UNCHANGED live
<1>1. pool' \subseteq pool /\ UNCHANGED <<live, txs, bought, revealed>>
  BY DEF Refuse
<1>2. QED
  BY <1>1, CoreKept, StoreKept DEF StoreInv

LEMMA VarsKept ==
  ASSUME StoreInv, UNCHANGED vars
  PROVE  StoreInv' /\ UNCHANGED live
<1>1. pool' \subseteq pool /\ UNCHANGED <<live, txs, bought, revealed>>
  BY DEF vars
<1>2. QED
  BY <1>1, CoreKept, StoreKept DEF StoreInv

(* Every step either builds or refuses, and leaves the cells alone, or takes a *)
(* transaction of the pool.                                                   *)
LEMMA NextSteps ==
  ASSUME StoreInv, Next
  PROVE  \/ StoreInv' /\ UNCHANGED live
         \/ StoreInv' /\ \E tx, seed : Taking(tx, seed)
<1>1. CellsOK /\ Sole
  BY DEF StoreInv, Core
<1>2. CASE \E c \in Configs : Compose(c)
  BY <1>1, <1>2, AddCompose, AddedStep
<1>3. CASE \E u \in Users : CreateStore(u) \/ Reveal(u)
  BY <1>1, <1>3, AddCreate, AddReveal, AddedStep
<1>4. CASE \E u \in Users, n \in Counts : Purchase(u, n)
  BY <1>1, <1>4, AddPurchase, AddedStep
<1>5. CASE \E u \in Users, w \in Wishes : Issue(u, w) \/ Discard(u, w)
  BY <1>1, <1>5, AddIssue, AddDiscard, AddedStep
<1>6. CASE \E u \in Users, v \in Users, w \in Wishes : Transfer(u, v, w)
  BY <1>1, <1>6, AddTransfer, AddedStep
<1>7. CASE \E tx \in pool : Commit(tx)
  BY <1>7, CommitStep
<1>8. CASE \E tx \in pool : Refuse(tx)
  BY <1>8, RefuseStep
<1>9. QED
  BY <1>2, <1>3, <1>4, <1>5, <1>6, <1>7, <1>8 DEF Next
--------------------------------------------------------------------------------
(* At first: the plain cells of each user, numbered from one.                 *)
Family(u) == {[Plain(u, Wallet[u][i]) EXCEPT !.id = i] : i \in DOMAIN Wallet[u]}

LEMMA FirstCell ==
  ASSUME NEW u \in Keys, NEW i \in DOMAIN Wallet[u]
  PROVE  LET c == [Plain(u, Wallet[u][i]) EXCEPT !.id = i] IN
         /\ i \in Nat /\ i <= Len(Wallet[u]) /\ Wallet[u][i] \in Nat
         /\ c \in Cell /\ c.id = i /\ c.kind = "plain" /\ c.user = u /\ c.ckb = Wallet[u][i]
<1> DEFINE k == Wallet[u][i]
           p == Plain(u, k)
           c == [p EXCEPT !.id = i]
<1>1. i \in Nat /\ i <= Len(Wallet[u]) /\ k \in Nat
  <2>1. Wallet[u] \in Seq(Nat)
    BY StoreAssumption
  <2>2. QED
    BY <2>1
<1>2. p \in Cell /\ p.kind = "plain" /\ p.user = u /\ p.ckb = k
  BY <1>1, PlainCell
<1>3. c = [p EXCEPT !.id = i]
  OBVIOUS
<1> HIDE DEF p, k, c
<1>4. DOMAIN p = {"id", "seed", "kind", "user", "ckb", "config", "packages", "nfts"} /\ i \in Int
  BY <1>1, <1>2 DEF Cell
<1>5. c \in Cell
  BY <1>2, <1>3, <1>4 DEF Cell
<1>6. c.id = i /\ c.kind = "plain" /\ c.user = u /\ c.ckb = k
  BY <1>2, <1>3, <1>4
<1>7. QED
  BY <1>1, <1>5, <1>6 DEF c, p, k

LEMMA FamilySum ==
  ASSUME NEW u \in Keys
  PROVE  /\ Family(u) \subseteq Cell /\ IsFiniteSet(Family(u))
         /\ \A c \in Family(u) : c.kind = "plain" /\ c.user = u /\ c.id <= Len(Wallet[u])
         /\ Sum(CkbIn, Family(u)) = SumFunction(Wallet[u])
         /\ SumFunction(Wallet[u]) \in Nat
<1> DEFINE S == DOMAIN Wallet[u]
           g == Wallet[u]
           h == [i \in S |-> [Plain(u, Wallet[u][i]) EXCEPT !.id = i]]
<1>1. Wallet[u] \in Seq(Nat)
  BY StoreAssumption
<1>2. IsFiniteSet(S)
  <2>1. S = 1 .. Len(Wallet[u]) /\ Len(Wallet[u]) \in Nat
    BY <1>1
  <2>2. IsFiniteSet(1 .. Len(Wallet[u]))
    BY <2>1, FS_Interval
  <2>3. QED
    BY <2>1, <2>2
<1>3. ASSUME NEW i \in S
      PROVE  /\ h[i] \in Cell /\ h[i].id = i /\ i <= Len(Wallet[u])
             /\ h[i].kind = "plain" /\ h[i].user = u
             /\ CkbIn[h[i]] = g[i] /\ g[i] \in Nat
  <2>1. h[i] = [Plain(u, Wallet[u][i]) EXCEPT !.id = i]
    OBVIOUS
  <2>2. /\ i <= Len(Wallet[u]) /\ Wallet[u][i] \in Nat
        /\ h[i] \in Cell /\ h[i].id = i /\ h[i].kind = "plain" /\ h[i].user = u
        /\ h[i].ckb = Wallet[u][i]
    <3> DEFINE c == [Plain(u, Wallet[u][i]) EXCEPT !.id = i]
    <3>1. /\ i <= Len(Wallet[u]) /\ Wallet[u][i] \in Nat
          /\ c \in Cell /\ c.id = i /\ c.kind = "plain" /\ c.user = u
          /\ c.ckb = Wallet[u][i]
      BY FirstCell
    <3> HIDE DEF c
    <3>2. h[i] = c
      BY <2>1 DEF c
    <3> HIDE DEF h
    <3>3. QED
      BY <3>1, <3>2
  <2> HIDE DEF h
  <2>3. QED
    BY <2>2 DEF CkbIn
<1>4. Family(u) = {h[i] : i \in S}
  BY DEF Family
<1>5. SumFunction(g) = Sum(g, S)
  BY Zenon DEF Sum, SumFunction
<1> HIDE DEF h, S
<1>6. \A i, j \in S : h[i] = h[j] => i = j
  BY <1>3, Zenon
<1>7. \A i \in S : CkbIn[h[i]] = g[i] /\ g[i] \in Int /\ g[i] \in Nat
  BY <1>3
<1> HIDE DEF g
<1>8. IsFiniteSet(Family(u)) /\ Sum(CkbIn, Family(u)) = Sum(g, S)
  BY <1>2, <1>4, <1>6, <1>7, SumImage
<1>9. Sum(g, S) \in Nat
  BY <1>2, <1>7, SumType
<1>10. \A c \in Family(u) : c \in Cell /\ c.kind = "plain" /\ c.user = u /\ c.id <= Len(Wallet[u])
  BY <1>3, <1>4
<1>11. QED
  BY <1>5, <1>8, <1>9, <1>10 DEF g

Families(R) == UNION {Family(u) : u \in R}

LEMMA KeysFinite == IsFiniteSet(Keys)
<1>1. IsFiniteSet(Users) /\ IsFiniteSet({Composer})
  BY StoreAssumption, FS_Singleton
<1>2. QED
  BY <1>1, FS_Union DEF Keys

(* Their ckb is what the wallets hold, by induction over the users.           *)
LEMMA FamiliesSum ==
  /\ Families(Keys) \subseteq Cell /\ IsFiniteSet(Families(Keys))
  /\ Sum(CkbIn, Families(Keys)) = SumFunction([u \in Keys |-> SumFunction(Wallet[u])])
<1> DEFINE g == [u \in Keys |-> SumFunction(Wallet[u])]
           T == {n \in Nat : \A R \in SUBSET Keys : Cardinality(R) = n =>
                   /\ Families(R) \subseteq Cell /\ IsFiniteSet(Families(R))
                   /\ Sum(CkbIn, Families(R)) = Sum(g, R)}
<1>1. \A R \in SUBSET Keys : IsFiniteSet(R) /\ Cardinality(R) \in Nat
  BY KeysFinite, FS_Subset, FS_CardinalityType
<1>2. \A u \in Keys : g[u] = SumFunction(Wallet[u]) /\ g[u] \in Int
  BY FamilySum
<1>3. SumFunction(g) = Sum(g, Keys)
  BY Zenon DEF Sum, SumFunction
<1> HIDE DEF g
<1>4. 0 \in T
  <2>1. ASSUME NEW R \in SUBSET Keys, Cardinality(R) = 0
        PROVE  /\ Families(R) \subseteq Cell /\ IsFiniteSet(Families(R))
               /\ Sum(CkbIn, Families(R)) = Sum(g, R)
    <3>1. R = {}
      BY <1>1, <2>1, FS_EmptySet
    <3>2. Families(R) = {}
      BY <3>1 DEF Families
    <3>3. QED
      BY <3>1, <3>2, SumEmpty, FS_EmptySet
  <2>2. QED
    BY <2>1
<1>5. ASSUME NEW n \in Nat, n \in T
      PROVE  n + 1 \in T
  <2>1. ASSUME NEW R \in SUBSET Keys, Cardinality(R) = n + 1
        PROVE  /\ Families(R) \subseteq Cell /\ IsFiniteSet(Families(R))
               /\ Sum(CkbIn, Families(R)) = Sum(g, R)
    <3>1. R # {}
      BY <2>1, FS_EmptySet
    <3>2. PICK u : u \in R
      BY <3>1
    <3> DEFINE Q == R \ {u}
    <3>3. /\ R = Q \cup {u} /\ u \notin Q /\ u \in Keys /\ Q \in SUBSET Keys
          /\ Cardinality(Q) = n /\ IsFiniteSet(Q)
      <4>1. Cardinality(Q) \in Nat /\ Cardinality(R) = Cardinality(Q) + 1
        BY <1>1, <3>2, Smaller, Zenon
      <4>2. QED
        BY <1>1, <2>1, <3>2, <4>1
    <3> HIDE DEF Q
    <3>4. /\ Families(Q) \subseteq Cell /\ IsFiniteSet(Families(Q))
          /\ Sum(CkbIn, Families(Q)) = Sum(g, Q)
      BY <1>5, <3>3
    <3>5. Families(R) = Families(Q) \cup Family(u)
      BY <3>3 DEF Families
    <3>6. /\ Family(u) \subseteq Cell /\ IsFiniteSet(Family(u))
          /\ Sum(CkbIn, Family(u)) = g[u]
      BY <1>2, <3>3, FamilySum
    <3>7. Families(Q) \cap Family(u) = {}
      <4>1. \A c \in Families(Q) : c.user # u
        <5>1. ASSUME NEW v \in Q, NEW c \in Family(v)
              PROVE  c.user # u
          <6>1. v \in Keys /\ v # u
            BY <3>3
          <6>2. QED
            BY <6>1, FamilySum
        <5>2. QED
          BY <5>1 DEF Families
      <4>2. \A c \in Family(u) : c.user = u
        BY <3>3, FamilySum
      <4>3. QED
        BY <4>1, <4>2
    <3>8. \A c \in Families(Q) \cup Family(u) : CkbIn[c] \in Int
      <4>1. Families(Q) \cup Family(u) \subseteq Cell
        BY <3>4, <3>6
      <4>2. QED
        BY <4>1, CkbMeasure, MeasureInt
    <3>9. /\ Sum(CkbIn, Families(Q) \cup Family(u)) = Sum(CkbIn, Families(Q)) + Sum(CkbIn, Family(u))
          /\ IsFiniteSet(Families(Q) \cup Family(u))
      BY <3>4, <3>6, <3>7, <3>8, SumUnion, FS_Union
    <3>10. Sum(g, Q \cup {u}) = Sum(g, Q) + g[u]
      <4>1. \A v \in Q \cup {u} : g[v] \in Int
        BY <1>2, <3>3
      <4>2. QED
        BY <3>3, <4>1, SumAdd
    <3>11. QED
      BY <3>3, <3>4, <3>5, <3>6, <3>9, <3>10
  <2>2. QED
    BY <2>1
<1> HIDE DEF T
<1>6. Cardinality(Keys) \in T
  BY <1>1, <1>4, <1>5, Induct
<1>7. /\ Families(Keys) \subseteq Cell /\ IsFiniteSet(Families(Keys))
      /\ Sum(CkbIn, Families(Keys)) = Sum(g, Keys)
  BY <1>6 DEF T
<1>8. QED
  BY <1>3, <1>7 DEF g

LEMMA InitInv ==
  ASSUME Init
  PROVE  StoreInv
<1>1. live = Families(Keys)
  BY DEF Init, Families, Family
<1>2. /\ live \subseteq Cell /\ IsFiniteSet(live)
      /\ Sum(CkbIn, live) = SumFunction([u \in Keys |-> SumFunction(Wallet[u])])
  BY <1>1, FamiliesSum
<1>3. ASSUME NEW c \in live
      PROVE  c.kind = "plain" /\ c.id <= Newest
  <2>1. PICK u \in Keys : c \in Family(u)
    BY <1>1 DEF Families
  <2>2. c.kind = "plain" /\ c.id <= Len(Wallet[u])
    BY <2>1, FamilySum
  <2>3. Newest \in Int /\ Len(Wallet[u]) <= Newest
    <3>1. txs \in Nat
      BY DEF Init
    <3>2. QED
      BY <3>1, NewestNat
  <2>5. c.id \in Int
    BY <1>2 DEF Cell
  <2>6. Len(Wallet[u]) \in Nat
    BY StoreAssumption
  <2>7. QED
    BY <2>2, <2>3, <2>5, <2>6
<1>4. CellsOK
  BY <1>2, <1>3 DEF CellsOK
<1>5. Sole
  BY <1>3 DEF Sole, Special
<1>6. CkbAccounted
  <2>1. Ckb(live) = Sum(CkbIn, live) /\ Ckb(live) \in Nat
    BY <1>2, CkbSum
  <2>2. Fee * txs = 0
    BY StoreAssumption DEF Init
  <2>3. QED
    BY <1>2, <2>1, <2>2 DEF CkbAccounted
<1>7. PackagesAccounted
  <2>1. ASSUME NEW u \in Users
        PROVE  SumFunction([s \in Of("store", u) |-> s.packages]) = 0
    <3>1. Of("store", u) = {c \in live : c.kind = "store" /\ c.user = u}
      BY DEF Of
    <3>2. SumFunction([s \in Of("store", u) |-> s.packages]) = Sum(PackagesIn(u), live)
      BY <1>2, <3>1, PackagesOf, Zenon
    <3>3. Sum(PackagesIn(u), live) = 0
      BY <1>2, <1>3, NoPackages
    <3>4. QED
      BY <3>2, <3>3
  <2>2. QED
    BY <2>1 DEF PackagesAccounted, Init
<1>8. QED
  BY <1>4, <1>5, <1>6, <1>7 DEF StoreInv, Core, Init

(* The invariant holds for any number of users, nfts, configs and transactions, *)
(* in every order in which they are built and taken.                          *)
THEOREM StoreInvCorrect == Spec => []StoreInv
<1>1. StoreInv /\ [Next]_vars => StoreInv'
  BY NextSteps, VarsKept
<1>2. QED
  BY InitInv, <1>1, PTL DEF Spec

LEMMA AtMostOne ==
  ASSUME NEW S, \A c, d \in S : c = d
  PROVE  Cardinality(S) <= 1
<1>1. CASE S = {}
  BY <1>1, FS_EmptySet
<1>2. ASSUME NEW c \in S
      PROVE  Cardinality(S) <= 1
  <2>1. S = {c}
    BY <1>2
  <2>2. Cardinality({c}) = 1
    BY FS_Singleton
  <2>3. QED
    BY <2>1, <2>2
<1>3. QED
  BY <1>1, <1>2

(* There is never a second config, nor a second store of a user, although any *)
(* number of transactions may be built before one is taken (builder.rs:33, 129). *)
THEOREM OneOfEachCorrect == Spec => []OneOfEach
<1>1. StoreInv => OneOfEach
  <2> SUFFICES ASSUME Sole PROVE OneOfEach
    BY DEF StoreInv, Core
  <2>1. ASSUME NEW kind \in Special, NEW u
        PROVE  Cardinality(Of(kind, u)) <= 1
    <3>1. \A c, d \in Of(kind, u) : c = d
      BY DEF Of, Sole
    <3>2. QED
      BY <3>1, AtMostOne
  <2>2. QED
    BY <2>1 DEF OneOfEach, Special
<1>2. QED
  BY <1>1, StoreInvCorrect, PTL

(* Every package that was paid for is revealed once, or waits in the user's   *)
(* store (builder.rs:199, 293-295).                                           *)
THEOREM PackagesAccountedCorrect == Spec => []PackagesAccounted
<1>1. StoreInv => PackagesAccounted
  BY DEF StoreInv
<1>2. QED
  BY <1>1, StoreInvCorrect, PTL

(* Ckb is neither made nor lost: all there is, and the fees, is what the wallets *)
(* held (tx_extends.rs:92-160).                                               *)
THEOREM CkbAccountedCorrect == Spec => []CkbAccounted
<1>1. StoreInv => CkbAccounted
  BY DEF StoreInv
<1>2. QED
  BY <1>1, StoreInvCorrect, PTL
--------------------------------------------------------------------------------
(* What a user owns, by measures.                                             *)
LEMMA OwnedOf ==
  ASSUME NEW S, S \subseteq Cell, IsFiniteSet(S), NEW u,
         NEW R, R = {c \in S : c.kind = "nft" /\ c.user = u}
  PROVE  Total(R) \in [Nfts -> Nat] /\ \A n \in Nfts : Total(R)[n] = Sum(NftsIn(u, n), S)
<1> DEFINE rest == S \ R
<1>1. S = R \cup rest /\ R \cap rest = {} /\ R \subseteq Cell /\ IsFiniteSet(R) /\ IsFiniteSet(rest)
      /\ rest \subseteq Cell
  BY FS_Subset
<1>2. \A c \in R : c.kind = "nft" /\ c.user = u
  OBVIOUS
<1>3. ASSUME NEW n \in Nfts
      PROVE  Total(R)[n] = Sum(NftsIn(u, n), S)
  <2> DEFINE f == NftsIn(u, n)
  <2>1. Measure(f)
    BY NftsMeasure
  <2>2. \A c \in rest : f[c] = 0
    BY DEF NftsIn
  <2>3. Sum(f, R) = Total(R)[n]
    BY <1>1, <1>2, TotalOf, Zenon
  <2> HIDE DEF f, rest
  <2>4. \A c \in R \cup rest : f[c] \in Int
    BY <1>1, <2>1, MeasureInt
  <2>5. Sum(f, R \cup rest) = Sum(f, R) + Sum(f, rest)
    BY <1>1, <2>4, SumUnion
  <2>6. Sum(f, rest) = 0
    BY <1>1, <2>2, SumZero
  <2>7. Sum(f, R) \in Nat
    BY <1>1, <2>1, SumNat
  <2>8. Sum(f, S) = Sum(f, R)
    <3>1. Sum(f, R \cup rest) = Sum(f, R)
      BY <2>5, <2>6, <2>7
    <3>2. QED
      BY <1>1, <3>1
  <2>9. QED
    BY <2>3, <2>8 DEF f
<1>4. Total(R) \in [Nfts -> Nat]
  BY <1>1, TotalIs
<1>5. QED
  BY <1>3, <1>4

LEMMA OwnedNow ==
  ASSUME CellsOK, NEW u
  PROVE  /\ Total(Of("nft", u)) \in [Nfts -> Nat]
         /\ \A n \in Nfts : Total(Of("nft", u))[n] = Sum(NftsIn(u, n), live)
<1>1. Of("nft", u) = {c \in live : c.kind = "nft" /\ c.user = u} /\ live \subseteq Cell /\ IsFiniteSet(live)
  BY DEF Of, CellsOK
<1>2. QED
  BY <1>1, OwnedOf, Zenon

LEMMA OwnedNext ==
  ASSUME CellsOK', NEW u
  PROVE  /\ Total(Of("nft", u))' \in [Nfts -> Nat]
         /\ \A n \in Nfts : Total(Of("nft", u))'[n] = Sum(NftsIn(u, n), live')
<1>1. Of("nft", u)' = {c \in live' : c.kind = "nft" /\ c.user = u} /\ live' \subseteq Cell /\ IsFiniteSet(live')
  BY DEF Of, CellsOK
<1>2. Total(Of("nft", u))' = Total(Of("nft", u)')
  BY DEF Total
<1>3. QED
  BY <1>1, <1>2, OwnedOf, Zenon

LEMMA OwnedStep ==
  ASSUME Core, NEW tx, NEW seed, Taking(tx, seed), NEW u, NEW n \in Nfts
  PROVE  /\ Total(Of("nft", u))'[n] = Total(Of("nft", u))[n]
              - Sum(NftsIn(u, n), tx.ins) + SumOut(NftsIn(u, n), tx.outs)
         /\ Total(Of("nft", u))'[n] \in Nat /\ Total(Of("nft", u))[n] \in Nat
         /\ Sum(NftsIn(u, n), tx.ins) \in Nat /\ SumOut(NftsIn(u, n), tx.outs) \in Nat
         /\ Sum(NftsIn(u, n), tx.ins) <= Total(Of("nft", u))[n]
<1> DEFINE f == NftsIn(u, n)
<1>1. Measure(f)
  BY NftsMeasure
<1>2. tx.outs \in Seq(Cell) /\ seed \in Seq(Nat) /\ tx.ins \subseteq live /\ live' = After(tx.ins, tx, seed)
  BY TakenIs DEF Taking
<1> HIDE DEF f
<1>3. /\ Sum(f, live') = Sum(f, live) - Sum(f, tx.ins) + SumOut(f, tx.outs)
      /\ Sum(f, live') \in Nat /\ Sum(f, live) \in Nat /\ Sum(f, tx.ins) \in Nat
      /\ SumOut(f, tx.outs) \in Nat /\ Sum(f, tx.ins) <= Sum(f, live)
  BY <1>1, <1>2, CommitSum DEF Core
<1>4. Total(Of("nft", u))[n] = Sum(f, live)
  BY OwnedNow DEF Core, f
<1>5. Total(Of("nft", u))'[n] = Sum(f, live')
  BY CellsKept, OwnedNext DEF f
<1>6. QED
  BY <1>3, <1>4, <1>5 DEF f

(* A store is replaced by its user, as Priced says.                           *)
LEMMA StoreReplaced ==
  ASSUME Core, NEW tx, NEW seed, Taking(tx, seed), NEW u \in Users,
         NEW s \in Of("store", u), NEW t \in Of("store", u)', t # s, s \notin live'
  PROVE  IF t.packages > 0
         THEN \E c \in Of("config", Composer) : t.ckb = s.ckb + c.config.price * t.packages
         ELSE /\ t.ckb = s.ckb
              /\ \E c \in Of("config", Composer) :
                   Total(Of("nft", u))' = [n \in Nfts |->
                     Total(Of("nft", u))[n] + Ripped(c.config, s.seed, s.packages)[n]]
<1>1. /\ tx.outs \in Seq(Cell) /\ Priced(tx) /\ seed \in Seq(Nat) /\ tx.deps \subseteq live
      /\ live' = (live \ tx.ins) \cup Created(tx, seed)
  BY TakenIs DEF TxOK
<1>2. s \in live /\ s.kind = "store" /\ s.user = u /\ t \in live' /\ t.kind = "store" /\ t.user = u
  BY DEF Of
<1>3. s \in tx.ins
  BY <1>1, <1>2
<1>4. t \in Created(tx, seed)
  BY <1>1, <1>2 DEF Core, Sole, Special
<1>5. u = tx.by
  BY <1>2, <1>4, NewSpecial DEF Special
<1>6. PICK i \in DOMAIN tx.outs : /\ tx.outs[i].kind = t.kind /\ tx.outs[i].ckb = t.ckb
                                  /\ tx.outs[i].packages = t.packages
  BY <1>1, <1>4, CreatedFrom DEF Core
<1>7. PICK c \in tx.deps :
        /\ c.kind = "config" /\ c.user = Composer
        /\ IF tx.outs[i].packages > 0 THEN tx.outs[i].ckb = s.ckb + c.config.price * tx.outs[i].packages
           ELSE /\ tx.outs[i].ckb = s.ckb
                /\ \A n \in Nfts : SumOut(NftsIn(tx.by, n), tx.outs)
                     = Sum(NftsIn(tx.by, n), tx.ins) + Ripped(c.config, s.seed, s.packages)[n]
  BY <1>1, <1>2, <1>3, <1>6 DEF Priced
<1>8. c \in Of("config", Composer)
  BY <1>1, <1>7 DEF Of
<1>9. CASE t.packages > 0
  BY <1>6, <1>7, <1>8, <1>9
<1>10. CASE ~ t.packages > 0
  <2> DEFINE drawn == Ripped(c.config, s.seed, s.packages)
  <2>1. t.ckb = s.ckb /\ \A n \in Nfts : SumOut(NftsIn(u, n), tx.outs)
                           = Sum(NftsIn(u, n), tx.ins) + drawn[n]
    BY <1>5, <1>6, <1>7, <1>10
  <2>2. drawn \in [Nfts -> Nat]
    <3>1. c.config \in Config /\ s.packages \in Nat
      BY <1>1, <1>2, <1>8 DEF Core, CellsOK, Cell, Of
    <3>2. QED
      BY <3>1, RippedBag
  <2> HIDE DEF drawn
  <2>3. ASSUME NEW n \in Nfts
        PROVE  Total(Of("nft", u))'[n] = Total(Of("nft", u))[n] + drawn[n]
    <3>1. /\ Total(Of("nft", u))'[n] = Total(Of("nft", u))[n]
               - Sum(NftsIn(u, n), tx.ins) + SumOut(NftsIn(u, n), tx.outs)
          /\ Total(Of("nft", u))'[n] \in Nat /\ Total(Of("nft", u))[n] \in Nat
          /\ Sum(NftsIn(u, n), tx.ins) \in Nat /\ SumOut(NftsIn(u, n), tx.outs) \in Nat
      BY OwnedStep
    <3>2. SumOut(NftsIn(u, n), tx.outs) = Sum(NftsIn(u, n), tx.ins) + drawn[n] /\ drawn[n] \in Nat
      BY <2>1, <2>2
    <3>3. QED
      BY <3>1, <3>2
  <2>4. Total(Of("nft", u))' \in [Nfts -> Nat]
    BY CellsKept, OwnedNext
  <2>5. Total(Of("nft", u))' = [n \in Nfts |-> Total(Of("nft", u))[n] + drawn[n]]
    BY <2>3, <2>4
  <2>6. QED
    BY <1>8, <1>10, <2>1, <2>5 DEF drawn
<1>11. QED
  BY <1>9, <1>10

(* This is what ConfigInForce says of a step.                                 *)
ConfigStep ==
  \A u \in Users : \A s \in Of("store", u) : \A t \in Of("store", u)' \ {s} :
    s \notin live' =>
      IF t.packages > 0
      THEN \E c \in Of("config", Composer) : t.ckb = s.ckb + c.config.price * t.packages
      ELSE /\ t.ckb = s.ckb
           /\ \E c \in Of("config", Composer) :
                Total(Of("nft", u))' = [n \in Nfts |->
                  Total(Of("nft", u))[n] + Ripped(c.config, s.seed, s.packages)[n]]

(* What a purchase pays and a reveal draws is what the config that is live when *)
(* the chain takes it says, and no other (builder.rs:235, 337).               *)
THEOREM ConfigInForceCorrect == Spec => ConfigInForce
<1>1. ASSUME StoreInv, Next
      PROVE  ConfigStep
  <2>1. CASE UNCHANGED live
    BY <2>1 DEF ConfigStep, Of
  <2>2. CASE \E tx, seed : Taking(tx, seed)
    BY <1>1, <2>2, StoreReplaced, Zenon DEF ConfigStep, StoreInv
  <2>3. QED
    BY <1>1, <2>1, <2>2, NextSteps
<1>2. StoreInv /\ [Next]_vars =>
        [\A u \in Users : \A s \in Of("store", u) : \A t \in Of("store", u)' \ {s} :
       s \notin live' =>
         IF t.packages > 0
         THEN \E c \in Of("config", Composer) : t.ckb = s.ckb + c.config.price * t.packages
         ELSE /\ t.ckb = s.ckb
              /\ \E c \in Of("config", Composer) :
                   Total(Of("nft", u))' = [n \in Nfts |->
                     Total(Of("nft", u))[n] + Ripped(c.config, s.seed, s.packages)[n]]]_vars
  BY <1>1 DEF ConfigStep
<1>3. QED
  BY <1>2, StoreInvCorrect, PTL DEF Spec, ConfigInForce

(* The nfts of each user, as NftLedger.tla keeps them.                        *)
Holdings == [u \in Users |-> Total(Of("nft", u))]

(* A transaction that is taken is a step of NftLedger.tla, or moves no nft.   *)
LEMMA LedgerStep ==
  ASSUME Core, NEW tx, NEW seed, Taking(tx, seed)
  PROVE  Ledger!Next \/ Holdings' = Holdings
<1> DEFINE in(u, n) == Sum(NftsIn(u, n), tx.ins)
           out(u, n) == SumOut(NftsIn(u, n), tx.outs)
           bags == [Nfts -> Nat]
<1>1. /\ Holdings \in [Users -> bags] /\ Holdings' \in [Users -> bags]
      /\ \A u \in Users, n \in Nfts :
           /\ Holdings'[u][n] = Holdings[u][n] - in(u, n) + out(u, n)
           /\ in(u, n) \in Nat /\ out(u, n) \in Nat /\ in(u, n) <= Holdings[u][n]
           /\ Holdings[u][n] \in Nat /\ Holdings'[u][n] \in Nat
  <2>1. \A u \in Users : Total(Of("nft", u)) \in bags /\ Total(Of("nft", u))' \in bags
    BY CellsKept, OwnedNow, OwnedNext DEF Core
  <2>2. /\ \A u \in Users : Holdings[u] = Total(Of("nft", u)) /\ Holdings'[u] = Total(Of("nft", u))'
        /\ DOMAIN Holdings = Users /\ DOMAIN Holdings' = Users
        /\ Holdings = [u \in Users |-> Holdings[u]] /\ Holdings' = [u \in Users |-> Holdings'[u]]
    BY DEF Holdings
  <2>3. Holdings \in [Users -> bags] /\ Holdings' \in [Users -> bags]
    BY <2>1, <2>2
  <2>4. ASSUME NEW u \in Users, NEW n \in Nfts
        PROVE  /\ Holdings'[u][n] = Holdings[u][n] - in(u, n) + out(u, n)
               /\ in(u, n) \in Nat /\ out(u, n) \in Nat /\ in(u, n) <= Holdings[u][n]
               /\ Holdings[u][n] \in Nat /\ Holdings'[u][n] \in Nat
    <3>1. /\ Total(Of("nft", u))'[n] = Total(Of("nft", u))[n] - in(u, n) + out(u, n)
          /\ Total(Of("nft", u))'[n] \in Nat /\ Total(Of("nft", u))[n] \in Nat
          /\ in(u, n) \in Nat /\ out(u, n) \in Nat /\ in(u, n) <= Total(Of("nft", u))[n]
      BY OwnedStep
    <3>2. QED
      BY <2>2, <3>1
  <2>5. QED
    BY <2>3, <2>4
<1>2. /\ \A w \in Wishes \cup Draws : w \in bags
      /\ Moved(tx)
  <2>1. Wishes \subseteq bags
    BY StoreAssumption
  <2>2. ASSUME NEW c \in {d \in Configs : Valid(d)}, NEW s \in Seeds, NEW n \in Counts
        PROVE  Ripped(c, s, n) \in bags
    BY RippedBag, StoreAssumption
  <2>3. Draws \subseteq bags
    BY <2>2 DEF Draws
  <2>4. QED
    BY <2>1, <2>3, TakenIs DEF TxOK
<1>3. \/ \A u \in Users, n \in Nfts : out(u, n) = in(u, n)
      \/ \E v \in Users, w \in Wishes \cup Draws : \A u \in Users, n \in Nfts :
           out(u, n) = in(u, n) + IF u = v THEN w[n] ELSE 0
      \/ \E v \in Users, w \in Wishes : \A u \in Users, n \in Nfts :
           in(u, n) = out(u, n) + IF u = v THEN w[n] ELSE 0
      \/ \E v, t \in Users, w \in Wishes : v # t /\ \A u \in Users, n \in Nfts :
           in(u, n) + (IF u = t THEN w[n] ELSE 0) = out(u, n) + IF u = v THEN w[n] ELSE 0
  BY <1>2 DEF Moved
<1> HIDE DEF in, out
<1>4. CASE \A u \in Users, n \in Nfts : out(u, n) = in(u, n)
  <2>1. \A u \in Users, n \in Nfts : Holdings'[u][n] = Holdings[u][n]
    BY <1>1, <1>4
  <2>2. \A u \in Users : Holdings'[u] = Holdings[u]
    BY <1>1, <2>1
  <2>3. QED
    BY <1>1, <2>2
<1>5. ASSUME NEW v \in Users, NEW w \in Wishes \cup Draws,
             \A u \in Users, n \in Nfts : out(u, n) = in(u, n) + IF u = v THEN w[n] ELSE 0
      PROVE  Ledger!Next
  <2>1. ASSUME NEW u \in Users, NEW n \in Nfts
        PROVE  Holdings'[u][n] = IF u = v THEN Holdings[u][n] + w[n] ELSE Holdings[u][n]
    BY <1>1, <1>2, <1>5
  <2>2. Holdings' = [Holdings EXCEPT ![v] = [n \in Nfts |-> Holdings[v][n] + w[n]]]
    <3>1. \A u \in Users : Holdings'[u] = IF u = v THEN [n \in Nfts |-> Holdings[v][n] + w[n]] ELSE Holdings[u]
      BY <1>1, <2>1
    <3>2. QED
      BY <1>1, <3>1
  <2>3. Ledger!Gain(v, w)
    BY <2>2 DEF Ledger!Gain, Ledger!Plus, Holdings
  <2>4. QED
    BY <2>3 DEF Ledger!Next, Draws
<1>6. ASSUME NEW v \in Users, NEW w \in Wishes,
             \A u \in Users, n \in Nfts : in(u, n) = out(u, n) + IF u = v THEN w[n] ELSE 0
      PROVE  Ledger!Next
  <2>1. ASSUME NEW u \in Users, NEW n \in Nfts
        PROVE  /\ Holdings'[u][n] = IF u = v THEN Holdings[u][n] - w[n] ELSE Holdings[u][n]
               /\ u = v => w[n] <= Holdings[u][n]
    BY <1>1, <1>2, <1>6
  <2>2. Holdings' = [Holdings EXCEPT ![v] = [n \in Nfts |-> Holdings[v][n] - w[n]]]
    <3>1. \A u \in Users : Holdings'[u] = IF u = v THEN [n \in Nfts |-> Holdings[v][n] - w[n]] ELSE Holdings[u]
      BY <1>1, <2>1
    <3>2. QED
      BY <1>1, <3>1
  <2>3. Ledger!Discard(v, w)
    BY <2>1, <2>2 DEF Ledger!Discard, Ledger!Has, Ledger!Minus, Holdings
  <2>4. QED
    BY <2>3 DEF Ledger!Next
<1>7. ASSUME NEW v \in Users, NEW t \in Users, NEW w \in Wishes, v # t,
             \A u \in Users, n \in Nfts :
               in(u, n) + (IF u = t THEN w[n] ELSE 0) = out(u, n) + IF u = v THEN w[n] ELSE 0
      PROVE  Ledger!Next
  <2>1. ASSUME NEW u \in Users, NEW n \in Nfts
        PROVE  /\ Holdings'[u][n] = IF u = v THEN Holdings[u][n] - w[n]
                                 ELSE IF u = t THEN Holdings[u][n] + w[n] ELSE Holdings[u][n]
               /\ u = v => w[n] <= Holdings[u][n]
    BY <1>1, <1>2, <1>7
  <2>2. Holdings' = [Holdings EXCEPT ![v] = [n \in Nfts |-> Holdings[v][n] - w[n]],
                               ![t] = [n \in Nfts |-> Holdings[t][n] + w[n]]]
    <3>1. \A u \in Users : Holdings'[u] = IF u = v THEN [n \in Nfts |-> Holdings[v][n] - w[n]]
                                       ELSE IF u = t THEN [n \in Nfts |-> Holdings[t][n] + w[n]] ELSE Holdings[u]
      BY <1>1, <2>1
    <3>2. QED
      BY <1>1, <1>7, <3>1
  <2>3. Ledger!Transfer(v, t, w)
    BY <1>7, <2>1, <2>2 DEF Ledger!Transfer, Ledger!Has, Ledger!Minus, Ledger!Plus, Holdings
  <2>4. QED
    BY <2>3 DEF Ledger!Next
<1>8. QED
  BY <1>3, <1>4, <1>5, <1>6, <1>7

(* The store implements NftLedger.tla, for any number of users, nfts and cells: *)
(* nfts come from the composer or out of packages, go where their owner sends *)
(* them, are gone when their owner discards them, and no other nft moves      *)
(* (builder.rs:349-387, tx_extends.rs:166-252).                               *)
THEOREM NftsKeptCorrect == Spec => NftsKept
<1>1. ASSUME StoreInv, Init
      PROVE  Ledger!Init
  <2>1. ASSUME NEW u \in Users
        PROVE  Total(Of("nft", u)) = [n \in Nfts |-> 0]
    <3>1. \A c \in live : c.kind # "nft"
      <4>1. \A c \in Families(Keys) : c.kind = "plain"
        BY FamilySum DEF Families
      <4>2. live = Families(Keys)
        BY <1>1 DEF Init, Families, Family
      <4>3. QED
        BY <4>1, <4>2
    <3>2. live \subseteq Cell /\ IsFiniteSet(live)
      BY <1>1 DEF StoreInv, Core, CellsOK
    <3>3. \A n \in Nfts : Total(Of("nft", u))[n] = 0
      BY <1>1, <3>1, <3>2, NoNfts, OwnedNow DEF StoreInv, Core
    <3>4. Total(Of("nft", u)) \in [Nfts -> Nat]
      BY <1>1, OwnedNow DEF StoreInv, Core
    <3>5. QED
      BY <3>3, <3>4
  <2>2. QED
    BY <2>1 DEF Ledger!Init
<1>2. ASSUME StoreInv, [Next]_vars
      PROVE  [Ledger!Next]_(Ledger!vars)
  <2>1. CASE UNCHANGED live
    BY <2>1 DEF Ledger!vars, Of
  <2>2. CASE \E tx, seed : Taking(tx, seed)
    BY <1>2, <2>2, LedgerStep DEF Ledger!vars, Holdings, StoreInv
  <2>3. QED
    BY <1>2, <2>1, <2>2, NextSteps, VarsKept
<1>3. QED
  BY <1>1, <1>2, InitInv, StoreInvCorrect, PTL DEF Spec, NftsKept, Ledger!Spec
==============================================================================
