------------------------ MODULE ChannelRounds_proofs ------------------------
(***************************************************************************)
(* Proofs about the rounds of ChannelRounds.tla, for any number of channels, *)
(* rounds, messages and restarts: what a signature under the last round      *)
(* stands for. The digests come first: that the chain of hashes tells lists  *)
(* apart is shown by induction over their length.                            *)
(***************************************************************************)
EXTENDS ChannelRoundsProperties, WellFoundedInduction, SequenceTheorems, TLAPS

(* A set of naturals that is not empty has a least element.                 *)
LEMMA Least ==
  ASSUME NEW T \in SUBSET Nat, T # {}
  PROVE  \E x \in T : \A y \in T : x <= y
<1>1. PICK x \in T : \A y \in T : ~ (<<y, x>> \in OpToRel(<, Nat))
  BY NatLessThanWellFounded, WFMin, Zenon
<1>2. ASSUME NEW y \in T
      PROVE  x <= y
  <2>1. x \in Nat /\ y \in Nat
    OBVIOUS
  <2>2. ~ (y < x)
    BY <1>1, <2>1 DEF OpToRel
  <2>3. QED
    BY <2>1, <2>2
<1>3. QED
  BY <1>2

(* Induction over the naturals, with a set in place of a predicate.         *)
LEMMA Induct ==
  ASSUME NEW T, 0 \in T, \A n \in Nat : n \in T => n + 1 \in T
  PROVE  \A n \in Nat : n \in T
<1> SUFFICES ASSUME Nat \ T # {} PROVE FALSE
  OBVIOUS
<1>1. PICK x \in Nat \ T : \A y \in Nat \ T : x <= y
  BY Least
<1>2. x - 1 \in Nat /\ x - 1 \in T
  BY <1>1
<1> QED BY <1>1, <1>2

Begin(c, entry) == <<c, entry.round>>
Link(digest, before, entry) == <<digest, before.signature, entry.round>>

(* The two forms of a digest, and that they do not collide: what is hashed of *)
(* the first round has two parts, of a later one three.                     *)
LEMMA BeginInjective ==
  ASSUME NEW c, NEW d, NEW a, NEW b, Begin(c, a) = Begin(d, b)
  PROVE  c = d /\ a.round = b.round
  BY DEF Begin

LEMMA LinkInjective ==
  ASSUME NEW x, NEW y, NEW a, NEW b, NEW p, NEW q, Link(x, p, a) = Link(y, q, b)
  PROVE  x = y /\ p.signature = q.signature /\ a.round = b.round
  BY DEF Link

LEMMA BeginNotLink ==
  ASSUME NEW c, NEW a, NEW x, NEW p, NEW b
  PROVE  Begin(c, a) # Link(x, p, b)
<1>1. Len(Begin(c, a)) = 2 /\ Len(Link(x, p, b)) = 3
  BY DEF Begin, Link
<1> QED BY <1>1

(* What the recursive function of Digest is: a chain of n digests, the first one *)
(* of the channel and the first round, each other one of the one before it, the *)
(* signature under the round before it, and its own round.                  *)
Function(f, n) == f = [i \in 1 .. n |-> f[i]]
Chain(f, c, list, n) ==
  /\ Function(f, n)
  /\ n > 0 => f[1] = Begin(c, list[1])
  /\ \A i \in 2 .. n : f[i] = Link(f[i - 1], list[i - 1], list[i])

(* There is a chain for every list, by induction over its length.           *)
LEMMA ChainExists ==
  ASSUME NEW c, NEW list, NEW n \in Nat
  PROVE  \E f : Chain(f, c, list, n)
<1> DEFINE T == {k \in Nat : \E f : Chain(f, c, list, k)}
<1>1. 0 \in T
  <2> DEFINE f == [i \in 1 .. 0 |-> 0]
  <2>1. Function(f, 0)
    BY DEF Function
  <2> HIDE DEF f
  <2>2. Chain(f, c, list, 0)
    BY <2>1 DEF Chain
  <2>3. QED
    BY <2>2
<1>2. ASSUME NEW k \in Nat, k \in T
      PROVE  k + 1 \in T
  <2>1. PICK f : Chain(f, c, list, k)
    BY <1>2
  <2> DEFINE g == [i \in 1 .. k + 1 |-> IF i = 1 THEN Begin(c, list[1])
                                        ELSE Link(f[i - 1], list[i - 1], list[i])]
  <2>2. \A i \in 1 .. k : g[i] = f[i]
    BY <2>1 DEF Chain
  <2>3. \A i \in 2 .. k + 1 : /\ g[i] = Link(f[i - 1], list[i - 1], list[i])
                              /\ i - 1 \in 1 .. k
    OBVIOUS
  <2>4. Function(g, k + 1) /\ g[1] = Begin(c, list[1])
    BY DEF Function
  <2> HIDE DEF g
  <2>5. \A i \in 2 .. k + 1 : g[i] = Link(g[i - 1], list[i - 1], list[i])
    BY <2>2, <2>3
  <2>6. Chain(g, c, list, k + 1)
    BY <2>4, <2>5 DEF Chain
  <2>7. QED
    BY <2>6
<1> HIDE DEF T
<1>3. n \in T
  BY <1>1, <1>2, Induct
<1>4. QED
  BY <1>3 DEF T

(* So Digest is what it is written to be: the last digest of a chain.       *)
LEMMA DigestIsChain ==
  ASSUME NEW c, NEW list, Len(list) \in Nat
  PROVE  \E f : Chain(f, c, list, Len(list)) /\ Digest(c, list) = f[Len(list)]
<1> DEFINE n == Len(list)
           Def(f) == [i \in 1 .. n |-> IF i = 1 THEN Begin(c, list[1])
                                       ELSE Link(f[i - 1], list[i - 1], list[i])]
           digest == CHOOSE f : f = Def(f)
<1>1. PICK f : Chain(f, c, list, n)
  BY ChainExists
<1>2. f = Def(f)
  <2>1. \A i \in 1 .. n : f[i] = Def(f)[i]
    BY <1>1 DEF Chain
  <2>2. f = [i \in 1 .. n |-> f[i]]
    BY <1>1 DEF Chain, Function
  <2>3. QED
    BY <2>1, <2>2, Zenon
<1>3. digest = Def(digest)
  BY <1>2, Zenon
<1>4. Chain(digest, c, list, n)
  <2>1. \A i \in 1 .. n : digest[i] = Def(digest)[i]
    BY <1>3, Zenon
  <2>2. Function(digest, n)
    <3>1. Def(digest) = [i \in 1 .. n |-> Def(digest)[i]]
      <4> HIDE DEF digest
      <4>1. QED
        OBVIOUS
    <3>2. QED
      BY <1>3, <3>1, Zenon DEF Function
  <2> HIDE DEF digest
  <2>3. QED
    BY <2>1, <2>2 DEF Chain
<1>5. Digest(c, list) = digest[n]
  BY Zenon DEF Digest, Begin, Link
<1>6. QED
  BY <1>4, <1>5

(* Two lists agree up to their i-th round, whose signature is left out: it is *)
(* what the digest is signed for.                                           *)
Agree(l, m, i) ==
  /\ \A j \in 1 .. i : l[j].round = m[j].round
  /\ \A j \in 1 .. i - 1 : l[j].signature = m[j].signature

(* Equal digests at two places of two chains are of the same channel, at the *)
(* same place, and over the same rounds and signatures: by induction over the *)
(* place, back to the first round.                                          *)
LEMMA ChainsInjective ==
  ASSUME NEW c, NEW d, NEW l, NEW m, NEW x \in Nat, NEW y \in Nat,
         NEW f, NEW g, Chain(f, c, l, x), Chain(g, d, m, y),
         NEW i \in 1 .. x, NEW j \in 1 .. y, f[i] = g[j]
  PROVE  i = j /\ c = d /\ Agree(l, m, i)
<1> DEFINE T == {k \in Nat : \A p \in 1 .. x, q \in 1 .. y :
                    p = k /\ f[p] = g[q] => p = q /\ c = d /\ Agree(l, m, p)}
<1>1. 0 \in T
  OBVIOUS
<1>2. ASSUME NEW k \in Nat, k \in T
      PROVE  k + 1 \in T
  <2> SUFFICES ASSUME NEW p \in 1 .. x, NEW q \in 1 .. y, p = k + 1, f[p] = g[q]
               PROVE  p = q /\ c = d /\ Agree(l, m, p)
    OBVIOUS
  <2>1. /\ p = 1 => f[p] = Begin(c, l[1])
        /\ p # 1 => f[p] = Link(f[p - 1], l[p - 1], l[p])
    BY DEF Chain
  <2>2. /\ q = 1 => g[q] = Begin(d, m[1])
        /\ q # 1 => g[q] = Link(g[q - 1], m[q - 1], m[q])
    BY DEF Chain
  <2>3. CASE p = 1 /\ q = 1
    <3>1. c = d /\ l[1].round = m[1].round
      BY <2>1, <2>2, <2>3, BeginInjective
    <3>2. QED
      BY <2>3, <3>1 DEF Agree
  <2>4. ~ (p = 1 /\ q # 1) /\ ~ (p # 1 /\ q = 1)
    BY <2>1, <2>2, BeginNotLink
  <2>5. CASE p # 1 /\ q # 1
    <3>1. f[p - 1] = g[q - 1] /\ l[p - 1].signature = m[q - 1].signature
            /\ l[p].round = m[q].round
      BY <2>1, <2>2, <2>5, LinkInjective
    <3>2. p - 1 \in 1 .. x /\ q - 1 \in 1 .. y /\ p - 1 = k
      BY <2>5
    <3>3. p - 1 = q - 1 /\ c = d /\ Agree(l, m, p - 1)
      BY <1>2, <3>1, <3>2
    <3>4. p = q
      BY <3>3
    <3>5. \A r \in 1 .. p : r = p \/ r \in 1 .. p - 1
      OBVIOUS
    <3>6. \A r \in 1 .. p - 1 : r = p - 1 \/ r \in 1 .. p - 1 - 1
      OBVIOUS
    <3>7. QED
      BY <3>1, <3>3, <3>4, <3>5, <3>6 DEF Agree
  <2>6. QED
    BY <2>3, <2>4, <2>5
<1> HIDE DEF T
<1>3. i \in T
  BY <1>1, <1>2, Induct
<1>4. QED
  BY <1>3 DEF T

(* And chains over lists that agree have the same digests.                  *)
LEMMA ChainsAgree ==
  ASSUME NEW c, NEW l, NEW m, NEW x \in Nat,
         NEW f, NEW g, Chain(f, c, l, x), Chain(g, c, m, x), Agree(l, m, x)
  PROVE  \A i \in 1 .. x : f[i] = g[i]
<1> DEFINE T == {k \in Nat : k \in 1 .. x => f[k] = g[k]}
<1>1. 0 \in T
  OBVIOUS
<1>2. ASSUME NEW k \in Nat, k \in T
      PROVE  k + 1 \in T
  <2> SUFFICES ASSUME k + 1 \in 1 .. x PROVE f[k + 1] = g[k + 1]
    OBVIOUS
  <2>1. CASE k = 0
    BY <2>1 DEF Chain, Agree, Begin
  <2>2. CASE k # 0
    <3>1. f[k] = g[k] /\ k \in 1 .. x - 1
      BY <1>2, <2>2
    <3>2. l[k].signature = m[k].signature /\ l[k + 1].round = m[k + 1].round
      BY <3>1 DEF Agree
    <3>3. f[k + 1] = Link(f[k], l[k], l[k + 1]) /\ g[k + 1] = Link(g[k], m[k], m[k + 1])
      BY <3>1 DEF Chain
    <3>4. QED
      BY <3>1, <3>2, <3>3 DEF Link
  <2>3. QED
    BY <2>1, <2>2
<1> HIDE DEF T
<1>3. \A k \in Nat : k \in T
  BY <1>1, <1>2, Induct
<1>4. QED
  BY <1>3 DEF T

(* The digest stands for the channel and for the list, up to the last signature *)
(* (interact.rs check_channel_round): nothing of it can be replaced.        *)
LEMMA DigestInjective ==
  ASSUME NEW c, NEW d, NEW S, NEW l \in Seq(S), NEW m \in Seq(S),
         l # << >>, m # << >>, Digest(c, l) = Digest(d, m)
  PROVE  c = d /\ Len(l) = Len(m) /\ Agree(l, m, Len(l))
<1>1. PICK f : Chain(f, c, l, Len(l)) /\ Digest(c, l) = f[Len(l)]
  BY DigestIsChain
<1>2. PICK g : Chain(g, d, m, Len(m)) /\ Digest(d, m) = g[Len(m)]
  BY DigestIsChain
<1>3. Len(l) \in 1 .. Len(l) /\ Len(m) \in 1 .. Len(m) /\ Len(l) \in Nat /\ Len(m) \in Nat
  OBVIOUS
<1>4. f[Len(l)] = g[Len(m)]
  BY <1>1, <1>2
<1> DEFINE x == Len(l)
           y == Len(m)
<1>5. /\ x \in Nat /\ y \in Nat /\ x \in 1 .. x /\ y \in 1 .. y
      /\ Chain(f, c, l, x) /\ Chain(g, d, m, y) /\ f[x] = g[y]
  BY <1>1, <1>2, <1>3, <1>4
<1> HIDE DEF x, y
<1>6. x = y /\ c = d /\ Agree(l, m, x)
  BY <1>5, ChainsInjective
<1>7. QED
  BY <1>6 DEF x, y

(* The last signature does not count, and sign_channel_round has none to hash. *)
LEMMA DigestAgree ==
  ASSUME NEW c, NEW S, NEW U, NEW l \in Seq(S), NEW m \in Seq(U),
         l # << >>, Len(l) = Len(m), Agree(l, m, Len(l))
  PROVE  Digest(c, l) = Digest(c, m)
<1>1. PICK f : Chain(f, c, l, Len(l)) /\ Digest(c, l) = f[Len(l)]
  BY DigestIsChain
<1>2. PICK g : Chain(g, c, m, Len(m)) /\ Digest(c, m) = g[Len(m)]
  BY DigestIsChain
<1>3. Len(l) \in 1 .. Len(l) /\ Len(l) \in Nat
  OBVIOUS
<1> DEFINE x == Len(l)
<1>4. /\ x \in Nat /\ x \in 1 .. x /\ Agree(l, m, x)
      /\ Chain(f, c, l, x) /\ Chain(g, c, m, x)
  BY <1>1, <1>2, <1>3
<1> HIDE DEF x
<1>6. f[x] = g[x]
  BY <1>4, ChainsAgree
<1>7. QED
  BY <1>1, <1>2, <1>6 DEF x

-----------------------------------------------------------------------------
(* The types. A signature in a list or a message is the last one of a list that *)
(* someone signed: what is not such a signature never checks.               *)
Signatures == {Last(p[2]).signature : p \in UNION {signed[u] : u \in Users}}
Entries == [round : Round, signature : Signatures]
Lists == Seq(Entries)

TypeOK ==
  /\ rounds \in [Channels -> [Users -> Lists]]
  /\ pending \in [Channels -> [Users -> Round \cup {NoRound}]]
  /\ recovering \in [Channels -> [Users -> BOOLEAN]]
  /\ messages \subseteq [channel : Channels, place : Nat, round : Round]
                          \cup [signature : Signatures] \cup [list : Lists]
  /\ signed \in [Users -> SUBSET (Channels \X Lists)]
  /\ crashes \in Nat /\ exports \in Nat

(* A user waits for the signature under a round of the user's own, in the user's *)
(* own turn.                                                                *)
OwnPending ==
  \A c \in Channels, u \in Users :
    pending[c][u] # NoRound =>
      /\ pending[c][u].user_type = u
      /\ Turn(rounds[c][u]) = u
      /\ ~recovering[c][u]

(* What a user has signed is as sign_channel_round makes it, and a round of the *)
(* other user.                                                              *)
SignedOnce ==
  \A u \in Users : \A p \in signed[u] :
    /\ p[2] # << >>
    /\ Last(p[2]).signature = Sign(Digest(p[1], p[2]), u)
    /\ Signer(Last(p[2]).round) = u

(* Every round of the list was signed, with what is before it, by the user who *)
(* had to; and this goes for the lists the users hold, and for those on the way. *)
Genuine(s, c, list) ==
  \A i \in DOMAIN list : <<c, Prefix(list, i)>> \in s[Signer(list[i].round)]

AllGenuine ==
  /\ \A c \in Channels, u \in Users : Genuine(signed, c, rounds[c][u])
  /\ \A m \in messages : "list" \in DOMAIN m => \E c \in Channels : Genuine(signed, c, m.list)

(* A round on its way is at most one ahead of what its maker holds, and then it *)
(* is the maker's open one.                                                 *)
Asked(m, c) ==
  LET v == m.round.user_type IN
  /\ m.place <= Len(rounds[c][v])
  /\ m.place = Len(rounds[c][v]) => pending[c][v] = m.round

(* While nobody has lost a list, all a user has signed is still in it, and the *)
(* rounds on their way are of its maker.                                    *)
NothingLost ==
  crashes = 0 =>
    \A c \in Channels :
      /\ \A u \in Users : ~recovering[c][u]
      /\ \A u \in Users : \A p \in signed[u] : p[1] = c => IsPrefix(p[2], rounds[c][u])
      /\ \A m \in messages : "round" \in DOMAIN m /\ m.channel = c => Asked(m, c)

-----------------------------------------------------------------------------
(* What is signed stays signed, so that lists and entries keep their types. *)
LEMMA ListsGrow ==
  ASSUME \A u \in Users : signed[u] \subseteq signed'[u]
  PROVE  Signatures \subseteq Signatures' /\ Entries \subseteq Entries' /\ Lists \subseteq Lists'
<1>1. Signatures \subseteq Signatures'
  BY DEF Signatures
<1>2. Entries \subseteq Entries'
  BY <1>1 DEF Entries
<1>3. Lists \subseteq Lists'
  <2>1. ASSUME NEW l \in Lists
        PROVE  l \in Lists'
    BY <1>2, SeqMonotonic DEF Lists
  <2>2. QED
    BY <2>1
<1>4. QED
  BY <1>1, <1>2, <1>3

(* The three kinds of messages are told apart by their fields.              *)
LEMMA MessageTypes ==
  ASSUME TypeOK, NEW m \in messages
  PROVE  /\ "round" \in DOMAIN m => m \in [channel : Channels, place : Nat, round : Round]
         /\ "signature" \in DOMAIN m => m \in [signature : Signatures]
         /\ "list" \in DOMAIN m => m \in [list : Lists]
<1>1. CASE m \in [channel : Channels, place : Nat, round : Round]
  <2>1. DOMAIN m = {"channel", "place", "round"}
    BY <1>1
  <2>2. QED
    BY <1>1, <2>1
<1>2. CASE m \in [signature : Signatures]
  <2>1. DOMAIN m = {"signature"}
    BY <1>2
  <2>2. QED
    BY <1>2, <2>1
<1>3. CASE m \in [list : Lists]
  <2>1. DOMAIN m = {"list"}
    BY <1>3
  <2>2. QED
    BY <1>3, <2>1
<1>4. QED
  BY <1>1, <1>2, <1>3 DEF TypeOK

(* The turn is of one of the two.                                           *)
LEMMA Turns ==
  ASSUME NEW list, Len(list) \in Nat
  PROVE  Turn(list) \in Users
  BY DEF Turn, Users

(* The types are kept by each action.                                       *)
LEMMA TypeInit == Init => TypeOK
  BY EmptySeq, RoundsAssumption DEF Init, TypeOK, Lists, Users

LEMMA TypeMake ==
  ASSUME TypeOK, NEW c \in Channels, NEW u \in Users, NEW operations \in Operations,
         Make(c, u, operations)
  PROVE  TypeOK'
<1>1. make_round(u, operations) \in Round
  BY DEF make_round, Round
<1>2. UNCHANGED signed
  BY DEF Make
<1>3. Signatures' = Signatures /\ Lists' = Lists
  BY <1>2 DEF Signatures, Lists, Entries
<1>4. Len(rounds[c][u]) \in Nat
  BY DEF TypeOK, Lists
<1>5. [channel |-> c, place |-> Len(rounds[c][u]), round |-> make_round(u, operations)]
        \in [channel : Channels, place : Nat, round : Round]
  BY <1>1, <1>4
<1>6. pending' \in [Channels -> [Users -> Round \cup {NoRound}]]
  BY <1>1 DEF TypeOK, Make
<1>7. QED
  BY <1>2, <1>3, <1>5, <1>6 DEF TypeOK, Make

LEMMA TypeSign ==
  ASSUME TypeOK, NEW c \in Channels, NEW u \in Users, NEW m \in messages,
         SignRound(c, u, m)
  PROVE  TypeOK'
<1> DEFINE signature == sign_channel_round(c, rounds[c][u], m.round, u)
           entry == Entry(m.round, signature)
           list == Append(rounds[c][u], entry)
<1>1. m.round \in Round
  BY DEF TypeOK, SignRound
<1>2. \A v \in Users : signed[v] \subseteq signed'[v]
  BY DEF TypeOK, SignRound
<1>3. Lists \subseteq Lists' /\ Signatures \subseteq Signatures'
  BY <1>2, ListsGrow
<1>4. <<c, list>> \in signed'[u]
  BY DEF TypeOK, SignRound
<1>5. Last(list) = entry /\ entry.signature = signature
  BY DEF Last, TypeOK, Lists, Entry
<1>6. signature \in Signatures'
  <2>1. Last(<<c, list>>[2]).signature = signature
    BY <1>5
  <2>2. QED
    BY <1>4, <2>1, Zenon DEF Signatures
<1>7. entry \in Entries'
  BY <1>1, <1>6 DEF Entries, Entry
<1>8. rounds[c][u] \in Lists'
  BY <1>3 DEF TypeOK
<1>9. list \in Lists'
  BY <1>7, <1>8 DEF Lists
<1>10. /\ rounds' = [rounds EXCEPT ![c][u] = list]
       /\ signed' = [signed EXCEPT ![u] = @ \cup {<<c, list>>}]
       /\ messages' = messages \cup {[signature |-> signature]}
       /\ UNCHANGED <<pending, recovering, crashes, exports>>
  BY DEF SignRound
<1> HIDE DEF signature, entry, list
<1>11. rounds' \in [Channels -> [Users -> Lists']]
  BY <1>3, <1>9, <1>10 DEF TypeOK
<1>12. signed' \in [Users -> SUBSET (Channels \X Lists')]
  BY <1>3, <1>9, <1>10 DEF TypeOK
<1>13. messages' \subseteq [channel : Channels, place : Nat, round : Round]
                          \cup [signature : Signatures'] \cup [list : Lists']
  BY <1>3, <1>6, <1>10 DEF TypeOK
<1>14. QED
  BY <1>10, <1>11, <1>12, <1>13 DEF TypeOK

LEMMA AcceptEntry ==
  ASSUME TypeOK, NEW c \in Channels, NEW u \in Users, NEW m \in messages,
         Accept(c, u, m)
  PROVE  Entry(pending[c][u], m.signature) \in Entries
<1>1. m.signature \in Signatures
  BY MessageTypes DEF Accept
<1>2. pending[c][u] \in Round
  BY DEF TypeOK, Accept
<1>3. QED
  BY <1>1, <1>2 DEF Entry, Entries

LEMMA TypeAccept ==
  ASSUME TypeOK, NEW c \in Channels, NEW u \in Users, NEW m \in messages,
         Accept(c, u, m)
  PROVE  TypeOK'
<1> DEFINE entry == Entry(pending[c][u], m.signature)
<1>1. Signatures' = Signatures /\ Lists' = Lists
  BY DEF Signatures, Lists, Entries, Accept
<1>2. entry \in Entries
  BY AcceptEntry
<1>3. Append(rounds[c][u], entry) \in Lists
  BY <1>2 DEF TypeOK, Lists
<1>4. rounds' = [rounds EXCEPT ![c][u] = Append(rounds[c][u], entry)]
  BY DEF Accept
<1>5. rounds' \in [Channels -> [Users -> Lists]]
  BY <1>3, <1>4 DEF TypeOK
<1>6. QED
  BY <1>1, <1>5 DEF TypeOK, Accept

LEMMA TypeCrash ==
  ASSUME TypeOK, NEW c \in Channels, NEW u \in Users, Crash(c, u)
  PROVE  TypeOK'
<1>1. Signatures' = Signatures /\ Lists' = Lists
  BY DEF Signatures, Lists, Entries, Crash
<1>2. << >> \in Lists
  BY EmptySeq DEF Lists
<1>3. QED
  BY <1>1, <1>2 DEF TypeOK, Crash

LEMMA TypeExport ==
  ASSUME TypeOK, NEW c \in Channels, NEW u \in Users, Export(c, u)
  PROVE  TypeOK'
<1>1. Signatures' = Signatures /\ Lists' = Lists
  BY DEF Signatures, Lists, Entries, Export
<1>2. [list |-> rounds[c][u]] \in [list : Lists]
  BY DEF TypeOK
<1>3. QED
  BY <1>1, <1>2 DEF TypeOK, Export

-----------------------------------------------------------------------------
(* The signer of a round is one of the two.                                 *)
LEMMA SignerUser ==
  ASSUME NEW round \in Round
  PROVE  Signer(round) \in Users
  BY DEF Signer, Other, Users, Round

(* The prefixes of a list with one more round.                              *)
LEMMA PrefixAppend ==
  ASSUME NEW S, NEW list \in Seq(S), NEW e \in S
  PROVE  /\ \A i \in 1 .. Len(list) : Prefix(Append(list, e), i) = Prefix(list, i)
         /\ Prefix(Append(list, e), Len(list) + 1) = Append(list, e)
<1>1. ASSUME NEW i \in 1 .. Len(list)
      PROVE  SubSeq(Append(list, e), 1, i) = SubSeq(list, 1, i)
  BY SubSeqOfConcat1, SMT
<1>2. SubSeq(Append(list, e), 1, Len(Append(list, e))) = Append(list, e)
  BY AppendProperties, SubSeqFull
<1>3. QED
  BY <1>1, <1>2, AppendProperties DEF Prefix

(* A genuine list stays so when more is signed, and when a round is added that *)
(* was signed with the list before it.                                      *)
LEMMA GenuineGrows ==
  ASSUME NEW c, NEW s, NEW t, NEW list, Genuine(s, c, list),
         \A i \in DOMAIN list : list[i].round \in Round,
         \A u \in Users : s[u] \subseteq t[u]
  PROVE  Genuine(t, c, list)
  BY SignerUser DEF Genuine

LEMMA GenuineAppend ==
  ASSUME NEW c, NEW s, NEW S, NEW list \in Seq(S), NEW e \in S, Genuine(s, c, list),
         <<c, Append(list, e)>> \in s[Signer(e.round)]
  PROVE  Genuine(s, c, Append(list, e))
<1>1. DOMAIN Append(list, e) = 1 .. Len(list) + 1 /\ DOMAIN list = 1 .. Len(list)
  OBVIOUS
<1>2. ASSUME NEW i \in 1 .. Len(list)
      PROVE  <<c, Prefix(Append(list, e), i)>> \in s[Signer(Append(list, e)[i].round)]
  <2>1. Append(list, e)[i] = list[i] /\ i \in DOMAIN list
    OBVIOUS
  <2>2. Prefix(Append(list, e), i) = Prefix(list, i)
    BY PrefixAppend
  <2>3. QED
    BY <2>1, <2>2 DEF Genuine
<1>3. /\ Append(list, e)[Len(list) + 1] = e
      /\ Prefix(Append(list, e), Len(list) + 1) = Append(list, e)
  BY PrefixAppend
<1>4. \A i \in 1 .. Len(list) + 1 : i \in 1 .. Len(list) \/ i = Len(list) + 1
  OBVIOUS
<1>5. QED
  BY <1>1, <1>2, <1>3, <1>4 DEF Genuine

(* Of a genuine list, its whole was signed too.                             *)
LEMMA GenuineWhole ==
  ASSUME NEW c, NEW list \in Lists, list # << >>, Genuine(signed, c, list)
  PROVE  Last(list).round \in Round /\ <<c, list>> \in signed[Signer(Last(list).round)]
<1>1. Len(list) \in DOMAIN list /\ Prefix(list, Len(list)) = list
  BY SubSeqFull DEF Lists, Prefix
<1>2. list[Len(list)] \in Entries
  BY <1>1 DEF Lists
<1>3. QED
  BY <1>1, <1>2 DEF Genuine, Last, Entries

(* Lists with bytes among their signatures that are nobody's, as a list may be *)
(* that was tampered with.                                                  *)
Wide == [round : Round, signature : Signatures \cup {Garbage}]

LEMMA RoundsOf ==
  ASSUME NEW list \in Lists
  PROVE  \A i \in DOMAIN list : list[i].round \in Round
<1>1. \A i \in DOMAIN list : list[i] \in Entries
  BY DEF Lists
<1>2. QED
  BY <1>1 DEF Entries

LEMMA ListsWide ==
  ASSUME NEW l \in Lists
  PROVE  l \in Seq(Wide)
<1>1. Entries \subseteq Wide
  BY DEF Entries, Wide
<1>2. QED
  BY <1>1, SeqMonotonic DEF Lists

(* A variant of a list that ends with a signature somebody gave, and agrees with *)
(* it in everything but that signature, is the list itself.                 *)
LEMMA Tampered ==
  ASSUME NEW l \in Lists, l # << >>, NEW list \in Variants(l)
  PROVE  /\ list \in Seq(Wide) /\ Len(list) = Len(l)
         /\ Last(list).signature \in {Garbage, Last(l).signature}
         /\ Agree(list, l, Len(l)) /\ Last(list).signature = Last(l).signature => list = l
<1> DEFINE n == Len(l)
<1>1. n \in Nat \ {0} /\ DOMAIN l = 1 .. n /\ l \in Seq(Wide)
  BY ListsWide DEF Lists
<1>2. CASE list = l
  BY <1>1, <1>2 DEF Last
<1>3. ASSUME NEW i \in DOMAIN l, list = [l EXCEPT ![i].signature = Garbage]
      PROVE  /\ list \in Seq(Wide) /\ Len(list) = Len(l)
             /\ Last(list).signature \in {Garbage, Last(l).signature}
             /\ Agree(list, l, Len(l)) /\ Last(list).signature = Last(l).signature => list = l
  <2>1. l[i] \in Wide /\ i \in 1 .. n
    BY <1>1
  <2> DEFINE e == [l[i] EXCEPT !.signature = Garbage]
  <2>2. e \in Wide /\ e.signature = Garbage /\ (l[i].signature = Garbage => e = l[i])
    BY <2>1 DEF Wide
  <2>3. list = [l EXCEPT ![i] = e]
    BY <1>3
  <2> HIDE DEF e
  <2>4. /\ list \in Seq(Wide) /\ Len(list) = n
        /\ \A j \in 1 .. n : list[j] = IF j = i THEN e ELSE l[j]
    BY <1>1, <2>1, <2>2, <2>3, ExceptSeq
  <2>5. Last(list).signature \in {Garbage, Last(l).signature}
    BY <1>1, <2>2, <2>4 DEF Last
  <2>6. ASSUME Agree(list, l, n), Last(list).signature = Last(l).signature
        PROVE  list = l
    <3>1. l[i].signature = Garbage
      <4>1. CASE i = n
        BY <1>1, <2>2, <2>4, <2>6, <4>1 DEF Last
      <4>2. CASE i \in 1 .. n - 1
        BY <1>1, <2>2, <2>4, <2>6, <4>2 DEF Agree
      <4>3. QED
        BY <1>1, <2>1, <4>1, <4>2
    <3>2. QED
      BY <1>1, <2>2, <2>3, <3>1
  <2>7. QED
    BY <2>4, <2>5, <2>6
<1>4. ASSUME NEW i \in DOMAIN l, NEW operations \in Operations,
             list = [l EXCEPT ![i].round.operations = operations]
      PROVE  /\ list \in Seq(Wide) /\ Len(list) = Len(l)
             /\ Last(list).signature \in {Garbage, Last(l).signature}
             /\ Agree(list, l, Len(l)) /\ Last(list).signature = Last(l).signature => list = l
  <2>1. l[i] \in Wide /\ i \in 1 .. n
    BY <1>1
  <2> DEFINE e == [l[i] EXCEPT !.round.operations = operations]
  <2>2. e \in Wide /\ e.signature = l[i].signature /\ (l[i].round = e.round => e = l[i])
    BY <2>1 DEF Wide, Round
  <2>3. list = [l EXCEPT ![i] = e]
    BY <1>4
  <2> HIDE DEF e
  <2>4. /\ list \in Seq(Wide) /\ Len(list) = n
        /\ \A j \in 1 .. n : list[j] = IF j = i THEN e ELSE l[j]
    BY <1>1, <2>1, <2>2, <2>3, ExceptSeq
  <2>5. Last(list).signature = Last(l).signature
    BY <1>1, <2>2, <2>4 DEF Last
  <2>6. ASSUME Agree(list, l, n)
        PROVE  list = l
    <3>1. l[i].round = e.round
      BY <1>1, <2>1, <2>4, <2>6 DEF Agree
    <3>2. QED
      BY <1>1, <2>2, <2>3, <3>1
  <2>7. QED
    BY <2>4, <2>5, <2>6
<1>5. QED
  BY <1>2, <1>3, <1>4 DEF Variants

(* What check_channel_round (interact.rs 225) is for: of the variants of a list *)
(* only the list itself is imported, because the last signature is over all the *)
(* rest (DigestInjective), and nobody signs the same digest twice.          *)
LEMMA ImportSame ==
  ASSUME TypeOK, SignedOnce, AllGenuine, NEW c \in Channels, NEW u \in Users,
         NEW m \in messages, Import(c, u, m)
  PROVE  /\ m.list \in Lists /\ Genuine(signed, c, m.list)
         /\ rounds' = [rounds EXCEPT ![c][u] = m.list]
<1>1. m.list \in Lists
  BY MessageTypes DEF Import
<1>2. PICK list \in Variants(m.list) :
         /\ check_channel_round(c, list, IF list = << >> THEN Other(u) ELSE Signer(Last(list).round))
         /\ rounds' = [rounds EXCEPT ![c][u] = list]
  BY Zenon DEF Import
<1>3. CASE m.list = << >>
  <2>1. list = << >>
    BY <1>3 DEF Variants
  <2>2. Genuine(signed, c, << >>)
    BY DEF Genuine
  <2>3. QED
    BY <1>1, <1>2, <1>3, <2>1, <2>2
<1>4. CASE m.list # << >>
  <2> DEFINE l == m.list
  <2>1. PICK d \in Channels : Genuine(signed, d, l)
    BY DEF AllGenuine, Import
  <2>2. /\ list \in Seq(Wide) /\ Len(list) = Len(l)
        /\ Last(list).signature \in {Garbage, Last(l).signature}
        /\ Agree(list, l, Len(l)) /\ Last(list).signature = Last(l).signature => list = l
    BY <1>1, <1>2, <1>4, Tampered
  <2>3. list # << >> /\ Last(list).round \in Round
    <3>1. Len(list) \in 1 .. Len(list)
      BY <1>1, <1>4, <2>2 DEF Lists
    <3>2. list[Len(list)] \in Wide
      BY <2>2, <3>1
    <3>3. QED
      BY <3>1, <3>2 DEF Last, Wide
  <2>4. Recover(Last(list).signature, Digest(c, list)) \in Users
    BY <1>2, <2>3, SignerUser DEF check_channel_round
  <2>5. Last(list).signature # Garbage /\ Last(list).signature.digest = Digest(c, list)
    BY <2>4 DEF Recover, Garbage, Sign, Users
  <2>6. <<d, l>> \in signed[Signer(Last(l).round)] /\ Signer(Last(l).round) \in Users
    BY <1>1, <1>4, <2>1, GenuineWhole, SignerUser
  <2>7. Last(l).signature.digest = Digest(d, l)
    <3>1. Last(<<d, l>>[2]).signature = Sign(Digest(<<d, l>>[1], <<d, l>>[2]), Signer(Last(l).round))
      BY <2>6, Zenon DEF SignedOnce
    <3>2. QED
      BY <3>1 DEF Sign
  <2>8. Digest(c, list) = Digest(d, l)
    BY <2>2, <2>5, <2>7
  <2>9. l \in Seq(Wide)
    BY <1>1, ListsWide
  <2>10. c = d /\ Agree(list, l, Len(list))
    BY <1>4, <2>2, <2>3, <2>8, <2>9, DigestInjective
  <2>11. QED
    BY <1>1, <1>2, <2>1, <2>2, <2>5, <2>10
<1>5. QED
  BY <1>3, <1>4

LEMMA TypeImport ==
  ASSUME TypeOK, SignedOnce, AllGenuine, NEW c \in Channels, NEW u \in Users,
         NEW m \in messages, Import(c, u, m)
  PROVE  TypeOK'
<1>1. Signatures' = Signatures /\ Lists' = Lists
  BY DEF Signatures, Lists, Entries, Import
<1>2. rounds' = [rounds EXCEPT ![c][u] = m.list] /\ m.list \in Lists
  BY ImportSame
<1>3. QED
  BY <1>1, <1>2 DEF TypeOK, Import

LEMMA TypeStep ==
  ASSUME TypeOK, SignedOnce, AllGenuine, [Next]_vars
  PROVE  TypeOK'
<1>1. CASE UNCHANGED vars
  <2>1. Signatures' = Signatures /\ Lists' = Lists
    BY <1>1 DEF Signatures, Lists, Entries, vars
  <2>2. QED
    BY <1>1, <2>1 DEF TypeOK, vars
<1>2. CASE Next
  BY <1>2, TypeMake, TypeSign, TypeAccept, TypeCrash, TypeExport, TypeImport DEF Next
<1>3. QED
  BY <1>1, <1>2

(* A signature a user accepts is the other user's, under the very list the user *)
(* holds, with the user's own round at its end.                             *)
LEMMA AcceptSigned ==
  ASSUME TypeOK, OwnPending, SignedOnce, NEW c \in Channels, NEW u \in Users,
         NEW m \in messages, Accept(c, u, m)
  PROVE  <<c, Append(rounds[c][u], Entry(pending[c][u], m.signature))>> \in signed[Other(u)]
<1> DEFINE entry == Entry(pending[c][u], m.signature)
           list == Append(rounds[c][u], entry)
<1>1. entry \in Entries /\ entry.signature = m.signature
  BY AcceptEntry DEF Entry
<1>2. rounds[c][u] \in Seq(Entries)
  BY DEF TypeOK, Lists
<1> HIDE DEF entry
<1>3. list \in Seq(Entries) /\ list # << >> /\ Last(list) = entry
  BY <1>1, <1>2 DEF Last
<1>4. check_channel_round(c, list, Other(u))
  BY DEF Accept, entry
<1>5. Recover(m.signature, Digest(c, list)) \in Users
        /\ Recover(m.signature, Digest(c, list)) = Other(u)
  BY <1>1, <1>3, <1>4 DEF check_channel_round, Users, Other
<1>6. m.signature.digest = Digest(c, list) /\ m.signature.by = Other(u)
  BY <1>5 DEF Recover, Users
<1>7. m.signature \in Signatures
  BY MessageTypes DEF Accept
<1>8. PICK v \in Users : \E p \in signed[v] : m.signature = Last(p[2]).signature
  BY <1>7 DEF Signatures
<1> PICK p \in signed[v] : m.signature = Last(p[2]).signature
  BY <1>8
<1>9. PICK d \in Channels, l \in Seq(Entries) : p = <<d, l>>
  BY DEF TypeOK, Lists
<1>10. /\ l # << >>
       /\ Last(l).signature = Sign(Digest(d, l), v)
  BY <1>9 DEF SignedOnce
<1> HIDE DEF list
<1>11. v = Other(u) /\ Digest(d, l) = Digest(c, list) /\ Last(l).signature = m.signature
  <2>1. p[2] = l
    BY <1>9
  <2>2. Last(l).signature = m.signature
    BY <1>8, <2>1
  <2>3. QED
    BY <1>6, <1>10, <2>2 DEF Sign
<1>12. c = d /\ Len(l) = Len(list) /\ Agree(l, list, Len(l))
  BY <1>3, <1>10, <1>11, DigestInjective
<1>13. l = list
  <2>1. ASSUME NEW i \in 1 .. Len(l)
        PROVE  l[i] = list[i]
    <3>1. l[i] \in Entries /\ list[i] \in Entries /\ l[i].round = list[i].round
      BY <1>3, <1>12 DEF Agree
    <3>2. l[i].signature = list[i].signature
      <4>1. CASE i = Len(l)
        BY <1>1, <1>3, <1>11, <1>12, <4>1 DEF Last
      <4>2. CASE i # Len(l)
        BY <1>12, <4>2 DEF Agree
      <4>3. QED
        BY <4>1, <4>2
    <3>3. QED
      BY <3>1, <3>2 DEF Entries
  <2>2. QED
    BY <1>3, <1>12, <2>1, SeqEqual
<1>14. QED
  BY <1>8, <1>9, <1>11, <1>12, <1>13 DEF entry, list

-----------------------------------------------------------------------------
(* The parts of the invariant, each kept by every action.                   *)
LEMMA PendingStep ==
  ASSUME TypeOK, OwnPending, [Next]_vars
  PROVE  OwnPending'
<1>1. CASE UNCHANGED vars
  BY <1>1 DEF OwnPending, vars
<1>2. ASSUME NEW c \in Channels, NEW u \in Users, NEW operations \in Operations,
             Make(c, u, operations)
      PROVE  OwnPending'
  BY <1>2 DEF Make, OwnPending, TypeOK, make_round
<1>3. ASSUME NEW c \in Channels, NEW u \in Users, NEW m \in messages, SignRound(c, u, m)
      PROVE  OwnPending'
  <2>1. pending[c][u] = NoRound
    BY <1>3 DEF OwnPending, SignRound
  <2>2. /\ \A d \in Channels, v \in Users :
               d # c \/ v # u => rounds'[d][v] = rounds[d][v]
        /\ UNCHANGED <<pending, recovering>>
    BY <1>3 DEF SignRound, TypeOK
  <2>3. QED
    BY <2>1, <2>2 DEF OwnPending
<1>4. ASSUME NEW c \in Channels, NEW u \in Users, NEW m \in messages, Accept(c, u, m)
      PROVE  OwnPending'
  <2>1. /\ \A d \in Channels, v \in Users :
               d # c \/ v # u => rounds'[d][v] = rounds[d][v] /\ pending'[d][v] = pending[d][v]
        /\ pending'[c][u] = NoRound
        /\ UNCHANGED recovering
    BY <1>4 DEF Accept, TypeOK
  <2>2. QED
    BY <2>1 DEF OwnPending
<1>5. ASSUME NEW c \in Channels, NEW u \in Users, NEW m \in messages, Import(c, u, m)
      PROVE  OwnPending'
  <2>1. PICK list : rounds' = [rounds EXCEPT ![c][u] = list]
    BY <1>5, Zenon DEF Import
  <2>2. /\ recovering' = [recovering EXCEPT ![c][u] = FALSE]
        /\ recovering[c][u]
        /\ UNCHANGED pending
    BY <1>5 DEF Import
  <2>3. \A d \in Channels, v \in Users :
               d # c \/ v # u => /\ rounds'[d][v] = rounds[d][v]
                                /\ recovering'[d][v] = recovering[d][v]
    BY <2>1, <2>2 DEF TypeOK
  <2>4. pending[c][u] = NoRound
    BY <2>2 DEF OwnPending
  <2>5. ASSUME NEW d \in Channels, NEW v \in Users, pending'[d][v] # NoRound
        PROVE  /\ pending'[d][v].user_type = v
               /\ Turn(rounds'[d][v]) = v
               /\ ~recovering'[d][v]
    <3>1. d # c \/ v # u
      BY <2>2, <2>4, <2>5
    <3>2. rounds'[d][v] = rounds[d][v] /\ recovering'[d][v] = recovering[d][v]
      BY <2>3, <3>1
    <3>3. QED
      BY <2>2, <2>5, <3>2 DEF OwnPending
  <2>6. QED
    BY <2>5 DEF OwnPending
<1>6. ASSUME NEW c \in Channels, NEW u \in Users, Crash(c, u)
      PROVE  OwnPending'
  <2>1. /\ \A d \in Channels, v \in Users :
               d # c \/ v # u => /\ rounds'[d][v] = rounds[d][v]
                                /\ pending'[d][v] = pending[d][v]
                                /\ recovering'[d][v] = recovering[d][v]
        /\ pending'[c][u] = NoRound
    BY <1>6 DEF Crash, TypeOK
  <2>2. QED
    BY <2>1 DEF OwnPending
<1>7. ASSUME NEW c \in Channels, NEW u \in Users, Export(c, u)
      PROVE  OwnPending'
  BY <1>7 DEF OwnPending, Export
<1>8. QED
  BY <1>1, <1>2, <1>3, <1>4, <1>5, <1>6, <1>7 DEF Next

LEMMA SignedStep ==
  ASSUME TypeOK, SignedOnce, [Next]_vars
  PROVE  SignedOnce'
<1>1. ASSUME NEW c \in Channels, NEW u \in Users, NEW m \in messages, SignRound(c, u, m)
      PROVE  SignedOnce'
  <2> DEFINE signature == sign_channel_round(c, rounds[c][u], m.round, u)
             entry == Entry(m.round, signature)
             blank == Entry(m.round, Garbage)
             list == Append(rounds[c][u], entry)
             unsigned == Append(rounds[c][u], blank)
             S == Entries \cup {entry, blank}
  <2>1. rounds[c][u] \in Seq(S)
    <3>1. rounds[c][u] \in Seq(Entries)
      BY DEF TypeOK, Lists
    <3>2. QED
      BY <3>1, SeqMonotonic
  <2>2. /\ list \in Seq(S) /\ unsigned \in Seq(S) /\ list # << >>
        /\ Len(list) = Len(unsigned) /\ Len(list) = Len(rounds[c][u]) + 1
    BY <2>1
  <2>3. Agree(list, unsigned, Len(list))
    <3>1. \A i \in 1 .. Len(list) - 1 : list[i] = unsigned[i]
      BY <2>1
    <3>2. list[Len(list)].round = m.round /\ unsigned[Len(list)].round = m.round
      BY <2>1 DEF Entry
    <3>3. \A i \in 1 .. Len(list) : i \in 1 .. Len(list) - 1 \/ i = Len(list)
      BY <2>2, <2>1
    <3>4. QED
      BY <3>1, <3>2, <3>3 DEF Agree
  <2>4. Digest(c, unsigned) = Digest(c, list)
    <3> HIDE DEF list, unsigned, S
    <3>1. QED
      BY <2>2, <2>3, DigestAgree
  <2>5. signature = Sign(Digest(c, list), u)
    BY <2>4 DEF sign_channel_round
  <2>6. Last(list) = entry
    BY <2>1 DEF Last
  <2>7. entry.signature = signature /\ entry.round = m.round
    BY DEF Entry
  <2>8. Signer(m.round) = u
    <3>1. m.round \in Round /\ m.round.user_type # u
      BY <1>1, MessageTypes DEF SignRound
    <3>2. QED
      BY <3>1 DEF Signer, Other, Users, Round
  <2>9. signed' = [signed EXCEPT ![u] = @ \cup {<<c, list>>}]
    BY <1>1 DEF SignRound
  <2> HIDE DEF list, entry, signature
  <2>10. ASSUME NEW v \in Users, NEW p \in signed'[v]
         PROVE  /\ p[2] # << >>
                /\ Last(p[2]).signature = Sign(Digest(p[1], p[2]), v)
                /\ Signer(Last(p[2]).round) = v
    <3>1. CASE p \in signed[v]
      BY <3>1 DEF SignedOnce
    <3>2. CASE v = u /\ p = <<c, list>>
      BY <2>2, <2>5, <2>6, <2>7, <2>8, <3>2
    <3>3. QED
      BY <2>9, <3>1, <3>2 DEF TypeOK
  <2>11. QED
    BY <2>10 DEF SignedOnce
<1>2. ASSUME UNCHANGED signed
      PROVE  SignedOnce'
  BY <1>2 DEF SignedOnce
<1>3. QED
  BY <1>1, <1>2 DEF Next, vars, Make, Accept, Import, Crash, Export

-----------------------------------------------------------------------------
LEMMA GenuineStep ==
  ASSUME TypeOK, OwnPending, SignedOnce, AllGenuine, [Next]_vars
  PROVE  AllGenuine'
<1>1. ASSUME NEW c \in Channels, NEW u \in Users, NEW m \in messages, SignRound(c, u, m)
      PROVE  AllGenuine'
  <2> DEFINE entry == Entry(m.round, sign_channel_round(c, rounds[c][u], m.round, u))
             list == Append(rounds[c][u], entry)
             S == Entries \cup {entry}
  <2>1. \A v \in Users : signed[v] \subseteq signed'[v]
    BY <1>1 DEF TypeOK, SignRound
  <2>2. ASSUME NEW d, NEW l \in Lists, Genuine(signed, d, l)
        PROVE  Genuine(signed', d, l)
    BY <2>1, <2>2, RoundsOf, GenuineGrows
  <2>3. Genuine(signed', c, list)
    <3>1. rounds[c][u] \in Lists /\ rounds[c][u] \in Seq(S)
      BY SeqMonotonic DEF TypeOK, Lists
    <3>2. Genuine(signed', c, rounds[c][u])
      BY <2>2, <3>1 DEF AllGenuine
    <3>3. m.round \in Round /\ m.round.user_type # u
      BY <1>1, MessageTypes DEF SignRound
    <3>4. Signer(entry.round) = u
      BY <3>3 DEF Signer, Other, Users, Round, Entry
    <3>5. <<c, list>> \in signed'[u]
      BY <1>1 DEF TypeOK, SignRound
    <3> HIDE DEF entry
    <3>6. QED
      BY <3>1, <3>2, <3>4, <3>5, GenuineAppend
  <2>4. rounds' = [rounds EXCEPT ![c][u] = list]
    BY <1>1 DEF SignRound
  <2>5. PICK signature : messages' = messages \cup {[signature |-> signature]}
    BY <1>1 DEF SignRound
  <2> HIDE DEF list
  <2>6. ASSUME NEW d \in Channels, NEW v \in Users
        PROVE  Genuine(signed', d, rounds'[d][v])
    <3>1. rounds'[d][v] = IF d = c /\ v = u THEN list ELSE rounds[d][v]
      BY <2>4 DEF TypeOK
    <3>2. rounds[d][v] \in Lists /\ Genuine(signed, d, rounds[d][v])
      BY DEF TypeOK, AllGenuine
    <3>3. QED
      BY <2>2, <2>3, <3>1, <3>2
  <2>7. ASSUME NEW n \in messages', "list" \in DOMAIN n
        PROVE  \E d \in Channels : Genuine(signed', d, n.list)
    <3>1. n \in messages
      BY <2>5, <2>7
    <3>2. n.list \in Lists
      BY <2>7, <3>1, MessageTypes
    <3>3. PICK d \in Channels : Genuine(signed, d, n.list)
      BY <2>7, <3>1 DEF AllGenuine
    <3>4. QED
      BY <2>2, <3>2, <3>3
  <2>8. QED
    BY <2>6, <2>7 DEF AllGenuine
<1>2. ASSUME NEW c \in Channels, NEW u \in Users, NEW l, Genuine(signed, c, l),
             rounds' = [rounds EXCEPT ![c][u] = l], UNCHANGED <<messages, signed>>
      PROVE  AllGenuine'
  <2>1. \A d \in Channels, v \in Users :
          rounds'[d][v] = IF d = c /\ v = u THEN l ELSE rounds[d][v]
    BY <1>2 DEF TypeOK
  <2>2. QED
    BY <1>2, <2>1 DEF AllGenuine
<1>3. ASSUME NEW c \in Channels, NEW u \in Users, NEW m \in messages, Accept(c, u, m)
      PROVE  AllGenuine'
  <2> DEFINE entry == Entry(pending[c][u], m.signature)
             list == Append(rounds[c][u], entry)
  <2>1. <<c, list>> \in signed[Other(u)]
    BY <1>3, AcceptSigned
  <2>2. rounds[c][u] \in Seq(Entries) /\ entry \in Entries
    BY <1>3, AcceptEntry DEF TypeOK, Lists
  <2>3. Signer(entry.round) = Other(u)
    BY <1>3 DEF Accept, OwnPending, Entry, Signer
  <2>4. Genuine(signed, c, rounds[c][u])
    BY DEF AllGenuine
  <2>5. rounds' = [rounds EXCEPT ![c][u] = list] /\ UNCHANGED <<messages, signed>>
    BY <1>3 DEF Accept
  <2> HIDE DEF entry
  <2>6. Genuine(signed, c, list)
    BY <2>1, <2>2, <2>3, <2>4, GenuineAppend
  <2>7. QED
    BY <1>2, <2>5, <2>6
<1>4. ASSUME NEW c \in Channels, NEW u \in Users, NEW m \in messages, Import(c, u, m)
      PROVE  AllGenuine'
  BY <1>2, <1>4, ImportSame DEF Import
<1>5. ASSUME NEW c \in Channels, NEW u \in Users, Crash(c, u)
      PROVE  AllGenuine'
  <2>1. Genuine(signed, c, << >>)
    BY DEF Genuine
  <2>2. QED
    BY <1>2, <1>5, <2>1 DEF Crash
<1>6. ASSUME NEW c \in Channels, NEW u \in Users, Export(c, u)
      PROVE  AllGenuine'
  <2>1. /\ messages' = messages \cup {[list |-> rounds[c][u]]}
        /\ UNCHANGED <<rounds, signed>>
    BY <1>6 DEF Export
  <2>2. [list |-> rounds[c][u]].list = rounds[c][u]
    OBVIOUS
  <2>3. QED
    BY <2>1, <2>2 DEF AllGenuine
<1>7. ASSUME NEW c \in Channels, NEW u \in Users, NEW operations \in Operations,
             Make(c, u, operations)
      PROVE  AllGenuine'
  <2> DEFINE m == [channel |-> c, place |-> Len(rounds[c][u]), round |-> make_round(u, operations)]
  <2>1. /\ messages' = messages \cup {m} /\ "list" \notin DOMAIN m
        /\ UNCHANGED <<rounds, signed>>
    BY <1>7 DEF Make
  <2> HIDE DEF m
  <2>2. QED
    BY <2>1 DEF AllGenuine
<1>8. CASE UNCHANGED vars
  BY <1>8 DEF AllGenuine, vars
<1>9. QED
  BY <1>1, <1>3, <1>4, <1>5, <1>6, <1>7, <1>8 DEF Next

-----------------------------------------------------------------------------
(* A prefix, place by place.                                                *)
LEMMA PrefixPointwise ==
  ASSUME NEW S, NEW s \in Seq(S), NEW t \in Seq(S)
  PROVE  IsPrefix(s, t) <=> Len(s) <= Len(t) /\ \A i \in 1 .. Len(s) : s[i] = t[i]
<1>1. SubSeq(s, 1, Len(s)) = s
  BY SubSeqFull
<1>2. ASSUME Len(s) <= Len(t)
      PROVE  SubSeq(t, 1, Len(s)) \in Seq(S) /\ Len(SubSeq(t, 1, Len(s))) = Len(s)
               /\ \A i \in 1 .. Len(s) : SubSeq(t, 1, Len(s))[i] = t[i]
  <2>1. Len(s) \in Nat /\ Len(t) \in Nat /\ \A i \in 1 .. Len(s) : t[i] \in S
    BY <1>2
  <2>2. QED
    BY <2>1, SubSeqProperties
<1>3. ASSUME Len(s) <= Len(t), \A i \in 1 .. Len(s) : s[i] = t[i]
      PROVE  s = SubSeq(t, 1, Len(s))
  <2> DEFINE r == SubSeq(t, 1, Len(s))
  <2>1. r \in Seq(S) /\ Len(r) = Len(s) /\ \A i \in 1 .. Len(s) : s[i] = r[i]
    BY <1>2, <1>3
  <2> HIDE DEF r
  <2>2. s = r
    BY <2>1, SeqEqual
  <2>3. QED
    BY <2>2 DEF r
<1>4. QED
  BY <1>1, <1>2, <1>3 DEF IsPrefix

LEMMA PrefixRefl ==
  ASSUME NEW S, NEW s \in Seq(S)
  PROVE  IsPrefix(s, s)
  BY PrefixPointwise

LEMMA PrefixGrows ==
  ASSUME NEW S, NEW s \in Seq(S), NEW t \in Seq(S), NEW e \in S, IsPrefix(s, t)
  PROVE  IsPrefix(s, Append(t, e))
<1>1. Len(s) <= Len(t) /\ \A i \in 1 .. Len(s) : s[i] = t[i]
  BY PrefixPointwise
<1>2. Append(t, e) \in Seq(S) /\ Len(s) <= Len(Append(t, e))
        /\ \A i \in 1 .. Len(s) : s[i] = Append(t, e)[i]
  BY <1>1
<1>3. QED
  BY <1>2, PrefixPointwise

LEMMA PrefixSame ==
  ASSUME NEW S, NEW s \in Seq(S), NEW t \in Seq(S), IsPrefix(s, t), Len(s) = Len(t)
  PROVE  s = t
  BY PrefixPointwise, SeqEqual

(* The two lists of a channel are the same, or the signer's is ahead by the *)
(* round the other user waits for.                                          *)
OneAhead(c) ==
  \/ rounds[c][1] = rounds[c][2]
  \/ \E v \in Users : \E e \in Entries :
        /\ rounds[c][v] = Append(rounds[c][Other(v)], e)
        /\ e.round = pending[c][Other(v)]

Together == crashes = 0 => \A c \in Channels : OneAhead(c)

(* This is SameHistory.                                                     *)
LEMMA HistoryFromTogether ==
  ASSUME TypeOK, Together
  PROVE  SameHistory
<1> SUFFICES ASSUME crashes = 0, NEW c \in Channels
             PROVE  LET longer == IF Len(rounds[c][1]) > Len(rounds[c][2]) THEN 1 ELSE 2
                    IN  /\ IsPrefix(rounds[c][Other(longer)], rounds[c][longer])
                        /\ Len(rounds[c][longer]) - Len(rounds[c][Other(longer)]) <= 1
                        /\ rounds[c][1] # rounds[c][2] =>
                              Last(rounds[c][longer]).round = pending[c][Other(longer)]
  BY DEF SameHistory
<1>1. rounds[c][1] \in Seq(Entries) /\ rounds[c][2] \in Seq(Entries)
  BY DEF TypeOK, Lists, Users
<1>2. CASE rounds[c][1] = rounds[c][2]
  <2>1. IsPrefix(rounds[c][1], rounds[c][2])
    BY <1>1, <1>2, PrefixRefl
  <2>2. Len(rounds[c][2]) - Len(rounds[c][1]) <= 1 /\ ~ (Len(rounds[c][1]) > Len(rounds[c][2]))
    BY <1>1, <1>2
  <2>3. QED
    BY <1>2, <2>1, <2>2 DEF Other
<1>3. ASSUME NEW v \in Users, NEW e \in Entries,
             rounds[c][v] = Append(rounds[c][Other(v)], e),
             e.round = pending[c][Other(v)]
      PROVE  LET longer == IF Len(rounds[c][1]) > Len(rounds[c][2]) THEN 1 ELSE 2
                    IN  /\ IsPrefix(rounds[c][Other(longer)], rounds[c][longer])
                        /\ Len(rounds[c][longer]) - Len(rounds[c][Other(longer)]) <= 1
                        /\ rounds[c][1] # rounds[c][2] =>
                              Last(rounds[c][longer]).round = pending[c][Other(longer)]
  <2> DEFINE s == rounds[c][Other(v)]
             t == rounds[c][v]
  <2>1. s \in Seq(Entries) /\ t \in Seq(Entries) /\ t = Append(s, e)
    BY <1>1, <1>3 DEF Other, Users
  <2> HIDE DEF s, t
  <2>2. Len(t) = Len(s) + 1 /\ Len(s) \in Nat /\ Last(t) = e
    BY <2>1 DEF Last
  <2>3. IsPrefix(s, t)
    BY <2>1, PrefixRefl, PrefixGrows
  <2>4. (IF Len(rounds[c][1]) > Len(rounds[c][2]) THEN 1 ELSE 2) = v
    BY <2>2 DEF s, t, Other, Users
  <2>5. /\ IsPrefix(rounds[c][Other(v)], rounds[c][v])
        /\ Len(rounds[c][v]) - Len(rounds[c][Other(v)]) <= 1
        /\ Last(rounds[c][v]).round = pending[c][Other(v)]
    BY <1>3, <2>2, <2>3 DEF s, t
  <2>6. QED
    BY <2>4, <2>5, Zenon
<1>4. QED
  BY <1>2, <1>3 DEF Together, OneAhead

(* A round that a user signs, while nothing was lost, is at the end of its list *)
(* and is what the other user waits for: a repeated or a late message does not *)
(* fit. So both hold the same list when one of them signs.                  *)
LEMMA RoundAsked ==
  ASSUME TypeOK, OwnPending, NothingLost, crashes = 0,
         NEW c \in Channels, NEW u \in Users, NEW m \in messages, SignRound(c, u, m)
  PROVE  /\ m.round \in Round /\ m.round.user_type = Other(u)
         /\ m.place = Len(rounds[c][u]) /\ m.place <= Len(rounds[c][Other(u)])
         /\ m.place = Len(rounds[c][Other(u)]) => pending[c][Other(u)] = m.round
<1>1. m.round \in Round /\ m.round.user_type # u
  BY MessageTypes DEF SignRound
<1>2. m.round.user_type = Other(u)
  BY <1>1 DEF Other, Users, Round
<1>3. Asked(m, c)
  BY DEF NothingLost, SignRound
<1>4. QED
  BY <1>1, <1>2, <1>3 DEF Asked, SignRound

LEMMA SignTogether ==
  ASSUME TypeOK, OwnPending, NothingLost, Together, crashes = 0,
         NEW c \in Channels, NEW u \in Users, NEW m \in messages, SignRound(c, u, m)
  PROVE  rounds[c][u] = rounds[c][Other(u)] /\ pending[c][Other(u)] = m.round
<1> DEFINE s == rounds[c][u]
           t == rounds[c][Other(u)]
<1>1. s \in Seq(Entries) /\ t \in Seq(Entries)
  BY DEF TypeOK, Lists, Other, Users
<1>2. Len(s) <= Len(t) /\ (Len(s) = Len(t) => pending[c][Other(u)] = m.round)
  BY RoundAsked
<1>3. s = t \/ (\E e \in Entries : s = Append(t, e))
            \/ (\E e \in Entries : t = Append(s, e) /\ e.round = pending[c][u])
  <2>1. OneAhead(c)
    BY DEF Together
  <2>2. CASE u = 1
    BY <2>1, <2>2 DEF OneAhead, Other, Users
  <2>3. CASE u = 2
    BY <2>1, <2>3 DEF OneAhead, Other, Users
  <2>4. QED
    BY <2>2, <2>3 DEF Users
<1>4. pending[c][u] = NoRound
  BY DEF OwnPending, SignRound
<1>5. \A e \in Entries : e.round # NoRound
  BY RoundsAssumption DEF Entries
<1> HIDE DEF s, t
<1>6. s = t
  BY <1>1, <1>2, <1>3, <1>4, <1>5
<1>7. QED
  BY <1>2, <1>6 DEF s, t

LEMMA SignerEntry ==
  ASSUME TypeOK, NEW c \in Channels, NEW u \in Users, NEW m \in messages,
         SignRound(c, u, m), TypeOK'
  PROVE  \E e \in Entries' : e.round = m.round /\ rounds'[c][u] = Append(rounds[c][u], e)
           /\ signed' = [signed EXCEPT ![u] = @ \cup {<<c, Append(rounds[c][u], e)>>}]
<1> DEFINE e == Entry(m.round, sign_channel_round(c, rounds[c][u], m.round, u))
<1>1. rounds'[c][u] = Append(rounds[c][u], e)
        /\ signed' = [signed EXCEPT ![u] = @ \cup {<<c, Append(rounds[c][u], e)>>}]
  BY DEF SignRound, TypeOK
<1>2. e.round = m.round
  BY DEF Entry
<1>3. rounds[c][u] \in Seq(Entries)
  BY DEF TypeOK, Lists
<1>4. rounds'[c][u] \in Seq(Entries')
  BY DEF TypeOK, Lists
<1> HIDE DEF e
<1>5. Len(rounds[c][u]) + 1 \in 1 .. Len(rounds'[c][u]) /\ rounds'[c][u][Len(rounds[c][u]) + 1] = e
  BY <1>1, <1>3
<1>6. e \in Entries'
  BY <1>4, <1>5
<1>7. QED
  BY <1>1, <1>2, <1>6

(* The lists stay together.                                                 *)
LEMMA TogetherStep ==
  ASSUME TypeOK, OwnPending, SignedOnce, NothingLost, Together, [Next]_vars, TypeOK'
  PROVE  Together'
<1> SUFFICES ASSUME crashes' = 0, NEW d \in Channels
             PROVE  OneAhead(d)'
  BY DEF Together
<1>1. ASSUME NEW c \in Channels, NEW u \in Users, Crash(c, u)
      PROVE  FALSE
  BY <1>1 DEF Crash, TypeOK
<1>2. crashes = 0
  BY <1>1 DEF Next, vars, Make, SignRound, Accept, Import, Export
<1>3. OneAhead(d)
  BY <1>2 DEF Together
<1>4. ASSUME rounds'[d] = rounds[d], pending'[d] = pending[d], Entries' = Entries
      PROVE  OneAhead(d)'
  BY <1>3, <1>4 DEF OneAhead
<1>5. ASSUME UNCHANGED signed
      PROVE  Entries' = Entries
  BY <1>5 DEF Entries, Signatures
<1>6. ASSUME NEW c \in Channels, NEW u \in Users, NEW operations \in Operations,
             Make(c, u, operations)
      PROVE  OneAhead(d)'
  <2>1. UNCHANGED <<rounds, signed>> /\ pending[c][u] = NoRound
        /\ \A b \in Channels, v \in Users : b # c \/ v # u => pending'[b][v] = pending[b][v]
    BY <1>6 DEF Make, TypeOK
  <2>2. CASE rounds[d][1] = rounds[d][2]
    BY <2>1, <2>2 DEF OneAhead
  <2>3. ASSUME NEW v \in Users, NEW e \in Entries,
               rounds[d][v] = Append(rounds[d][Other(v)], e),
               e.round = pending[d][Other(v)]
        PROVE  OneAhead(d)'
    <3>1. e.round # NoRound /\ Other(v) \in Users
      BY RoundsAssumption DEF Entries, Other, Users
    <3>2. pending'[d][Other(v)] = pending[d][Other(v)]
      BY <2>1, <2>3, <3>1
    <3>3. QED
      BY <1>5, <2>1, <2>3, <3>2 DEF OneAhead
  <2>4. QED
    BY <1>3, <2>2, <2>3 DEF OneAhead
<1>7. ASSUME NEW c \in Channels, NEW u \in Users, NEW m \in messages, SignRound(c, u, m)
      PROVE  OneAhead(d)'
  <2>1. /\ UNCHANGED pending
        /\ \A b \in Channels, v \in Users : b # c \/ v # u => rounds'[b][v] = rounds[b][v]
    BY <1>7 DEF SignRound, TypeOK
  <2>2. CASE d = c
    <3>1. rounds[c][u] = rounds[c][Other(u)] /\ pending[c][Other(u)] = m.round
      BY <1>2, <1>7, SignTogether
    <3>2. PICK e \in Entries' : e.round = m.round /\ rounds'[c][u] = Append(rounds[c][u], e)
      BY <1>7, SignerEntry
    <3>3. Other(u) \in Users /\ Other(u) # u
      BY DEF Other, Users
    <3>4. rounds'[c][u] = Append(rounds'[c][Other(u)], e) /\ e.round = pending'[c][Other(u)]
      BY <2>1, <3>1, <3>2, <3>3
    <3>5. QED
      BY <2>2, <3>4 DEF OneAhead
  <2>3. CASE d # c
    <3>1. Entries \subseteq Entries'
      <4>1. \A v \in Users : signed[v] \subseteq signed'[v]
        BY <1>7 DEF SignRound, TypeOK
      <4>2. QED
        BY <4>1, ListsGrow
    <3>2. \A v \in Users : Other(v) \in Users /\ 1 \in Users /\ 2 \in Users
      BY DEF Other, Users
    <3>3. \A v \in Users : rounds'[d][v] = rounds[d][v] /\ pending'[d][v] = pending[d][v]
      BY <2>1, <2>3
    <3>4. QED
      BY <1>3, <3>1, <3>2, <3>3 DEF OneAhead
  <2>4. QED
    BY <2>2, <2>3
<1>8. ASSUME NEW c \in Channels, NEW u \in Users, NEW m \in messages, Accept(c, u, m)
      PROVE  OneAhead(d)'
  <2> DEFINE entry == Entry(pending[c][u], m.signature)
             list == Append(rounds[c][u], entry)
             o == Other(u)
  <2>1. /\ UNCHANGED signed /\ rounds' = [rounds EXCEPT ![c][u] = list]
        /\ \A b \in Channels, v \in Users : b # c \/ v # u =>
              rounds'[b][v] = rounds[b][v] /\ pending'[b][v] = pending[b][v]
    BY <1>8 DEF Accept, TypeOK
  <2>2. CASE d = c
    <3>1. <<c, list>> \in signed[o] /\ o \in Users /\ o # u
      BY <1>8, AcceptSigned DEF Other, Users
    <3>2. rounds[c][u] \in Seq(Entries) /\ rounds[c][o] \in Seq(Entries) /\ entry \in Entries
      BY <1>8, <3>1, AcceptEntry DEF TypeOK, Lists
    <3> HIDE DEF entry
    <3>3. IsPrefix(list, rounds[c][o])
      <4>1. <<c, list>>[1] = c /\ <<c, list>>[2] = list
        OBVIOUS
      <4>2. QED
        BY <1>2, <3>1, <4>1, Zenon DEF NothingLost
    <3>4. list \in Seq(Entries) /\ Len(list) = Len(rounds[c][u]) + 1
      BY <3>2
    <3>5. Len(list) <= Len(rounds[c][o])
      BY <3>3 DEF IsPrefix
    <3>6. \E e \in Entries : rounds[c][o] = Append(rounds[c][u], e)
      <4>1. CASE u = 1
        BY <1>3, <2>2, <3>2, <3>4, <3>5, <4>1 DEF OneAhead, Other, Users
      <4>2. CASE u = 2
        BY <1>3, <2>2, <3>2, <3>4, <3>5, <4>2 DEF OneAhead, Other, Users
      <4>3. QED
        BY <4>1, <4>2 DEF Users
    <3>7. list = rounds[c][o]
      <4>1. Len(rounds[c][o]) = Len(list)
        BY <3>2, <3>4, <3>6
      <4> HIDE DEF list
      <4>2. QED
        BY <3>2, <3>3, <3>4, <4>1, PrefixSame
    <3>8. rounds'[c][u] = list /\ rounds'[c][o] = rounds[c][o]
      BY <2>1, <3>1 DEF TypeOK
    <3>9. rounds'[c][1] = rounds'[c][2]
      BY <3>7, <3>8 DEF Other, Users
    <3>10. QED
      BY <2>2, <3>9 DEF OneAhead
  <2>3. CASE d # c
    <3>1. rounds'[d] = rounds[d] /\ pending'[d] = pending[d]
      BY <1>8, <2>3 DEF Accept, TypeOK
    <3>2. Entries' = Entries
      BY <1>5, <2>1
    <3>3. QED
      BY <1>4, <3>1, <3>2
  <2>4. QED
    BY <2>2, <2>3
<1>9. ASSUME NEW c \in Channels, NEW u \in Users, NEW m \in messages, Import(c, u, m)
      PROVE  FALSE
  BY <1>2, <1>9 DEF NothingLost, Import
<1>10. ASSUME NEW c \in Channels, NEW u \in Users, Export(c, u)
       PROVE  OneAhead(d)'
  BY <1>4, <1>5, <1>10 DEF Export
<1>11. CASE UNCHANGED vars
  BY <1>4, <1>5, <1>11 DEF vars
<1>12. QED
  BY <1>1, <1>6, <1>7, <1>8, <1>9, <1>10, <1>11 DEF Next

(* And nothing that was signed is lost.                                     *)
LEMMA NothingLostStep ==
  ASSUME TypeOK, OwnPending, NothingLost, Together, [Next]_vars, TypeOK'
  PROVE  NothingLost'
<1> SUFFICES ASSUME crashes' = 0, NEW d \in Channels
             PROVE  /\ \A v \in Users : ~recovering'[d][v]
                    /\ \A v \in Users : \A p \in signed'[v] : p[1] = d => IsPrefix(p[2], rounds'[d][v])
                    /\ \A n \in messages' : "round" \in DOMAIN n /\ n.channel = d => Asked(n, d)'
  BY DEF NothingLost
<1>1. ASSUME NEW c \in Channels, NEW u \in Users, Crash(c, u)
      PROVE  FALSE
  BY <1>1 DEF Crash, TypeOK
<1>2. crashes = 0
  BY <1>1 DEF Next, vars, Make, SignRound, Accept, Import, Export
<1>3. /\ \A v \in Users : ~recovering[d][v]
      /\ \A v \in Users : \A p \in signed[v] : p[1] = d => IsPrefix(p[2], rounds[d][v])
      /\ \A n \in messages : "round" \in DOMAIN n /\ n.channel = d => Asked(n, d)
  BY <1>2 DEF NothingLost
<1>4. \A n \in messages : "round" \in DOMAIN n =>
         n.round \in Round /\ n.round.user_type \in Users /\ n.place \in Nat
  BY MessageTypes DEF Round
<1>5. \A v \in Users : rounds[d][v] \in Seq(Entries)
        /\ \A p \in signed[v] : p[2] \in Seq(Entries)
  BY DEF TypeOK, Lists
<1>6. ASSUME NEW c \in Channels, NEW u \in Users, NEW m \in messages, Import(c, u, m)
      PROVE  FALSE
  BY <1>2, <1>6 DEF NothingLost, Import
<1>7. ASSUME NEW c \in Channels, NEW u \in Users, NEW operations \in Operations,
             Make(c, u, operations)
      PROVE  /\ UNCHANGED <<recovering, signed, rounds>>
             /\ \A n \in messages' : "round" \in DOMAIN n /\ n.channel = d => Asked(n, d)'
  <2> DEFINE round == make_round(u, operations)
             new == [channel |-> c, place |-> Len(rounds[c][u]), round |-> round]
  <2>1. /\ UNCHANGED <<recovering, signed, rounds>>
        /\ pending' = [pending EXCEPT ![c][u] = round]
        /\ messages' = messages \cup {new}
        /\ pending[c][u] = NoRound
    BY <1>7 DEF Make
  <2>2. round.user_type = u
    BY DEF make_round
  <2>3. ASSUME NEW n, n = new
        PROVE  n.channel = c /\ Asked(n, c)'
    <3>1. n.channel = c /\ n.place = Len(rounds[c][u]) /\ n.round = round
      BY <2>3
    <3>2. pending'[c][u] = round /\ rounds' = rounds /\ Len(rounds[c][u]) \in Nat
      BY <2>1 DEF TypeOK, Lists
    <3> HIDE DEF new, round
    <3>3. QED
      BY <2>2, <3>1, <3>2 DEF Asked
  <2> HIDE DEF new, round
  <2>5. ASSUME NEW n \in messages, "round" \in DOMAIN n, n.channel = d
        PROVE  Asked(n, d)'
    <3>1. Asked(n, d) /\ n.round \in Round /\ n.round.user_type \in Users
      BY <1>3, <1>4, <2>5
    <3>2. CASE d = c /\ n.round.user_type = u
      BY <2>1, <3>1, <3>2, RoundsAssumption DEF Asked
    <3>3. CASE d # c \/ n.round.user_type # u
      <4>1. pending'[d][n.round.user_type] = pending[d][n.round.user_type]
        BY <2>1, <3>1, <3>3 DEF TypeOK
      <4>2. QED
        BY <2>1, <3>1, <4>1 DEF Asked
    <3>4. QED
      BY <3>2, <3>3
  <2>6. QED
    BY <2>1, <2>3, <2>5
<1>8. ASSUME NEW c \in Channels, NEW u \in Users, NEW e,
             rounds'[c][u] = Append(rounds[c][u], e),
             \A b \in Channels, v \in Users : b # c \/ v # u =>
               rounds'[b][v] = rounds[b][v] /\ pending'[b][v] = pending[b][v],
             \A n \in messages' : "round" \in DOMAIN n => n \in messages
      PROVE  \A n \in messages' : "round" \in DOMAIN n /\ n.channel = d => Asked(n, d)'
  <2> SUFFICES ASSUME NEW n \in messages, "round" \in DOMAIN n, n.channel = d
               PROVE  Asked(n, d)'
    BY <1>8
  <2>1. Asked(n, d) /\ n.round.user_type \in Users /\ n.place \in Nat
    BY <1>3, <1>4
  <2>2. CASE d = c /\ n.round.user_type = u
    <3>1. Len(rounds'[d][u]) = Len(rounds[d][u]) + 1 /\ Len(rounds[d][u]) \in Nat
      BY <1>5, <1>8, <2>2
    <3>2. QED
      BY <2>1, <2>2, <3>1 DEF Asked
  <2>3. CASE d # c \/ n.round.user_type # u
    BY <1>8, <2>1, <2>3 DEF Asked
  <2>4. QED
    BY <2>2, <2>3
<1>9. ASSUME NEW c \in Channels, NEW u \in Users, NEW m \in messages, SignRound(c, u, m)
      PROVE  /\ \A v \in Users : ~recovering'[d][v]
             /\ \A v \in Users : \A p \in signed'[v] : p[1] = d => IsPrefix(p[2], rounds'[d][v])
             /\ \A n \in messages' : "round" \in DOMAIN n /\ n.channel = d => Asked(n, d)'
  <2>1. PICK e \in Entries' : /\ rounds'[c][u] = Append(rounds[c][u], e)
                             /\ signed' = [signed EXCEPT ![u] = @ \cup {<<c, Append(rounds[c][u], e)>>}]
    BY <1>9, SignerEntry
  <2>2. /\ UNCHANGED <<pending, recovering>>
        /\ \A b \in Channels, v \in Users : b # c \/ v # u => rounds'[b][v] = rounds[b][v]
    BY <1>9 DEF SignRound, TypeOK
  <2>3. \A n \in messages' : "round" \in DOMAIN n => n \in messages
    <3>1. PICK s : messages' = messages \cup {[signature |-> s]}
      BY <1>9 DEF SignRound
    <3>2. "round" \notin DOMAIN [signature |-> s]
      OBVIOUS
    <3>3. QED
      BY <3>1, <3>2
  <2>4. Entries \subseteq Entries'
    <3>1. \A v \in Users : signed[v] \subseteq signed'[v]
      BY <2>1 DEF TypeOK
    <3>2. QED
      BY <3>1, ListsGrow
  <2>5. ASSUME NEW v \in Users, NEW p \in signed'[v], p[1] = d
        PROVE  IsPrefix(p[2], rounds'[d][v])
    <3>1. CASE p \in signed[v]
      <4>1. IsPrefix(p[2], rounds[d][v])
        BY <1>3, <2>5, <3>1
      <4>2. CASE d = c /\ v = u
        <5>1. p[2] \in Seq(Entries') /\ rounds[d][v] \in Seq(Entries')
          BY <1>5, <2>4, <3>1, SeqMonotonic
        <5>2. QED
          BY <2>1, <4>1, <4>2, <5>1, PrefixGrows
      <4>3. CASE d # c \/ v # u
        BY <2>2, <4>1, <4>3
      <4>4. QED
        BY <4>2, <4>3
    <3>2. CASE v = u /\ p = <<c, Append(rounds[c][u], e)>>
      <4>1. c = d /\ p[2] = rounds'[d][v]
        BY <2>1, <2>5, <3>2
      <4>2. rounds'[d][v] \in Seq(Entries')
        BY DEF TypeOK, Lists
      <4>3. QED
        BY <4>1, <4>2, PrefixRefl
    <3>3. QED
      BY <2>1, <3>1, <3>2 DEF TypeOK
  <2>6. \A n \in messages' : "round" \in DOMAIN n /\ n.channel = d => Asked(n, d)'
    <3>1. \A b \in Channels, v \in Users : b # c \/ v # u =>
            rounds'[b][v] = rounds[b][v] /\ pending'[b][v] = pending[b][v]
      BY <2>2
    <3>2. QED
      BY <1>8, <2>1, <2>3, <3>1
  <2>7. QED
    BY <1>3, <2>2, <2>5, <2>6
<1>10. ASSUME NEW c \in Channels, NEW u \in Users, NEW m \in messages, Accept(c, u, m)
       PROVE  /\ \A v \in Users : ~recovering'[d][v]
              /\ \A v \in Users : \A p \in signed'[v] : p[1] = d => IsPrefix(p[2], rounds'[d][v])
              /\ \A n \in messages' : "round" \in DOMAIN n /\ n.channel = d => Asked(n, d)'
  <2> DEFINE entry == Entry(pending[c][u], m.signature)
  <2>1. /\ UNCHANGED <<signed, messages, recovering>>
        /\ rounds'[c][u] = Append(rounds[c][u], entry)
        /\ \A b \in Channels, v \in Users : b # c \/ v # u =>
              rounds'[b][v] = rounds[b][v] /\ pending'[b][v] = pending[b][v]
    BY <1>10 DEF Accept, TypeOK
  <2>2. entry \in Entries
    BY <1>10, AcceptEntry
  <2> HIDE DEF entry
  <2>3. ASSUME NEW v \in Users, NEW p \in signed[v], p[1] = d
        PROVE  IsPrefix(p[2], rounds'[d][v])
    <3>1. IsPrefix(p[2], rounds[d][v])
      BY <1>3, <2>3
    <3>2. CASE d = c /\ v = u
      <4>1. rounds[d][v] \in Seq(Entries) /\ p[2] \in Seq(Entries)
        BY <1>5
      <4>2. rounds'[d][v] = Append(rounds[d][v], entry)
        BY <2>1, <3>2
      <4>3. QED
        BY <2>2, <3>1, <4>1, <4>2, PrefixGrows
    <3>3. CASE d # c \/ v # u
      BY <2>1, <3>1, <3>3
    <3>4. QED
      BY <3>2, <3>3
  <2>4. \A n \in messages' : "round" \in DOMAIN n /\ n.channel = d => Asked(n, d)'
    <3>1. \A n \in messages' : "round" \in DOMAIN n => n \in messages
      BY <2>1
    <3>2. rounds'[c][u] = Append(rounds[c][u], entry)
      BY <2>1
    <3>3. \A b \in Channels, v \in Users : b # c \/ v # u =>
            rounds'[b][v] = rounds[b][v] /\ pending'[b][v] = pending[b][v]
      BY <2>1
    <3>4. QED
      BY <1>8, <3>1, <3>2, <3>3
  <2>5. QED
    BY <1>3, <2>1, <2>3, <2>4
<1>11. ASSUME NEW c \in Channels, NEW u \in Users, Export(c, u)
       PROVE  /\ UNCHANGED <<recovering, signed, rounds, pending>>
              /\ \A n \in messages' : "round" \in DOMAIN n => n \in messages
  <2>1. "round" \notin DOMAIN [list |-> rounds[c][u]]
    OBVIOUS
  <2>2. QED
    BY <1>11, <2>1 DEF Export
<1>12. ASSUME UNCHANGED <<recovering, signed, rounds, pending>>,
              \A n \in messages' : "round" \in DOMAIN n => n \in messages
       PROVE  /\ \A v \in Users : ~recovering'[d][v]
              /\ \A v \in Users : \A p \in signed'[v] : p[1] = d => IsPrefix(p[2], rounds'[d][v])
              /\ \A n \in messages' : "round" \in DOMAIN n /\ n.channel = d => Asked(n, d)'
  BY <1>3, <1>12 DEF Asked
<1>13. CASE UNCHANGED vars
  BY <1>12, <1>13 DEF vars
<1>14. QED
  BY <1>1, <1>3, <1>6, <1>7, <1>9, <1>10, <1>11, <1>12, <1>13 DEF Next

-----------------------------------------------------------------------------
(* The inductive invariant.                                                 *)
RoundsInv == TypeOK /\ OwnPending /\ SignedOnce /\ AllGenuine /\ NothingLost /\ Together

LEMMA RoundsInvCorrect == Spec => []RoundsInv
<1>1. Init => RoundsInv
  <2> SUFFICES ASSUME Init
               PROVE  RoundsInv
    OBVIOUS
  <2>1. TypeOK
    BY TypeInit
  <2>2. OwnPending /\ SignedOnce
    BY DEF Init, OwnPending, SignedOnce
  <2>3. AllGenuine
    BY DEF Init, AllGenuine, Genuine
  <2>4. NothingLost
    BY DEF Init, NothingLost
  <2>5. Together
    BY DEF Init, Together, OneAhead, Users
  <2>6. QED
    BY <2>1, <2>2, <2>3, <2>4, <2>5 DEF RoundsInv
<1>2. RoundsInv /\ [Next]_vars => RoundsInv'
  BY TypeStep, PendingStep, SignedStep, GenuineStep, NothingLostStep, TogetherStep DEF RoundsInv
<1>3. QED
  BY <1>1, <1>2, PTL DEF Spec

(* Nobody is held to a game they did not play: whatever is lost, repeated, taken *)
(* for another channel's or tampered with, a user's signature is under a list *)
(* only if the user signed this very list, for any number of channels, rounds, *)
(* restarts and messages (interact.rs check_channel_round, sign_channel_round). *)
THEOREM HeldAsSigned == Spec => []SignedAsHeld
<1>1. RoundsInv => SignedAsHeld
  BY DEF RoundsInv, AllGenuine, Genuine, SignedAsHeld
<1>2. QED
  BY <1>1, RoundsInvCorrect, PTL

(* Every round of every list a user holds bears a signature that checks, not only *)
(* the last one that check_channel_round (interact.rs 225) looks at.        *)
THEOREM RoundsVerifyCorrect == Spec => []RoundsVerify
<1>1. ASSUME RoundsInv
      PROVE  RoundsVerify
  <2> SUFFICES ASSUME NEW c \in Channels, NEW u \in Users, NEW i \in DOMAIN rounds[c][u]
               PROVE  check_channel_round(c, Prefix(rounds[c][u], i), Signer(rounds[c][u][i].round))
    BY DEF RoundsVerify
  <2> DEFINE list == Prefix(rounds[c][u], i)
             v == Signer(rounds[c][u][i].round)
  <2>1. rounds[c][u] \in Lists
    BY <1>1 DEF RoundsInv, TypeOK
  <2>2. v \in Users
    BY <2>1, RoundsOf, SignerUser
  <2>3. <<c, list>> \in signed[v]
    BY <1>1 DEF RoundsInv, AllGenuine, Genuine
  <2> HIDE DEF list, v
  <2>4. Last(<<c, list>>[2]).signature = Sign(Digest(<<c, list>>[1], <<c, list>>[2]), v)
    BY <1>1, <2>2, <2>3, Zenon DEF RoundsInv, SignedOnce
  <2>5. QED
    BY <2>4 DEF check_channel_round, Recover, Sign, list, v
<1>2. QED
  BY <1>1, RoundsInvCorrect, PTL

(* Without a restart the two users hold the same list of each channel, but for *)
(* the round under way, whichever messages are repeated or late.            *)
THEOREM SameHistoryCorrect == Spec => []SameHistory
<1>1. RoundsInv => SameHistory
  BY HistoryFromTogether DEF RoundsInv
<1>2. QED
  BY <1>1, RoundsInvCorrect, PTL
=============================================================================
