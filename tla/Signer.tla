------------------------------- MODULE Signer -------------------------------
(* How a transaction is signed (src/src/ckb/wallet/signer.rs) and how the      *)
(* sighash_all lock script of ckb, external to the sdk, checks it. Inputs with  *)
(* the same lock are a group; the witness of a group's first input bears the   *)
(* signature over the transaction, the witnesses of the rest of the group, and *)
(* those beyond the inputs. A lock is named by its key; a signature is its key  *)
(* and what was hashed, and nobody forges one.                               *)
EXTENDS Integers, Sequences

Empty == <<>>
Witness(key, digest) == <<[by |-> key, digest |-> digest]>>

\* A witness that is not there is an empty one.
At(witnesses, i) == IF i \in DOMAIN witnesses THEN witnesses[i] ELSE Empty

Group(locks, lock) == {i \in DOMAIN locks : locks[i] = lock}
First(locks, lock) ==
  CHOOSE i \in Group(locks, lock) : \A j \in Group(locks, lock) : i <= j

\* Slip: the rest of the group is not hashed.
FirstOnly(locks, witnesses, lock) == [i \in {} |-> Empty]
GroupWitnesses(locks, witnesses, lock) ==
  [i \in Group(locks, lock) \ {First(locks, lock)} |-> At(witnesses, i)]

Digest(hash, rest, extra) == [tx |-> hash, rest |-> rest, extra |-> extra]

sign_input(locks, hash, witnesses, lock, key, extra) ==
  Witness(key, Digest(hash, GroupWitnesses(locks, witnesses, lock), extra))

\* Slip: what others have signed is lost.
Anew(locks, hash, witnesses, key, enabled, extra) ==
  [i \in DOMAIN locks |->
     IF locks[i] \in enabled /\ i = First(locks, locks[i])
     THEN sign_input(locks, hash, witnesses, locks[i], key, extra) ELSE Empty] \o extra
sign(locks, hash, witnesses, key, enabled, extra) ==
  [i \in DOMAIN locks |->
     IF locks[i] \in enabled /\ i = First(locks, locks[i])
     THEN sign_input(locks, hash, witnesses, locks[i], key, extra)
     ELSE At(witnesses, i)] \o extra

Unlocks(locks, hash, witnesses, lock) ==
  LET first == First(locks, lock)
      rest == [i \in Group(locks, lock) \ {first} |-> At(witnesses, i)]
      extra == SubSeq(witnesses, Len(locks) + 1, Len(witnesses)) IN
    At(witnesses, first) = Witness(lock, Digest(hash, rest, extra))
=============================================================================
