--------------------------- MODULE ChannelRecords ---------------------------
(***************************************************************************)
(* What users see of a channel's data: the terms offered, the terms of the *)
(* channel that was opened and its challenge are records of values, and    *)
(* each step reads and writes fields of them.  No bytes and no layouts.    *)
(*                                                                         *)
(* Another program may put something that is no such record in its place   *)
(* (Unreadable).  A step that checks what it reads refuses it; one that    *)
(* does not may do anything to the offer it was made with.                 *)
(***************************************************************************)
EXTENDS Integers, Sequences

CONSTANTS Base, Terms, Blocks, Pkhashes, NftLists, RoundLists, OperationLists,
          Hash, SignatureOf, LockCodeHash, NoPkhash, None, Unreadable

VARIABLES offer, args, data, witnesses, outcome

vars == <<offer, args, data, witnesses, outcome>>

Outcome(by, result, paid, stake) ==
    [by |-> by, result |-> result, paid |-> paid, stake |-> stake]

Ended(by, result) == outcome' = Outcome(by, result, << >>, 0)

\* The step that is taken, as its outcome names it.
Step(by) == outcome'.by = by

Same(term, a) ==
    /\ a.user_staking_ckb = term.user_staking_ckb
    /\ a.user_deck_size = term.user_deck_size

Init ==
    /\ offer = None /\ args = None /\ data = None /\ witnesses = << >>
    /\ outcome = Outcome("", "ok", << >>, 0)

Prepare(term, block, pkhash, nfts) ==
    /\ Step("Prepare")
    /\ offer = None /\ args = None
    /\ IF term.user_deck_size < Len(nfts) % Base
       THEN Ended("Prepare", "refused") /\ UNCHANGED offer
       ELSE /\ Ended("Prepare", "ok")
            /\ offer' = [user_staking_ckb  |-> term.user_staking_ckb,
                         user_deck_size    |-> term.user_deck_size,
                         begin_blocknumber |-> block,
                         lock_code_hash    |-> LockCodeHash,
                         lua_code_hashes   |-> term.lua_code_hashes,
                         user1_pkhash |-> pkhash,   user1_nfts |-> nfts,
                         user2_pkhash |-> NoPkhash, user2_nfts |-> << >>]
    /\ UNCHANGED <<args, data, witnesses>>

Completed(o, pkhash, nfts) == [o EXCEPT !.user2_pkhash = pkhash, !.user2_nfts = nfts]

\* Of an offer that is no record nothing is promised.
Complete ==
    /\ Step("Complete")
    /\ LET o == offer IN o \notin {None, Unreadable} =>
       \E term \in Terms :
          LET agreed == Same(term, o) /\ o.lua_code_hashes = term.lua_code_hashes
              fitting == {nfts \in NftLists : Len(nfts) % Base <= term.user_deck_size}
          IN \/ /\ ~agreed \/ fitting # NftLists
                /\ Ended("Complete", "refused") /\ offer' = o
             \/ /\ agreed
                /\ Ended("Complete", "ok")
                /\ \E pkhash \in Pkhashes, nfts \in fitting :
                      offer' = Completed(o, pkhash, nfts)
    /\ UNCHANGED <<args, data, witnesses>>

Sign ==
    /\ Step("Sign")
    /\ LET o == offer IN o \notin {None, Unreadable} =>
       /\ offer' = o
       /\ \E term \in Terms, pkhash \in Pkhashes, nfts \in NftLists :
             IF \/ ~Same(term, o)
                \/ o.user1_pkhash = pkhash /\ o.user1_nfts # nfts
                \/ o.user2_pkhash = pkhash /\ o.user2_nfts # nfts
             THEN Ended("Sign", "refused")
             ELSE Ended("Sign", "ok")
    /\ UNCHANGED <<args, data, witnesses>>

Open ==
    /\ Ended("Open", "ok")
    /\ offer # None
    /\ args' = offer /\ offer' = None
    /\ UNCHANGED <<data, witnesses>>

Other(a, challenger) == IF challenger = 1 THEN a.user2_pkhash ELSE a.user1_pkhash

\* The count is kept modulo the number of values of a byte, or the step fails.
Challenge ==
    /\ Step("Challenge")
    /\ LET a == args
           d == data
       IN /\ a # None
          /\ args' = a
          /\ \E challenger \in {1, 2} :
             LET refused == \/ a = Unreadable
                            \/ d = Unreadable
                            \/ d # None /\ d.challenger = challenger
             IN \/ /\ refused
                   /\ Ended("Challenge", "refused")
                   /\ data' = d /\ UNCHANGED witnesses
                \/ /\ ~refused
                   /\ d # None /\ d.count + 1 = Base
                   /\ Ended("Challenge", "overflow")
                   /\ data' = d /\ UNCHANGED witnesses
                \/ /\ ~refused
                   /\ outcome' = Outcome("Challenge", "ok",
                          IF d = None THEN << >> ELSE <<Other(a, challenger)>>, 0)
                   /\ witnesses' \in RoundLists
                   /\ data' \in
                        {[count |-> IF d = None THEN 1 ELSE (d.count + 1) % Base,
                          challenger         |-> challenger,
                          snapshot_position  |-> Len(witnesses') % Base,
                          snapshot_hashproof |-> Hash[witnesses'],
                          snapshot_signature |-> SignatureOf[witnesses'],
                          operations         |-> operations] :
                            operations \in OperationLists}
    /\ UNCHANGED offer

Close ==
    /\ Step("Close")
    /\ LET a == args
           d == data
           refused == \/ a = Unreadable
                      \/ d = Unreadable
                      \/ d # None /\ d.challenger \notin {1, 2}
       IN IF refused
          THEN /\ Ended("Close", "refused")
               /\ args' = a /\ data' = d /\ UNCHANGED witnesses
          ELSE /\ a # None
               /\ outcome' = Outcome("Close", "ok", <<a.user1_pkhash, a.user2_pkhash>>,
                                     a.user_staking_ckb)
               /\ args' = None /\ data' = None /\ witnesses' = << >>
    /\ UNCHANGED offer

\* Another program writes its own offer, or its own challenge.
Foreign ==
    /\ Ended("Foreign", "ok")
    /\ \/ offer # None /\ offer' # None /\ UNCHANGED <<args, data, witnesses>>
       \/ args # None /\ data' # None /\ UNCHANGED <<offer, args, witnesses>>

Next ==
    \/ \E term \in Terms, pkhash \in Pkhashes, nfts \in NftLists, block \in Blocks :
          Prepare(term, block, pkhash, nfts)
    \/ Complete
    \/ Sign
    \/ Open
    \/ Challenge
    \/ Close
    \/ Foreign

Spec == Init /\ [][Next]_vars
=============================================================================
