-------------------------- MODULE MCAuthorization --------------------------
(* Authorization instantiated for TLC.  The workflow's snapshot is s1.     *)
(* Between them the rules have a required one behind another one for its   *)
(* address, optional ones beside a required one, optional ones only, a     *)
(* range of one amount and two ranges under one override.  The transaction *)
(* set t2 pays one recipient twice.                                        *)
EXTENDS Authorization, TLC

CONSTANTS g1, g2, i1, i2, s1, s2, t1, t2

Exact(to, amount, required) ==
    [to |-> to, kind |-> "exact", min |-> amount, max |-> amount, required |-> required]
Range(to, min, max, required) ==
    [to |-> to, kind |-> "range", min |-> min, max |-> max, required |-> required]

Rules(release, refund) == [cap |-> 1, release |-> release, refund |-> refund]

MCPolicy ==
    s1 :> Rules(<<Exact("seller", 2, TRUE), Range("arbiter", 0, 1, FALSE)>>,
                <<Range("buyer", 1, 2, TRUE)>>)
    @@ s2 :> Rules(<<Exact("arbiter", 2, FALSE), Exact("seller", 1, TRUE), Exact("arbiter", 1, TRUE)>>,
                   <<Range("buyer", 2, 2, FALSE), Range("seller", 1, 3, FALSE)>>)

Pays(outs) == [txs |-> 1, fee |-> 1, unlock |-> 0, dummies |-> 0, outs |-> outs]

MCTransfer ==
    t1 :> Pays(<<[to |-> "seller", amount |-> 2]>>)
    @@ t2 :> Pays(<<[to |-> "buyer", amount |-> 1], [to |-> "buyer", amount |-> 2]>>)

MCSymmetry == Permutations(Guards) \cup Permutations(SignerIds)
=============================================================================
