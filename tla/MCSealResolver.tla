--------------------------- MODULE MCSealResolver ---------------------------
(***************************************************************************)
(* TLC instances of SealResolver, and the properties they check.           *)
(***************************************************************************)
EXTENDS SealResolver

\* A P2MR root stands for its tree: the PQ leaf, and whether the other leaf
\* is the commitment to the RGB transition.
Tree(pq, rgb) == [pq |-> pq, rgb |-> rgb]
SealWith(chain, root, ret, policy) ==
    [chain_id |-> chain, p2mr_root |-> root, p2mr_ret |-> ret, policy |-> policy]

MCScript == Tree("pq", TRUE)
MCLeaves == {"pq"}
TwoLeaves == {"pq", "otherpq"}

RetSeal == SealWith("btq", MCScript, TRUE, 2)
OpretSeal == SealWith("btq", MCScript, FALSE, 2)
ForeignSeal == SealWith("other", MCScript, TRUE, 2)
MisrootedSeal == SealWith("btq", Tree("pq", FALSE), TRUE, 2)

BuriedSeals == {RetSeal, OpretSeal, ForeignSeal, MisrootedSeal}
ClosableSeals == {RetSeal}

=============================================================================
