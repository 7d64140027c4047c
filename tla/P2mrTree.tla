------------------------------- MODULE P2mrTree -------------------------------
(***************************************************************************)
(* The P2MR script trees of crates/rgb-pq-commit/src/p2mrret.rs and        *)
(* multi.rs: building, proving, verifying and reading back the commitment. *)
(*                                                                         *)
(* Hashes are symbolic: a tagged hash is the tuple of its tag and what it  *)
(* hashes, so two are equal only if they were made from the same things.   *)
(* A script is a tuple that starts with its kind:                          *)
(*   <<"pq", name>>                    an ownership leaf                   *)
(*   <<"ret", chain, mpc>>             a commitment leaf                   *)
(*   <<"ret", chain, mpc, "trailing">> with bytes behind the payload       *)
(*   <<"multi", index, chain, mpc>>    a multi-protocol commitment leaf    *)
(***************************************************************************)
EXTENDS Naturals, Sequences, FiniteSets

CONSTANT Oversized  \* scripts larger than max_commitment_leaf_size

\* compute_tapleaf_hash covers the version and the script with its length;
\* compute_tapbranch_hash sorts the two it joins.
Leaf(version, script) == <<"TapLeaf", version, script>>
LastOf(a, b) == <<"TapBranch", {b}>>
Branch(a, b) == <<"TapBranch", {a, b}>>

LeafVersion == 192  \* 0xc0
Placed(depth, version, script) ==
    [depth |-> depth, leaf_version |-> version, script |-> script]
TapLeaf(placed) == Leaf(placed.leaf_version, placed.script)

CommitmentWithoutChain(chain, mpc) == <<"ret", "regtest", mpc>>
CommitmentLeafScript(chain, mpc) == <<"ret", chain, mpc>>
MultiProtocolLeaf(chain, mpc, index) == <<"multi", index, chain, mpc>>

-----------------------------------------------------------------------------
(* Climbing: the nodes above start, joined with one sibling after the other. *)
NodesAbove(start, siblings) ==
    LET node[n \in 0..Len(siblings)] ==
            IF n = 0 THEN start ELSE Branch(node[n - 1], siblings[n])
    IN  node
Climb(start, siblings) == NodesAbove(start, siblings)[Len(siblings)]

LeavesOf(scripts) == [i \in DOMAIN scripts |-> Leaf(LeafVersion, scripts[i])]
FirstPair(pq, scripts) == Branch(Leaf(LeafVersion, pq), Leaf(LeafVersion, scripts[1]))

-----------------------------------------------------------------------------
(* Building. *)

\* build_p2mr_ret_tree: the ownership leaf and the commitment, both at depth 1.
BuildRetTree(pq, version, script) ==
    LET pqLeaf == Placed(1, version, pq)
        commitment == Placed(1, LeafVersion, script)
    IN  [pq_leaf |-> pqLeaf,
         commitment_leaf |-> commitment,
         root |-> Branch(TapLeaf(pqLeaf), TapLeaf(commitment)),
         proof |-> [leaf |-> commitment, branch |-> <<TapLeaf(pqLeaf)>>]]

\* build_multi_protocol_tree, for at least one commitment: the root of the
\* first pair is joined with one commitment after the other, skipping the
\* first.  The depths are written afterwards, as bytes.
JoinAllSkippingTwo(pq, scripts) ==
    Climb(FirstPair(pq, scripts), LeavesOf(SubSeq(scripts, 3, Len(scripts))))
JoinAll(pq, scripts) == Climb(FirstPair(pq, scripts), LeavesOf(Tail(scripts)))
BuildMultiTree(pq, scripts) ==
    [pq_leaf |-> Placed(1, LeafVersion, pq),
     commitment_leaves |-> [i \in DOMAIN scripts |-> Placed(i % 256, LeafVersion, scripts[i])],
     root |-> JoinAll(pq, scripts)]

-----------------------------------------------------------------------------
(* Verifying. *)

\* P2mrRetProof::verify_against
VerifyAgainst(proof, root) == Climb(TapLeaf(proof.leaf), proof.branch) = root

\* verify_p2mr_ret, of a seal with this root on this chain.  Its limit on the
\* depth is left out: both leaves are at depth 1.
VerifyRet(root, chain, mpc, pq) ==
    LET tree == BuildRetTree(pq, LeafVersion, CommitmentLeafScript(chain, mpc))
    IN  /\ pq \notin Oversized
        /\ tree.commitment_leaf.script \notin Oversized
        /\ tree.root = root
        /\ VerifyAgainst(tree.proof, tree.root)

\* verify_multi_protocol_commitment
VerifyMulti(root, pq, scripts) == scripts # <<>> /\ JoinAll(pq, scripts) = root

-----------------------------------------------------------------------------
(* Reading back. *)

\* The data of the script's first push, behind OP_RETURN: of a
\* multi-protocol leaf that is the index.
StripOpReturn(script) ==
    CASE script[1] = "ret" -> <<"payload", script[2], script[3]>>
      [] script[1] = "multi" -> <<"index", script[2]>>
      [] OTHER -> <<"none">>

\* decode_p2mr_ret_payload, of the expected chain.
HoldsForAny(chain, data) == data[1] = "payload"
HoldsFor(chain, data) == data[1] = "payload" /\ data[2] = chain

\* find_commitment_in_tree: how many leaves hold a commitment, and which.
\* None, one (the answer) and more (a Duplicate) are told apart by hits.
FindCommitment(chain, leaves) ==
    LET hits == {i \in DOMAIN leaves : HoldsFor(chain, StripOpReturn(leaves[i].script))}
    IN  [hits |-> Cardinality(hits),
         mpcs |-> {StripOpReturn(leaves[i].script)[3] : i \in hits}]

=============================================================================
