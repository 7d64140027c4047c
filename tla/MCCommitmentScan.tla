-------------------------- MODULE MCCommitmentScan --------------------------
(* TLC instances of CommitmentScan. *)
EXTENDS CommitmentScan

MCSeals == {[chain |-> "regtest", outpoint |-> "o1"], [chain |-> "regtest", outpoint |-> "o2"],
            [chain |-> "testnet", outpoint |-> "o1"]}

\* A P2MR output, a script above the leaf limit, one above MAX_SPK.
MCSizes == {34, 300, 5000}

=============================================================================
