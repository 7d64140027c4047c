--------------------------- MODULE BtqChainProofs ---------------------------
(***************************************************************************)
(* What every step of the chain keeps; the modules that compose a client   *)
(* with the chain rest on it.                                              *)
(***************************************************************************)
EXTENDS BtqChain, TLAPS

\* Every step of the chain stays within its bounds.
LEMMA ChainTyped ==
    ASSUME ChainTypeOK, ChainNext
    PROVE  ChainTypeOK'
<1> USE ChainAssumption DEF ChainTypeOK, Tx, Heights
<1>1. CASE \E t \in Tx : Relay(t)
    BY <1>1 DEF Relay
<1>2. CASE \E txs \in SUBSET Tx : Extend(txs)
    BY <1>2 DEF Extend
<1>3. CASE \E depth \in 1..MaxReorg : Reorg(depth)
    BY <1>3 DEF Reorg
<1>4. QED BY <1>1, <1>2, <1>3 DEF ChainNext

\* No step of the chain lets two spends of the output stand.
LEMMA LedgerKept ==
    ASSUME ChainTypeOK, Ledger, ChainNext
    PROVE  Ledger'
<1> USE ChainAssumption DEF ChainTypeOK, Tx, Ledger
<1>1. CASE \E t \in Tx : Relay(t)
    BY <1>1 DEF Relay
<1>2. CASE \E txs \in SUBSET Tx : Extend(txs)
    BY <1>2 DEF Extend
<1>3. CASE \E depth \in 1..MaxReorg : Reorg(depth)
    BY <1>3 DEF Reorg
<1>4. QED BY <1>1, <1>2, <1>3 DEF ChainNext

\* A confirmation count is at most the chain's length.
LEMMA ConfirmationsTyped ==
    ASSUME ChainTypeOK, Ledger, NEW t \in Tx
    PROVE  Confirmations(t) \in 0..MaxHeight
BY ChainAssumption DEF ChainTypeOK, Ledger, Confirmations, Mined

\* A height of the chain has a block.
LEMMA BlockTyped ==
    ASSUME ChainTypeOK, NEW h \in Heights
    PROVE  BlockAt(h) \in Block
BY DEF ChainTypeOK, BlockAt, Block, Heights

=============================================================================
