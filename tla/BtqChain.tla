------------------------------ MODULE BtqChain ------------------------------
(***************************************************************************)
(* The BTQ node as the crates under src/ see it through its RPC interface: *)
(* an active chain that grows and reorganises, a mempool, and two kinds of *)
(* transactions: Fund, whose output is the P2MR output a seal is defined   *)
(* over, and Closers, conflicting transactions that each spend it.         *)
(*                                                                         *)
(* btq-core is not part of the repository; this module is the environment  *)
(* of the client modules.                                                  *)
(***************************************************************************)
EXTENDS Integers

CONSTANTS
    Fund,       \* the transaction that creates the seal's output
    Closers,    \* the transactions that spend it, all in conflict
    MaxHeight,  \* bound: length the chain may reach
    MaxReorg,   \* the deepest reorganisation, in disconnected blocks
    MaxForks    \* bound: number of reorganisations

ASSUME ChainAssumption ==
    /\ Fund \notin Closers
    /\ MaxHeight \in Nat /\ MaxReorg \in Nat /\ MaxForks \in Nat

VARIABLES
    height,   \* height of the active chain's tip
    minedAt,  \* tx |-> the height of its block in the active chain, 0 if none
    mempool,  \* the transactions waiting for a block
    branch,   \* height |-> the fork its active block was mined on
    forks     \* the reorganisations so far

chainVars == <<height, minedAt, mempool, branch, forks>>

Tx == {Fund} \cup Closers
Heights == 1..MaxHeight
Block == [height : Heights, branch : 0..MaxForks]

ChainTypeOK ==
    /\ height \in 0..MaxHeight
    /\ minedAt \in [Tx -> 0..MaxHeight]
    /\ mempool \in SUBSET Tx
    /\ branch \in [Heights -> 0..MaxForks]
    /\ forks \in 0..MaxForks

-----------------------------------------------------------------------------
(* What a query reads. *)

Mined(t) == minedAt[t] # 0
Live(t) == Mined(t) \/ t \in mempool

\* "confirmations" of a verbose getrawtransaction: depth from the tip.
Confirmations(t) == IF Mined(t) THEN height - minedAt[t] + 1 ELSE 0

\* The hash of the active block at height h: a height has one block per fork.
BlockAt(h) == [height |-> h, branch |-> branch[h]]
OnActiveChain(b) == b.height <= height /\ b = BlockAt(b.height)

-----------------------------------------------------------------------------
(* Consensus: one spend of the output, after the output itself. *)

Consistent(mined, pool) ==
    /\ \A t \in pool : mined[t] = 0
    /\ \A c, d \in Closers :
          (mined[c] # 0 \/ c \in pool) /\ (mined[d] # 0 \/ d \in pool) => c = d
    /\ \A c \in Closers : mined[c] # 0 => mined[Fund] \in 1..mined[c]
    /\ \A c \in Closers : c \in pool => mined[Fund] # 0 \/ Fund \in pool

Ledger == Consistent(minedAt, mempool) /\ \A t \in Tx : minedAt[t] <= height

ChainInit ==
    /\ height = 0
    /\ minedAt = [t \in Tx |-> 0]
    /\ mempool = {}
    /\ branch = [h \in Heights |-> 0]
    /\ forks = 0

\* A transaction reaches the mempool; a closer replaces the one it conflicts with.
Relay(t) ==
    /\ ~Live(t)
    /\ mempool' = {t} \cup (IF t = Fund THEN mempool ELSE mempool \ Closers)
    /\ Consistent(minedAt, mempool')
    /\ UNCHANGED <<height, minedAt, branch, forks>>

\* A block with the transactions in txs, relayed before or not, extends the chain.
Extend(txs) ==
    /\ height < MaxHeight
    /\ \A t \in txs : ~Mined(t)
    /\ height' = height + 1
    /\ minedAt' = [t \in Tx |-> IF t \in txs THEN height + 1 ELSE minedAt[t]]
    /\ mempool' = (IF txs \cap Closers = {} THEN mempool ELSE mempool \ Closers) \ txs
    /\ Consistent(minedAt', mempool')
    /\ branch' = [branch EXCEPT ![height + 1] = forks]
    /\ UNCHANGED forks

\* The top depth blocks give way to depth + 1 others, which confirm the
\* transactions above the fork point at heights of their own or not at all.
Reorg(depth) ==
    /\ depth <= height
    /\ height < MaxHeight
    /\ forks < MaxForks
    /\ height' = height + 1
    /\ forks' = forks + 1
    /\ branch' = [h \in Heights |->
                    IF h \in (height - depth + 1)..(height + 1) THEN forks + 1 ELSE branch[h]]
    /\ minedAt' \in [Tx -> 0..(height + 1)]
    /\ \A t \in Tx :
          \/ Mined(t) /\ minedAt[t] <= height - depth /\ minedAt'[t] = minedAt[t]
          \/ /\ ~Mined(t) \/ minedAt[t] > height - depth
             /\ minedAt'[t] = 0 \/ minedAt'[t] > height - depth
    /\ mempool' \in SUBSET {t \in Tx : Live(t)}
    /\ Consistent(minedAt', mempool')

ChainNext ==
    \/ \E t \in Tx : Relay(t)
    \/ \E txs \in SUBSET Tx : Extend(txs)
    \/ \E depth \in 1..MaxReorg : Reorg(depth)

=============================================================================
