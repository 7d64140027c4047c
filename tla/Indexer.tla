------------------------------ MODULE Indexer ------------------------------
(***************************************************************************)
(* MemIndexer (crates/rgb-pq-chain/src/indexer.rs), the reference for the  *)
(* Indexer trait: facts about watched outpoints, and the tip they belong   *)
(* to.  The indexer is passive: every action is one call of the trait, and *)
(* Next lets a caller make them in any order, with any argument.           *)
(***************************************************************************)
EXTENDS Integers

CONSTANTS
    Outpoints,
    Txids,
    Tips,       \* the blocks a caller may name as the tip: [height, hash] records
    MaxIndexed, \* bound: heights and depths are at most MaxIndexed
    NoTx, NoHash, NoEntry

NoHeight == -1
Hashes == {tip.hash : tip \in Tips}
Entry == [output : BOOLEAN, spending_txid : Txids \cup {NoTx},
          confirmations : 0..MaxIndexed, spend_height : NoHeight..MaxIndexed]

ASSUME IndexerAssumption ==
    /\ MaxIndexed \in Nat
    /\ \A tip \in Tips : tip.height \in 0..MaxIndexed
    /\ NoTx \notin Txids
    /\ NoEntry \notin Entry

VARIABLES
    idxHeight, \* the tip's height
    idxHash,   \* the tip's hash
    entries    \* outpoint |-> what is known of it, NoEntry when not watched

indexerVars == <<idxHeight, idxHash, entries>>

IndexerTypeOK ==
    /\ idxHeight \in 0..MaxIndexed
    /\ idxHash \in Hashes \cup {NoHash}
    /\ entries \in [Outpoints -> Entry \cup {NoEntry}]

Blank == [output |-> FALSE, spending_txid |-> NoTx, confirmations |-> 0,
          spend_height |-> NoHeight]

IndexerInit ==
    /\ idxHeight = 0
    /\ idxHash = NoHash
    /\ entries = [o \in Outpoints |-> NoEntry]

\* entry(key).or_default()
OrDefault(o) == IF entries[o] = NoEntry THEN Blank ELSE entries[o]

Put(o, entry) ==
    /\ entries' = [entries EXCEPT ![o] = entry]
    /\ UNCHANGED <<idxHeight, idxHash>>

Watch(o) == Put(o, OrDefault(o))

RecordOutput(o) == Put(o, [OrDefault(o) EXCEPT !.output = TRUE])

\* The fact is filed under the indexer's own height, not the transaction's.
RecordSpend(o, txid, confs) ==
    Put(o, [OrDefault(o) EXCEPT !.spending_txid = txid, !.confirmations = confs,
                                !.spend_height = idxHeight])

UpdateConfirmations(o, depth) == Put(o, [OrDefault(o) EXCEPT !.confirmations = depth])

\* Which entries a rollback forgets the spend of, and what is left of them.
RolledBackBelow(entry, to) == entry.spend_height > to + 1
RolledBack(entry, to) == entry.spend_height > to

ForgetTxidOnly(entry) == [entry EXCEPT !.spending_txid = NoTx]
Forget(entry) == [entry EXCEPT !.spending_txid = NoTx, !.confirmations = 0,
                               !.spend_height = NoHeight]

RollbackBelow(to) ==
    /\ entries' = [o \in Outpoints |->
                     IF entries[o] # NoEntry /\ RolledBack(entries[o], to)
                     THEN Forget(entries[o]) ELSE entries[o]]
    /\ idxHeight' = to - 1
    /\ UNCHANGED idxHash

\* The hash stays that of the tip rolled back from.
Rollback(to) ==
    /\ entries' = [o \in Outpoints |->
                     IF entries[o] # NoEntry /\ RolledBack(entries[o], to)
                     THEN Forget(entries[o]) ELSE entries[o]]
    /\ idxHeight' = to
    /\ UNCHANGED idxHash

RescanFrom(from) ==
    /\ entries' = [o \in Outpoints |->
                     IF entries[o] # NoEntry /\ entries[o].spend_height >= from
                     THEN [entries[o] EXCEPT !.confirmations = 0] ELSE entries[o]]
    /\ UNCHANGED <<idxHeight, idxHash>>

SetTipHeight(tip) == idxHeight' = tip.height /\ UNCHANGED <<idxHash, entries>>
SetTip(tip) ==
    /\ idxHeight' = tip.height
    /\ idxHash' = tip.hash
    /\ UNCHANGED entries

IndexerNext ==
    \/ \E o \in Outpoints :
          \/ Watch(o)
          \/ RecordOutput(o)
          \/ \E txid \in Txids, confs \in 0..MaxIndexed : RecordSpend(o, txid, confs)
          \/ \E depth \in 0..MaxIndexed : UpdateConfirmations(o, depth)
    \/ \E to \in 0..MaxIndexed : Rollback(to)
    \/ \E from \in 0..MaxIndexed : RescanFrom(from)
    \/ \E tip \in Tips : SetTip(tip)

IndexerSpec == IndexerInit /\ [][IndexerNext]_indexerVars

-----------------------------------------------------------------------------
(* Properties. *)

\* A spend is filed under a height exactly as long as it is known: one filed
\* under no height would survive every rollback.
SpendFiled ==
    \A o \in Outpoints : entries[o] # NoEntry =>
        (entries[o].spending_txid = NoTx <=> entries[o].spend_height = NoHeight)

=============================================================================
