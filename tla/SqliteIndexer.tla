--------------------------- MODULE SqliteIndexer ---------------------------
(***************************************************************************)
(* SqliteIndexer (crates/rgb-pq-chain/src/indexer.rs): the Indexer trait   *)
(* over two tables.  entries is the table outpoints, idxHeight and idxHash *)
(* are the tip the process caches, and disk is the table meta.             *)
(*                                                                         *)
(* Every statement is a transaction of its own and an action of its own: a *)
(* call may fail, and the process may stop, between any two of them.  A    *)
(* call whose first statement fails changes nothing and is no step.        *)
(***************************************************************************)
EXTENDS Indexer

VARIABLES
    disk,    \* the rows 'height' and 'tip' of meta, as read_meta reads them
    call,    \* the call whose write_meta is under way, "none" otherwise
    stored,  \* whether that write_meta is past its first statement
    running, \* whether the process has the database open
    floor,   \* history: the height of the last rollback if it answered Ok and no
             \* set_tip followed, else MaxIndexed
    intact   \* history: whether the last write_meta was completed, and every
             \* read_meta since has read both rows

sqliteVars == <<indexerVars, disk, call, stored, running, floor, intact>>

SqliteTypeOK ==
    /\ IndexerTypeOK
    /\ disk \in [height : 0..MaxIndexed, hash : Hashes \cup {NoHash}]
    /\ call \in {"none", "rollback", "set_tip"}
    /\ stored \in BOOLEAN
    /\ running \in BOOLEAN
    /\ floor \in 0..MaxIndexed
    /\ intact \in BOOLEAN

SqliteInit ==
    /\ IndexerInit
    /\ disk = [height |-> 0, hash |-> NoHash]
    /\ call = "none"
    /\ stored = FALSE
    /\ running = TRUE
    /\ floor = MaxIndexed
    /\ intact = TRUE

Ready == running /\ call = "none"

-----------------------------------------------------------------------------
(* Calls of one statement.  UPDATE ... WHERE k changes no row, and reports  *)
(* no error, when the outpoint is not watched.                              *)

Rows == {o \in Outpoints : entries[o] # NoEntry}

SqlWatchReplace(o) == entries' = [entries EXCEPT ![o] = Blank]

\* INSERT OR IGNORE
SqlWatch(o) == entries' = [entries EXCEPT ![o] = IF o \in Rows THEN @ ELSE Blank]

SqlRecordOutput(o) ==
    entries' = [p \in Outpoints |->
        IF p \in Rows \cap {o} THEN [entries[p] EXCEPT !.output = TRUE] ELSE entries[p]]

SqlRecordSpend(o, txid, confs) ==
    entries' = [p \in Outpoints |->
        IF p \in Rows \cap {o}
        THEN [entries[p] EXCEPT !.spending_txid = txid, !.confirmations = confs,
                                !.spend_height = idxHeight]
        ELSE entries[p]]

SqlUpdateConfirmations(o, depth) ==
    entries' = [p \in Outpoints |->
        IF p \in Rows \cap {o} THEN [entries[p] EXCEPT !.confirmations = depth] ELSE entries[p]]

SqlRescanFrom(from) ==
    entries' = [p \in Outpoints |->
        IF p \in Rows /\ entries[p].spend_height >= from
        THEN [entries[p] EXCEPT !.confirmations = 0] ELSE entries[p]]

OneStatement ==
    /\ running /\ call = "none"
    /\ \/ \E o \in Outpoints :
             \/ SqlWatch(o)
             \/ SqlRecordOutput(o)
             \/ \E txid \in Txids, confs \in 0..MaxIndexed : SqlRecordSpend(o, txid, confs)
             \/ \E depth \in 0..MaxIndexed : SqlUpdateConfirmations(o, depth)
       \/ \E from \in 0..MaxIndexed : SqlRescanFrom(from)
    /\ UNCHANGED <<idxHeight, idxHash, disk, call, stored, running, floor, intact>>

-----------------------------------------------------------------------------
(* Calls that end in write_meta, two statements. *)

\* The columns the UPDATE of a rollback sets to NULL or 0.
SetNullTxidOnly(row) == [row EXCEPT !.spending_txid = NoTx, !.confirmations = 0]
SetNull(row) == [row EXCEPT !.spending_txid = NoTx, !.confirmations = 0, !.spend_height = NoHeight]

SqlRollbackBelow(to) ==
    /\ running /\ call = "none"
    /\ entries' = [p \in Outpoints |->
           IF p \in Rows /\ entries[p].spend_height > to THEN SetNull(entries[p]) ELSE entries[p]]
    /\ idxHeight' = to - 1
    /\ call' = "rollback"
    /\ stored' = FALSE
    /\ floor' = MaxIndexed
    /\ UNCHANGED <<idxHash, disk, running, intact>>

\* The rows are updated and the cached height moved before write_meta.
SqlRollback(to) ==
    /\ running /\ call = "none"
    /\ entries' = [p \in Outpoints |->
           IF p \in Rows /\ entries[p].spend_height > to THEN SetNull(entries[p]) ELSE entries[p]]
    /\ idxHeight' = to
    /\ call' = "rollback"
    /\ stored' = FALSE
    /\ floor' = MaxIndexed
    /\ UNCHANGED <<idxHash, disk, running, intact>>

SqlSetTip(tip) ==
    /\ running /\ call = "none"
    /\ idxHeight' = tip.height
    /\ idxHash' = tip.hash
    /\ call' = "set_tip"
    /\ stored' = FALSE
    /\ floor' = MaxIndexed
    /\ UNCHANGED <<entries, disk, running, intact>>

\* The call returns, with Ok unless a rollback's write_meta failed.
Return(ok) ==
    /\ call' = "none"
    /\ stored' = FALSE
    /\ intact' = ok
    /\ floor' = IF ok /\ call = "rollback" THEN idxHeight ELSE floor
    /\ UNCHANGED <<indexerVars, running>>

WriteHeight ==
    /\ call # "none" /\ ~stored
    /\ disk' = [disk EXCEPT !.height = idxHeight]
    /\ stored' = TRUE
    /\ UNCHANGED <<indexerVars, call, running, floor, intact>>

WriteTipOnce ==
    /\ call # "none" /\ stored
    /\ disk' = IF disk.hash = NoHash THEN [disk EXCEPT !.hash = idxHash] ELSE disk
    /\ Return(TRUE)

WriteTip ==
    /\ call # "none" /\ stored
    /\ disk' = [disk EXCEPT !.hash = idxHash]
    /\ Return(TRUE)

WriteSwallowed ==
    /\ call # "none"
    /\ Return(TRUE)
    /\ UNCHANGED disk

\* Either statement fails: an error of rollback, nothing to the caller of set_tip.
WriteFails ==
    /\ call # "none"
    /\ Return(FALSE)
    /\ UNCHANGED disk

Crash ==
    /\ running
    /\ running' = FALSE
    /\ call' = "none"
    /\ stored' = FALSE
    /\ intact' = (intact /\ call = "none")
    /\ UNCHANGED <<indexerVars, disk, floor>>

\* read_meta: two queries.  One that fails, or a height that does not parse,
\* counts as height 0 or as no hash, and open answers Ok all the same.
ReadMeta ==
    \E heightRead, hashRead \in BOOLEAN :
        /\ idxHeight' = IF heightRead THEN disk.height ELSE 0
        /\ idxHash' = IF hashRead THEN disk.hash ELSE NoHash
        /\ intact' = (intact /\ heightRead /\ hashRead)

Open ==
    /\ ~running
    /\ running' = TRUE
    /\ ReadMeta
    /\ UNCHANGED <<entries, disk, call, stored, floor>>

SqliteNext ==
    \/ OneStatement
    \/ \E to \in 0..MaxIndexed : SqlRollback(to)
    \/ \E tip \in Tips : SqlSetTip(tip)
    \/ WriteHeight \/ WriteTip \/ WriteFails
    \/ Crash \/ Open

SqliteSpec == SqliteInit /\ [][SqliteNext]_sqliteVars

-----------------------------------------------------------------------------
(* Properties. *)

\* A rollback that answered Ok holds through crashes and restarts: until the
\* tip is set again, no spend is filed above its height, and no restart comes
\* back above it.
RollbackIsDurable ==
    /\ \A o \in Rows : entries[o].spend_height <= floor
    /\ disk.height <= floor

\* The disk holds the tip the process holds, or held before it stopped, height
\* and hash, unless the last write of it failed or was cut off or a restart
\* since has failed to read it.
TipIsDurable == intact /\ call = "none" => disk = [height |-> idxHeight, hash |-> idxHash]

\* Statement by statement, the tables and the cached tip do what MemIndexer
\* does, or nothing.  A restart loses no row; the tip it comes back with is the
\* one on disk, or height 0 or no hash where a row of it could not be read.
ImplementsIndexer ==
    IndexerInit /\ [][IndexerNext \/ Open]_indexerVars

=============================================================================
