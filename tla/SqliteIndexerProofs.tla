------------------------ MODULE SqliteIndexerProofs ------------------------
(***************************************************************************)
(* What the two indexers keep.                                             *)
(*                                                                         *)
(* Of a MemIndexer, every call of the Indexer trait keeps SpendFiled,      *)
(* whatever the caller passes and in whatever order it calls; it is        *)
(* inductive together with the types, which say that a tip has a height.   *)
(*                                                                         *)
(* The SQLite indexer keeps through failing statements, crashes and        *)
(* restarts its types, the filing of spends, rollbacks that answered Ok    *)
(* and the tip; and it implements MemIndexer.  None of the last three is   *)
(* inductive: between the statements of a call they are about to become    *)
(* true.  IInv says what a call under way has done so far (Halfway).       *)
(***************************************************************************)
EXTENDS SqliteIndexer, TLAPS

-----------------------------------------------------------------------------
(* MemIndexer *)

IndexerInv == IndexerTypeOK /\ SpendFiled

\* An entry made by a call is an entry.
LEMMA BlankTyped == Blank \in Entry
BY IndexerAssumption DEF Blank, Entry, NoHeight

\* A call that writes one entry keeps the others, and a well-filed entry well-filed.
LEMMA PutInv ==
    ASSUME IndexerInv, NEW o \in Outpoints, NEW entry \in Entry, Put(o, entry),
           entry.spending_txid = NoTx <=> entry.spend_height = NoHeight
    PROVE  IndexerInv'
BY DEF IndexerInv, IndexerTypeOK, SpendFiled, Put

\* Every call keeps the types and the filing.
LEMMA IndexerCalls ==
    ASSUME IndexerInv, [IndexerNext]_indexerVars
    PROVE  IndexerInv'
<1> USE IndexerAssumption
<1>1. ASSUME NEW o \in Outpoints
      PROVE  /\ OrDefault(o) \in Entry
             /\ OrDefault(o).spending_txid = NoTx <=> OrDefault(o).spend_height = NoHeight
    BY BlankTyped DEF OrDefault, IndexerInv, IndexerTypeOK, SpendFiled, Blank
<1>2. ASSUME NEW o \in Outpoints, Watch(o)
      PROVE  IndexerInv'
    BY <1>1, <1>2, PutInv DEF Watch
<1>3. ASSUME NEW o \in Outpoints, RecordOutput(o)
      PROVE  IndexerInv'
    <2>1. [OrDefault(o) EXCEPT !.output = TRUE] \in Entry
        BY <1>1 DEF Entry
    <2>2. QED BY <1>1, <1>3, <2>1, PutInv DEF RecordOutput, Entry
<1>4. ASSUME NEW o \in Outpoints, NEW txid \in Txids, NEW confs \in 0..MaxIndexed,
             RecordSpend(o, txid, confs)
      PROVE  IndexerInv'
    <2> DEFINE entry == [OrDefault(o) EXCEPT !.spending_txid = txid, !.confirmations = confs,
                                             !.spend_height = idxHeight]
    <2>1. entry \in Entry
        <3>1. OrDefault(o) \in Entry /\ idxHeight \in NoHeight..MaxIndexed
            BY <1>1 DEF IndexerInv, IndexerTypeOK, NoHeight
        <3>2. QED BY <3>1 DEF Entry
    <2>2. entry.spending_txid # NoTx /\ entry.spend_height # NoHeight
        BY <1>1 DEF Entry, IndexerInv, IndexerTypeOK, NoHeight
    <2>3. QED BY <1>4, <2>1, <2>2, PutInv DEF RecordSpend
<1>5. ASSUME NEW o \in Outpoints, NEW depth \in 0..MaxIndexed, UpdateConfirmations(o, depth)
      PROVE  IndexerInv'
    <2>1. [OrDefault(o) EXCEPT !.confirmations = depth] \in Entry
        BY <1>1 DEF Entry
    <2>2. QED BY <1>1, <1>5, <2>1, PutInv DEF UpdateConfirmations, Entry
<1>6. ASSUME NEW to \in 0..MaxIndexed, Rollback(to)
      PROVE  IndexerInv'
    <2>1. \A entry \in Entry :
              /\ Forget(entry) \in Entry
              /\ Forget(entry).spending_txid = NoTx /\ Forget(entry).spend_height = NoHeight
        <3>1. 0 \in 0..MaxIndexed /\ NoHeight \in NoHeight..MaxIndexed
            BY DEF NoHeight
        <3>2. QED BY <3>1 DEF Forget, Entry
    <2>2. ASSUME NEW o \in Outpoints
          PROVE  /\ entries'[o] \in Entry \cup {NoEntry}
                 /\ entries'[o] # NoEntry =>
                       (entries'[o].spending_txid = NoTx <=> entries'[o].spend_height = NoHeight)
        BY <1>6, <2>1 DEF Rollback, IndexerInv, IndexerTypeOK, SpendFiled
    <2>3. IndexerTypeOK'
        BY <1>6, <2>2 DEF Rollback, IndexerInv, IndexerTypeOK
    <2>4. QED BY <2>2, <2>3 DEF IndexerInv, SpendFiled
<1>7. ASSUME NEW from \in 0..MaxIndexed, RescanFrom(from)
      PROVE  IndexerInv'
    <2>1. \A entry \in Entry :
              LET cleared == [entry EXCEPT !.confirmations = 0]
              IN  /\ cleared \in Entry
                  /\ cleared.spending_txid = entry.spending_txid
                  /\ cleared.spend_height = entry.spend_height
        BY DEF Entry
    <2>2. QED BY <1>7, <2>1 DEF RescanFrom, IndexerInv, IndexerTypeOK, SpendFiled
<1>8. ASSUME NEW tip \in Tips, SetTip(tip)
      PROVE  IndexerInv'
    BY <1>8 DEF SetTip, IndexerInv, IndexerTypeOK, SpendFiled, Hashes
<1>9. CASE UNCHANGED indexerVars
    BY <1>9 DEF indexerVars, IndexerInv, IndexerTypeOK, SpendFiled
<1>10. QED
    BY <1>2, <1>3, <1>4, <1>5, <1>6, <1>7, <1>8, <1>9 DEF IndexerNext

\* MemIndexer knows the height of every spend it knows, after any calls, so
\* that a rollback finds it.
THEOREM SpendsAreFiled == IndexerSpec => [](IndexerTypeOK /\ SpendFiled)
<1>1. IndexerInit => IndexerInv
    BY IndexerAssumption DEF IndexerInit, IndexerInv, IndexerTypeOK, SpendFiled
<1>2. IndexerInv /\ [IndexerNext]_indexerVars => IndexerInv'
    BY IndexerCalls
<1>3. IndexerInv => IndexerTypeOK /\ SpendFiled
    BY DEF IndexerInv
<1>4. QED BY <1>1, <1>2, <1>3, PTL DEF IndexerSpec

-----------------------------------------------------------------------------
(* SqliteIndexer *)

Halfway ==
    /\ call # "none" => floor = MaxIndexed
    /\ call = "rollback" => \A o \in Rows : entries[o].spend_height <= idxHeight
    /\ stored => call # "none" /\ disk.height = idxHeight
    /\ ~running => call = "none"
    /\ Ready => idxHeight <= floor

IInv == SqliteTypeOK /\ SpendFiled /\ RollbackIsDurable /\ TipIsDurable /\ Halfway

-----------------------------------------------------------------------------
\* A statement on the rows that keeps each well typed, well filed and below
\* the floor keeps the invariant.
LEMMA RowsKept ==
    ASSUME IInv, Ready,
           UNCHANGED <<idxHeight, idxHash, disk, call, stored, running, floor, intact>>,
           entries' \in [Outpoints -> Entry \cup {NoEntry}],
           \A o \in Outpoints : entries'[o] # NoEntry =>
               /\ entries'[o].spending_txid = NoTx <=> entries'[o].spend_height = NoHeight
               /\ entries'[o].spend_height <= floor
    PROVE  IInv'
BY DEF IInv, SqliteTypeOK, IndexerTypeOK, SpendFiled, RollbackIsDurable, TipIsDurable, Halfway,
       Ready, Rows

\* What SET does to a row.
LEMMA RowUpdates ==
    ASSUME SqliteTypeOK, NEW row \in Entry
    PROVE  /\ [row EXCEPT !.output = TRUE] \in Entry
           /\ \A depth \in 0..MaxIndexed : [row EXCEPT !.confirmations = depth] \in Entry
           /\ [row EXCEPT !.confirmations = 0] \in Entry
           /\ \A txid \in Txids, confs \in 0..MaxIndexed :
                 [row EXCEPT !.spending_txid = txid, !.confirmations = confs,
                             !.spend_height = idxHeight] \in Entry
           /\ SetNull(row) \in Entry
<1>1. 0 \in 0..MaxIndexed /\ NoHeight \in NoHeight..MaxIndexed /\ idxHeight \in NoHeight..MaxIndexed
    BY IndexerAssumption DEF SqliteTypeOK, IndexerTypeOK, NoHeight
<1>2. QED BY <1>1 DEF SetNull, Entry

\* Every call of one statement keeps the invariant.
LEMMA OneStatementInv ==
    ASSUME IInv, OneStatement
    PROVE  IInv'
<1>1. /\ Ready
      /\ UNCHANGED <<idxHeight, idxHash, disk, call, stored, running, floor, intact>>
    BY DEF OneStatement, Ready
<1>2. \A o \in Rows : entries[o] \in Entry
    BY DEF IInv, SqliteTypeOK, IndexerTypeOK, Rows
<1>3. Blank \in Entry /\ Blank.spending_txid = NoTx /\ Blank.spend_height = NoHeight /\ NoHeight <= floor
    BY IndexerAssumption DEF Blank, Entry, NoHeight, IInv, SqliteTypeOK
<1>4. idxHeight <= floor /\ idxHeight # NoHeight /\ NoTx \notin Txids
    BY <1>1, IndexerAssumption DEF IInv, Halfway, SqliteTypeOK, IndexerTypeOK, NoHeight
<1>5. ASSUME NEW o \in Outpoints, SqlWatch(o)
      PROVE  IInv'
    BY <1>1, <1>3, <1>5, RowsKept DEF SqlWatch, IInv, SqliteTypeOK, IndexerTypeOK, SpendFiled,
       RollbackIsDurable, Rows
<1>6. ASSUME NEW o \in Outpoints, SqlRecordOutput(o)
      PROVE  IInv'
    <2>1. \A p \in Rows : entries'[p] \in Entry /\ entries'[p].spending_txid = entries[p].spending_txid
                           /\ entries'[p].spend_height = entries[p].spend_height
        BY <1>2, <1>6, RowUpdates DEF SqlRecordOutput, Rows, Entry, IInv
    <2>2. QED BY <1>1, <1>6, <2>1, RowsKept DEF SqlRecordOutput, IInv, SpendFiled, RollbackIsDurable,
                 Rows, SqliteTypeOK, IndexerTypeOK
<1>7. ASSUME NEW o \in Outpoints, NEW txid \in Txids, NEW confs \in 0..MaxIndexed,
             SqlRecordSpend(o, txid, confs)
      PROVE  IInv'
    <2>1. \A p \in Rows \cap {o} :
              /\ entries'[p] \in Entry
              /\ entries'[p].spending_txid = txid /\ entries'[p].spend_height = idxHeight
        BY <1>2, <1>7, RowUpdates DEF SqlRecordSpend, Rows, Entry, IInv
    <2>2. QED BY <1>1, <1>4, <1>7, <2>1, RowsKept DEF SqlRecordSpend, IInv, SpendFiled,
                 RollbackIsDurable, Rows, SqliteTypeOK, IndexerTypeOK
<1>8. ASSUME NEW o \in Outpoints, NEW depth \in 0..MaxIndexed, SqlUpdateConfirmations(o, depth)
      PROVE  IInv'
    <2>1. \A p \in Rows : entries'[p] \in Entry /\ entries'[p].spending_txid = entries[p].spending_txid
                           /\ entries'[p].spend_height = entries[p].spend_height
        BY <1>2, <1>8, RowUpdates DEF SqlUpdateConfirmations, Rows, Entry, IInv
    <2>2. QED BY <1>1, <1>8, <2>1, RowsKept DEF SqlUpdateConfirmations, IInv, SpendFiled,
                 RollbackIsDurable, Rows, SqliteTypeOK, IndexerTypeOK
<1>9. ASSUME NEW from \in 0..MaxIndexed, SqlRescanFrom(from)
      PROVE  IInv'
    <2>1. \A p \in Rows : entries'[p] \in Entry /\ entries'[p].spending_txid = entries[p].spending_txid
                           /\ entries'[p].spend_height = entries[p].spend_height
        BY <1>2, <1>9, RowUpdates DEF SqlRescanFrom, Rows, Entry, IInv
    <2>2. QED BY <1>1, <1>9, <2>1, RowsKept DEF SqlRescanFrom, IInv, SpendFiled, RollbackIsDurable,
                 Rows, SqliteTypeOK, IndexerTypeOK
<1>10. QED BY <1>5, <1>6, <1>7, <1>8, <1>9 DEF OneStatement

\* Every step keeps the invariant.
LEMMA SqliteSteps ==
    ASSUME IInv, [SqliteNext]_sqliteVars
    PROVE  IInv'
<1> USE IndexerAssumption
<1>1. CASE OneStatement
    BY <1>1, OneStatementInv
<1>2. ASSUME NEW to \in 0..MaxIndexed, SqlRollback(to)
      PROVE  IInv'
    <2>1. \A p \in Rows :
              /\ entries[p] \in Entry /\ entries[p].spend_height \in NoHeight..MaxIndexed
              /\ SetNull(entries[p]) \in Entry
        <3>1. SqliteTypeOK /\ \A p \in Rows : entries[p] \in Entry
            BY DEF Rows, IInv, SqliteTypeOK, IndexerTypeOK
        <3>2. \A row \in Entry : row.spend_height \in NoHeight..MaxIndexed
            BY DEF Entry
        <3>3. QED BY <3>1, <3>2, RowUpdates
    <2>2. ASSUME NEW p \in Outpoints
          PROVE  /\ entries'[p] \in Entry \cup {NoEntry}
                 /\ entries'[p] # NoEntry =>
                       /\ entries'[p].spending_txid = NoTx <=> entries'[p].spend_height = NoHeight
                       /\ entries'[p].spend_height <= to
                       /\ entries'[p].spend_height <= MaxIndexed
        <3>1. CASE p \notin Rows
            BY <1>2, <3>1 DEF SqlRollback, Rows
        <3>2. CASE p \in Rows /\ entries[p].spend_height > to
            <4>1. entries'[p] = SetNull(entries[p])
                BY <1>2, <3>2 DEF SqlRollback
            <4>2. SetNull(entries[p]).spending_txid = NoTx
                  /\ SetNull(entries[p]).spend_height = NoHeight
                BY <2>1, <3>2 DEF SetNull, Entry
            <4>3. QED BY <2>1, <3>2, <4>1, <4>2 DEF NoHeight
        <3>3. CASE p \in Rows /\ ~(entries[p].spend_height > to)
            <4>1. entries'[p] = entries[p]
                BY <1>2, <3>3 DEF SqlRollback
            <4>2. QED BY <2>1, <3>3, <4>1 DEF IInv, SpendFiled, Rows, NoHeight
        <3>4. QED BY <3>1, <3>2, <3>3
    <2>3. IndexerTypeOK' /\ SpendFiled'
        BY <1>2, <2>2 DEF SqlRollback, IInv, SqliteTypeOK, IndexerTypeOK, SpendFiled
    <2>7. SqliteTypeOK'
        <3>1. stored' \in BOOLEAN /\ running' \in BOOLEAN /\ intact' \in BOOLEAN
            BY <1>2 DEF SqlRollback, IInv, SqliteTypeOK
        <3>2. floor' \in 0..MaxIndexed /\ call' \in {"none", "rollback", "set_tip"}
            BY <1>2, IndexerAssumption DEF SqlRollback, IInv, SqliteTypeOK
        <3>3. disk' \in [height : 0..MaxIndexed, hash : Hashes \cup {NoHash}]
            BY <1>2, IndexerAssumption DEF SqlRollback, IInv, SqliteTypeOK, Hashes
        <3>4. QED BY <2>3, <3>1, <3>2, <3>3 DEF SqliteTypeOK
    <2>4. RollbackIsDurable' /\ Halfway'
        BY <1>2, <2>2 DEF SqlRollback, IInv, SqliteTypeOK, RollbackIsDurable, Halfway, Ready, Rows
    <2>5. TipIsDurable'
        BY <1>2 DEF SqlRollback, TipIsDurable
    <2>6. QED BY <2>3, <2>4, <2>5, <2>7 DEF IInv
<1>3. ASSUME NEW tip \in Tips, SqlSetTip(tip)
      PROVE  IInv'
    <2>1. \A o \in Rows : entries[o].spend_height <= MaxIndexed
        BY DEF IInv, SqliteTypeOK, IndexerTypeOK, Rows, Entry, NoHeight
    <2>2. IndexerTypeOK' /\ SpendFiled'
        BY <1>3 DEF SqlSetTip, IInv, SqliteTypeOK, IndexerTypeOK, SpendFiled, Hashes
    <2>6. SqliteTypeOK'
        <3>1. stored' \in BOOLEAN /\ running' \in BOOLEAN /\ intact' \in BOOLEAN
            BY <1>3 DEF SqlSetTip, IInv, SqliteTypeOK
        <3>2. floor' \in 0..MaxIndexed /\ call' \in {"none", "rollback", "set_tip"}
            BY <1>3, IndexerAssumption DEF SqlSetTip, IInv, SqliteTypeOK
        <3>3. disk' \in [height : 0..MaxIndexed, hash : Hashes \cup {NoHash}]
            BY <1>3, IndexerAssumption DEF SqlSetTip, IInv, SqliteTypeOK, Hashes
        <3>4. QED BY <2>2, <3>1, <3>2, <3>3 DEF SqliteTypeOK
    <2>3. RollbackIsDurable' /\ Halfway'
        BY <1>3, <2>1 DEF SqlSetTip, IInv, SqliteTypeOK, RollbackIsDurable, Halfway, Ready, Rows
    <2>4. TipIsDurable'
        BY <1>3 DEF SqlSetTip, TipIsDurable
    <2>5. QED BY <2>2, <2>3, <2>4, <2>6 DEF IInv
<1>4. ASSUME call # "none", UNCHANGED <<indexerVars, running>>,
             disk' \in [height : 0..MaxIndexed, hash : Hashes \cup {NoHash}],
             disk'.height \in {disk.height, idxHeight},
             \/ UNCHANGED <<call, floor, intact>> /\ stored' = TRUE /\ disk'.height = idxHeight
             \/ Return(FALSE)
             \/ Return(TRUE) /\ disk' = [height |-> idxHeight, hash |-> idxHash]
      PROVE  IInv'
    <2>1. SqliteTypeOK' /\ SpendFiled'
        BY <1>4 DEF IInv, SqliteTypeOK, IndexerTypeOK, SpendFiled, indexerVars, Return
    <2>2. RollbackIsDurable' /\ Halfway'
        BY <1>4 DEF IInv, SqliteTypeOK, IndexerTypeOK, RollbackIsDurable, Halfway, Ready, Rows,
           indexerVars, Return
    <2>3. TipIsDurable'
        BY <1>4 DEF TipIsDurable, indexerVars, Return
    <2>4. QED BY <2>1, <2>2, <2>3 DEF IInv
<1>5. CASE WriteHeight
    <2>1. /\ disk' \in [height : 0..MaxIndexed, hash : Hashes \cup {NoHash}]
          /\ disk'.height = idxHeight
        BY <1>5 DEF WriteHeight, IInv, SqliteTypeOK, IndexerTypeOK
    <2>2. QED BY <1>4, <1>5, <2>1 DEF WriteHeight
<1>6. CASE WriteTip
    <2>1. disk' = [height |-> idxHeight, hash |-> idxHash]
        BY <1>6 DEF WriteTip, IInv, SqliteTypeOK, Halfway
    <2>2. disk' \in [height : 0..MaxIndexed, hash : Hashes \cup {NoHash}]
        BY <2>1 DEF IInv, SqliteTypeOK, IndexerTypeOK
    <2>3. QED BY <1>4, <1>6, <2>1, <2>2 DEF WriteTip, Return
<1>7. CASE WriteFails
    BY <1>4, <1>7 DEF WriteFails, Return, IInv, SqliteTypeOK
<1>8. CASE Crash
    <2>1. SqliteTypeOK' /\ SpendFiled'
        BY <1>8 DEF Crash, IInv, SqliteTypeOK, IndexerTypeOK, SpendFiled, indexerVars
    <2>2. RollbackIsDurable' /\ Halfway'
        BY <1>8 DEF Crash, IInv, RollbackIsDurable, Halfway, Ready, Rows, indexerVars
    <2>3. TipIsDurable'
        BY <1>8 DEF Crash, IInv, TipIsDurable, indexerVars
    <2>4. QED BY <2>1, <2>2, <2>3 DEF IInv
<1>9. CASE Open
    <2>1. PICK heightRead \in BOOLEAN, hashRead \in BOOLEAN :
              /\ idxHeight' = IF heightRead THEN disk.height ELSE 0
              /\ idxHash' = IF hashRead THEN disk.hash ELSE NoHash
              /\ intact' = (intact /\ heightRead /\ hashRead)
        BY <1>9 DEF Open, ReadMeta
    <2>2. SqliteTypeOK' /\ SpendFiled'
        <3>1. idxHeight' \in 0..MaxIndexed /\ idxHash' \in Hashes \cup {NoHash}
            BY <2>1 DEF IInv, SqliteTypeOK
        <3>2. intact' \in BOOLEAN
            BY <2>1 DEF IInv, SqliteTypeOK
        <3>3. QED BY <1>9, <3>1, <3>2 DEF Open, IInv, SqliteTypeOK, IndexerTypeOK, SpendFiled
    <2>3. call' = "none" /\ stored' = FALSE
        BY <1>9 DEF Open, IInv, SqliteTypeOK, Halfway
    <2>4. RollbackIsDurable' /\ Halfway'
        <3>1. disk.height \in 0..MaxIndexed /\ disk.height <= floor /\ floor \in 0..MaxIndexed
            BY DEF IInv, SqliteTypeOK, RollbackIsDurable
        <3>2. idxHeight' <= floor
            BY <2>1, <3>1
        <3>3. QED BY <1>9, <2>3, <3>2 DEF Open, IInv, RollbackIsDurable, Halfway, Ready, Rows
    <2>5. TipIsDurable'
        <3>1. disk = [height |-> disk.height, hash |-> disk.hash]
            BY DEF IInv, SqliteTypeOK
        <3>2. intact' => heightRead /\ hashRead
            BY <2>1
        <3>3. QED BY <1>9, <2>1, <3>1, <3>2 DEF Open, TipIsDurable
    <2>6. QED BY <2>2, <2>4, <2>5 DEF IInv
<1>10. CASE UNCHANGED sqliteVars
    BY <1>10 DEF sqliteVars, indexerVars, IInv, SqliteTypeOK, IndexerTypeOK, SpendFiled,
       RollbackIsDurable, TipIsDurable, Halfway, Ready, Rows
<1>11. QED BY <1>1, <1>2, <1>3, <1>5, <1>6, <1>7, <1>8, <1>9, <1>10 DEF SqliteNext

LEMMA SqliteInvariant == SqliteSpec => []IInv
<1>1. SqliteInit => IInv
    <2> SUFFICES ASSUME SqliteInit
                 PROVE  IInv
        OBVIOUS
    <2>1. IndexerTypeOK /\ SpendFiled
        BY IndexerAssumption DEF SqliteInit, IndexerInit, IndexerTypeOK, SpendFiled
    <2>5. SqliteTypeOK
        <3>1. stored \in BOOLEAN /\ running \in BOOLEAN /\ intact \in BOOLEAN
            BY DEF SqliteInit
        <3>2. floor \in 0..MaxIndexed /\ call \in {"none", "rollback", "set_tip"}
            BY IndexerAssumption DEF SqliteInit
        <3>3. disk \in [height : 0..MaxIndexed, hash : Hashes \cup {NoHash}]
            BY IndexerAssumption DEF SqliteInit, Hashes
        <3>4. QED BY <2>1, <3>1, <3>2, <3>3 DEF SqliteTypeOK
    <2>2. RollbackIsDurable /\ Halfway
        BY IndexerAssumption DEF SqliteInit, IndexerInit, RollbackIsDurable, Halfway, Ready, Rows
    <2>3. TipIsDurable
        BY DEF SqliteInit, IndexerInit, TipIsDurable
    <2>4. QED BY <2>1, <2>2, <2>3, <2>5 DEF IInv
<1>2. IInv /\ [SqliteNext]_sqliteVars => IInv'
    BY SqliteSteps
<1>3. QED BY <1>1, <1>2, PTL DEF SqliteSpec

\* The tables and the cached tip hold what they may hold, and every spend in
\* the table is filed under a height, where a rollback finds it.
THEOREM SqliteTyped == SqliteSpec => [](SqliteTypeOK /\ SpendFiled)
<1>1. IInv => SqliteTypeOK /\ SpendFiled
    BY DEF IInv
<1>2. QED BY <1>1, SqliteInvariant, PTL

\* A rollback that answered Ok is not undone by a crash at any point after.
THEOREM RollbacksAreDurable == SqliteSpec => []RollbackIsDurable
<1>1. IInv => RollbackIsDurable
    BY DEF IInv
<1>2. QED BY <1>1, SqliteInvariant, PTL

\* The tip held is on disk, through crashes and restarts, if it was written
\* whole and no restart since has failed to read it.
THEOREM TipsAreDurable == SqliteSpec => []TipIsDurable
<1>1. IInv => TipIsDurable
    BY DEF IInv
<1>2. QED BY <1>1, SqliteInvariant, PTL

-----------------------------------------------------------------------------
\* A call of one statement is a call of MemIndexer, or changes nothing.
LEMMA OneStatementMaps ==
    ASSUME IInv, OneStatement
    PROVE  [IndexerNext]_indexerVars
<1> USE DEF indexerVars, IndexerNext, Rows, IInv, SqliteTypeOK, IndexerTypeOK, OneStatement
<1>1. UNCHANGED <<idxHeight, idxHash>>
    OBVIOUS
<1>2. ASSUME NEW o \in Outpoints, SqlWatch(o)
      PROVE  Watch(o)
    BY <1>1, <1>2 DEF SqlWatch, Watch, Put, OrDefault
<1>3. ASSUME NEW o \in Outpoints, SqlRecordOutput(o)
      PROVE  RecordOutput(o) \/ UNCHANGED indexerVars
    BY <1>1, <1>3 DEF SqlRecordOutput, RecordOutput, Put, OrDefault
<1>4. ASSUME NEW o \in Outpoints, NEW txid \in Txids, NEW confs \in 0..MaxIndexed,
             SqlRecordSpend(o, txid, confs)
      PROVE  RecordSpend(o, txid, confs) \/ UNCHANGED indexerVars
    BY <1>1, <1>4 DEF SqlRecordSpend, RecordSpend, Put, OrDefault
<1>5. ASSUME NEW o \in Outpoints, NEW depth \in 0..MaxIndexed, SqlUpdateConfirmations(o, depth)
      PROVE  UpdateConfirmations(o, depth) \/ UNCHANGED indexerVars
    BY <1>1, <1>5 DEF SqlUpdateConfirmations, UpdateConfirmations, Put, OrDefault
<1>6. ASSUME NEW from \in 0..MaxIndexed, SqlRescanFrom(from)
      PROVE  RescanFrom(from)
    BY <1>1, <1>6 DEF SqlRescanFrom, RescanFrom
<1>7. QED BY <1>2, <1>3, <1>4, <1>5, <1>6

\* Every step of SQLite is a call of MemIndexer, or nothing, or a restart.
THEOREM SqliteRefines == SqliteSpec => ImplementsIndexer
<1>1. SqliteInit => IndexerInit
    BY DEF SqliteInit
<1>2. IInv /\ [SqliteNext]_sqliteVars => [IndexerNext \/ Open]_indexerVars
    <2> SUFFICES ASSUME IInv, [SqliteNext]_sqliteVars
                 PROVE  [IndexerNext \/ Open]_indexerVars
        OBVIOUS
    <2>1. CASE OneStatement
        BY <2>1, OneStatementMaps
    <2>2. ASSUME NEW to \in 0..MaxIndexed, SqlRollback(to)
          PROVE  IndexerNext
        <3>1. Rollback(to)
            BY <2>2 DEF SqlRollback, Rollback, RolledBack, Forget, SetNull, Rows
        <3>2. QED BY <3>1 DEF IndexerNext
    <2>3. ASSUME NEW tip \in Tips, SqlSetTip(tip)
          PROVE  IndexerNext
        BY <2>3 DEF SqlSetTip, SetTip, IndexerNext
    <2>4. CASE WriteHeight \/ WriteTip \/ WriteFails \/ Crash \/ UNCHANGED sqliteVars
        BY <2>4 DEF WriteHeight, WriteTip, WriteFails, Return, Crash, sqliteVars, indexerVars
    <2>5. QED BY <2>1, <2>2, <2>3, <2>4 DEF SqliteNext
<1>3. QED BY <1>1, <1>2, SqliteInvariant, PTL DEF SqliteSpec, ImplementsIndexer

=============================================================================
