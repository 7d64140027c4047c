------------------------- MODULE IndexerSyncProofs -------------------------
(***************************************************************************)
(* A driver that moves the tip before it records a block's spends never    *)
(* leaves the indexer with a spend that a reorganisation has taken back,   *)
(* for any chain, any reorganisations and any closers.                     *)
(*                                                                         *)
(* SpendOnChain only speaks of an indexer whose tip is on the active       *)
(* chain.  What is inductive (SpendFollowed) speaks of the height the      *)
(* spend was filed under instead: as long as the driver's headers up to    *)
(* there are those of the active chain, the spend is in one of them.  A    *)
(* branch that was left never returns, so the headers of an abandoned one  *)
(* can never again be those of the active chain (FreshBranches).           *)
(***************************************************************************)
EXTENDS IndexerSync, BtqChainProofs

\* No block is of a branch yet to come.
FreshBranches == \A h \in Heights : headers[h] <= forks /\ branch[h] <= forks

\* The spend an entry knows is in a followed block no higher than it was filed.
SpendFollowed(entry) ==
    entry # NoEntry /\ entry.spending_txid # NoTx =>
        /\ entry.spend_height \in 0..idxHeight
        /\ FollowedTo(entry.spend_height) =>
              minedAt[entry.spending_txid] \in 1..entry.spend_height

\* So will be the spend the driver is about to record.
FetchedFollowed ==
    pc = "record" =>
        /\ fetched.txid \in Closers
        /\ FollowedTo(idxHeight) => minedAt[fetched.txid] \in 1..idxHeight

\* Only a driver that watches the seal rolls back.
RetipWatches == pc = "retip" => entries[Seal] # NoEntry

SyncInv ==
    /\ SyncTypeOK
    /\ Ledger
    /\ idxHeight <= height
    /\ FreshBranches
    /\ SpendFollowed(entries[Seal])
    /\ FetchedFollowed
    /\ RetipWatches

-----------------------------------------------------------------------------
(* The chain. *)

\* Headers that are those of the active chain after a step were so before it,
\* and the step left every block below them alone.
LEMMA FollowedBefore ==
    ASSUME ChainTypeOK, headers \in [Heights -> 0..MaxForks], FreshBranches,
           ChainNext, headers' = headers,
           NEW h \in 0..height, FollowedTo(h)'
    PROVE  /\ FollowedTo(h)
           /\ \A t \in Tx : minedAt[t] \in 1..h => minedAt'[t] = minedAt[t]
<1> USE ChainAssumption DEF ChainTypeOK, Tx, Heights, FollowedTo, FreshBranches, Mined, Live
<1>1. CASE \E t \in Tx : Relay(t)
    BY <1>1 DEF Relay
<1>2. CASE \E txs \in SUBSET Tx : Extend(txs)
    BY <1>2 DEF Extend
<1>3. CASE \E depth \in 1..MaxReorg : Reorg(depth)
    <2>1. PICK depth \in 1..MaxReorg : Reorg(depth)
        BY <1>3
    <2>2. h <= height - depth
        <3> SUFFICES ASSUME h > height - depth PROVE FALSE
            OBVIOUS
        <3>1. h \in Heights /\ branch'[h] = forks + 1 /\ h \in 1..h
            BY <2>1 DEF Reorg
        <3>2. headers[h] = branch'[h]
            BY <3>1
        <3>3. QED BY <3>1, <3>2
    <2>3. \A k \in 1..h : branch'[k] = branch[k]
        BY <2>1, <2>2 DEF Reorg
    <2>4. ASSUME NEW t \in Tx, minedAt[t] \in 1..h
          PROVE  minedAt'[t] = minedAt[t]
        <3>1. minedAt[t] \in Nat \ {0} /\ ~(minedAt[t] > height - depth)
            BY <2>1, <2>2, <2>4
        <3>2. \/ minedAt'[t] = minedAt[t]
              \/ ~Mined(t) \/ minedAt[t] > height - depth
            BY <2>1 DEF Reorg
        <3>3. QED BY <3>1, <3>2
    <2>5. QED BY <2>3, <2>4
<1>4. QED BY <1>1, <1>2, <1>3 DEF ChainNext

\* A chain only gets longer, and its branches are numbered upwards.
LEMMA ChainGrows ==
    ASSUME ChainTypeOK, headers \in [Heights -> 0..MaxForks], FreshBranches,
           ChainNext, headers' = headers
    PROVE  FreshBranches' /\ height' >= height
<1> USE ChainAssumption DEF ChainTypeOK, Heights, FreshBranches
<1>1. CASE \E t \in Tx : Relay(t)
    BY <1>1 DEF Relay
<1>2. CASE \E txs \in SUBSET Tx : Extend(txs)
    BY <1>2 DEF Extend
<1>3. CASE \E depth \in 1..MaxReorg : Reorg(depth)
    BY <1>3 DEF Reorg
<1>4. QED BY <1>1, <1>2, <1>3 DEF ChainNext

\* Every step of the chain keeps the invariant.
LEMMA ChainStepInv ==
    ASSUME SyncInv, ChainStep
    PROVE  SyncInv'
<1>1. ChainNext /\ UNCHANGED syncVars
    BY DEF ChainStep
<1>2. ChainTypeOK' /\ Ledger'
    BY <1>1, ChainTyped, LedgerKept DEF SyncInv, SyncTypeOK
<1>3. FreshBranches' /\ height' >= height
    BY <1>1, ChainGrows DEF SyncInv, SyncTypeOK, syncVars, driverVars
<1>4. SyncTypeOK'
    BY <1>1, <1>2 DEF SyncInv, SyncTypeOK, syncVars, driverVars, Ix!IndexerTypeOK
<1>5. idxHeight' \in 0..height /\ idxHeight' = idxHeight /\ height \in Int
    BY <1>1, ChainAssumption DEF SyncInv, SyncTypeOK, syncVars, ChainTypeOK, Ix!IndexerTypeOK
<1>6. idxHeight' <= height'
    BY <1>2, <1>3, <1>5 DEF ChainTypeOK
<1>7. ASSUME NEW h \in 0..height, FollowedTo(h)'
      PROVE  FollowedTo(h) /\ \A t \in Tx : minedAt[t] \in 1..h => minedAt'[t] = minedAt[t]
    BY <1>1, <1>7, FollowedBefore DEF SyncInv, SyncTypeOK, syncVars, driverVars
<1>8. SpendFollowed(entries[Seal])'
    <2> DEFINE entry == entries[Seal]
    <2> SUFFICES ASSUME entry # NoEntry, entry.spending_txid # NoTx
                 PROVE  /\ entry.spend_height \in 0..idxHeight
                        /\ FollowedTo(entry.spend_height)' =>
                              minedAt'[entry.spending_txid] \in 1..entry.spend_height
        BY <1>1 DEF SpendFollowed, syncVars, FollowedTo, driverVars
    <2>1. PICK h \in 0..idxHeight : h = entry.spend_height
        BY DEF SyncInv, SpendFollowed
    <2>2. entry.spending_txid \in Tx
        BY DEF SyncInv, SyncTypeOK, Ix!IndexerTypeOK, Ix!Entry, Tx
    <2>3. FollowedTo(h)' => minedAt'[entry.spending_txid] \in 1..h
        BY <1>5, <1>7, <2>1, <2>2 DEF SyncInv, SpendFollowed
    <2>4. QED BY <1>1, <2>1, <2>3 DEF FollowedTo, syncVars
<1>9. FetchedFollowed'
    <2> SUFFICES ASSUME pc = "record"
                 PROVE  /\ fetched.txid \in Closers
                        /\ FollowedTo(idxHeight)' => minedAt'[fetched.txid] \in 1..idxHeight
        BY <1>1 DEF FetchedFollowed, syncVars, driverVars, FollowedTo
    <2>1. PICK h \in 0..height : h = idxHeight
        BY <1>5
    <2>2. fetched.txid \in Closers /\ fetched.txid \in Tx
        BY DEF SyncInv, FetchedFollowed, Tx
    <2>3. FollowedTo(h)' => minedAt'[fetched.txid] \in 1..h
        BY <1>7, <2>1, <2>2 DEF SyncInv, FetchedFollowed
    <2>4. h = idxHeight'
        BY <1>5, <2>1
    <2>5. FollowedTo(idxHeight)' => FollowedTo(h)'
        BY <2>4 DEF FollowedTo
    <2>6. QED BY <2>1, <2>2, <2>3, <2>5
<1>10. RetipWatches'
    BY <1>1 DEF SyncInv, RetipWatches, syncVars, driverVars
<1>11. QED
    BY <1>2, <1>3, <1>4, <1>6, <1>8, <1>9, <1>10 DEF SyncInv

-----------------------------------------------------------------------------
(* The driver. *)

\* The driver leaves the chain alone; an entry whose spend is not touched
\* stays followed as long as the driver keeps its headers and its height.
LEMMA DriverFrame ==
    ASSUME SyncInv, UNCHANGED <<chainVars, headers>>
    PROVE  /\ ChainTypeOK' /\ Ledger' /\ FreshBranches'
           /\ \A h : FollowedTo(h)' = FollowedTo(h)
<1>1. ChainTypeOK' /\ Ledger'
    BY DEF SyncInv, SyncTypeOK, chainVars, ChainTypeOK, Ledger
<1>2. FreshBranches'
    BY DEF SyncInv, chainVars, FreshBranches
<1>3. \A h : FollowedTo(h)' = FollowedTo(h)
    BY DEF chainVars, FollowedTo
<1>4. QED BY <1>1, <1>2, <1>3

\* A call's entry for the seal is one of the indexer's.
LEMMA EntryTyped ==
    ASSUME SyncInv
    PROVE  /\ Ix!OrDefault(Seal) \in Ix!Entry
           /\ SpendFollowed(Ix!OrDefault(Seal))
           /\ idxHeight \in 0..MaxHeight
<1>1. Ix!Blank \in Ix!Entry
    BY ChainAssumption DEF Ix!Blank, Ix!Entry, Ix!NoHeight
<1>2. QED
    BY <1>1 DEF SyncInv, SyncTypeOK, Ix!IndexerTypeOK, Ix!OrDefault, SpendFollowed, Ix!Blank

\* Watching makes a blank entry, or keeps the one there is.
LEMMA WatchSealInv ==
    ASSUME SyncInv, WatchSeal
    PROVE  SyncInv'
<1> USE DEF WatchSeal, Ix!Watch, Ix!Put, driverVars
<1>1. entries'[Seal] = Ix!OrDefault(Seal)
    BY DEF SyncInv, SyncTypeOK, Ix!IndexerTypeOK
<1>2. SyncTypeOK'
    BY EntryTyped, DriverFrame DEF SyncInv, SyncTypeOK, Ix!IndexerTypeOK
<1>3. SpendFollowed(entries[Seal])'
    <2>1. Ix!OrDefault(Seal) = Ix!Blank
        BY DEF Ix!OrDefault
    <2>2. QED BY <1>1, <2>1 DEF SpendFollowed, Ix!Blank
<1>4. QED BY <1>2, <1>3, DriverFrame DEF SyncInv, FetchedFollowed, RetipWatches, chainVars

\* The next block is followed once the indexer's tip is that block.
LEMMA AdvanceInv ==
    ASSUME SyncInv, Advance
    PROVE  SyncInv'
<1> USE DEF Advance, Watching
<1> DEFINE next == idxHeight + 1
<1>1. /\ idxHeight \in 0..MaxHeight /\ height \in 0..MaxHeight /\ next \in Heights
      /\ branch[next] \in 0..MaxForks
    BY ChainAssumption DEF SyncInv, SyncTypeOK, Ix!IndexerTypeOK, ChainTypeOK, Heights
<1>2. /\ idxHeight' = next /\ idxHash' = BlockAt(next)
      /\ UNCHANGED <<chainVars, entries, pc, fetched>>
    BY DEF Ix!SetTip, ChainTip, BlockAt
<1>3. BlockAt(next) \in Ix!Hashes
    BY <1>1, BlockTyped DEF SyncInv, SyncTypeOK, Ix!Hashes, ChainTip
<1>4. ChainTypeOK' /\ Ledger' /\ headers' \in [Heights -> 0..MaxForks]
    BY <1>1, <1>2 DEF SyncInv, SyncTypeOK, chainVars, ChainTypeOK, Ledger
<1>5. SyncTypeOK'
    BY <1>1, <1>2, <1>3, <1>4 DEF SyncInv, SyncTypeOK, Ix!IndexerTypeOK, Heights
<1>6. FreshBranches'
    BY <1>1, <1>2 DEF SyncInv, SyncTypeOK, FreshBranches, chainVars
<1>7. ASSUME NEW h \in 0..idxHeight
      PROVE  FollowedTo(h)' = FollowedTo(h)
    <2>1. \A k \in 1..h : headers'[k] = headers[k]
        BY <1>1 DEF SyncInv, SyncTypeOK, Heights
    <2>2. QED BY <1>2, <2>1 DEF FollowedTo, chainVars
<1>8. SpendFollowed(entries[Seal])'
    <2> DEFINE entry == entries[Seal]
    <2> SUFFICES ASSUME entry # NoEntry, entry.spending_txid # NoTx
                 PROVE  /\ entry.spend_height \in 0..idxHeight'
                        /\ FollowedTo(entry.spend_height)' =>
                              minedAt[entry.spending_txid] \in 1..entry.spend_height
        BY <1>2 DEF SpendFollowed, chainVars
    <2>1. PICK h \in 0..idxHeight : h = entry.spend_height
        BY DEF SyncInv, SpendFollowed
    <2>2. h \in 0..idxHeight'
        BY <1>1, <1>2
    <2>3. FollowedTo(entry.spend_height)' => FollowedTo(h)
        BY <1>2, <1>7, <2>1 DEF FollowedTo
    <2>4. QED BY <2>1, <2>2, <2>3 DEF SyncInv, SpendFollowed
<1>9. idxHeight' <= height' /\ FetchedFollowed' /\ RetipWatches'
    BY <1>1, <1>2 DEF chainVars, FetchedFollowed, RetipWatches
<1>10. QED
    BY <1>4, <1>5, <1>6, <1>8, <1>9 DEF SyncInv

\* What the driver fetches was mined at or below its tip when it asked.
LEMMA FetchSpendInv ==
    ASSUME SyncInv, TipFirst, FetchSpend
    PROVE  SyncInv'
<1> USE DEF FetchSpend, Watching
<1>1. PICK c \in Closers \ {Recorded} :
          /\ Mined(c)
          /\ minedAt[c] <= idxHeight
          /\ fetched' = [txid |-> c, confs |-> Confirmations(c)]
    OBVIOUS
<1>2. fetched' \in Fetched
    BY <1>1, ConfirmationsTyped DEF SyncInv, SyncTypeOK, Fetched, Tx
<1>3. SyncTypeOK'
    BY <1>2, DriverFrame DEF SyncInv, SyncTypeOK, Ix!IndexerTypeOK
<1>4. minedAt[c] \in 1..idxHeight
    BY <1>1, ChainAssumption DEF SyncInv, SyncTypeOK, Ix!IndexerTypeOK, ChainTypeOK, Mined, Tx
<1>5. FetchedFollowed'
    BY <1>1, <1>4 DEF FetchedFollowed, chainVars
<1>6. SpendFollowed(entries[Seal])'
    BY DriverFrame DEF SyncInv, SpendFollowed, FollowedTo, chainVars
<1>7. QED BY <1>3, <1>5, <1>6, DriverFrame DEF SyncInv, RetipWatches, chainVars

\* The spend is filed under the tip the driver fetched it at.
LEMMA RecordSpendInv ==
    ASSUME SyncInv, RecordSpend
    PROVE  SyncInv'
<1> USE DEF RecordSpend, Ix!RecordSpend, Ix!Put
<1> DEFINE entry == [Ix!OrDefault(Seal) EXCEPT !.spending_txid = fetched.txid,
                                               !.confirmations = fetched.confs,
                                               !.spend_height = idxHeight]
<1>1. /\ fetched.txid \in Closers /\ fetched.confs \in 0..MaxHeight
      /\ idxHeight \in Ix!NoHeight..MaxHeight
    BY EntryTyped DEF SyncInv, SyncTypeOK, FetchedFollowed, Fetched, Ix!NoHeight
<1>2. entry \in Ix!Entry
    BY <1>1, EntryTyped DEF Ix!Entry
<1>3. /\ entry.spending_txid = fetched.txid /\ entry.spend_height = idxHeight
      /\ idxHeight \in 0..idxHeight
    BY EntryTyped DEF Ix!Entry
<1>4. entries'[Seal] = entry /\ entries' \in [{Seal} -> Ix!Entry \cup {NoEntry}]
    BY <1>2 DEF SyncInv, SyncTypeOK, Ix!IndexerTypeOK
<1>5. SyncTypeOK'
    BY <1>4, DriverFrame DEF SyncInv, SyncTypeOK, Ix!IndexerTypeOK
<1>6. SpendFollowed(entries[Seal])'
    BY <1>3, <1>4 DEF SpendFollowed, SyncInv, FetchedFollowed, FollowedTo, chainVars
<1>7. QED BY <1>5, <1>6, DriverFrame DEF SyncInv, FetchedFollowed, RetipWatches, chainVars

\* A depth is fetched and recorded of the spend that is known; no height moves.
LEMMA DepthInv ==
    ASSUME SyncInv, FetchDepth \/ RecordDepth
    PROVE  SyncInv'
<1>1. CASE FetchDepth
    <2> USE <1>1 DEF FetchDepth, Watching
    <2>1. Recorded \in Closers /\ Recorded \in Tx
        BY DEF SyncInv, SyncTypeOK, Ix!IndexerTypeOK, Ix!Entry, Recorded, Tx
    <2>2. fetched' \in Fetched
        BY <2>1, ConfirmationsTyped DEF SyncInv, SyncTypeOK, Fetched
    <2>3. SyncTypeOK'
        BY <2>2, DriverFrame DEF SyncInv, SyncTypeOK, Ix!IndexerTypeOK
    <2>4. SpendFollowed(entries[Seal])'
        BY DriverFrame DEF SyncInv, SpendFollowed, FollowedTo, chainVars
    <2>5. QED BY <2>3, <2>4, DriverFrame DEF SyncInv, FetchedFollowed, RetipWatches, chainVars
<1>2. CASE RecordDepth
    <2> USE <1>2 DEF RecordDepth, Ix!UpdateConfirmations, Ix!Put
    <2> DEFINE entry == [Ix!OrDefault(Seal) EXCEPT !.confirmations = fetched.confs]
    <2>1. fetched.confs \in 0..MaxHeight
        BY DEF SyncInv, SyncTypeOK, Fetched
    <2>2. /\ entry \in Ix!Entry /\ entry # NoEntry
          /\ entry.spending_txid = Ix!OrDefault(Seal).spending_txid
          /\ entry.spend_height = Ix!OrDefault(Seal).spend_height
        <3>1. entry \in Ix!Entry
            BY <2>1, EntryTyped DEF Ix!Entry
        <3>2. QED BY <3>1, EntryTyped, SyncAssumption DEF Ix!Entry
    <2>3. entries'[Seal] = entry /\ entries' \in [{Seal} -> Ix!Entry \cup {NoEntry}]
        BY <2>2 DEF SyncInv, SyncTypeOK, Ix!IndexerTypeOK
    <2>4. SyncTypeOK'
        BY <2>3, DriverFrame DEF SyncInv, SyncTypeOK, Ix!IndexerTypeOK
    <2>5. Ix!OrDefault(Seal) # NoEntry
        BY EntryTyped, SyncAssumption
    <2>6. SpendFollowed(entries[Seal])'
        BY <2>2, <2>3, <2>5, EntryTyped DEF SpendFollowed, FollowedTo, chainVars
    <2>7. QED BY <2>4, <2>6, DriverFrame DEF SyncInv, FetchedFollowed, RetipWatches, chainVars
<1>3. QED BY <1>1, <1>2

\* A rollback forgets what was filed above the height it goes back to.
LEMMA RollbackToForkInv ==
    ASSUME SyncInv, RollbackToFork
    PROVE  SyncInv'
<1>1. PICK to \in 0..idxHeight : Ix!Rollback(to)
    BY DEF RollbackToFork
<1>2. /\ idxHeight' = to /\ to <= idxHeight /\ to \in 0..MaxHeight /\ to <= height
      /\ UNCHANGED <<chainVars, headers, fetched, idxHash>> /\ pc' = "retip"
    BY <1>1, EntryTyped, ChainAssumption DEF RollbackToFork, Ix!Rollback, SyncInv, SyncTypeOK, ChainTypeOK
<1>3. \A entry \in Ix!Entry :
          Ix!Forget(entry) \in Ix!Entry /\ Ix!Forget(entry).spending_txid = NoTx
    <2>1. 0 \in 0..MaxHeight /\ Ix!NoHeight \in Ix!NoHeight..MaxHeight
        BY ChainAssumption DEF Ix!NoHeight
    <2>2. QED BY <2>1 DEF Ix!Forget, Ix!Entry
<1>4. /\ entries' \in [{Seal} -> Ix!Entry \cup {NoEntry}]
      /\ entries'[Seal] =
             IF entries[Seal] # NoEntry /\ Ix!RolledBack(entries[Seal], to)
             THEN Ix!Forget(entries[Seal]) ELSE entries[Seal]
    BY <1>1, <1>3 DEF SyncInv, SyncTypeOK, Ix!IndexerTypeOK, Ix!Rollback
<1>5. SyncTypeOK'
    BY <1>2, <1>4, DriverFrame DEF SyncInv, SyncTypeOK, Ix!IndexerTypeOK
<1>6. SpendFollowed(entries[Seal])'
    <2>1. CASE entries[Seal] # NoEntry /\ Ix!RolledBack(entries[Seal], to)
        <3>1. entries[Seal] \in Ix!Entry
            BY <2>1 DEF SyncInv, SyncTypeOK, Ix!IndexerTypeOK
        <3>2. QED BY <1>3, <1>4, <2>1, <3>1 DEF SpendFollowed
    <2>2. CASE entries[Seal] # NoEntry /\ ~Ix!RolledBack(entries[Seal], to)
        <3>1. entries'[Seal] = entries[Seal]
            BY <1>4, <2>2
        <3>2. entries[Seal].spending_txid # NoTx => entries[Seal].spend_height \in 0..to
            BY <1>2, <2>2 DEF Ix!RolledBack, SyncInv, SpendFollowed
        <3>3. QED BY <1>2, <3>1, <3>2 DEF SyncInv, SpendFollowed, FollowedTo, chainVars
    <2>3. CASE entries[Seal] = NoEntry
        BY <1>4, <2>3 DEF SpendFollowed
    <2>4. QED BY <2>1, <2>2, <2>3
<1>7. RetipWatches'
    <2>1. entries[Seal] # NoEntry
        BY DEF RollbackToFork, Watching
    <2>2. entries[Seal] \in Ix!Entry
        BY <2>1 DEF SyncInv, SyncTypeOK, Ix!IndexerTypeOK
    <2>3. entries'[Seal] # NoEntry
        BY <1>3, <1>4, <2>1, <2>2, SyncAssumption
    <2>4. QED BY <2>3 DEF RetipWatches
<1>8. QED
    BY <1>2, <1>5, <1>6, <1>7, DriverFrame DEF SyncInv, FetchedFollowed, chainVars

\* The tip is named again at the height it was rolled back to.
LEMMA RetipInv ==
    ASSUME SyncInv, Retip
    PROVE  SyncInv'
<1> USE DEF Retip
<1>1. idxHeight \in 0..MaxHeight
    BY EntryTyped
<1>2. /\ UNCHANGED <<idxHeight, entries, headers, fetched, chainVars>>
      /\ idxHash' \in {idxHash, [height |-> idxHeight, branch |-> headers[idxHeight]]}
      /\ idxHeight = 0 => idxHash' = idxHash
    BY DEF Ix!SetTip, ChainTip
<1>3. idxHash' \in Ix!Hashes \cup {NoHash}
    <2>1. CASE idxHeight = 0
        BY <1>2, <2>1 DEF SyncInv, SyncTypeOK, Ix!IndexerTypeOK
    <2>2. CASE idxHeight # 0
        <3>1. [height |-> idxHeight, branch |-> headers[idxHeight]] \in Block
            BY <1>1, <2>2 DEF SyncInv, SyncTypeOK, Heights, Block
        <3>2. ASSUME NEW b \in Block
              PROVE  b \in Ix!Hashes
            <4>1. ChainTip(b) \in {ChainTip(c) : c \in Block} /\ ChainTip(b).hash = b
                BY DEF ChainTip
            <4>2. QED BY <4>1 DEF Ix!Hashes
        <3>3. QED BY <1>2, <3>1, <3>2 DEF SyncInv, SyncTypeOK, Ix!IndexerTypeOK
    <2>3. QED BY <2>1, <2>2
<1>4. SyncTypeOK'
    BY <1>2, <1>3, DriverFrame DEF SyncInv, SyncTypeOK, Ix!IndexerTypeOK
<1>5. SpendFollowed(entries[Seal])'
    BY <1>2, DriverFrame DEF SyncInv, SpendFollowed, FollowedTo, chainVars
<1>6. QED BY <1>2, <1>4, <1>5, DriverFrame DEF SyncInv, FetchedFollowed, RetipWatches, chainVars

-----------------------------------------------------------------------------
\* The inductive invariant holds of every behaviour.
THEOREM SyncInvariant ==
    ASSUME TipFirst
    PROVE  Spec => []SyncInv
<1>1. Init => SyncInv
    <2> SUFFICES ASSUME Init PROVE SyncInv
        OBVIOUS
    <2> USE ChainAssumption DEF Init
    <2>1. ChainTypeOK /\ Ledger
        BY DEF ChainInit, ChainTypeOK, Ledger, Consistent, Tx, Heights
    <2>2. SyncTypeOK
        BY <2>1 DEF SyncTypeOK, Ix!IndexerInit, Ix!IndexerTypeOK, Fetched, Nothing
    <2>3. FreshBranches /\ idxHeight <= height
        BY DEF ChainInit, Ix!IndexerInit, FreshBranches
    <2>4. QED
        BY <2>1, <2>2, <2>3 DEF SyncInv, Ix!IndexerInit, SpendFollowed, FetchedFollowed,
           RetipWatches
<1>2. SyncInv /\ [Next]_vars => SyncInv'
    <2> SUFFICES ASSUME SyncInv, [Next]_vars
                 PROVE  SyncInv'
        OBVIOUS
    <2>1. CASE DriverStep
        BY <2>1, WatchSealInv, AdvanceInv, FetchSpendInv, RecordSpendInv, DepthInv,
           RollbackToForkInv, RetipInv DEF DriverStep
    <2>2. CASE ChainStep
        BY <2>2, ChainStepInv
    <2>3. CASE UNCHANGED vars
        <3>1. SyncTypeOK'
            BY <2>3, DriverFrame
               DEF vars, syncVars, driverVars, SyncInv, SyncTypeOK, Ix!IndexerTypeOK
        <3>2. (SpendFollowed(entries[Seal]) /\ FetchedFollowed)'
            BY <2>3 DEF vars, syncVars, driverVars, chainVars, SyncInv, SpendFollowed,
                        FetchedFollowed, FollowedTo
        <3>3. RetipWatches'
            BY <2>3 DEF vars, syncVars, driverVars, SyncInv, RetipWatches
        <3>4. QED
            BY <2>3, <3>1, <3>2, <3>3, DriverFrame DEF vars, syncVars, driverVars, chainVars, SyncInv
    <2>4. QED BY <2>1, <2>2, <2>3 DEF Next
<1>3. QED BY <1>1, <1>2, PTL DEF Spec

\* The driver calls MemIndexer within its types.
THEOREM SyncTyped ==
    ASSUME TipFirst
    PROVE  Spec => []SyncTypeOK
<1>1. SyncInv => SyncTypeOK
    BY DEF SyncInv
<1>2. QED BY <1>1, SyncInvariant, PTL

\* While the tip is on the active chain, so is the spend that is known.
LEMMA KnownSpendFollowed ==
    ASSUME SyncInv, entries[Seal] # NoEntry, Followed, Recorded # NoTx
    PROVE  minedAt[Recorded] \in 1..idxHeight
<1>1. PICK h \in 0..idxHeight : h = entries[Seal].spend_height
    BY DEF SyncInv, SpendFollowed, Recorded
<1>2. idxHeight \in Nat /\ height \in Nat
    BY ChainAssumption DEF SyncInv, SyncTypeOK, ChainTypeOK, Ix!IndexerTypeOK
<1>3. FollowedTo(h)
    BY <1>1, <1>2 DEF Followed, FollowedTo
<1>4. minedAt[Recorded] \in 1..h
    BY <1>1, <1>3 DEF SyncInv, SpendFollowed, Recorded
<1>5. QED BY <1>1, <1>2, <1>4

\* MemIndexer never holds a spend of an abandoned block, provided every
\* record_spend comes after the set_tip of the block the spend is in.
THEOREM SpendsStayOnChain ==
    ASSUME TipFirst
    PROVE  Spec => []SpendOnChain
<1>1. SyncInv => SpendOnChain
    BY KnownSpendFollowed DEF SpendOnChain, Watching
<1>2. QED BY <1>1, SyncInvariant, PTL

\* Under the same order of calls, what rollback itself leaves is on the chain:
\* it does not take a later call of the driver to clear an abandoned spend.
THEOREM RollbacksForget ==
    ASSUME TipFirst
    PROVE  Spec => []RollbackForgets
<1>1. SyncInv => entries[Seal] # NoEntry \/ pc # "retip"
    BY DEF SyncInv, RetipWatches
<1>2. SyncInv => RollbackForgets
    BY <1>1, KnownSpendFollowed DEF RollbackForgets
<1>3. QED BY <1>2, SyncInvariant, PTL

=============================================================================
