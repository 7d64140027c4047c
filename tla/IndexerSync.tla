---------------------------- MODULE IndexerSync ----------------------------
(***************************************************************************)
(* A MemIndexer kept in step with a node by one driver.  The repository    *)
(* has the indexer and no driver; this one makes the trait's calls in the  *)
(* order its documentation and tests do: watch, then block by block        *)
(* set_tip and record_spend, update_confirmations as blocks arrive, and on *)
(* a reorganisation rollback to the fork point followed by set_tip.        *)
(*                                                                         *)
(* Every query of the node and every call of the indexer is a step of its  *)
(* own: the chain moves between them.                                      *)
(***************************************************************************)
EXTENDS BtqChain

CONSTANTS
    Seal,      \* the watched outpoint: Fund's output
    TipFirst,  \* whether the driver moves the tip before it records a block's spends
    NoTx, NoHash, NoEntry

VARIABLES
    idxHeight, idxHash, entries, \* the indexer
    pc,       \* what the driver does next
    headers,  \* height |-> the branch of the block the driver followed there
    fetched   \* what the driver's last query returned

driverVars == <<pc, headers, fetched>>
syncVars == <<idxHeight, idxHash, entries, pc, headers, fetched>>
vars == <<chainVars, syncVars>>

ChainTip(b) == [height |-> b.height, hash |-> b]

Ix == INSTANCE Indexer WITH
    Outpoints <- {Seal},
    Txids <- Closers,
    Tips <- {ChainTip(b) : b \in Block},
    MaxIndexed <- MaxHeight

ASSUME SyncAssumption ==
    /\ TipFirst \in BOOLEAN
    /\ NoTx \notin Tx
    /\ NoEntry \notin Ix!Entry

Fetched == [txid : Closers \cup {NoTx}, confs : 0..MaxHeight]
Nothing == [txid |-> NoTx, confs |-> 0]

SyncTypeOK ==
    /\ ChainTypeOK
    /\ Ix!IndexerTypeOK
    /\ pc \in {"ready", "record", "depth", "retip"}
    /\ headers \in [Heights -> 0..MaxForks]
    /\ fetched \in Fetched

-----------------------------------------------------------------------------
\* The driver has followed the active chain up to height h.
FollowedTo(h) == h <= height /\ \A k \in 1..h : headers[k] = branch[k]
Followed == FollowedTo(idxHeight)

IsForkPoint(h) == FollowedTo(h) /\ \A k \in 0..idxHeight : FollowedTo(k) => k <= h

Recorded == entries[Seal].spending_txid

Init ==
    /\ ChainInit
    /\ Ix!IndexerInit
    /\ pc = "ready"
    /\ headers = [h \in Heights |-> 0]
    /\ fetched = Nothing

WatchSeal ==
    /\ pc = "ready"
    /\ entries[Seal] = NoEntry
    /\ Ix!Watch(Seal)
    /\ UNCHANGED <<chainVars, driverVars>>

Watching == pc = "ready" /\ entries[Seal] # NoEntry

\* The spend in the next block, when spends are recorded ahead of the tip.
Ahead == {c \in Closers : minedAt[c] = idxHeight + 1}

Advance ==
    /\ Watching
    /\ Followed
    /\ idxHeight < height
    /\ TipFirst \/ Ahead \subseteq {Recorded}
    /\ Ix!SetTip(ChainTip(BlockAt(idxHeight + 1)))
    /\ headers' = [headers EXCEPT ![idxHeight + 1] = branch[idxHeight + 1]]
    /\ UNCHANGED <<chainVars, pc, fetched>>

\* A spend in a block up to the tip, or in the next one.
FetchSpend ==
    /\ Watching
    /\ \E c \in Closers \ {Recorded} :
          /\ Mined(c)
          /\ minedAt[c] <= IF TipFirst THEN idxHeight ELSE idxHeight + 1
          /\ fetched' = [txid |-> c, confs |-> Confirmations(c)]
    /\ pc' = "record"
    /\ UNCHANGED <<chainVars, idxHeight, idxHash, entries, headers>>

RecordSpend ==
    /\ pc = "record"
    /\ pc' = "ready"
    /\ Ix!RecordSpend(Seal, fetched.txid, fetched.confs)
    /\ UNCHANGED <<chainVars, headers, fetched>>

FetchDepth ==
    /\ Watching
    /\ Recorded # NoTx
    /\ entries[Seal].confirmations # Confirmations(Recorded)
    /\ fetched' = [txid |-> Recorded, confs |-> Confirmations(Recorded)]
    /\ pc' = "depth"
    /\ UNCHANGED <<chainVars, idxHeight, idxHash, entries, headers>>

RecordDepth ==
    /\ pc = "depth"
    /\ pc' = "ready"
    /\ Ix!UpdateConfirmations(Seal, fetched.confs)
    /\ UNCHANGED <<chainVars, headers, fetched>>

RollbackToFork ==
    /\ Watching
    /\ ~Followed
    /\ \E h \in 0..idxHeight : IsForkPoint(h) /\ Ix!Rollback(h)
    /\ pc' = "retip"
    /\ UNCHANGED <<chainVars, headers, fetched>>

\* The driver names the block it is back at; there is none below the first.
Retip ==
    /\ pc = "retip"
    /\ pc' = "ready"
    /\ IF idxHeight = 0
       THEN UNCHANGED <<idxHeight, idxHash, entries>>
       ELSE Ix!SetTip(ChainTip([height |-> idxHeight, branch |-> headers[idxHeight]]))
    /\ UNCHANGED <<chainVars, headers, fetched>>

DriverStep ==
    \/ WatchSeal \/ Advance \/ FetchSpend \/ RecordSpend
    \/ FetchDepth \/ RecordDepth \/ RollbackToFork \/ Retip

ChainStep == ChainNext /\ UNCHANGED syncVars

Next == DriverStep \/ ChainStep

\* The driver keeps polling; blocks, reorganisations and relays may stop.
Spec == Init /\ [][Next]_vars /\ WF_vars(DriverStep)

-----------------------------------------------------------------------------
(* Properties. *)

\* While the indexer's tip is on the active chain, the spend it knows is in a
\* block of that chain, at or below the tip: rollback has cleared the spends
\* of every block above the fork point.
SpendOnChain ==
    Watching /\ Followed /\ Recorded # NoTx => minedAt[Recorded] \in 1..idxHeight

\* A rollback to the fork point leaves no spend of an abandoned block: until the
\* driver names the tip again, the spend still known is in a block up to there.
\* The driver owes this to rollback alone, not to anything it does afterwards.
RollbackForgets ==
    pc = "retip" /\ Followed /\ Recorded # NoTx => minedAt[Recorded] \in 1..idxHeight

\* Once the chain rests, the indexer settles on the chain's tip, the closer in
\* it, and that closer's depth.
Settled ==
    /\ idxHeight = height
    /\ height > 0 => idxHash = BlockAt(height)
    /\ entries[Seal] # NoEntry
    /\ \A c \in Closers : Mined(c) => Recorded = c
    /\ Recorded # NoTx => entries[Seal].confirmations = Confirmations(Recorded)
Settles == <>[]Settled

=============================================================================
