# RGB-PQ in TLA+

RGB-PQ anchors RGB contracts to BTQ, a Bitcoin fork whose outputs are owned by
post-quantum keys through P2MR script trees. A *single-use seal* is a P2MR
outpoint; it is *closed* by the transaction that spends it, and that transaction
must carry the RGB commitment, either as an `OP_RETURN` output (*opret*) or as a
leaf of the script tree (*p2mr-ret*). The library's promise is about time: which
transaction closed a seal, and whether the answer can still change. The chain it
asks moves between any two of its questions, may take blocks back, and answers
through calls that fail. That is what these modules are about.

Contents: [components](#1-components) · [modules](#2-modules-and-the-code) ·
[runs](#3-what-the-runs-show) · [divergences](#4-where-code-and-documentation-differ) ·
[proofs](#5-what-is-proved) · [limits](#6-what-is-not-modelled) · [plan](#7-plan)

Paths below are relative to `src/`; `crates/` is left out where the crate is named.

## 1. Components

| Component | State | Operations | Talks to |
|---|---|---|---|
| Seal resolver (`rgb-pq-resolver/src/resolver.rs`) | configuration only; everything else lives for one call | `resolve` | backend: `get_output`, `get_spending_tx`, `prove_tx_inclusion` |
| Witness resolver (`rgb-pq-resolver/src/witness.rs`) | configuration only | `resolve_witness`, `check_chain_net` | JSON-RPC client |
| Commitment scanners (`rgb-pq-resolver`, `rgb-pq-commit/src/commitment.rs`, `rgb-pq-tx/src/commit.rs`) | a loop over outputs | append, scan, verify, find | the limits of `rgb-pq-core` |
| In-memory indexer (`rgb-pq-chain/src/indexer.rs`, `MemIndexer`) | tip height and hash; per outpoint its output, spend, depth, filing height | the `Indexer` trait | a driver that is not in the repository |
| SQLite indexer (same file) | the same, in two tables, with the tip cached in memory | the `Indexer` trait | SQLite |
| JSON-RPC client (`rgb-pq-chain/src/rpc.rs`) | request id, retry configuration | `call` and one method per RPC | the node |
| RPC backend (`rgb-pq-chain/src/backend_impl.rs`) | none | `BtqChainBackend` on the client | JSON-RPC client |
| P2MR-ret trees (`rgb-pq-commit/src/p2mrret.rs`, `multi.rs`) | none (pure) | build, prove, verify | hashes |
| Opret anchor (`rgb-pq-commit/src/anchor.rs`) | none (pure) | `embed_opret_commitment`, `verify_opret_anchor`, `build_opret_payload` | `rgb-consensus` |
| Seal types and codec (`rgb-pq-seal`) | none (pure) | encode, decode, parse | the resolver reads them |
| Transaction builder (`rgb-pq-tx`) | keys and outputs, in the node's wallet | create output, spend, sign, broadcast, rotate | JSON-RPC client |
| RGB integration (`rgb-pq-rgb`) | a contract stock, in `rgb-ops` | issue, transfer, validate | external libraries |
| Errors, domains, limits (`rgb-pq-core`) | none; `BudgetGuard` holds a start time | limit checks | everything |
| End-to-end harness (`tests/rgb-pq-e2e`) | a live node | fund, close, mine, verify | all of it |
| BTQ node (btq-core, external) | active chain, mempool, wallet | the RPCs | the client |

What makes each of them correct, and what makes it hard:

* **Seal resolver.** No two answers name different closers; a close once reported
  stays; any other answer was true at some moment of the call; every call answers.
  Hard because one `resolve` is up to four round trips and the chain moves between
  them: the depth of the close, its block and its inclusion proof come from three
  different moments, and a replaced, mined or abandoned closer can be seen in part.
* **Commitment scanners.** What the verifier accepts is the transaction's one
  commitment, and closer and verifier agree. Hard because three scanners share
  neither code nor rules, each stops early for its own reasons, and the appender does
  not look at what is already there.
* **Indexers.** A known spend is on the active chain while the tip is; the tip is a
  block; when the chain rests the indexer reaches it. Hard because facts are filed
  under the indexer's own height at the time of the call, so the order of calls
  matters, and a reorganisation can fall between a query and the recording of its
  answer. For the SQLite one, also crashes between statements and writes that fail.
* **RPC client and backend.** A retried call is not a second effect; a lost reply is
  not a wrong answer; two RPCs do not add up to an answer no state of the node
  allows. Hard because sending is not idempotent and `get_output` is two RPCs.
* **Witness resolver.** The transaction and its status belong together, though they
  are two calls.
* **Trees and codec.** Each proof verifies against the root of its own tree and no
  other; decoding inverts encoding and accepts nothing else.
* **Transaction builder and integration.** Close, broadcast, mine, verify, across
  failures and retries.

Nothing in the repository runs threads against shared state of its own: the
concurrency is between the client and the node. `PROJECT.json` lists the hazards at
the lines where they bite, with the properties that cover each one.

## 2. Modules and the code

```
BtqChain ──┬── SealResolver ─── MCSealResolver ─── SealResolverProofs
           │        INSTANCE SealOracle (what it promises)
           ├── NodeReads ─── NodeReadsProofs
           │        INSTANCE SealOracle
           ├── BtqChainProofs (used by the proofs over a chain)
           └── IndexerSync ─── IndexerSyncProofs
                    INSTANCE Indexer
Indexer ─── SqliteIndexer ─── MCSqliteIndexer, SqliteIndexerProofs (of both)
CommitmentScan ─── MCCommitmentScan, CommitmentScanProofs
CloseFlow ─── CloseFlowProofs
P2mrTree, SealCodec ─── SealExchange ─── MCSealExchange, SealExchangeProofs
```

**BtqChain** is the environment: the node as the client sees it. `height`,
`minedAt`, `branch` describe the active chain, `mempool` the rest; a *branch* number
tells the blocks of one height apart, as a hash does. There is one funding
transaction and a set of conflicting closers, because one seal is one outpoint and
seals do not interact. `Relay`, `Extend` and `Reorg` are what a node may do,
constrained by consensus only (`Consistent`): a closer may replace another in the
mempool, be mined without having been relayed, or be mined again at another height
on the other branch, or be lost. It says nothing of what the client does.

**SealResolver** is `SealResolver::resolve`. One action per backend call, with what
`resolve_inner` and `resolve_close` compute until the next one:

| Action | Code |
|---|---|
| `Resolve` | `resolve`: the chain-id check, before any call |
| `GetOutput` | `get_output`, then P2MR type and root, then the spent flag |
| `GetSpendingTx` | `get_spending_tx`, then ownership path, commitment, finality |
| `GetTransaction`, `GetTxOutProof` | `prove_tx_inclusion` on the RPC backend: two RPCs, the first one's error swallowed (`rpc.rs:289-313`) |

Any call may fail instead. A funding output is there or not, and its script is the
seal's or another (`FundScript`); the seals of an instance differ in chain, root,
scheme and policy, so that every early return of the code is taken. `SpendsOutpoint`,
`ScanCommitment` and `ScanP2mrRetCommitment` are what the code does today: the first
always succeeds, the second never, the third looks at the configuration alone
(section 4). The hash of a leaf is never zero in the model, which is the
test the third makes. The backend is the one the trait's documentation asks for, an indexer
beside the node: `BtqRpcClient` alone reports no spending transaction and never
leads to a close.

Two variables are history: `closed` collects the `ClosedValid` answers, `seen` what
was true of the seal at the moments of the current call (`Verdict`: what a resolver
that reads everything at once would answer).

**SealOracle** is the abstract specification of a question to a chain that moves: a
question is asked, time passes, and the answer is an evasion (an error, nothing) or
something that was true at one moment in between, *all of it at once*: transaction,
depth and block together. `SealResolver!Oracle` and `NodeReads!ReadsOracle` are the
two refinement mappings to it.

**NodeReads** is `BtqRpcClient` as a chain backend by itself, and `BtqWitnessResolver`
over it. A question (`get_output`, `confirmation_depth`, `current_tip`,
`resolve_witness`) takes one or two RPCs; an RPC takes up to `Retries + 1` attempts,
and each attempt is a step, so the chain moves between the RPCs of a question and
between the attempts of an RPC. `SendFails` is a transport error, sent again by `call`
while attempts are left; `NodeRefuses` is what `call` never sends again. `NotFoundArm`
is the arm of `get_raw_tx` for a missing transaction, and `RpcLevel` the error
`parse_response` really makes. `FetchTx` and `GetRawTx` are the two fetches of a
transaction: `resolve_witness` makes the first, whose bytes must decode to the txid
asked for, before the second. `Truth` says what is true at an instant *by the words
of* `backend.rs`, not by what the client makes of it: an output is spent when a mined
transaction spends it, and unconfirmed is neither spent nor unspent; a tip is the
height and the hash of the best block. The code departs from these words twice
(section 4), and the model says where: `Excused` is the answer "spent" to a question
that found the funding transaction unconfirmed, and `HeadersAhead` says whether the
node may know headers beyond its best block. `seen` is history.

**Indexer** is `MemIndexer`: one action per method of the trait, callable in any
order, since nothing in the code orders them. An entry keeps whether the output is
known, the spending transaction's id, its confirmations and its filing height; the
output's script and amount are left out because no operation looks at them.

**SqliteIndexer** extends it with the database: `entries` is the table `outpoints`,
`idxHeight` and `idxHash` are the tip the process caches, `disk` is the table `meta`.
The unit of atomicity is the SQL statement, as the code opens no transaction:
`rollback` and `set_tip` are an action for what precedes `write_meta` and one for each
of its two statements. `WriteFails` may strike at either, `Crash` between any two, and
`Open` reads back what `read_meta` finds (`ReadMeta`): either of its two queries may
fail, and a failed one is taken for an empty table, not for an error. An `UPDATE` of
an outpoint that is not watched changes nothing, where `MemIndexer` makes an entry.
`floor` and `intact` are history: what the last rollback promised, and whether the
last `write_meta` was completed and has been read back completely since.

**IndexerSync** composes `Indexer` with `BtqChain` through a driver. The repository
has no driver; this one makes the calls in the order the trait's documentation and
tests do, and the map marks it external. Query and record are separate steps.
`TipFirst` selects whether the driver moves the tip to a block before or after it
records the block's spends, an order the trait leaves to its caller.

**CommitmentScan** is `append_opret_commitment` and the three scans over decoded
outputs, one output a step: `verify_commitment_in_outputs_bounded`,
`CommitmentPayload::scan` and `find_commitment_in_signed_tx`. A script is its size
and the seal its payload is bound to; which byte strings decode is left out. The
scans may run in any order and any number of times over the finished transaction.

**CloseFlow** is closing a seal through the node's wallet: the operations of
`BtqTxOps` in the order in which `run_live_flow` and
`run_live_dilithium_rotation_flow` make them, each an RPC of `step`, over
`BtqRpcClient::call`. An attempt is `Answered`, `Refused` (an error, never sent
again), `Garbled` (executed, with a reply that does not parse, never sent again) or
`Lost`: no reply, and then the node did not get the request, or executed it, or will
(`Late`), perhaps when the flow has moved on or ended. `Answer` is what the flow
does with an answer, `OnError` with an error: most end the flow, some are passed
over, as the code does. The wallet keeps one id per tree and not per funding, so a
tree funded twice has two outputs and `createp2mrspend` picks one. `lost` is history.

**P2mrTree** and **SealCodec** are the pure code, as operators. `P2mrTree` builds the
two kinds of tree, proves, verifies and reads commitments back, with symbolic hashes:
a tagged hash is its tag with what it hashes, so equal hashes mean equal contents. The
fold of siblings, by which a root is computed from a proof and from a list of leaves,
is the recursive function `NodesAbove` and its last value, `Climb`. `SealCodec`
encodes and decodes the seal (binary and text), the commitment payload and the txid
over sequences of *cells*, in which a length counts cells; decoding yields the set of
values read, empty for an error. **SealExchange** relates the two ends: a party builds
a tree, makes a seal of its root, writes it in one of its forms and sends it; the
message may be cut, prolonged or altered on its way, as the malformed inputs of the
tests are; the other party reads it. Damage keeps the kind of a cell (`DamagedCells`):
a byte becomes another byte, a hash becomes `Junk`, the hash of nothing a party has
made. A payload may also arrive made anew for another outpoint, digest included
(`Rebind`), since anyone can compute that digest; and with several damages such a
payload may be altered further. Of the limits of `verify_p2mr_ret` the one on the
depth (`p2mrret.rs:315`) is left out: both leaves of its tree are at depth 1, which no
limit excludes.

## 3. What the runs show

| Run | Checks | Bounds |
|---|---|---|
| `resolver_shallow` | `TypeOK`, `SingleUse`, `ClosedStaysBuried`, `PendingAnswersHeld`, `ImplementsOracle`, `Answered` | 4 blocks, 2 closers, one reorganisation of 1 block, seals asking 2 confirmations |
| `indexer_calls` | `SqliteTypeOK`, `SpendFiled`, `RollbackIsDurable`, `TipIsDurable`, `ImplementsIndexer` | 2 outpoints, 1 transaction, heights to 2, three blocks of which two share a height; any number of crashes and failed writes |
| `sync_follow` | `SyncTypeOK`, `SpendOnChain`, `Settles` | 5 blocks, 2 closers, 2 reorganisations of at most 2 blocks |
| `scan_rules` | `ScanTypeOK`, `FoundIsSole`, `ScannersAgree` | 3 outputs, window of 2, three sizes around the limits, 3 seals on 2 chains |
| `node_reads` | `TypeOK`, `SpentOrUnconfirmed`, `ImplementsOracle`, `Answered` | 3 blocks, 2 closers, one reorganisation of up to 2 blocks, 2 retries, no headers ahead |
| `close_flow` | `FlowTypeOK`, `QuietFlowClosesItsSeal`, `OneClose`, `FlowEnds` | 2 retries, 3 polls, 2 late requests of each kind at a time |
| `seal_exchange` | `ExchangeTypeOK`, `RoundTrip`, `AcceptedIsEncoding`, `DigestTellsSealsApart`, `PayloadBindsOutpoint`, `RetBindsOneCommitment`, `MultiBindsTheList`, `ProvenIsLeaf`, `FoundIsVerified` | up to 3 commitments of 4 scripts, 2 ownership scripts one of which is too large, bytes to 3, one damage, 3 other outpoints |
| `resolver_fork`, `sync_ahead`, `scan_duplicate`, `reads_spent`, `flow_twice` | one claim of the documentation each, refuted | section 4 |

**Why the bounds are enough.** A close passes through at most three states that
matter (unburied, buried, out of reach of a reorganisation); four blocks hold a
funding block, a closer, its confirmation and the reorganisation that replaces it,
and one fork is enough to make the resolver's moments disagree, since it asks at
most four times. `NodeReads` asks at most twice, and three blocks hold a funding
block, a closer and the branch without it. The driver returns to its initial
condition after each reorganisation; two of them, the second while the first is
being followed, cover a rollback during a rollback. The two heights, two branches
and the hash of no block of `indexer_calls` are the smallest in which every mixed
tip a cut-off write can leave is a different one; the rows of two outpoints do not
interact but through statements that touch all rows. Three outputs are the smallest
transaction with a duplicate behind a stop. Two retries and two late copies make
executions of a request before, between and after its retries, in every order. Three leaves are the smallest
tree with a branch below a branch on both sides of a proof, and a single damage
reaches every check of a decoder, as each check is passed by the undamaged message.
Every theorem of section 5 removes the bounds for the property it states.

**Properties worth a word.** `SingleUse` and `ClosedStaysBuried` relate answers of
different calls, so breaking them takes two calls and a reorganisation.
`PendingAnswersHeld` holds at any depth of reorganisation (section 5): the answers
that invite the caller to wait are true at one instant although they are read in two
calls, because the transaction and its status come back in one. `ScannersAgree`
compares what the closer accepts before it broadcasts with what the verifier will say:
they differ only for limits, or for a commitment to another seal, which the closer's
scan does not count. `RollbackIsDurable` is what a caller that got `Ok` may rely on
after a crash; it needs the order of the statements (rows first) and `rollback` not to
swallow the error that `set_tip` swallows. `TipIsDurable` is the same of the tip, and
excepts only a `write_meta` cut off or failed and a read that fails at the restart.
`SpentOrUnconfirmed` says what `get_output`'s "spent" is worth: the output was spent,
or its transaction was there and unconfirmed. `QuietFlowClosesItsSeal` is about which
errors `call` may retry: were a reply that does not parse sent again too, a flow could
fund its tree twice without losing anything. `MultiBindsTheList` says that two lists
of commitments with one root are the same list in the same order, but for the
ownership leaf and the first commitment, which may trade places since a branch sorts
what it joins; `AcceptedIsEncoding` that a decoder accepts nothing but an encoding,
but for what follows it, which the decoders do not look at. `PayloadBindsOutpoint` is
as strong as the digest: it is computed from chain and outpoint, with no key, so it
ties them to the payload's last cell, and a payload that was given another outpoint
and that outpoint's digest is simply another seal's.

**Fairness.** `SealResolver` and `NodeReads` assume weak fairness of `ResolverStep`
and `ReadStep`, `CloseFlow` of `FlowStep`: the RPC client bounds each attempt by the
timeout of its agent and the number of attempts, so every call returns, with an
answer or an error, and the callers never wait for anything else. No fairness is
assumed of the chain, of the node's late execution of requests, or of any outcome of
a call: `FlowEnds` holds although the wallet's index may lag for ever. `IndexerSync`
assumes weak fairness of `DriverStep`, that the driver keeps polling; `Settles` then
needs the chain to rest, which the bounds on heights and forks force in the end.

**Deadlock.** `IndexerSync`, `CloseFlow` and `SealExchange` run with
`CHECK_DEADLOCK FALSE`: when the chain has used up its bounds and the driver has
caught up, when a flow has ended and no request is left at the node, and when a
message has been read, nothing is left to do. All other runs check it.

**Mutants.** For every property of a passing run `PROJECT.json` names a plausible
bug of the code (a finality comparison off by one or strict, a rollback that misses
one height or forgets half of a record, a tip moved without its hash, a failed write
reported as Ok, an attempt that is not counted, an unparsable reply sent again, a
scanner that keeps the counts of the last scan, a digest without the vout, a fold
that skips one leaf too many) under which TLC finds the property violated. The
mutated operators stand directly above the ones they mutate.

## 4. Where code and documentation differ

Each of these is a run TLC ends with a counterexample; `PROJECT.json` quotes both sides.

* `resolver_fork` (`ClosedValidWasFinal`). The depth comes from `get_spending_tx`,
  the block from the later inclusion proof, and nothing compares them. A
  reorganisation as deep as the policy in between yields `ClosedValid` naming a
  block in which the transaction never had that depth. Under `ShallowReorgs` this
  cannot happen (`ClosedAnswersWereFinal`).
* `sync_ahead` (`RollbackForgets`). `record_spend` files under the indexer's height and
  ignores the transaction's own. The driver of this run records the spend of a block,
  filed one height too low, then moves the tip to the block; a reorganisation takes the
  block back, and the rollback to the fork point, documented to clear spends above it,
  keeps this one. A driver that moves the tip first is safe (`RollbacksForget`).
* `scan_duplicate` (`DuplicatesRejected`). `CommitmentPayload::scan` breaks off at
  the first output beyond a limit and reports what it has counted, so a duplicate
  behind that output goes unseen; the documentation says duplicates are rejected
  and that a limit is an error. Within the limits none goes unseen
  (`PayloadRejectsDuplicates`).
* `reads_spent` (`SpentWasSpent`). `get_output` asks for the output without the mempool,
  and takes "not there" for "spent" as soon as the node knows the transaction. The
  output of a funding transaction still in the mempool is reported spent, against
  `backend.rs:69` and the demand of `:86-88` to tell unconfirmed, spent and unspent apart.
* `flow_twice` (`ClosesItsSeal`). `call` sends a request again whenever no reply
  came, whatever the request does. A `sendtop2mr` executed without a reply is
  executed twice under one `p2mr_id`; `createp2mrspend` then picks either output,
  the flow drops the input it returns, and a finished flow may have left the seal's
  outpoint unspent. It takes a retry (`UnretriedFlowsCloseTheirSeals`).

Four more need a line of the source and no interleaving to see. Each is stated as a
property of the module and refuted by a configuration that is kept beside the runs:

* `MCSealResolver_root.cfg` (`RootRecomputed`). The p2mr-ret check is documented to
  recompute the tree root and compare it with the seal's (`resolver.rs:98-99`); it only
  tests the configured leaf's hash for zero (`resolver.rs:307`).
* `NodeReads_tip.cfg` (`TipIsBest`). `get_tip` takes the height from `headers` and the hash
  from `bestblockhash` (`rpc.rs:240-252`). While the node knows headers of blocks it has
  not validated, the pair names no block, where `backend.rs:12-19` documents the best
  block's height and hash.
* `MCSealExchange_mpc.cfg` (`AlteredMpcRejected`). A test says it tampers "somewhere in
  mpc" and expects an error (`commitment.rs:301`); the byte it alters, 100, is one of the
  digest's (95 to 126). The digest does not cover the mpc, and a payload altered there is
  accepted.
* `MCSealExchange_depths.cfg` (`DepthsReachTheRoot`). `build_multi_protocol_tree` folds the
  root from the first pair upwards, so that the last commitment is nearest to it, and
  then "updates leaf depths for the combined tree" the other way round (`multi.rs:85-88`):
  from two commitments on, the depths are not those of the tree the root is of, against
  `p2mrret.rs:64`. Of one they are (`DepthsOfPairs`). No other code in the repository
  reads the depths yet.

Others were met while modelling; the source alone shows them:

* `resolve` starts a `BudgetGuard` and never calls `check` (`resolver.rs:111`),
  although it is documented to enforce the time limit and fail closed.
* The opret check decodes no output and always answers that the commitment is missing
  (`resolver.rs:362`), so an opret seal is never `ClosedValid`.
* `rollback` moves the height and keeps the hash (`indexer.rs:154`): until the next
  `set_tip`, `tip()` is a pair no block has.
* On an outpoint that is not watched, `MemIndexer` makes an entry where
  `SqliteIndexer` changes no row, and both report success; `SqliteIndexer::get_owned`
  answers nothing for a row whose output is not recorded, where `MemIndexer` answers.
* The arm of `get_raw_tx` that makes a missing transaction an `Ok(None)` waits for a
  `ResolveError`, and `parse_response` makes an `Rpc` error (`rpc.rs:272`): a missing
  output is an error, where `backend.rs:100` and `:106` document `None`.
* `compute_tapleaf_hash` of `rgb-pq-tx` (`lib.rs:286-295`) is SHA-256 of version and
  script and says it mirrors btq-core, whose leaf hash is tagged, as the one of
  `rgb-pq-commit` is.
* `read_meta` takes a query or parse error for an empty table (`indexer.rs:226-240`), though
  it returns a `Result`: `open` then answers `Ok` with height 0 or no hash, while the disk
  holds another tip. `ReadMeta` models it, and `TipIsDurable` excepts it.
* `commitment.rs:26` counts 21 bytes for a tag of 19.
* `verify_multi_protocol_commitment` is documented to verify the commitment of one
  `protocol_index` (`multi.rs:120`) and takes none.
* A PQ leaf above 256 bytes is refused by `verify_p2mr_ret` although trees are built
  with it.

## 5. What is proved

Machine-checked for every value of the constants, from the assumptions named in the
modules (`ChainAssumption`, `ResolverAssumption`, `ReadsAssumption`,
`IndexerAssumption`, `SyncAssumption`, `ScanAssumption`, `FlowAssumption`,
`CodecAssumption`, `ExchangeAssumption`: which sets are disjoint, which bounds are
naturals, what a script looks like):

| Theorem | States | Under |
|---|---|---|
| `SealResolverProofs!TypeCorrect` | `Spec => []TypeOK` | nothing more |
| `SealResolverProofs!SealIsSingleUse` | `Spec => []SingleUse` | `ShallowReorgs` |
| `SealResolverProofs!ClosedAnswersStayTrue` | `Spec => []ClosedStaysBuried` | `ShallowReorgs` |
| `SealResolverProofs!PendingAnswersWereTrue` | `Spec => []PendingAnswersHeld` | nothing more |
| `SealResolverProofs!ResolverImplementsOracle` | `Spec => ImplementsOracle` | `ShallowReorgs` |
| `SealResolverProofs!ClosedAnswersWereFinal` | `Spec => []ClosedValidWasFinal` | `ShallowReorgs` |
| `SqliteIndexerProofs!SpendsAreFiled` | `IndexerSpec => [](IndexerTypeOK /\ SpendFiled)` | nothing more |
| `SqliteIndexerProofs!SqliteTyped` | `SqliteSpec => []` types and `SpendFiled` | nothing more |
| `SqliteIndexerProofs!RollbacksAreDurable` | `SqliteSpec => []RollbackIsDurable` | nothing more |
| `SqliteIndexerProofs!TipsAreDurable` | `SqliteSpec => []TipIsDurable` | nothing more |
| `SqliteIndexerProofs!SqliteRefines` | `SqliteSpec => ImplementsIndexer` | nothing more |
| `IndexerSyncProofs!SyncTyped` | `Spec => []SyncTypeOK` | `TipFirst` |
| `IndexerSyncProofs!SpendsStayOnChain` | `Spec => []SpendOnChain` | `TipFirst` |
| `IndexerSyncProofs!RollbacksForget` | `Spec => []RollbackForgets` | `TipFirst` |
| `CommitmentScanProofs!ScanTyped` | `Spec => []ScanTypeOK` | nothing more |
| `CommitmentScanProofs!FoundIsTheOnlyOne` | `Spec => []FoundIsSole` | nothing more |
| `CommitmentScanProofs!ScannersDoAgree` | `Spec => []ScannersAgree` | nothing more |
| `CommitmentScanProofs!PayloadRejectsDuplicates` | `Spec => [](WithinPayloadLimits => DuplicatesRejected)` | nothing more |
| `NodeReadsProofs!ReadsTyped` | `Spec => []TypeOK` | nothing more |
| `NodeReadsProofs!SpentOutputsWereGone` | `Spec => []SpentOrUnconfirmed` | nothing more |
| `NodeReadsProofs!ReadsImplementOracle` | `Spec => ImplementsOracle` | `~HeadersAhead` |
| `CloseFlowProofs!FlowTyped` | `Spec => []FlowTypeOK` | nothing more |
| `CloseFlowProofs!QuietFlowsCloseTheirSeals` | `Spec => []QuietFlowClosesItsSeal` | nothing more |
| `CloseFlowProofs!FlowsSpendOneOutput` | `Spec => OneClose` | nothing more |
| `CloseFlowProofs!UnretriedFlowsCloseTheirSeals` | `Spec => []ClosesItsSeal` | `Retries = 0` |
| `SealExchangeProofs!ExchangeTyped` | `Spec => []ExchangeTypeOK` | nothing more |
| `SealExchangeProofs!RoundTrips` | `Spec => []RoundTrip` | nothing more |
| `SealExchangeProofs!AcceptsEncodings` | `Spec => []AcceptedIsEncoding` | nothing more |
| `SealExchangeProofs!DigestsTellApart` | `Spec => []DigestTellsSealsApart` | nothing more |
| `SealExchangeProofs!PayloadsBind` | `Spec => []PayloadBindsOutpoint` | nothing more |
| `SealExchangeProofs!RetBinds` | `Spec => []RetBindsOneCommitment` | nothing more |
| `SealExchangeProofs!MultiBinds` | `Spec => []MultiBindsTheList` | nothing more |
| `SealExchangeProofs!ProofsAreOfLeaves` | `Spec => []ProvenIsLeaf` | nothing more |
| `SealExchangeProofs!DepthsOfPairs` | `Spec => [](Len(Committed) = 1 => DepthsReachTheRoot)` | nothing more |
| `SealExchangeProofs!FindingIsVerifying` | `Spec => []FoundIsVerified` | nothing more |

The hypotheses are real limits and not conveniences: `ShallowReorgs` says that
no reorganisation is as deep as the confirmations a seal asks for, the meaning of a
finality policy, and `resolver_fork` shows what happens without it; `TipFirst` is an
order of calls, and `sync_ahead` shows what happens without it; `~HeadersAhead` is a node
that has validated every block it knows of, and `NodeReads_tip.cfg` shows what happens without it.
Five theorems say how far a documented promise that section 4 refutes does
reach: `ClosedValidWasFinal` while reorganisations are shallow, `RollbackForgets` of a
driver that moves the tip first, `DuplicatesRejected` of transactions within the limits
of `CommitmentPayload::scan`, `ClosesItsSeal` of a client with `retries` 0, and
`DepthsReachTheRoot` of a tree of one commitment; `SpentOrUnconfirmed` is what is left of
`SpentWasSpent`. They bound the findings: what breaks these promises is a deep
reorganisation between two calls, a spend recorded ahead of the tip, an output beyond a
limit, a request sent again, a second commitment, an unconfirmed funding transaction, and
nothing else in the models.

**Single use.** `SingleUse` speaks of `closed` alone and is not inductive: nothing
in it stops the chain from taking a reported close back and burying another. The
invariant `IInv` adds that every reported closer, and every closer a running call
has found deep enough, is `Buried`: deeper than a reorganisation reaches, by the
depth the resolver *read*, and in the block it names if it names one. `BuriedKept`
is the heart: a buried transaction stays buried under each step of the chain. Two
buried closers are both mined, hence the same by consensus (`Ledger`, which
`BtqChainProofs!LedgerKept` shows the chain keeps).

**True at an instant.** The resolver's pending answers are all computed from one
reply, and `HeldInv` says that what was true when that reply was read is in `seen`; no
depth of reorganisation matters. For `ResolverImplementsOracle` the answer also names
a block that was read later, so `ProvenInv` ties the block a running call holds to the
buried closer, and `BlockKept` shows that the block of a buried closer does not
change: this is where `ShallowReorgs` is used. `ClosedAnswersWereFinal` follows with
`ClosedSeen`: such an answer is itself among what its call saw. `NodeReads` needs no
hypothesis on reorganisations. Each of its answers is read in its last RPC, and only
`get_output`'s `Spent` combines two: its invariant says that a question on its second
RPC has seen the output spent or its transaction unconfirmed. The second case is the
one `Excused` takes out of the refinement. A tip is one reply, true of its instant if
the headers are those of the blocks (`~HeadersAhead`).

**The database.** `RollbackIsDurable` is strengthened by what holds inside a call:
while a rollback writes, no row is filed above the cached height; while the process is
up, the cached height is at most `floor`, which a failed read at `open` keeps, as it
only lowers the height. `TipIsDurable` needs no more than that no step but a cut-off
or failed write or a failed read leaves memory and disk apart. `SqliteRefines` is a
step simulation: each statement is a step of `MemIndexer`, or changes none of its
variables, and an update of an unwatched outpoint is the latter.

**Closing.** `OneClose` and `QuietFlowClosesItsSeal` follow from one invariant.
Fundings made or still to be executed late number at most one per attempt
(`FundInv`); what is spent is the input the flow chose, and nothing can be spent, not
even late, before the flow has chosen it (`SpendInv`); and while no reply is lost,
nothing is delayed, no request was sent twice, and each step of the flow finds the
node as far as it has itself brought it (`QuietInv`). Without retries, `ClosesItsSeal`
needs only that a step answered has done its work (`DoneInv`): there is one funding at
most, the flow knows it, and the output spent is it.

**Following the chain.** `SpendOnChain` needs to know what the driver's headers say
about blocks no longer active. `SyncInv` adds `FreshBranches` (the driver never holds
a branch number the chain has not used, so a new branch never looks followed), that
the spend known, if its filing height is still on the followed chain, is mined at or
below that height, and the same of an answer still in flight between a query and its
recording. With the headers of the followed blocks, that is `RollbackForgets`.

**Scanning.** `LoopInv` says that the positions counted are exactly those the
scanner's rule counts among the outputs it is past, and that no limit was met there;
`Fits` says what each verdict means of the whole transaction. The tail of a scan
turns the first into the second, and answers are kept as the outputs no longer
change once scanned.

**Trees.** A climb joins a start with any number of siblings, and what it binds is an
induction on that number. The library's induction theorem takes an operator, which
the provers cannot instantiate; `SetInduction` takes a set instead: a number missing
from it would have a least one (`WFMin` of the library). From it follow `NodesExist`
(the recursive function is what it is written as) and `ClimbsMeet`: two climbs from
pairs of leaves past leaves that end in one node have the same siblings and the same
start, since a pair, a branch over two leaves, is no branch over a branch and a leaf.
`LeafBelow` is the same for a climb from a leaf past anything at all: the proof of a
leaf the tree does not hold meets the root nowhere.

**Messages.** The nine invariants of `SealExchange` follow from `ExchangeInv`: the
tree is the one `build_multi_protocol_tree` makes, the seal names its root, and the
message carries (`Carried`) what was written of that seal, and without damage exactly
that; of a binary seal, also, a byte stands for each byte and the hash or `Junk` for
each hash. TLC has checked `ExchangeInv` under two damages. What is read of such cells
follows from the codec alone, for a txid of any length: two bodies that both begin the
same cells are of one seal (`SelfDelimiting`: each length and tag decides where the
next field starts), `decode_body` accepts only cells that begin with the encoding of
its result (`DecodeAccepts`) and finds what was encoded (`DecodeFinds`). What is
accepted as a payload ends in its own digest (`StrippedDigest`), whatever it went
through, and a digest binds chain, txid and vout (`DigestBinds`); a seal with a
damaged root has no tree.

These proofs rest on what `ExchangeAssumption` says of the symbolic hashes: a hash
whose content is not modelled (`Opaque`: an mpc, a script's hash, `Junk`) is a tuple of
one name, and a modelled one is longer, so that none is the other. It stands for
collision resistance, and is met by the constants of the run.

**Only model-checked.** `Answered` (of both readers), `Settles` and `FlowEnds`:
liveness under fairness is beyond the prover. Every other property of a passing run
is the statement of a theorem.

## 6. What is not modelled

* The cryptography: hashes are symbolic and collision-free by construction,
  Dilithium signatures and BIP-32 derivation are left out. The characters of bech32
  and hex are left out too: a text is the cells it spells and whether its checksum
  holds.
* `rgb-pq-rgb` and `anchor.rs` but for `build_opret_payload`: they forward to
  `rgb-ops` and `rgb-consensus`, which hold the contract stock and are not in the
  repository; what their calls do to it would be guessed.
* btq-core beyond what the calls in `src/` show: its blocks, peers and policy.
* Of the RPC client the endpoint URL, credentials, wallet selection and
  `verify_network`; of the witness resolver the table of chain nets; of the indexer
  `get_owned`, which reads without changing anything; of the transaction builder
  `seal_from_p2mr`, which copies fields.
* The wall clock. No decision of the code depends on it but the timeouts, which are
  outcomes of a call here.
* `SealResolver` takes `get_output` as the trait documents it, one call; its two RPCs
  on the RPC backend are `NodeReads`'. With that backend the resolver answers before
  it has a spending transaction, so the two together say nothing more.
* Logging, formatting, error texts, benchmarks, the CLI of the harness.

## 7. Plan

Done: the chain; the resolver and the RPC backend with their oracle; the indexers,
alone, on disk and driven; the scanners; the close flow; trees and codec; a proof of
every safety and refinement property of the passing runs. What a further step could
add, most important first:

1. A driver over `SqliteIndexer` that restarts: what it must rescan after a tip that
   was not written, so that `SpendOnChain` holds again.
2. `SealResolver` over an indexer instead of a backend that reads the chain: the
   answers are then as old as the index.
