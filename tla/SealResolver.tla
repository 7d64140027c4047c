---------------------------- MODULE SealResolver ----------------------------
(***************************************************************************)
(* SealResolver::resolve (crates/rgb-pq-resolver/src/resolver.rs) over a   *)
(* chain that moves between its backend calls.                             *)
(*                                                                         *)
(* One resolve is a sequence of calls, each an action: get_output,         *)
(* get_spending_tx, and prove_tx_inclusion, which is the two node RPCs of  *)
(* BtqRpcClient::get_inclusion_proof.  What the resolver computes between  *)
(* two calls is part of the action of the first.  Any call may fail.       *)
(*                                                                         *)
(* get_output and get_spending_tx are those of an indexer-augmented        *)
(* backend (the trait's contract): BtqRpcClient alone never gets past      *)
(* get_output for a spent output.                                          *)
(***************************************************************************)
EXTENDS BtqChain

CONSTANTS
    NetworkId,   \* the backend's chain
    FundScript,  \* the P2MR root the output really carries
    Seals,       \* the seals that are resolved
    PqLeaves,    \* the PQ leaf scripts a resolver may be configured with
    NoLeaf, NoTx, NoBlock

ASSUME ResolverAssumption ==
    /\ \A s \in Seals : s.policy \in Nat /\ s.p2mr_ret \in BOOLEAN
    /\ NoLeaf \notin PqLeaves
    /\ NoTx \notin Tx \cup Seals
    /\ NoBlock \notin Block

VARIABLES
    pc,        \* the backend call resolve is about to make; "idle" between calls
    seal,      \* the seal being resolved
    leaf,      \* pq_leaf_script of the resolver
    spending,  \* the spending transaction, as get_spending_tx returned it
    block,     \* the block hash gettransaction returned
    answer,    \* the SealState (or error) of the last resolve
    closed,    \* history: every ClosedValid answer given
    seen       \* history: what was true of the seal at some instant of this call

resolverVars == <<pc, seal, leaf, spending, block, answer, closed, seen>>
vars == <<chainVars, resolverVars>>

Calls == {"get_output", "get_spending_tx", "gettransaction", "gettxoutproof"}
Leaves == PqLeaves \cup {NoLeaf}

Kinds == {"Pending", "OpenUnspent", "ClosedValid", "ClosedInvalid",
          "Unconfirmed", "ReorgRisk", "Unknown", "Err"}
Answer == [kind : Kinds, txid : Tx \cup {NoTx}, confs : 0..MaxHeight,
           block : Block \cup {NoBlock}]

State(kind, t, confs, b) == [kind |-> kind, txid |-> t, confs |-> confs, block |-> b]
Bare(kind) == State(kind, NoTx, 0, NoBlock)
Pending == Bare("Pending")
Unknown == Bare("Unknown")
Err == Bare("Err")

TypeOK ==
    /\ ChainTypeOK
    /\ pc \in Calls \cup {"idle"}
    /\ seal \in Seals
    /\ leaf \in Leaves
    /\ spending \in [txid : Tx \cup {NoTx}, confs : 0..MaxHeight]
    /\ block \in Block \cup {NoBlock}
    /\ answer \in Answer
    /\ closed \in SUBSET Answer
    /\ seen \in SUBSET Answer

-----------------------------------------------------------------------------
(* The resolver's checks. *)

\* ConfirmationPolicy::required_depth; OneConf is the policy 1.
RequiredDepth(s) == IF s.policy > 1 THEN s.policy ELSE 1

\* The finality check of resolve_close.
ReachedDepthOffByOne(s, confs) == confs + 1 >= RequiredDepth(s)
ReachedDepthStrict(s, confs) == confs > RequiredDepth(s)
ReachedDepth(s, confs) == confs >= RequiredDepth(s)

\* tx_status_from_verbose: unconfirmed exactly when there are no confirmations.
TxStatusTwice(t) == IF Mined(t) THEN Confirmations(t) + 1 ELSE 0
TxStatus(t) == Confirmations(t)

\* verify_p2mr_output: the output is P2MR and its root is the seal's.
VerifyP2mrOutput(script, s) == script = s.p2mr_root

\* spends_outpoint: the transaction's inputs are not decoded.
SpendsOutpoint(t, s) == TRUE

\* scan_commitment (opret): the outputs are not decoded.
ScanCommitment(t, s) == "Missing"

\* scan_p2mr_ret_commitment: a PQ leaf is configured (its hash is never zero).
ScanP2mrRetCommitment(s) == IF leaf = NoLeaf THEN "Malformed" ELSE "Found"

-----------------------------------------------------------------------------
(* What is true of a seal at an instant: the verdict of a resolver that    *)
(* read everything at once, and the weaker ones it allows.                 *)

MinedClosers == {c \in Closers : Mined(c)}
LiveClosers == {c \in Closers : Live(c)}

Verdict(s) ==
    LET buried == {c \in MinedClosers : Confirmations(c) >= RequiredDepth(s)}
    IN  (IF Live(Fund) /\ MinedClosers = {} THEN {Bare("OpenUnspent")} ELSE {})
        \cup {State("ClosedInvalid", c, 0, NoBlock) : c \in LiveClosers}
        \cup {State("Unconfirmed", c, 0, NoBlock) : c \in Closers \cap mempool}
        \cup {State("ReorgRisk", c, Confirmations(c), NoBlock) : c \in MinedClosers \ buried}
        \cup {State("ClosedValid", c, Confirmations(c), NoBlock) : c \in buried}
        \cup {State("ClosedValid", c, Confirmations(c), BlockAt(minedAt[c])) : c \in buried}

-----------------------------------------------------------------------------
Init ==
    /\ ChainInit
    /\ pc = "idle"
    /\ seal \in Seals
    /\ leaf = NoLeaf
    /\ spending = [txid |-> NoTx, confs |-> 0]
    /\ block = NoBlock
    /\ answer = Pending
    /\ closed = {}
    /\ seen = {}

\* resolve returns.
Reply(a) ==
    /\ pc' = "idle"
    /\ answer' = a
    /\ closed' = IF a.kind = "ClosedValid" THEN closed \cup {a} ELSE closed

\* resolve goes on to its next backend call.
Continue(call) ==
    /\ pc' = call
    /\ UNCHANGED <<answer, closed>>

\* A backend call that fails; the error is the caller's.
BackendError ==
    /\ Reply(Err)
    /\ UNCHANGED <<spending, block>>

\* resolve, up to its first backend call: the chains must match.
Resolve(s, l) ==
    /\ pc = "idle"
    /\ seal' = s
    /\ leaf' = l
    /\ spending' = [txid |-> NoTx, confs |-> 0]
    /\ block' = NoBlock
    /\ seen' = Verdict(s)
    /\ IF s.chain_id = NetworkId
       THEN pc' = "get_output" /\ answer' = Pending
       ELSE pc' = "idle" /\ answer' = Unknown
    /\ UNCHANGED <<chainVars, closed>>

\* get_output and steps 1 to 3 of resolve_inner.  A backend that looks into
\* the mempool reports the output spent before the closer is mined.
GetOutput ==
    /\ pc = "get_output"
    /\ \/ BackendError
       \/ /\ ~Live(Fund) \/ ~VerifyP2mrOutput(FundScript, seal)
          /\ Reply(Unknown)
          /\ UNCHANGED <<spending, block>>
       \/ /\ Live(Fund) /\ VerifyP2mrOutput(FundScript, seal)
          /\ \/ MinedClosers = {} /\ Reply(Bare("OpenUnspent"))
             \/ LiveClosers # {} /\ Continue("get_spending_tx")
          /\ UNCHANGED <<spending, block>>
    /\ UNCHANGED <<chainVars, seal, leaf, seen>>

\* resolve_close up to the inclusion proof: ownership, commitment, finality.
ResolveClose(t, confs) ==
    LET scan == IF seal.p2mr_ret THEN ScanP2mrRetCommitment(seal) ELSE ScanCommitment(t, seal)
    IN  IF ~SpendsOutpoint(t, seal) \/ scan # "Found"
        THEN Reply(State("ClosedInvalid", t, 0, NoBlock))
        ELSE IF confs = 0
        THEN Reply(State("Unconfirmed", t, 0, NoBlock))
        ELSE IF ~ReachedDepth(seal, confs)
        THEN Reply(State("ReorgRisk", t, confs, NoBlock))
        ELSE Continue("gettransaction")

\* get_spending_tx: the transaction and its status in one answer.
GetSpendingTx ==
    /\ pc = "get_spending_tx"
    /\ \/ BackendError
       \/ /\ LiveClosers = {}
          /\ Reply(Unknown)
          /\ UNCHANGED <<spending, block>>
       \/ \E c \in LiveClosers :
             /\ spending' = [txid |-> c, confs |-> TxStatus(c)]
             /\ ResolveClose(c, TxStatus(c))
             /\ UNCHANGED block
    /\ UNCHANGED <<chainVars, seal, leaf, seen>>

\* get_inclusion_proof asks the wallet for the block; any error is swallowed.
GetTransaction ==
    /\ pc = "gettransaction"
    /\ block' \in {NoBlock} \cup {BlockAt(h) : h \in {minedAt[spending.txid]} \ {0}}
    /\ Continue("gettxoutproof")
    /\ UNCHANGED <<chainVars, seal, leaf, spending, seen>>

InclusionFailedRetry == Continue("gettransaction")
InclusionFailed == Reply(Unknown)

\* ... then for the proof.  Given a hash, the node proves inclusion in that
\* block, on the active chain or not; given none, it must find the transaction.
GetTxOutProof ==
    /\ pc = "gettxoutproof"
    /\ \/ InclusionFailed
       \/ /\ block # NoBlock \/ Mined(spending.txid)
          /\ Reply(State("ClosedValid", spending.txid, spending.confs, block))
    /\ UNCHANGED <<chainVars, seal, leaf, spending, block, seen>>

ResolverStep == GetOutput \/ GetSpendingTx \/ GetTransaction \/ GetTxOutProof

ChainStep ==
    /\ ChainNext
    /\ UNCHANGED <<pc, seal, leaf, spending, block, answer, closed>>
    /\ seen' = IF pc = "idle" THEN seen ELSE seen \cup Verdict(seal)'

Next ==
    \/ \E s \in Seals, l \in Leaves : Resolve(s, l)
    \/ ResolverStep
    \/ ChainStep

\* Every backend call returns: the RPC client's timeouts and retries are finite.
Spec == Init /\ [][Next]_vars /\ WF_vars(ResolverStep)

-----------------------------------------------------------------------------
(* Properties. *)

\* Two resolves never report the same output closed by different
\* transactions: the seal is single-use.  Holds while no reorganisation is as
\* deep as the confirmations a seal asks for.
SingleUse == \A a, b \in closed : a.txid = b.txid

\* A ClosedValid answer stays true: the transaction it names never has fewer
\* confirmations than it said, in the block it named, on the active chain.
ClosedStaysBuried ==
    \A a \in closed :
        /\ Confirmations(a.txid) >= a.confs
        /\ a.block # NoBlock => OnActiveChain(a.block) /\ minedAt[a.txid] = a.block.height

\* The answers other than ClosedValid that name a state of the seal were true
\* at one instant of the call, however the chain moved under its calls.
PendingAnswersHeld ==
    answer.kind \in {"OpenUnspent", "Unconfirmed", "ReorgRisk", "ClosedInvalid"} => answer \in seen

\* At some instant of a call that answers ClosedValid, the transaction had
\* the confirmations the seal asks for in the very block the answer proves
\* inclusion in.
ClosedValidWasFinal ==
    answer.kind = "ClosedValid" =>
        \E a \in seen : a.kind = "ClosedValid" /\ a.txid = answer.txid /\ a.block = answer.block

\* A p2mr-ret seal is reported closed only if its root is the root of a tree
\* with the resolver's PQ leaf and the RGB commitment.
RootRecomputed ==
    answer.kind = "ClosedValid" /\ seal.p2mr_ret => seal.p2mr_root = [pq |-> leaf, rgb |-> TRUE]

\* Every resolve answers, whatever its backend calls return.
Answered == pc # "idle" ~> pc = "idle"

\* The resolver implements the oracle of SealOracle.
Oracle == INSTANCE SealOracle WITH
    Questions <- Seals,
    NoQuestion <- NoTx,
    Evasions <- {Pending, Unknown, Err},
    truth <- [s \in Seals |-> Verdict(s)],
    question <- IF pc = "idle" THEN NoTx ELSE seal,
    witnessed <- seen,
    reply <- answer
ImplementsOracle == Oracle!Spec

=============================================================================
