------------------------------ MODULE NodeReads ------------------------------
(***************************************************************************)
(* What BtqRpcClient answers when it is the chain backend by itself: its   *)
(* get_output, confirmation_depth and current_tip                          *)
(* (crates/rgb-pq-chain/src/rpc.rs, backend_impl.rs), and resolve_witness  *)
(* of BtqWitnessResolver (crates/rgb-pq-resolver/src/witness.rs) over it.  *)
(*                                                                         *)
(* A question takes one or two RPCs and an RPC up to Retries + 1 attempts. *)
(* Each attempt is a step of its own; the chain moves between any two.     *)
(***************************************************************************)
EXTENDS BtqChain

CONSTANTS
    Retries,      \* how often an RPC is sent again after a transport error
    HeadersAhead, \* whether the node may know headers of blocks it has not validated
    NoQuestion,
    NoBlock       \* the block of an answer that names none, and of the empty chain

VARIABLES
    question,  \* what is being asked; NoQuestion between two questions
    rpc,       \* the RPC to send next, named for the use made of its answer
    attempt,   \* how often it has been sent without an answer
    answer,    \* the last answer
    seen       \* history: what was true at some instant of the question

readVars == <<question, rpc, attempt, answer, seen>>
vars == <<chainVars, readVars>>

\* The outpoint is the seal's, output 0 of Fund.
Questions ==
    [ask : {"output", "tip"}, tx : {Fund}] \cup [ask : {"depth", "witness"}, tx : Tx]

ASSUME ReadsAssumption ==
    /\ Retries \in Nat
    /\ HeadersAhead \in BOOLEAN
    /\ NoQuestion \notin Questions
    /\ NoBlock \notin Block

FirstRpc == [output |-> "gettxout", tip |-> "getblockchaininfo",
             depth |-> "status", witness |-> "fetch"]
Rpcs == {"gettxout", "exists", "getblockchaininfo", "status", "fetch"}

\* The answers, and two facts that no answer states: the funding transaction is
\* "Known" to the node, or is not in a block ("Unconfirmed").
Kinds == {"Unspent", "Spent", "None", "Depth", "Mined", "Tentative", "Unresolved",
          "Tip", "Err", "NotFound", "Known", "Unconfirmed"}
Fact == [kind : Kinds, n : 0..MaxHeight, block : Block \cup {NoBlock}]
Answer(kind, n) == [kind |-> kind, n |-> n, block |-> NoBlock]
Tip(n, block) == [kind |-> "Tip", n |-> n, block |-> block]
Bare(kind) == Answer(kind, 0)
Err == Bare("Err")

TypeOK ==
    /\ ChainTypeOK
    /\ question \in Questions \cup {NoQuestion}
    /\ rpc \in Rpcs
    /\ attempt \in 0..Retries
    /\ answer \in Fact
    /\ seen \in SUBSET Fact

-----------------------------------------------------------------------------
(* What the client makes of the node's answers. *)

\* gettxout without the mempool: the output is in the confirmed UTXO set.
InUtxoSet == Mined(Fund) /\ \A c \in Closers : ~Mined(c)

\* parse_response turns a node's error into RgbPqError::Rpc, whatever its code.
RpcLevel(code) == [family |-> "Rpc", code |-> code]

\* The arm of get_raw_tx that makes "no such transaction" an Ok(None).
NotFoundArm(error) == error = [family |-> "Resolve", code |-> -5]

\* What a caller of get_raw_tx answers on None: get_output None,
\* get_tx_status MissingTx, resolve_witness Unresolved.
OnNone == [exists |-> Bare("None"), status |-> Err, fetch |-> Bare("Unresolved")]

NotFoundAnswer ==
    IF NotFoundArm(RpcLevel(-5)) THEN OnNone[rpc] ELSE Bare("NotFound")

\* confirmation_depth reads the confirmations of tx_status_from_verbose.
DepthAnswer(t) == IF Mined(t) THEN Answer("Depth", Confirmations(t)) ELSE Bare("None")

\* resolve_witness reads the height, which the node may leave out: it is 0 then.
OrdOfAnyHeight(t, reported) ==
    IF Mined(t) THEN Answer("Mined", reported) ELSE Bare("Tentative")
Ord(t, reported) ==
    IF Mined(t)
    THEN IF reported = 0 THEN Err ELSE Answer("Mined", reported)
    ELSE Bare("Tentative")

-----------------------------------------------------------------------------
(* What is true at an instant, by the words of backend.rs: an output is     *)
(* spent when a transaction has spent it, and an unconfirmed one is neither *)
(* spent nor unspent; the tip is the height and the hash of the best block. *)

Spent == \E c \in Closers : Mined(c)
BestBlock == IF height = 0 THEN NoBlock ELSE BlockAt(height)

Truth(q) ==
    CASE q.ask = "output" ->
            (IF InUtxoSet THEN {Bare("Unspent")} ELSE {})
            \cup (IF Spent THEN {Bare("Spent")} ELSE {})
            \cup (IF Live(Fund) THEN {Bare("Known")} ELSE {})
            \cup (IF Mined(Fund) THEN {} ELSE {Bare("Unconfirmed")})
      [] q.ask = "depth" -> {DepthAnswer(q.tx)}
      [] q.ask = "witness" -> IF Live(q.tx) THEN {Ord(q.tx, minedAt[q.tx])} ELSE {}
      [] q.ask = "tip" -> {Tip(height, BestBlock)}

-----------------------------------------------------------------------------
Init ==
    /\ ChainInit
    /\ question = NoQuestion
    /\ rpc = "gettxout"
    /\ attempt = 0
    /\ answer = Err
    /\ seen = {}

Ask(q) ==
    /\ question = NoQuestion
    /\ question' = q
    /\ rpc' = FirstRpc[q.ask]
    /\ attempt' = 0
    /\ answer' = Err
    /\ seen' = Truth(q)
    /\ UNCHANGED chainVars

Reply(a) ==
    /\ question' = NoQuestion
    /\ answer' = a
    /\ UNCHANGED <<chainVars, rpc, attempt, seen>>

NextRpc(call) ==
    /\ rpc' = call
    /\ attempt' = 0
    /\ UNCHANGED <<chainVars, question, answer, seen>>

\* A transport error, a timeout among them: sent again, or NodeUnavailable.
SendAgain == UNCHANGED <<chainVars, question, rpc, answer, seen>>
SendFailsUncounted ==
    /\ question # NoQuestion
    /\ attempt' = attempt + 1
    /\ SendAgain
SendFailsAnew ==
    /\ question # NoQuestion
    /\ attempt' = (attempt + 1) % (Retries + 1)
    /\ SendAgain
SendFails ==
    /\ question # NoQuestion
    /\ IF attempt < Retries
       THEN attempt' = attempt + 1 /\ SendAgain
       ELSE Reply(Err)

\* An HTTP status, an RPC-level error or an undecodable reply: never sent again.
NodeRefuses ==
    /\ question # NoQuestion
    /\ Reply(Err)

\* gettxout of get_output; null asks whether the transaction exists.
GetTxOutOnly ==
    /\ question # NoQuestion /\ rpc = "gettxout"
    /\ Reply(Bare(IF InUtxoSet THEN "Unspent" ELSE "Spent"))
GetTxOut ==
    /\ question # NoQuestion /\ rpc = "gettxout"
    /\ IF InUtxoSet THEN Reply(Bare("Unspent")) ELSE NextRpc("exists")

\* getrawtransaction, verbose, for get_output and get_tx_status.
GetRawTx ==
    /\ question # NoQuestion /\ rpc \in {"exists", "status"}
    /\ LET t == question.tx
       IN  \/ ~Live(t) /\ Reply(NotFoundAnswer)
           \/ Live(t) /\ rpc = "exists" /\ Reply(Bare("Spent"))
           \/ Live(t) /\ rpc = "status" /\ question.ask = "depth" /\ Reply(DepthAnswer(t))
           \/ /\ Live(t) /\ rpc = "status" /\ question.ask = "witness"
              /\ \E reported \in {0, minedAt[t]} : Reply(Ord(t, reported))

\* getrawtransaction for fetch_tx: bytes that do not decode, or to another txid,
\* are no transaction; the status is asked for in a second call.
FetchTx ==
    /\ question # NoQuestion /\ rpc = "fetch"
    /\ \/ ~Live(question.tx) /\ Reply(NotFoundAnswer)
       \/ Live(question.tx) /\ Reply(Bare("Unresolved"))
       \/ Live(question.tx) /\ NextRpc("status")

\* get_tip pairs the height of the best header with the hash of the best block.
GetBlockchainInfo ==
    /\ question # NoQuestion /\ rpc = "getblockchaininfo"
    /\ \E headers \in height..(IF HeadersAhead THEN MaxHeight ELSE height) :
          Reply(Tip(headers, BestBlock))

ReadStep == SendFails \/ NodeRefuses \/ GetTxOut \/ GetRawTx \/ FetchTx \/ GetBlockchainInfo

ChainStep ==
    /\ ChainNext
    /\ UNCHANGED <<question, rpc, attempt, answer>>
    /\ seen' = IF question = NoQuestion THEN seen ELSE seen \cup Truth(question)'

Next ==
    \/ \E q \in Questions : Ask(q)
    \/ ReadStep
    \/ ChainStep

\* Every attempt ends: the client's agent has a timeout.
Spec == Init /\ [][Next]_vars /\ WF_vars(ReadStep)

-----------------------------------------------------------------------------
(* Properties. *)

\* get_output says spent of an output that nothing has spent only if the funding
\* transaction was unconfirmed at an instant of the question, and known at one.
SpentOrUnconfirmed ==
    answer.kind = "Spent" =>
        Bare("Spent") \in seen \/ {Bare("Unconfirmed"), Bare("Known")} \subseteq seen

\* backend.rs documents `spent` as "Whether this output has been spent" and asks
\* of an implementation to tell unconfirmed, spent and unspent apart.
SpentWasSpent == answer.kind = "Spent" => Bare("Spent") \in seen

\* backend.rs documents a tip as "best block height" and "best block hash".
TipIsBest == answer.kind = "Tip" => answer \in seen

\* Every answer was true of the chain at one instant of the question, whatever
\* moved between its RPCs and their attempts: unspent and spent, a depth, a
\* position, a tip.  Excepted is the answer SpentWasSpent is about.
Excused == answer.kind = "Spent" /\ Bare("Unconfirmed") \in seen
ReadsOracle == INSTANCE SealOracle WITH
    Evasions <- {Err, Bare("NotFound"), Bare("None"), Bare("Unresolved")},
    truth <- [q \in Questions |-> Truth(q)],
    witnessed <- seen,
    reply <- IF Excused THEN Err ELSE answer
ImplementsOracle == ReadsOracle!Spec

\* Every question is answered, however many attempts the transport loses.
Answered == question # NoQuestion ~> question = NoQuestion

=============================================================================
