------------------------------ MODULE CloseFlow ------------------------------
(***************************************************************************)
(* Closing a seal through the node's wallet: the operations of BtqTxOps    *)
(* (crates/rgb-pq-tx/src/lib.rs) in the order of run_live_flow and         *)
(* run_live_dilithium_rotation_flow (tests/rgb-pq-e2e/src/lib.rs), over    *)
(* BtqRpcClient::call, which sends a request again when no reply comes     *)
(* although the node may have executed it, or may yet.                     *)
(*                                                                         *)
(* The wallet keeps one p2mr_id per tree: funding a tree twice makes two   *)
(* outputs, and createp2mrspend picks any of them.                         *)
(***************************************************************************)
EXTENDS Integers

CONSTANTS
    Retries,    \* BtqRpcClient's retries
    MaxPolls,   \* polls of wait_for_p2mr_spendable (5 in the code)
    MaxDelayed  \* bound: requests of one kind the node may execute late

ASSUME FlowAssumption == Retries \in Nat /\ MaxPolls \in Nat \ {0} /\ MaxDelayed \in Nat

VARIABLES
    flow,     \* "seal" (run_live_flow) or "rotation"
    step,     \* the RPC being made, named for its purpose
    attempt,  \* how often it was sent without a reply
    polls,    \* rounds of wait_for_p2mr_spendable
    leaf,     \* the leaf of the tree that is funded
    p2mr,     \* P2mrOutput: which funding, and whether getp2mrinfo described it
    vout,     \* whether the seal's vout is the P2MR output's
    input,    \* the funding createp2mrspend spends
    node,     \* the node: fundings made, how many are mined, which one is
              \* spent by the closing transaction, whether that is mined
    delayed,  \* request |-> copies the node has received and not executed
    lost      \* history: a reply got lost

flowVars == <<flow, step, attempt, polls, leaf, p2mr, vout, input, node, delayed, lost>>

Effects == {"sendtop2mr", "generatetoaddress", "sendrawtransaction"}
Rpc == [newaddress |-> "getnewdilithiumaddress", addressinfo |-> "getaddressinfo",
        fund |-> "sendtop2mr", info |-> "getp2mrinfo", mine |-> "generatetoaddress",
        locate |-> "getrawtransaction", wait |-> "listunspent", more |-> "generatetoaddress",
        create |-> "createp2mrspend", sign |-> "signp2mrtransaction",
        broadcast |-> "sendrawtransaction", confirm |-> "generatetoaddress",
        scan |-> "getrawtransaction", prove |-> "gettxoutproof",
        confirmations |-> "gettransaction"]
Ended == {"done", "failed"}

MaxFundings == Retries + 1

FlowTypeOK ==
    /\ flow \in {"seal", "rotation"}
    /\ step \in DOMAIN Rpc \cup Ended
    /\ attempt \in 0..Retries
    /\ polls \in 0..MaxPolls
    /\ leaf \in {"OP_TRUE", "pubkeyhash", "empty"}
    /\ p2mr \in [funding : 0..MaxFundings, described : BOOLEAN]
    /\ vout \in BOOLEAN
    /\ input \in 0..MaxFundings
    /\ node \in [funded : 0..MaxFundings, mined : 0..MaxFundings,
                 spent : 0..MaxFundings, closed : BOOLEAN]
    /\ delayed \in [Effects -> 0..MaxDelayed]
    /\ lost \in BOOLEAN

-----------------------------------------------------------------------------
(* The node. *)

\* A transaction already mined is refused, one in the mempool taken again.
Accepts(request) ==
    CASE request = "createp2mrspend" -> node.mined > 0
      [] request = "sendrawtransaction" -> ~node.closed
      [] request = "gettxoutproof" -> node.closed
      [] OTHER -> TRUE

\* The node's state once it has executed the request.
Execute(request) ==
    CASE request = "sendtop2mr" -> [node EXCEPT !.funded = @ + 1]
      [] request = "generatetoaddress" ->
            [node EXCEPT !.mined = node.funded, !.closed = node.spent # 0]
      [] request = "sendrawtransaction" -> [node EXCEPT !.spent = input]
      [] OTHER -> node

-----------------------------------------------------------------------------
Init ==
    /\ flow \in {"seal", "rotation"}
    /\ step = IF flow = "seal" THEN "fund" ELSE "newaddress"
    /\ leaf = "OP_TRUE"
    /\ attempt = 0 /\ polls = 0 /\ input = 0
    /\ p2mr = [funding |-> 0, described |-> FALSE]
    /\ vout = FALSE
    /\ node = [funded |-> 0, mined |-> 0, spent |-> 0, closed |-> FALSE]
    /\ delayed = [r \in Effects |-> 0]
    /\ lost = FALSE

Goto(next) == step' = next /\ attempt' = 0

\* wait_for_p2mr_spendable: another round, or on without having seen the output.
PollForever == Goto("wait") /\ UNCHANGED polls
PollAgain ==
    /\ polls' = polls + 1
    /\ Goto(IF polls + 1 < MaxPolls THEN "wait" ELSE "create")

\* The rotation flow checks the leaf of the output it has funded.
AfterInfo == IF flow = "rotation" /\ leaf # "pubkeyhash" THEN "failed" ELSE "mine"

\* What the flow does with an error: most are fatal, some are passed over.
\* create_fund_p2mr goes on without getp2mrinfo, the flow without the vout.
OnErrorRebuild ==
    /\ Goto(IF step = "broadcast" THEN "create" ELSE "failed")
    /\ UNCHANGED <<leaf, p2mr, input, polls, vout>>
OnError ==
    /\ CASE step = "info" -> Goto(AfterInfo) /\ UNCHANGED <<polls, vout>>
         [] step = "locate" -> Goto("wait") /\ vout' \in BOOLEAN /\ UNCHANGED polls
         [] step = "wait" -> Goto("more") /\ UNCHANGED <<polls, vout>>
         [] step = "more" -> PollAgain /\ UNCHANGED vout
         [] OTHER -> Goto("failed") /\ UNCHANGED <<polls, vout>>
    /\ UNCHANGED <<leaf, p2mr, input>>

\* What the flow does with an answer.  Most answers only lead to the next RPC.
Following ==
    [newaddress |-> "addressinfo", mine |-> IF flow = "seal" THEN "locate" ELSE "wait",
     wait |-> "more",        \* the wallet's index may lag
     sign |-> "broadcast", broadcast |-> "confirm",
     confirm |-> IF flow = "seal" THEN "scan" ELSE "confirmations",
     scan |-> "prove", prove |-> "done",
     confirmations |-> IF node.closed THEN "done" ELSE "failed"]

Answer ==
    \/ /\ step \in DOMAIN Following
       /\ Goto(Following[step])
       /\ UNCHANGED <<leaf, p2mr, polls, vout, input>>
    \/ /\ step = "addressinfo" /\ Goto("fund")      \* a missing scriptPubKey is read as ""
       /\ leaf' \in {"pubkeyhash", "empty"}
       /\ UNCHANGED <<p2mr, polls, vout, input>>
    \/ /\ step = "fund" /\ Goto("info")
       /\ p2mr' = [funding |-> node'.funded, described |-> FALSE]
       /\ UNCHANGED <<leaf, polls, vout, input>>
    \/ /\ step = "info" /\ Goto(AfterInfo)
       /\ p2mr' = [p2mr EXCEPT !.described = TRUE]
       /\ UNCHANGED <<leaf, polls, vout, input>>
    \/ /\ step = "locate" /\ Goto("wait")           \* no match is taken for vout 0
       /\ vout' \in IF p2mr.described THEN {TRUE} ELSE BOOLEAN
       /\ UNCHANGED <<leaf, p2mr, polls, input>>
    \/ /\ step = "wait" /\ p2mr.funding <= node.mined /\ Goto("create")
       /\ UNCHANGED <<leaf, p2mr, polls, vout, input>>
    \/ /\ step = "more" /\ PollAgain
       /\ UNCHANGED <<leaf, p2mr, vout, input>>
    \/ /\ step = "create" /\ Goto("sign")           \* and append_opret_commitment
       /\ input' \in 1..node.mined
       /\ UNCHANGED <<leaf, p2mr, polls, vout>>

-----------------------------------------------------------------------------
(* One attempt of the RPC of the current step. *)

\* call sends the request again while it has retries left.
SendAgain ==
    /\ attempt' = attempt + 1
    /\ UNCHANGED <<step, polls, leaf, p2mr, vout, input>>
NoReplyForever == SendAgain
NoReply == IF attempt < Retries THEN SendAgain ELSE OnError

\* The node executes the request and the reply arrives.
Answered ==
    /\ step \notin Ended
    /\ Accepts(Rpc[step])
    /\ node' = Execute(Rpc[step])
    /\ Answer
    /\ UNCHANGED <<flow, delayed, lost>>

\* An HTTP status or an RPC-level error: not sent again.
Refused ==
    /\ step \notin Ended
    /\ OnError
    /\ UNCHANGED <<flow, node, delayed, lost>>

\* Executed, but the reply does not parse: an error too, not sent again.
GarbledResent ==
    /\ step \notin Ended
    /\ Accepts(Rpc[step])
    /\ node' = Execute(Rpc[step])
    /\ IF attempt < Retries THEN SendAgain ELSE OnError
    /\ UNCHANGED <<flow, delayed, lost>>
Garbled ==
    /\ step \notin Ended
    /\ Accepts(Rpc[step])
    /\ node' = Execute(Rpc[step])
    /\ OnError
    /\ UNCHANGED <<flow, delayed, lost>>

\* No reply: the node did not receive the request, or executed it, or will
\* yet.  Out of retries, call reports NodeUnavailable.
Lost ==
    /\ step \notin Ended
    /\ LET request == Rpc[step]
       IN  \/ UNCHANGED <<node, delayed>>
           \/ request \in Effects /\ Accepts(request) /\ node' = Execute(request)
              /\ UNCHANGED delayed
           \/ /\ request \in Effects /\ delayed[request] < MaxDelayed
              /\ delayed' = [delayed EXCEPT ![request] = @ + 1]
              /\ UNCHANGED node
    /\ lost' = TRUE
    /\ NoReply
    /\ UNCHANGED flow

\* The node gets to a request whose sender has long given up on it.
Late(request) ==
    /\ delayed[request] > 0
    /\ delayed' = [delayed EXCEPT ![request] = @ - 1]
    /\ node' = IF Accepts(request) THEN Execute(request) ELSE node
    /\ UNCHANGED <<flow, step, attempt, polls, leaf, p2mr, vout, input, lost>>

FlowStep == Answered \/ Refused \/ Garbled \/ Lost

Next == FlowStep \/ \E request \in Effects : Late(request)

\* Every attempt ends: the client's agent has a timeout.
Spec == Init /\ [][Next]_flowVars /\ WF_flowVars(FlowStep)

-----------------------------------------------------------------------------
(* Properties. *)

\* While no reply is lost, the output that a finished flow spent is the one
\* the flow funded, and the close is mined: no error of the node makes call
\* repeat a request.
QuietFlowClosesItsSeal ==
    step = "done" /\ ~lost => node.spent = p2mr.funding /\ node.closed

\* However often the close is sent, and however late it is executed, the
\* flow spends one output.
OneClose == [][node.spent # 0 => node'.spent = node.spent]_node

\* Every flow ends, whatever the node answers and the wallet's index lags.
FlowEnds == <>(step \in Ended)

\* A finished flow that found its output has closed the seal it made: the
\* closing transaction spends the seal's outpoint.
ClosesItsSeal == step = "done" /\ flow = "seal" /\ vout => node.spent = p2mr.funding

=============================================================================
