--------------------------- MODULE CloseFlowProofs ---------------------------
(***************************************************************************)
(* For any number of retries, polls and late requests: the types of        *)
(* CloseFlow, that a flow spends one output however often its requests are *)
(* executed, and that a flow none of whose replies is lost closes the      *)
(* output it funded.                                                       *)
(***************************************************************************)
EXTENDS CloseFlow, TLAPS

Unfunded == {"newaddress", "addressinfo", "fund"}
Waiting == {"info", "mine", "locate", "wait", "more"}
Confirmed == {"scan", "prove", "confirmations", "done"}
Sent == {"confirm"} \cup Confirmed
Signed == {"sign", "broadcast"} \cup Sent

\* Each attempt funds the tree once, at once or late.
Fundings == node.funded + delayed["sendtop2mr"]
FundInv ==
    /\ step \in {"newaddress", "addressinfo"} => Fundings = 0
    /\ step = "fund" => Fundings <= attempt
    /\ Fundings <= MaxFundings

\* What is spent is mined, and what is mined was funded.
ChainInv == node.mined <= node.funded /\ input <= node.mined

\* A round is left while the flow waits.
PollInv == step \in Unfunded \cup Waiting => polls < MaxPolls

\* Only the transaction the flow built is ever broadcast, and only once built.
SpendInv ==
    /\ node.spent \in {0, input}
    /\ step \in Unfunded \cup Waiting \cup {"create", "sign"} =>
           node.spent = 0 /\ delayed["sendrawtransaction"] = 0

\* Without a lost reply every request was executed at most once.
QuietInv ==
    ~lost =>
        /\ attempt = 0
        /\ \A request \in Effects : delayed[request] = 0
        /\ step \in Unfunded => node.funded = 0
        /\ step \notin Unfunded \cup {"failed"} => node.funded = 1 /\ p2mr.funding = 1
        /\ step \in Signed => input = 1
        /\ step \in Sent => node.spent = 1
        /\ step \in Confirmed => node.closed

IInv == FlowTypeOK /\ FundInv /\ ChainInv /\ PollInv /\ SpendInv /\ QuietInv

-----------------------------------------------------------------------------
(* What the parts of a step do, without the tables they are looked up in. *)

Steps == Unfunded \cup Waiting \cup {"create", "failed"} \cup Signed

\* A flow is in one of these steps.
LEMMA StepsAreAll == DOMAIN Rpc \cup Ended = Steps /\ DOMAIN Rpc = Steps \ Ended
  BY DEF Rpc, Ended, Steps, Unfunded, Waiting, Signed, Sent, Confirmed

Funds == node' = [node EXCEPT !.funded = @ + 1]
Mines == node' = [node EXCEPT !.mined = node.funded, !.closed = node.spent # 0]
Spends == ~node.closed /\ node' = [node EXCEPT !.spent = input]

\* What the node does with the request of a step.
Executed ==
    \/ step = "fund" /\ Funds
    \/ step \in {"mine", "more", "confirm"} /\ Mines
    \/ step = "broadcast" /\ Spends
    \/ /\ step \notin {"fund", "mine", "more", "confirm", "broadcast"}
       /\ node' = node /\ (step = "create" => node.mined > 0)

LEMMA ExecutedRequest ==
  ASSUME step \in DOMAIN Rpc, Accepts(Rpc[step]), node' = Execute(Rpc[step])
  PROVE  Executed
  BY DEF Rpc, Accepts, Execute, Executed, Funds, Mines, Spends

\* Where an error leads.
Fallen ==
    /\ attempt' = 0 /\ leaf' = leaf /\ p2mr' = p2mr /\ input' = input /\ vout' \in BOOLEAN
    /\ \/ step' = "failed" /\ polls' = polls
       \/ step = "info" /\ step' = "mine" /\ polls' = polls
       \/ step = "locate" /\ step' = "wait" /\ polls' = polls
       \/ step = "wait" /\ step' = "more" /\ polls' = polls
       \/ /\ step = "more" /\ step' \in {"wait", "create"} /\ polls' = polls + 1
          /\ step' = "wait" => polls + 1 < MaxPolls

LEMMA ErrorFalls ==
  ASSUME FlowTypeOK, OnError
  PROVE  Fallen
  BY DEF FlowTypeOK, OnError, Fallen, Goto, AfterInfo, PollAgain

\* Where an answer leads.
Led ==
    /\ attempt' = 0
    /\ leaf' \in {"OP_TRUE", "pubkeyhash", "empty"}
    /\ vout' \in BOOLEAN
    /\ step # "fund" => p2mr'.funding = p2mr.funding
    /\ p2mr' \in [funding : 0..MaxFundings, described : BOOLEAN]
    /\ step # "create" => input' = input
    /\ step # "more" => polls' = polls
    /\ \/ step = "newaddress" /\ step' = "addressinfo"
       \/ step = "addressinfo" /\ step' = "fund"
       \/ step = "fund" /\ step' = "info" /\ p2mr'.funding = node'.funded
       \/ step = "info" /\ step' \in {"mine", "failed"}
       \/ step = "mine" /\ step' \in {"locate", "wait"}
       \/ step = "locate" /\ step' = "wait"
       \/ step = "wait" /\ step' \in {"more", "create"}
       \/ /\ step = "more" /\ step' \in {"wait", "create"} /\ polls' = polls + 1
          /\ step' = "wait" => polls + 1 < MaxPolls
       \/ step = "create" /\ step' = "sign" /\ input' \in 1..node.mined
       \/ step = "sign" /\ step' = "broadcast"
       \/ step = "broadcast" /\ step' = "confirm"
       \/ step = "confirm" /\ step' \in {"scan", "confirmations"}
       \/ step = "scan" /\ step' = "prove"
       \/ step = "prove" /\ step' = "done"
       \/ step = "confirmations" /\ step' \in {"done", "failed"}

LEMMA AnswerLeads ==
  ASSUME FlowTypeOK, Answer, node'.funded \in 0..MaxFundings
  PROVE  Led
<1>1. CASE step \in DOMAIN Following /\ Goto(Following[step]) /\ UNCHANGED <<leaf, p2mr, polls, vout, input>>
  BY <1>1 DEF FlowTypeOK, Following, Goto, Led
<1>2. CASE step = "addressinfo" /\ Goto("fund") /\ leaf' \in {"pubkeyhash", "empty"}
           /\ UNCHANGED <<p2mr, polls, vout, input>>
  BY <1>2 DEF FlowTypeOK, Goto, Led
<1>3. CASE step = "fund" /\ Goto("info") /\ p2mr' = [funding |-> node'.funded, described |-> FALSE]
           /\ UNCHANGED <<leaf, polls, vout, input>>
  BY <1>3 DEF FlowTypeOK, Goto, Led
<1>4. CASE step = "info" /\ Goto(AfterInfo) /\ p2mr' = [p2mr EXCEPT !.described = TRUE]
           /\ UNCHANGED <<leaf, polls, vout, input>>
  BY <1>4 DEF FlowTypeOK, Goto, Led, AfterInfo
<1>5. CASE step = "locate" /\ Goto("wait") /\ vout' \in (IF p2mr.described THEN {TRUE} ELSE BOOLEAN)
           /\ UNCHANGED <<leaf, p2mr, polls, input>>
  BY <1>5 DEF FlowTypeOK, Goto, Led
<1>6. CASE step = "wait" /\ p2mr.funding <= node.mined /\ Goto("create")
           /\ UNCHANGED <<leaf, p2mr, polls, vout, input>>
  BY <1>6 DEF FlowTypeOK, Goto, Led
<1>7. CASE step = "more" /\ PollAgain /\ UNCHANGED <<leaf, p2mr, vout, input>>
  BY <1>7 DEF FlowTypeOK, Goto, Led, PollAgain
<1>8. CASE step = "create" /\ Goto("sign") /\ input' \in 1..node.mined
           /\ UNCHANGED <<leaf, p2mr, polls, vout>>
  BY <1>8 DEF FlowTypeOK, Goto, Led
<1> QED BY <1>1, <1>2, <1>3, <1>4, <1>5, <1>6, <1>7, <1>8 DEF Answer

-----------------------------------------------------------------------------
(* The invariant. *)

LEMMA InvStarts == Init => IInv
<1> SUFFICES ASSUME Init PROVE IInv
  OBVIOUS
<1>1. /\ step \in {"newaddress", "fund"} /\ attempt = 0 /\ polls = 0 /\ input = 0
      /\ node.funded = 0 /\ node.mined = 0 /\ node.spent = 0
      /\ \A request \in Effects : delayed[request] = 0
  BY DEF Init
<1>2. FlowTypeOK
  <2>1. /\ node \in [funded : 0..MaxFundings, mined : 0..MaxFundings,
                     spent : 0..MaxFundings, closed : BOOLEAN]
        /\ p2mr \in [funding : 0..MaxFundings, described : BOOLEAN]
        /\ delayed \in [Effects -> 0..MaxDelayed]
    BY FlowAssumption DEF Init, MaxFundings
  <2>2. step \in DOMAIN Rpc \cup Ended
    BY <1>1, StepsAreAll DEF Steps, Unfunded
  <2>3. /\ flow \in {"seal", "rotation"} /\ leaf = "OP_TRUE"
        /\ vout \in BOOLEAN /\ lost \in BOOLEAN
    BY DEF Init
  <2> QED BY <1>1, <2>1, <2>2, <2>3, FlowAssumption DEF FlowTypeOK, MaxFundings
<1>3. FundInv /\ ChainInv /\ PollInv /\ SpendInv
  BY <1>1, FlowAssumption DEF FundInv, Fundings, ChainInv, PollInv, SpendInv, Effects, MaxFundings
<1>4. QuietInv
  BY <1>1 DEF QuietInv, Unfunded, Signed, Sent, Confirmed
<1> QED BY <1>2, <1>3, <1>4 DEF IInv

\* The node stays as described whatever it executes for the flow.
LEMMA ExecutedTyped ==
  ASSUME FlowTypeOK, FundInv, ChainInv, Executed
  PROVE  /\ node' \in [funded : 0..MaxFundings, mined : 0..MaxFundings,
                       spent : 0..MaxFundings, closed : BOOLEAN]
         /\ node'.funded = IF step = "fund" THEN node.funded + 1 ELSE node.funded
         /\ node'.mined = IF step \in {"mine", "more", "confirm"} THEN node.funded ELSE node.mined
         /\ node'.spent = IF step = "broadcast" THEN input ELSE node.spent
         /\ node'.closed = IF step \in {"mine", "more", "confirm"} THEN node.spent # 0 ELSE node.closed
<1>1. /\ node.funded \in 0..MaxFundings /\ node.mined \in 0..MaxFundings
      /\ node.spent \in 0..MaxFundings /\ node.closed \in BOOLEAN
      /\ node = [funded |-> node.funded, mined |-> node.mined,
                 spent |-> node.spent, closed |-> node.closed]
      /\ input \in 0..MaxFundings /\ MaxFundings \in Nat
  BY FlowAssumption DEF FlowTypeOK, MaxFundings
<1>2. step = "fund" => node.funded + 1 \in 0..MaxFundings
  BY <1>1, FlowAssumption DEF FlowTypeOK, FundInv, Fundings, MaxFundings, Effects
<1>3. CASE step = "fund" /\ Funds
  BY <1>1, <1>2, <1>3 DEF Funds
<1>4. CASE step \in {"mine", "more", "confirm"} /\ Mines
  BY <1>1, <1>4 DEF Mines
<1>5. CASE step = "broadcast" /\ Spends
  BY <1>1, <1>5 DEF Spends
<1>6. CASE step \notin {"fund", "mine", "more", "confirm", "broadcast"} /\ node' = node
  BY <1>1, <1>6
<1> QED BY <1>3, <1>4, <1>5, <1>6 DEF Executed

LEMMA AnsweredKeeps == ASSUME IInv, Answered PROVE IInv'
<1>1. /\ step \in DOMAIN Rpc /\ step \in Steps /\ step \notin Ended
  BY StepsAreAll DEF IInv, FlowTypeOK, Answered
<1>2. Executed
  BY <1>1, ExecutedRequest DEF Answered
<1>3. /\ node' \in [funded : 0..MaxFundings, mined : 0..MaxFundings,
                    spent : 0..MaxFundings, closed : BOOLEAN]
      /\ node'.funded = IF step = "fund" THEN node.funded + 1 ELSE node.funded
      /\ node'.mined = IF step \in {"mine", "more", "confirm"} THEN node.funded ELSE node.mined
      /\ node'.spent = IF step = "broadcast" THEN input ELSE node.spent
      /\ node'.closed = IF step \in {"mine", "more", "confirm"} THEN node.spent # 0 ELSE node.closed
  BY <1>2, ExecutedTyped DEF IInv
<1>4. node'.funded \in 0..MaxFundings
  BY <1>3
<1>5. Led
  BY <1>4, AnswerLeads DEF IInv, Answered
<1>6. /\ flow' = flow /\ delayed' = delayed /\ lost' = lost
      /\ delayed["sendtop2mr"] \in Nat /\ delayed["sendrawtransaction"] \in Nat
  BY FlowAssumption DEF Answered, IInv, FlowTypeOK, Effects
<1>7. step' \in Steps
  BY <1>5 DEF Led, Steps, Unfunded, Waiting, Signed, Sent, Confirmed
<1>8. input' \in 0..MaxFundings /\ polls' \in 0..MaxPolls
  BY <1>5, <1>1, FlowAssumption DEF IInv, FlowTypeOK, Led, PollInv, Unfunded, Waiting, ChainInv, MaxFundings
<1>9. FlowTypeOK'
  BY <1>3, <1>5, <1>6, <1>7, <1>8, StepsAreAll, FlowAssumption DEF IInv, FlowTypeOK, Led
<1>10. FundInv'
  BY <1>3, <1>5, <1>6, FlowAssumption
  DEF IInv, FlowTypeOK, FundInv, Fundings, Led, MaxFundings
<1>11. ChainInv'
  BY <1>3, <1>5 DEF IInv, FlowTypeOK, ChainInv, Led, MaxFundings, FundInv
<1>12. PollInv'
  BY <1>5, <1>1, FlowAssumption DEF IInv, FlowTypeOK, PollInv, Led, Unfunded, Waiting
<1>13. SpendInv'
  BY <1>3, <1>5, <1>6 DEF IInv, FlowTypeOK, SpendInv, Led, Unfunded, Waiting
<1>14. QuietInv'
  <2> SUFFICES ASSUME ~lost' PROVE QuietInv'
    BY DEF QuietInv
  <2>1. attempt' = 0 /\ \A request \in Effects : delayed'[request] = 0
    BY <1>5, <1>6 DEF IInv, QuietInv, Led
  <2>2. /\ step' \in Unfunded => node'.funded = 0
        /\ step' \notin Unfunded \cup {"failed"} => node'.funded = 1 /\ p2mr'.funding = 1
    BY <1>1, <1>3, <1>5, <1>6 DEF IInv, FlowTypeOK, QuietInv, Led, Unfunded, Ended
  <2>3. step' \in Signed => input' = 1
    BY <1>3, <1>5, <1>6 DEF IInv, FlowTypeOK, ChainInv, QuietInv, Led, Unfunded, Signed, Sent, Confirmed, MaxFundings
  <2>4. step' \in Sent => node'.spent = 1
    BY <1>3, <1>5, <1>6 DEF IInv, QuietInv, Led, Signed, Sent, Confirmed
  <2>5. step' \in Confirmed => node'.closed
    BY <1>3, <1>5, <1>6 DEF IInv, QuietInv, Led, Sent, Confirmed
  <2> QED BY <2>1, <2>2, <2>3, <2>4, <2>5 DEF QuietInv
<1> QED BY <1>9, <1>10, <1>11, <1>12, <1>13, <1>14 DEF IInv

\* What an attempt may have done to the node without the flow's knowing.
Disturbed ==
    /\ node' \in [funded : 0..MaxFundings, mined : 0..MaxFundings,
                  spent : 0..MaxFundings, closed : BOOLEAN]
    /\ delayed' \in [Effects -> 0..MaxDelayed]
    /\ Fundings' <= IF step = "fund" THEN Fundings + 1 ELSE Fundings
    /\ node'.mined <= node'.funded /\ node.mined <= node'.mined
    /\ node'.spent \in {0, input}
    /\ step # "broadcast" =>
           /\ node'.spent = node.spent
           /\ delayed'["sendrawtransaction"] = delayed["sendrawtransaction"]

LEMMA UntouchedDisturbs ==
  ASSUME IInv, node' = node, delayed' = delayed
  PROVE  Disturbed
  BY FlowAssumption
  DEF IInv, FlowTypeOK, FundInv, Fundings, ChainInv, SpendInv, Disturbed, Effects, MaxFundings

LEMMA ExecutedDisturbs ==
  ASSUME IInv, Executed, delayed' = delayed
  PROVE  Disturbed
<1>1. /\ node' \in [funded : 0..MaxFundings, mined : 0..MaxFundings,
                    spent : 0..MaxFundings, closed : BOOLEAN]
      /\ node'.funded = IF step = "fund" THEN node.funded + 1 ELSE node.funded
      /\ node'.mined = IF step \in {"mine", "more", "confirm"} THEN node.funded ELSE node.mined
      /\ node'.spent = IF step = "broadcast" THEN input ELSE node.spent
  BY ExecutedTyped DEF IInv
<1>2. /\ delayed \in [Effects -> 0..MaxDelayed] /\ delayed["sendtop2mr"] \in Nat
      /\ node.funded \in Nat /\ node.mined \in Nat /\ node.mined <= node.funded
      /\ node.spent \in {0, input}
  BY FlowAssumption DEF IInv, FlowTypeOK, ChainInv, SpendInv, Effects, MaxFundings
<1> QED BY <1>1, <1>2 DEF Disturbed, Fundings

LEMMA DelayedDisturbs ==
  ASSUME IInv, step \in DOMAIN Rpc, Rpc[step] \in Effects, node' = node,
         delayed[Rpc[step]] < MaxDelayed,
         delayed' = [delayed EXCEPT ![Rpc[step]] = @ + 1]
  PROVE  Disturbed
<1>1. /\ Rpc[step] = "sendtop2mr" <=> step = "fund"
      /\ Rpc[step] = "sendrawtransaction" <=> step = "broadcast"
  BY DEF Rpc
<1>2. delayed' \in [Effects -> 0..MaxDelayed]
  BY FlowAssumption DEF IInv, FlowTypeOK
<1>3. /\ delayed'["sendtop2mr"] = IF step = "fund" THEN delayed["sendtop2mr"] + 1 ELSE delayed["sendtop2mr"]
      /\ step # "broadcast" => delayed'["sendrawtransaction"] = delayed["sendrawtransaction"]
      /\ delayed["sendtop2mr"] \in Nat
  BY <1>1, FlowAssumption DEF IInv, FlowTypeOK, Effects
<1>4. /\ node.funded \in Nat /\ node.mined \in Nat /\ node.mined <= node.funded
      /\ node.spent \in {0, input}
      /\ node' \in [funded : 0..MaxFundings, mined : 0..MaxFundings,
                    spent : 0..MaxFundings, closed : BOOLEAN]
  BY FlowAssumption DEF IInv, FlowTypeOK, ChainInv, SpendInv, MaxFundings
<1> QED BY <1>2, <1>3, <1>4 DEF Disturbed, Fundings

\* The flow falls back or sends again, whatever the node did meanwhile.
LEMMA DisturbedKeeps ==
  ASSUME IInv, step \notin Ended, Disturbed, flow' = flow, lost' \in BOOLEAN,
         \/ Fallen
         \/ SendAgain /\ attempt < Retries
  PROVE  FlowTypeOK' /\ FundInv' /\ ChainInv' /\ PollInv' /\ SpendInv'
<1>1. step \in Steps
  BY StepsAreAll DEF IInv, FlowTypeOK
<1>2. /\ delayed["sendtop2mr"] \in Nat /\ delayed["sendrawtransaction"] \in Nat
      /\ delayed'["sendtop2mr"] \in Nat /\ delayed'["sendrawtransaction"] \in Nat
      /\ node.funded \in Nat /\ node'.funded \in Nat /\ node.mined \in Nat
      /\ input \in Nat /\ node'.mined \in Nat
  BY FlowAssumption DEF IInv, FlowTypeOK, Effects, Disturbed, MaxFundings
<1>3. /\ step' \in Steps /\ attempt' \in 0..Retries /\ polls' \in 0..MaxPolls
      /\ leaf' = leaf /\ p2mr' = p2mr /\ input' = input /\ vout' \in BOOLEAN
      /\ step' # step => attempt' = 0 /\ step' \notin Unfunded \cup {"info", "sign"}
  BY <1>1, FlowAssumption
  DEF IInv, FlowTypeOK, PollInv, Fallen, SendAgain, Steps, Unfunded, Waiting, Signed, Sent, Confirmed
<1>4. FlowTypeOK'
  BY <1>3, StepsAreAll DEF IInv, FlowTypeOK, Disturbed
<1>5. FundInv'
  <2>1. step = "fund" => Fundings + 1 <= MaxFundings
    BY <1>2, FlowAssumption DEF IInv, FlowTypeOK, FundInv, Fundings, MaxFundings
  <2>2. Fundings \in Nat /\ Fundings' \in Nat
    BY <1>2 DEF Fundings
  <2>3. Fundings' <= MaxFundings
    BY <2>1, <2>2, FlowAssumption DEF IInv, FundInv, Disturbed, MaxFundings
  <2>4. CASE Fallen
    <3>1. step' \in Unfunded => FALSE
      BY <2>4 DEF Fallen, Unfunded
    <3> QED BY <2>3, <3>1 DEF FundInv, Unfunded
  <2>5. CASE SendAgain /\ attempt < Retries
    BY <2>1, <2>2, <2>3, <2>5 DEF IInv, FlowTypeOK, FundInv, Disturbed, SendAgain
  <2> QED BY <2>4, <2>5
<1>6. ChainInv'
  BY <1>2, <1>3 DEF IInv, ChainInv, Disturbed
<1>7. PollInv'
  BY <1>1, FlowAssumption
  DEF IInv, FlowTypeOK, PollInv, Fallen, SendAgain, Unfunded, Waiting
<1>8. SpendInv'
  <2>1. node'.spent \in {0, input'}
    BY <1>3 DEF Disturbed
  <2>2. step' \in Unfunded \cup Waiting \cup {"create", "sign"} =>
            step \in Unfunded \cup Waiting \cup {"create", "sign"}
    BY DEF Fallen, SendAgain, Unfunded, Waiting
  <2> QED BY <2>1, <2>2 DEF IInv, SpendInv, Disturbed, Unfunded, Waiting
<1> QED BY <1>4, <1>5, <1>6, <1>7, <1>8

LEMMA RefusedKeeps == ASSUME IInv, Refused PROVE IInv'
<1>1. Fallen /\ Disturbed
  BY ErrorFalls, UntouchedDisturbs DEF IInv, Refused
<1>2. FlowTypeOK' /\ FundInv' /\ ChainInv' /\ PollInv' /\ SpendInv'
  BY <1>1, DisturbedKeeps DEF IInv, FlowTypeOK, Refused
<1>3. QuietInv'
  BY <1>1 DEF IInv, FlowTypeOK, QuietInv, Refused, Fallen, Unfunded, Signed, Sent, Confirmed, Ended
<1> QED BY <1>2, <1>3 DEF IInv

LEMMA GarbledKeeps == ASSUME IInv, Garbled PROVE IInv'
<1>1. step \in DOMAIN Rpc
  BY DEF IInv, FlowTypeOK, Garbled
<1>2. Fallen /\ Executed /\ Disturbed
  BY <1>1, ErrorFalls, ExecutedRequest, ExecutedDisturbs DEF IInv, Garbled
<1>3. FlowTypeOK' /\ FundInv' /\ ChainInv' /\ PollInv' /\ SpendInv'
  BY <1>2, DisturbedKeeps DEF IInv, FlowTypeOK, Garbled
<1>4. node'.funded = IF step = "fund" THEN node.funded + 1 ELSE node.funded
  BY <1>2, ExecutedTyped DEF IInv
<1>5. QuietInv'
  BY <1>2, <1>4 DEF IInv, FlowTypeOK, QuietInv, Garbled, Fallen, Unfunded, Signed, Sent, Confirmed, Ended
<1> QED BY <1>3, <1>5 DEF IInv

LEMMA LostKeeps == ASSUME IInv, Lost PROVE IInv'
<1>1. step \in DOMAIN Rpc /\ step \notin Ended
  BY DEF IInv, FlowTypeOK, Lost
<1>2. Disturbed
  <2>1. CASE UNCHANGED <<node, delayed>>
    BY <2>1, UntouchedDisturbs
  <2>2. CASE Rpc[step] \in Effects /\ Accepts(Rpc[step]) /\ node' = Execute(Rpc[step]) /\ delayed' = delayed
    BY <1>1, <2>2, ExecutedRequest, ExecutedDisturbs
  <2>3. CASE Rpc[step] \in Effects /\ delayed[Rpc[step]] < MaxDelayed
             /\ delayed' = [delayed EXCEPT ![Rpc[step]] = @ + 1] /\ node' = node
    BY <1>1, <2>3, DelayedDisturbs
  <2> QED BY <2>1, <2>2, <2>3 DEF Lost
<1>3. Fallen \/ (SendAgain /\ attempt < Retries)
  BY ErrorFalls DEF IInv, Lost, NoReply
<1>4. FlowTypeOK' /\ FundInv' /\ ChainInv' /\ PollInv' /\ SpendInv'
  BY <1>1, <1>2, <1>3, DisturbedKeeps DEF Lost
<1>5. QuietInv'
  BY DEF QuietInv, Lost
<1> QED BY <1>4, <1>5 DEF IInv

LEMMA LateKeeps ==
  ASSUME IInv, NEW request \in Effects, Late(request)
  PROVE  IInv'
<1>1. /\ delayed \in [Effects -> 0..MaxDelayed] /\ delayed' \in [Effects -> 0..MaxDelayed]
      /\ delayed[request] > 0 /\ delayed'[request] = delayed[request] - 1
      /\ \A other \in Effects \ {request} : delayed'[other] = delayed[other]
  BY FlowAssumption DEF IInv, FlowTypeOK, Late
<1>2. lost /\ lost'
  BY <1>1 DEF IInv, FlowTypeOK, QuietInv, Late
<1>3. /\ node.funded \in 0..MaxFundings /\ node.mined \in 0..MaxFundings
      /\ node.spent \in 0..MaxFundings /\ node.closed \in BOOLEAN
      /\ node = [funded |-> node.funded, mined |-> node.mined,
                 spent |-> node.spent, closed |-> node.closed]
      /\ input \in 0..MaxFundings /\ MaxFundings \in Nat
      /\ delayed["sendtop2mr"] \in Nat /\ delayed'["sendtop2mr"] \in Nat
      /\ Fundings <= MaxFundings /\ node.mined <= node.funded
  BY <1>1, FlowAssumption DEF IInv, FlowTypeOK, FundInv, ChainInv, MaxFundings, Effects
<1>4. /\ node' \in [funded : 0..MaxFundings, mined : 0..MaxFundings,
                    spent : 0..MaxFundings, closed : BOOLEAN]
      /\ Fundings' <= Fundings
      /\ node'.mined <= node'.funded /\ node.mined <= node'.mined
      /\ node'.spent \in {node.spent, input}
      /\ request # "sendrawtransaction" => node'.spent = node.spent
  <2>1. CASE node' = node
    BY <1>1, <1>3, <2>1 DEF Fundings, Effects
  <2>2. CASE request = "sendtop2mr" /\ Funds
    BY <1>1, <1>3, <2>2 DEF Fundings, Funds
  <2>3. CASE request = "generatetoaddress" /\ Mines
    <3>1. node' = [funded |-> node.funded, mined |-> node.funded,
                   spent |-> node.spent, closed |-> node.spent # 0]
      BY <1>3, <2>3 DEF Mines
    <3>2. delayed'["sendtop2mr"] = delayed["sendtop2mr"]
      BY <1>1, <2>3 DEF Effects
    <3> QED BY <1>3, <3>1, <3>2 DEF Fundings
  <2>4. CASE request = "sendrawtransaction" /\ Spends
    BY <1>1, <1>3, <2>4 DEF Fundings, Spends, Effects
  <2> QED BY <2>1, <2>2, <2>3, <2>4 DEF Late, Accepts, Execute, Effects, Funds, Mines, Spends
<1>5. FlowTypeOK'
  BY <1>1, <1>4 DEF IInv, FlowTypeOK, Late
<1>6. FundInv'
  BY <1>3, <1>4, FlowAssumption DEF IInv, FlowTypeOK, FundInv, Fundings, Late, MaxFundings
<1>7. ChainInv' /\ PollInv'
  BY <1>3, <1>4 DEF IInv, ChainInv, PollInv, Late
<1>8. SpendInv'
  BY <1>1, <1>4 DEF IInv, FlowTypeOK, SpendInv, Late, Effects
<1>9. QuietInv'
  BY <1>2 DEF QuietInv
<1> QED BY <1>5, <1>6, <1>7, <1>8, <1>9 DEF IInv

\* Nothing spends but the transaction the flow has built.
LEMMA SpendsItsInput ==
  ASSUME IInv, Next
  PROVE  node'.spent \in {node.spent, input}
<1>1. CASE Answered
  <2>1. Executed
    BY <1>1, ExecutedRequest DEF IInv, FlowTypeOK, Answered
  <2> QED BY <2>1, ExecutedTyped DEF IInv
<1>2. CASE Refused
  BY <1>2 DEF Refused
<1>3. CASE Garbled
  <2>1. Executed
    BY <1>3, ExecutedRequest DEF IInv, FlowTypeOK, Garbled
  <2> QED BY <2>1, ExecutedTyped DEF IInv
<1>4. CASE Lost
  <2>1. CASE node' = node
    BY <2>1
  <2>2. CASE Accepts(Rpc[step]) /\ node' = Execute(Rpc[step])
    <3>1. Executed
      BY <1>4, <2>2, ExecutedRequest DEF IInv, FlowTypeOK, Lost
    <3> QED BY <3>1, ExecutedTyped DEF IInv
  <2> QED BY <1>4, <2>1, <2>2 DEF Lost
<1>5. CASE \E request \in Effects : Late(request)
  BY <1>5 DEF IInv, FlowTypeOK, Late, Execute
<1> QED BY <1>1, <1>2, <1>3, <1>4, <1>5 DEF Next, FlowStep

LEMMA InvKept == IInv /\ [Next]_flowVars => IInv'
<1> SUFFICES ASSUME IInv, [Next]_flowVars PROVE IInv'
  OBVIOUS
<1>1. CASE Answered BY <1>1, AnsweredKeeps
<1>2. CASE Refused BY <1>2, RefusedKeeps
<1>3. CASE Garbled BY <1>3, GarbledKeeps
<1>4. CASE Lost BY <1>4, LostKeeps
<1>5. CASE \E request \in Effects : Late(request) BY <1>5, LateKeeps
<1>6. CASE UNCHANGED flowVars
  BY <1>6 DEF IInv, FlowTypeOK, FundInv, Fundings, ChainInv, PollInv, SpendInv, QuietInv, flowVars
<1> QED BY <1>1, <1>2, <1>3, <1>4, <1>5, <1>6 DEF Next, FlowStep

THEOREM FlowInvariant == Spec => []IInv
  BY InvStarts, InvKept, PTL DEF Spec

-----------------------------------------------------------------------------
\* Type correctness of a flow and its node: the output is funded at most
\* once per attempt, and attempts and polls stay within their limits.
THEOREM FlowTyped == Spec => []FlowTypeOK
<1>1. IInv => FlowTypeOK
  BY DEF IInv
<1> QED BY <1>1, FlowInvariant, PTL

\* A flow none of whose replies was lost has spent and closed the output it
\* funded: no error the node reports makes call repeat a request.
THEOREM QuietFlowsCloseTheirSeals == Spec => []QuietFlowClosesItsSeal
<1>1. IInv => QuietFlowClosesItsSeal
  BY DEF IInv, QuietInv, QuietFlowClosesItsSeal, Unfunded, Sent, Confirmed
<1> QED BY <1>1, FlowInvariant, PTL

\* However often sendrawtransaction is sent, and however late it is executed,
\* a flow spends one output.
THEOREM FlowsSpendOneOutput == Spec => OneClose
<1>1. IInv /\ [Next]_flowVars => [node.spent # 0 => node'.spent = node.spent]_node
  <2> SUFFICES ASSUME IInv, [Next]_flowVars, node.spent # 0
               PROVE  node'.spent = node.spent
    OBVIOUS
  <2>1. node.spent = input
    BY DEF IInv, SpendInv
  <2>2. CASE Next
    BY <2>1, <2>2, SpendsItsInput
  <2>3. CASE UNCHANGED flowVars
    BY <2>3 DEF flowVars
  <2> QED BY <2>2, <2>3
<1> QED BY <1>1, FlowInvariant, PTL DEF Spec, OneClose

-----------------------------------------------------------------------------
(* Without retries.  What a flow past a step has done does not depend on     *)
(* how often its requests are sent; that it did it once does.                *)

\* Past its funding a flow knows it, past its signing the input, and past its
\* broadcast the output is spent.
DoneInv ==
    /\ step \notin Unfunded \cup {"failed"} => p2mr.funding # 0
    /\ step \in Signed => input # 0
    /\ step \in Sent => node.spent # 0

\* A step that leaves the flow's own state alone, and leads where an error
\* does or nowhere, undoes nothing.
LEMMA DoneStays ==
  ASSUME IInv, DoneInv, Next, p2mr' = p2mr, input' = input, step' = step \/ Fallen
  PROVE  DoneInv'
<1>1. node'.spent \in {node.spent, input}
  BY SpendsItsInput
<1>2. step' \notin Unfunded \cup {"failed"} => step \notin Unfunded \cup {"failed"}
  BY DEF Fallen, Unfunded
<1>3. (step' \in Signed => step \in Signed) /\ (step' \in Sent => step \in Sent)
  BY DEF Fallen, Signed, Sent, Confirmed
<1>4. step \in Sent => step \in Signed
  BY DEF Signed
<1> QED BY <1>1, <1>2, <1>3, <1>4 DEF DoneInv

\* An answered request has done what the step after it counts on.
LEMMA AnsweredDoes ==
  ASSUME IInv, DoneInv, Answered
  PROVE  DoneInv'
<1>1. Executed /\ Led
  <2>1. step \in DOMAIN Rpc
    BY StepsAreAll DEF IInv, FlowTypeOK, Answered
  <2>2. Executed
    BY <2>1, ExecutedRequest DEF Answered
  <2>3. node'.funded \in 0..MaxFundings
    BY <2>2, ExecutedTyped DEF IInv
  <2>4. Led
    BY <2>3, AnswerLeads DEF IInv, Answered
  <2> QED BY <2>2, <2>4
<1>2. /\ node = [funded |-> node.funded, mined |-> node.mined,
                 spent |-> node.spent, closed |-> node.closed]
      /\ node.funded \in Nat
  BY FlowAssumption DEF IInv, FlowTypeOK, MaxFundings
<1>3. step' \notin Unfunded \cup {"failed"} => p2mr'.funding # 0
  <2>1. CASE step = "fund"
    <3>1. node'.funded = node.funded + 1
      BY <1>1, <1>2, <2>1 DEF Executed, Funds
    <3> QED BY <1>1, <1>2, <2>1, <3>1 DEF Led
  <2>2. CASE step # "fund"
    BY <1>1, <2>2 DEF Led, DoneInv, Unfunded
  <2> QED BY <2>1, <2>2
<1>4. step' \in Signed => input' # 0
  <2>1. CASE step = "create"
    <3>1. node.mined \in Nat /\ node' = node
      BY <1>1, <2>1, FlowAssumption DEF Executed, IInv, FlowTypeOK, MaxFundings
    <3> QED BY <1>1, <2>1, <3>1 DEF Led
  <2>2. CASE step # "create"
    BY <1>1, <2>2 DEF Led, DoneInv, Signed, Sent, Confirmed
  <2> QED BY <2>1, <2>2
<1>5. step' \in Sent => node'.spent # 0
  <2>1. CASE step = "broadcast"
    <3>1. node'.spent = input
      BY <1>1, <1>2, <2>1 DEF Executed, Spends
    <3> QED BY <2>1, <3>1 DEF DoneInv, Signed
  <2>2. CASE step # "broadcast"
    <3>1. step' \in Sent => step \in Sent
      BY <1>1, <2>2 DEF Led, Sent, Confirmed
    <3>2. node'.spent = node.spent
      BY <1>1, <1>2, <2>2 DEF Executed, Funds, Mines
    <3> QED BY <3>1, <3>2 DEF DoneInv
  <2> QED BY <2>1, <2>2
<1> QED BY <1>3, <1>4, <1>5 DEF DoneInv

\* Every step keeps DoneInv.
LEMMA DoneKept == IInv /\ DoneInv /\ [Next]_flowVars => DoneInv'
<1> SUFFICES ASSUME IInv, DoneInv, [Next]_flowVars PROVE DoneInv'
  OBVIOUS
<1>1. CASE Answered BY <1>1, AnsweredDoes
<1>2. CASE Refused
  BY <1>2, ErrorFalls, DoneStays DEF Refused, Next, FlowStep, IInv, Fallen
<1>3. CASE Garbled
  BY <1>3, ErrorFalls, DoneStays DEF Garbled, Next, FlowStep, IInv, Fallen
<1>4. CASE Lost
  <2>1. Fallen \/ SendAgain
    BY <1>4, ErrorFalls DEF IInv, Lost, NoReply
  <2> QED BY <1>4, <2>1, DoneStays DEF Next, FlowStep, Fallen, SendAgain
<1>5. CASE \E request \in Effects : Late(request)
  BY <1>5, DoneStays DEF Next, Late
<1>6. CASE UNCHANGED flowVars
  BY <1>6 DEF DoneInv, flowVars
<1> QED BY <1>1, <1>2, <1>3, <1>4, <1>5, <1>6 DEF Next, FlowStep

\* Were call to send nothing twice, every finished flow would have spent the
\* output it funded, whatever replies are lost or requests executed late: it
\* takes the retries to break ClosesItsSeal.
THEOREM UnretriedFlowsCloseTheirSeals ==
  ASSUME Retries = 0
  PROVE  Spec => []ClosesItsSeal
<1>1. Init => DoneInv
  BY DEF Init, DoneInv, Unfunded, Signed, Sent, Confirmed
<1>2. IInv /\ DoneInv => ClosesItsSeal
  <2> SUFFICES ASSUME IInv, DoneInv, step = "done" PROVE node.spent = p2mr.funding
    BY DEF ClosesItsSeal
  <2>1. MaxFundings = 1
    BY DEF MaxFundings
  <2>2. p2mr.funding \in 0..1 /\ node.spent \in 0..1
    BY <2>1 DEF IInv, FlowTypeOK
  <2>3. p2mr.funding # 0 /\ node.spent # 0
    BY DEF DoneInv, Unfunded, Sent, Confirmed
  <2> QED BY <2>2, <2>3
<1> QED BY <1>1, <1>2, DoneKept, FlowInvariant, PTL DEF Spec

=============================================================================
