--------------------------- MODULE NodeReadsProofs ---------------------------
(***************************************************************************)
(* Whatever the chain does between two RPCs of a question and between two  *)
(* attempts of an RPC, the client's answers are the oracle's: for every    *)
(* chain, every number of retries and every pattern of transport failures. *)
(*                                                                         *)
(* The inductive part: seen holds what is true now, a question sends only  *)
(* the RPCs of its kind, and a second RPC of get_output follows a first    *)
(* that found the output outside the UTXO set: spent, or never confirmed.  *)
(***************************************************************************)
EXTENDS NodeReads, BtqChainProofs

Uses == [output |-> {"gettxout", "exists"}, tip |-> {"getblockchaininfo"},
         depth |-> {"status"}, witness |-> {"fetch", "status"}]

\* The output was outside the UTXO set at an instant of the question.
Gone == Bare("Spent") \in seen \/ Bare("Unconfirmed") \in seen

Asking ==
    /\ question \in Questions
    /\ rpc \in Uses[question.ask]
    /\ Truth(question) \subseteq seen
    /\ rpc = "exists" => Gone
    /\ answer = Err

IInv ==
    /\ TypeOK
    /\ Ledger
    /\ question # NoQuestion => Asking
    /\ SpentOrUnconfirmed

\* What is true of a question depends on the chain alone.
LEMMA TruthKept ==
    UNCHANGED chainVars => \A q : Truth(q)' = Truth(q)
BY DEF chainVars, Truth, InUtxoSet, Spent, BestBlock, BlockAt, Mined, Live, DepthAnswer, Ord,
       Confirmations

\* An answer of the client is a fact.
LEMMA AnswerTyped ==
    ASSUME NEW k \in Kinds, NEW n \in 0..MaxHeight
    PROVE  Answer(k, n) \in Fact
BY DEF Answer, Fact

\* ... and so is one that carries no number.
LEMMA BareTyped ==
    ASSUME NEW k \in Kinds
    PROVE  Bare(k) \in Fact
BY AnswerTyped, ChainAssumption DEF Bare

\* ... and one that names a height and the best block.
LEMMA TipTyped ==
    ASSUME ChainTypeOK, NEW h \in 0..MaxHeight
    PROVE  Tip(h, BestBlock) \in Fact
<1>1. BestBlock \in Block \cup {NoBlock}
    BY BlockTyped, ChainAssumption DEF BestBlock, ChainTypeOK, Heights
<1>2. QED BY <1>1 DEF Tip, Fact, Kinds

\* What the node can report of a transaction is a fact about it.
LEMMA ReadTyped ==
    ASSUME ChainTypeOK, Ledger, NEW t \in Tx, NEW r \in {0, minedAt[t]}
    PROVE  DepthAnswer(t) \in Fact /\ Ord(t, r) \in Fact
<1>1. Confirmations(t) \in 0..MaxHeight /\ r \in 0..MaxHeight
    BY ConfirmationsTyped, ChainAssumption DEF ChainTypeOK
<1>2. QED
    BY <1>1, AnswerTyped, BareTyped DEF DepthAnswer, Ord, Err, Kinds

\* What is true of a question is a set of facts.
LEMMA TruthTyped ==
    ASSUME ChainTypeOK, Ledger, NEW q \in Questions
    PROVE  Truth(q) \in SUBSET Fact
<1>1. q.tx \in Tx
    BY DEF Questions, Tx
<1>2. CASE q.ask = "output"
    BY <1>2, BareTyped DEF Truth, Kinds
<1>3. CASE q.ask = "depth"
    BY <1>1, <1>3, ReadTyped DEF Truth
<1>4. CASE q.ask = "witness"
    BY <1>1, <1>4, ReadTyped DEF Truth
<1>5. CASE q.ask = "tip"
    <2>1. Tip(height, BestBlock) \in Fact
        BY TipTyped, ChainAssumption DEF ChainTypeOK
    <2>2. QED BY <1>5, <2>1 DEF Truth
<1>6. QED
    BY <1>2, <1>3, <1>4, <1>5 DEF Questions

\* TruthTyped for the question being asked, in the form a next state needs.
LEMMA QuestionTyped ==
    question \in Questions /\ ChainTypeOK /\ Ledger => Truth(question) \in SUBSET Fact
BY TruthTyped

-----------------------------------------------------------------------------
\* Before the first question.
LEMMA InitInv == Init => IInv
<1> SUFFICES ASSUME Init PROVE IInv
    OBVIOUS
<1>1. ChainTypeOK /\ Ledger
    BY ChainAssumption DEF Init, ChainInit, ChainTypeOK, Ledger, Consistent, Tx, Heights
<1>2. Err \in Fact
    BY BareTyped DEF Err, Kinds
<1>3. answer.kind # "Spent"
    BY DEF Init, Err, Bare, Answer
<1>4. QED
    BY <1>1, <1>2, <1>3, ReadsAssumption DEF Init, IInv, TypeOK, Fact, SpentOrUnconfirmed, Rpcs

\* A question starts with what is true when it is asked.
LEMMA AskInv ==
    ASSUME IInv, NEW q \in Questions, Ask(q)
    PROVE  IInv'
<1> USE DEF Ask
<1>1. ChainTypeOK' /\ Ledger'
    BY DEF IInv, TypeOK, chainVars, ChainTypeOK, Ledger
<1>2. Truth(q) \in SUBSET Fact /\ Err \in Fact
    BY TruthTyped, BareTyped DEF IInv, TypeOK, Err, Kinds
<1>3. rpc' \in Uses[q.ask] /\ rpc' # "exists" /\ rpc' \in Rpcs
    BY DEF FirstRpc, Uses, Questions, Rpcs
<1>4. Truth(q)' = Truth(q)
    BY TruthKept
<1>5. TypeOK'
    BY <1>1, <1>2, <1>3, ReadsAssumption DEF TypeOK, Fact
<1>6. Asking'
    BY <1>3, <1>4 DEF Asking
<1>7. SpentOrUnconfirmed'
    BY DEF SpentOrUnconfirmed, Err, Bare, Answer
<1>8. QED
    BY <1>1, <1>5, <1>6, <1>7 DEF IInv

-----------------------------------------------------------------------------
(* The answers. *)

Evasion == {Err, Bare("NotFound"), Bare("None"), Bare("Unresolved")}

\* A step that replies gives a fact witnessed during the question, or evades it.
LEMMA ReplyInv ==
    ASSUME IInv, question # NoQuestion, NEW a \in Fact, Reply(a),
           a.kind = "Spent" =>
               Bare("Spent") \in seen \/ {Bare("Unconfirmed"), Bare("Known")} \subseteq seen
    PROVE  IInv'
<1> USE DEF Reply
<1>1. ChainTypeOK' /\ Ledger'
    BY DEF IInv, TypeOK, chainVars, ChainTypeOK, Ledger
<1>2. TypeOK'
    BY <1>1 DEF IInv, TypeOK, Fact
<1>3. SpentOrUnconfirmed'
    BY DEF SpentOrUnconfirmed
<1>4. QED
    BY <1>1, <1>2, <1>3 DEF IInv

\* A step that goes on leaves the question as it found it.
LEMMA GoOnInv ==
    ASSUME IInv, question # NoQuestion, UNCHANGED <<chainVars, question, answer, seen>>,
           rpc' \in Uses[question.ask], attempt' \in 0..Retries,
           rpc' = "exists" => Gone
    PROVE  IInv'
<1>1. ChainTypeOK' /\ Ledger'
    BY DEF IInv, TypeOK, chainVars, ChainTypeOK, Ledger
<1>2. question \in Questions /\ rpc' \in Rpcs
    BY DEF IInv, Asking, Questions, Uses, Rpcs
<1>3. TypeOK'
    BY <1>1, <1>2 DEF IInv, TypeOK
<1>4. Truth(question)' = Truth(question)
    BY TruthKept
<1>5. Asking'
    BY <1>2, <1>4 DEF IInv, Asking, Gone
<1>6. QED
    BY <1>1, <1>3, <1>5 DEF IInv, SpentOrUnconfirmed

\* What a step of the client replies was witnessed, or is an evasion, but for the
\* spent of an unconfirmed output and the tip of a node whose headers are ahead.
Replies(a) ==
    /\ a \in Fact
    /\ \/ a \in seen \cup Evasion
       \/ a = Bare("Spent")
       \/ HeadersAhead /\ a.kind = "Tip"
    /\ a.kind = "Spent" =>
           Bare("Spent") \in seen \/ {Bare("Unconfirmed"), Bare("Known")} \subseteq seen
    /\ Reply(a)

GoesOn ==
    /\ UNCHANGED <<chainVars, question, answer, seen>>
    /\ rpc' \in Uses[question.ask] /\ attempt' \in 0..Retries
    /\ rpc' = "exists" => Gone

\* Evasions are facts, and none of them is Spent.
LEMMA EvasionsTyped == \A a \in Evasion : a \in Fact /\ a.kind # "Spent"
<1>1. Evasion \subseteq Fact
    BY BareTyped DEF Evasion, Err, Kinds
<1>2. QED
    BY <1>1 DEF Evasion, Err, Bare, Answer

\* Every RPC of the client replies so, or goes on.
LEMMA ReadStepReplies ==
    ASSUME IInv, ReadStep
    PROVE  question # NoQuestion /\ (GoesOn \/ \E a \in Fact : Replies(a))
<1> USE DEF IInv, Asking
<1>1. /\ Err \in Evasion /\ Bare("NotFound") \in Evasion
      /\ Bare("None") \in Evasion /\ Bare("Unresolved") \in Evasion
    BY DEF Evasion
<1>2. question # NoQuestion
    BY DEF ReadStep, SendFails, NodeRefuses, GetTxOut, GetRawTx, FetchTx, GetBlockchainInfo
<1>3. /\ question \in Questions /\ question.tx \in Tx
      /\ Truth(question) \subseteq seen
      /\ rpc \in Uses[question.ask]
    BY <1>2 DEF Questions, Tx
<1>4. seen \subseteq Fact
    BY DEF TypeOK, Fact
<1>5. CASE SendFails
    <2>1. CASE attempt < Retries
        BY <1>2, <1>3, <1>5, <2>1, ReadsAssumption DEF SendFails, SendAgain, GoesOn, TypeOK
    <2>2. CASE ~(attempt < Retries)
        BY <1>1, <1>2, <1>5, <2>2, EvasionsTyped DEF SendFails, Replies
    <2>3. QED BY <1>2, <2>1, <2>2
<1>6. CASE NodeRefuses
    BY <1>1, <1>2, <1>6, EvasionsTyped DEF NodeRefuses, Replies
<1>7. CASE GetTxOut
    <2>1. question.ask = "output"
        BY <1>3, <1>7 DEF GetTxOut, Uses, Questions
    <2>2. CASE InUtxoSet
        <3>1. Bare("Unspent") \in seen
            BY <1>3, <2>1, <2>2 DEF Truth
        <3>2. Bare("Unspent").kind # "Spent"
            BY DEF Bare, Answer
        <3>3. QED
            BY <1>2, <1>4, <1>7, <2>2, <3>1, <3>2 DEF GetTxOut, Replies
    <2>3. CASE ~InUtxoSet
        <3>1. Gone
            BY <1>3, <2>1, <2>3 DEF Truth, Gone, InUtxoSet, Spent
        <3>2. "exists" \in Uses[question.ask]
            BY <2>1 DEF Uses
        <3>3. QED
            BY <1>2, <1>7, <2>3, <3>1, <3>2, ReadsAssumption DEF GetTxOut, GoesOn, NextRpc
    <2>4. QED BY <2>2, <2>3
<1>8. CASE GetRawTx
    <2> DEFINE t == question.tx
    <2>1. CASE ~Live(t) /\ Reply(NotFoundAnswer)
        <3>1. NotFoundAnswer \in Evasion
            BY <1>1 DEF NotFoundAnswer, NotFoundArm, RpcLevel
        <3>2. QED BY <1>2, <2>1, <3>1, EvasionsTyped DEF Replies
    <2>2. CASE Live(t) /\ rpc = "exists" /\ Reply(Bare("Spent"))
        <3>1. question.ask = "output" /\ t = Fund
            BY <1>3, <2>2 DEF Uses, Questions
        <3>2. Bare("Known") \in seen /\ Gone
            BY <1>2, <1>3, <2>2, <3>1 DEF Truth
        <3>3. Bare("Spent") \in Fact
            BY BareTyped DEF Kinds
        <3>4. QED BY <1>2, <2>2, <3>2, <3>3 DEF Replies, Gone
    <2>3. CASE Live(t) /\ rpc = "status" /\ question.ask = "depth" /\ Reply(DepthAnswer(t))
        <3>1. DepthAnswer(t) \in seen
            BY <1>3, <2>3 DEF Truth
        <3>2. DepthAnswer(t).kind # "Spent"
            BY DEF DepthAnswer, Bare, Answer
        <3>3. QED BY <1>2, <1>4, <2>3, <3>1, <3>2 DEF Replies
    <2>4. ASSUME Live(t), rpc = "status", question.ask = "witness",
                 NEW r \in {0, minedAt[t]}, Reply(Ord(t, r))
          PROVE  \E a \in Fact : Replies(a)
        <3>1. Ord(t, minedAt[t]) \in seen
            BY <1>3, <2>4 DEF Truth
        <3>2. Ord(t, r) = Err \/ Ord(t, r) = Ord(t, minedAt[t])
            BY <2>4 DEF Ord
        <3>3. Ord(t, r).kind # "Spent"
            BY DEF Ord, Err, Bare, Answer
        <3>4. Ord(t, r) \in seen \cup Evasion
            BY <1>1, <3>1, <3>2
        <3>5. QED BY <1>4, <2>4, <3>3, <3>4, EvasionsTyped DEF Replies
    <2>5. QED
        BY <1>2, <1>8, <2>1, <2>2, <2>3, <2>4 DEF GetRawTx
<1>9. CASE FetchTx
    <2> DEFINE t == question.tx
    <2>1. CASE ~Live(t) /\ Reply(NotFoundAnswer)
        <3>1. NotFoundAnswer \in Evasion
            BY <1>1 DEF NotFoundAnswer, NotFoundArm, RpcLevel
        <3>2. QED BY <1>2, <2>1, <3>1, EvasionsTyped DEF Replies
    <2>2. CASE Live(t) /\ Reply(Bare("Unresolved"))
        BY <1>1, <1>2, <2>2, EvasionsTyped DEF Replies
    <2>3. CASE Live(t) /\ NextRpc("status")
        <3>1. "status" \in Uses[question.ask]
            BY <1>3, <1>9 DEF FetchTx, Uses, Questions
        <3>2. QED BY <1>2, <2>3, <3>1, ReadsAssumption DEF GoesOn, NextRpc
    <2>4. QED
        BY <1>9, <2>1, <2>2, <2>3 DEF FetchTx
<1>10. CASE GetBlockchainInfo
    <2>1. question.ask = "tip"
        BY <1>3, <1>10 DEF GetBlockchainInfo, Uses, Questions
    <2>2. height \in 0..MaxHeight
        BY DEF TypeOK, ChainTypeOK
    <2>3. PICK h \in height..(IF HeadersAhead THEN MaxHeight ELSE height) :
              Reply(Tip(h, BestBlock))
        BY <1>10 DEF GetBlockchainInfo
    <2>4. Tip(h, BestBlock) \in Fact
        <3>1. h \in 0..MaxHeight
            BY <2>2, ChainAssumption
        <3>2. QED BY <3>1, TipTyped DEF TypeOK
    <2>5. Tip(h, BestBlock).kind = "Tip"
        BY DEF Tip
    <2>6. HeadersAhead \/ Tip(h, BestBlock) \in seen
        <3>1. HeadersAhead \/ h = height
            BY <2>2
        <3>2. Tip(height, BestBlock) \in seen
            BY <1>3, <2>1 DEF Truth
        <3>3. QED BY <3>1, <3>2
    <2>7. QED BY <1>2, <2>3, <2>4, <2>5, <2>6 DEF Replies
<1>11. QED
    BY <1>2, <1>5, <1>6, <1>7, <1>8, <1>9, <1>10 DEF ReadStep

\* The client's steps keep the invariant.
LEMMA ReadStepInv ==
    ASSUME IInv, ReadStep
    PROVE  IInv'
<1>1. question # NoQuestion
    BY ReadStepReplies
<1>2. CASE GoesOn
    BY <1>1, <1>2, GoOnInv DEF GoesOn
<1>3. CASE \E a \in Fact : Replies(a)
    BY <1>1, <1>3, ReplyInv DEF Replies
<1>4. QED BY <1>2, <1>3, ReadStepReplies

\* A step of the chain adds what it makes true to seen.
LEMMA ChainStepInv ==
    ASSUME IInv, ChainStep
    PROVE  IInv'
<1> USE DEF ChainStep
<1>1. ChainTypeOK' /\ Ledger'
    BY ChainTyped, LedgerKept DEF IInv, TypeOK
<1>2. question # NoQuestion => question \in Questions /\ Truth(question)' \in SUBSET Fact
    <2>1. (question \in Questions /\ ChainTypeOK /\ Ledger => Truth(question) \in SUBSET Fact)'
        BY QuestionTyped, PTL
    <2>2. QED BY <1>1, <2>1 DEF IInv, Asking
<1>3. seen \subseteq seen' /\ seen' \in SUBSET Fact
    BY <1>2 DEF IInv, TypeOK, Fact
<1>4. TypeOK'
    BY <1>1, <1>3 DEF IInv, TypeOK, Fact
<1>5. (question # NoQuestion => Asking)'
    BY <1>3 DEF IInv, Asking, Gone
<1>6. SpentOrUnconfirmed'
    BY <1>3 DEF IInv, SpentOrUnconfirmed
<1>7. QED
    BY <1>1, <1>4, <1>5, <1>6 DEF IInv

\* Every step keeps IInv.
LEMMA NextInv ==
    ASSUME IInv, [Next]_vars
    PROVE  IInv'
<1>1. CASE UNCHANGED vars
    <2>1. ChainTypeOK' /\ Ledger'
        BY <1>1 DEF vars, IInv, TypeOK, chainVars, ChainTypeOK, Ledger
    <2>2. Truth(question)' = Truth(question)
        BY <1>1, TruthKept DEF vars, readVars
    <2>3. QED
        BY <1>1, <2>1, <2>2 DEF vars, readVars, IInv, TypeOK, Asking, Gone, SpentOrUnconfirmed
<1>2. QED
    BY <1>1, AskInv, ReadStepInv, ChainStepInv DEF Next

\* The inductive invariant holds of every behaviour.
THEOREM Invariant == Spec => []IInv
BY InitInv, NextInv, PTL DEF Spec

\* TypeOK: no attempt beyond the retries, no answer outside its type.
THEOREM ReadsTyped == Spec => []TypeOK
<1>1. IInv => TypeOK
    BY DEF IInv
<1>2. QED
    BY <1>1, Invariant, PTL

\* get_output answers spent of an output that was spent, or not yet confirmed.
THEOREM SpentOutputsWereGone == Spec => []SpentOrUnconfirmed
<1>1. IInv => SpentOrUnconfirmed
    BY DEF IInv
<1>2. QED
    BY <1>1, Invariant, PTL

\* The client's answers are those of an oracle that reads everything at once, of
\* a node that has validated every block it has the header of.
THEOREM ReadsImplementOracle ==
    ASSUME ~HeadersAhead
    PROVE  Spec => ImplementsOracle
<1>1. Init => ReadsOracle!Init
    BY DEF Init, Excused, ReadsOracle!Init
<1>2. IInv /\ [Next]_vars => [ReadsOracle!Next]_(ReadsOracle!oracleVars)
    <2> SUFFICES ASSUME IInv, [Next]_vars
                 PROVE  [ReadsOracle!Next]_(ReadsOracle!oracleVars)
        OBVIOUS
    <2> DEFINE T == [q \in Questions |-> Truth(q)]
    <2>1. UNCHANGED chainVars => UNCHANGED T
        BY TruthKept
    <2> DEFINE R == IF Excused THEN Err ELSE answer
    <2>2. CASE \E q \in Questions : Ask(q)
        <3>1. R' = Err
            BY <2>2 DEF Ask, Excused
        <3>2. QED
            BY <2>1, <2>2, <3>1 DEF Ask, ReadsOracle!Next, ReadsOracle!Ask
    <2>3. CASE ReadStep
        <3>1. CASE GoesOn
            BY <2>1, <3>1 DEF GoesOn, Excused, ReadsOracle!oracleVars
        <3>2. CASE \E a \in Fact : Replies(a)
            <4>1. PICK a \in Fact : Replies(a)
                BY <3>2
            <4>2. /\ question # NoQuestion /\ question' = NoQuestion /\ answer' = a
                  /\ UNCHANGED chainVars /\ seen' = seen
                BY <2>3, <4>1, ReadStepReplies DEF Replies, Reply
            <4>3. R' \in seen \cup Evasion
                <5>1. CASE Excused'
                    BY <5>1 DEF Evasion
                <5>2. CASE ~Excused'
                    <6>1. a.kind = "Spent" => Bare("Spent") \in seen
                        BY <4>1, <4>2, <5>2 DEF Replies, Excused
                    <6>2. Bare("Spent").kind = "Spent"
                        BY DEF Bare, Answer
                    <6>3. a \in seen \cup Evasion \/ a.kind = "Spent"
                        BY <4>1, <6>2 DEF Replies
                    <6>4. a \in seen \cup Evasion
                        BY <4>1, <6>1, <6>2, <6>3 DEF Replies
                    <6>5. QED BY <4>2, <5>2, <6>4
                <5>3. QED BY <5>1, <5>2
            <4>4. QED
                BY <2>1, <4>2, <4>3 DEF Evasion, ReadsOracle!Next, ReadsOracle!Answer
        <3>3. QED BY <2>3, <3>1, <3>2, ReadStepReplies
    <2>4. CASE ChainStep
        <3>1. UNCHANGED <<question, answer>>
            BY <2>4 DEF ChainStep
        <3>2. question # NoQuestion => seen' = seen \cup T'[question]
            BY <2>4 DEF ChainStep, IInv, Asking
        <3>3. question # NoQuestion => T[question] \subseteq seen
            BY DEF IInv, Asking
        <3>4. question = NoQuestion => seen' = seen
            BY <2>4 DEF ChainStep
        <3>5. R' = R
            BY <3>1, <3>4 DEF IInv, Asking, Excused
        <3>6. CASE T' = T
            BY <3>1, <3>2, <3>3, <3>4, <3>5, <3>6 DEF ReadsOracle!oracleVars
        <3>7. CASE T' # T
            BY <3>1, <3>2, <3>4, <3>5, <3>7 DEF ReadsOracle!Next, ReadsOracle!World
        <3>8. QED BY <3>6, <3>7
    <2>5. CASE UNCHANGED vars
        BY <2>1, <2>5 DEF vars, readVars, Excused, ReadsOracle!oracleVars
    <2>6. QED BY <2>2, <2>3, <2>4, <2>5 DEF Next
<1>3. QED
    BY <1>1, <1>2, Invariant, PTL DEF Spec, ImplementsOracle, ReadsOracle!Spec

=============================================================================
