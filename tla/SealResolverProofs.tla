------------------------- MODULE SealResolverProofs -------------------------
(***************************************************************************)
(* A seal is reported closed by one transaction only, and stays closed,    *)
(* for every set of seals and closers and every chain whose                *)
(* reorganisations are shallower than the seals' confirmation policies.    *)
(*                                                                         *)
(* SingleUse is not inductive.  What is: every transaction a running call  *)
(* has found deep enough, and every one an earlier call reported, is       *)
(* buried deeper than a reorganisation reaches (Buried), and a buried      *)
(* transaction stays buried under every step of the chain.  Only the type  *)
(* of the variables is proved without ShallowReorgs (Final).               *)
(***************************************************************************)
EXTENDS SealResolver, BtqChainProofs

\* No reorganisation disconnects as many blocks as a seal asks confirmations.
ShallowReorgs == \A s \in Seals : MaxReorg < RequiredDepth(s)

Buried(t, confs, b) ==
    /\ t \in Closers
    /\ MaxReorg < confs /\ confs <= Confirmations(t)
    /\ b # NoBlock => OnActiveChain(b) /\ minedAt[t] = b.height

\* What a closer on its way to ClosedValid, or past it, is.
Final(t, confs, b) == t \in Closers /\ (ShallowReorgs => Buried(t, confs, b))

IInv ==
    /\ TypeOK
    /\ Ledger
    /\ pc = "gettransaction" => Final(spending.txid, spending.confs, NoBlock)
    /\ pc = "gettxoutproof" => Final(spending.txid, spending.confs, block)
    /\ \A a \in closed : Final(a.txid, a.confs, a.block)

-----------------------------------------------------------------------------
(* What the chain does not take back. *)

\* A transaction deeper than any reorganisation keeps its block.
LEMMA BuriedKept ==
    ASSUME NEW t, NEW confs \in Nat, NEW b, b # NoBlock => b \in Block,
           ChainTypeOK, Ledger, Buried(t, confs, b), ChainNext
    PROVE  Buried(t, confs, b)'
<1> USE ChainAssumption DEF ChainTypeOK, Tx, Heights, Block, Ledger, Buried, Confirmations, Mined,
                            OnActiveChain, BlockAt
<1>1. t \in Tx /\ minedAt[t] \in 1..height /\ confs <= height - minedAt[t] + 1
    OBVIOUS
<1>2. CASE \E u \in Tx : Relay(u)
    BY <1>1, <1>2 DEF Relay
<1>3. CASE \E txs \in SUBSET Tx : Extend(txs)
    BY <1>1, <1>3 DEF Extend
<1>4. CASE \E depth \in 1..MaxReorg : Reorg(depth)
    <2>1. PICK depth \in 1..MaxReorg : Reorg(depth)
        BY <1>4
    <2>2. depth \in Nat /\ depth < confs
        BY <2>1
    <2>3. minedAt[t] <= height - depth
        BY <1>1, <2>2
    <2>4. minedAt'[t] = minedAt[t] /\ height' = height + 1
        BY <1>1, <2>1, <2>3 DEF Reorg
    <2>5. ASSUME NEW h \in 1..minedAt[t]
          PROVE  branch'[h] = branch[h]
        <3>1. h \in Heights
            BY <1>1
        <3>2. h \notin (height - depth + 1)..(height + 1)
            BY <1>1, <2>2, <2>3
        <3>3. QED
            BY ONLY <2>1, <3>1, <3>2 DEF Reorg
    <2>6. QED
        BY <1>1, <2>4, <2>5
<1>5. QED BY <1>2, <1>3, <1>4 DEF ChainNext

\* So does a final one, whatever the depth of reorganisations.
LEMMA FinalKept ==
    ASSUME NEW t, NEW confs \in Nat, NEW b, b # NoBlock => b \in Block,
           ChainTypeOK, Ledger, Final(t, confs, b), ChainNext
    PROVE  Final(t, confs, b)'
BY BuriedKept DEF Final, ShallowReorgs, RequiredDepth

-----------------------------------------------------------------------------
(* The resolver. *)

\* The answers the resolver builds are answers.
LEMMA StateTyped ==
    ASSUME NEW k \in Kinds, NEW t \in Tx \cup {NoTx}, NEW n \in 0..MaxHeight,
           NEW b \in Block \cup {NoBlock}
    PROVE  State(k, t, n, b) \in Answer
BY DEF State, Answer

\* ... also those that name no transaction.
LEMMA BareTyped ==
    ASSUME NEW k \in Kinds
    PROVE  Bare(k) \in Answer
BY StateTyped, ChainAssumption DEF Bare

\* What is true of a seal is a set of answers.
LEMMA VerdictTyped ==
    ASSUME ChainTypeOK, Ledger, NEW s
    PROVE  Verdict(s) \in SUBSET Answer
<1> DEFINE buried == {c \in MinedClosers : Confirmations(c) >= RequiredDepth(s)}
<1>1. /\ LiveClosers \subseteq Tx
      /\ MinedClosers \subseteq Tx
      /\ buried \subseteq MinedClosers
    BY DEF Tx, LiveClosers, MinedClosers
<1>2. \A c \in Tx : Confirmations(c) \in 0..MaxHeight
    BY ConfirmationsTyped
<1>3. \A c \in MinedClosers : minedAt[c] \in Heights
    BY ChainAssumption DEF ChainTypeOK, MinedClosers, Mined, Heights, Tx
<1>4. \A c \in MinedClosers : BlockAt(minedAt[c]) \in Block
    BY <1>3, BlockTyped
<1>5. Bare("OpenUnspent") \in Answer
    BY BareTyped DEF Kinds
<1>6. \A c \in LiveClosers : State("ClosedInvalid", c, 0, NoBlock) \in Answer
    BY <1>1, ChainAssumption, StateTyped DEF Kinds
<1>7. \A c \in Closers : State("Unconfirmed", c, 0, NoBlock) \in Answer
    BY ChainAssumption, StateTyped DEF Kinds, Tx
<1>8. \A c \in MinedClosers : /\ State("ReorgRisk", c, Confirmations(c), NoBlock) \in Answer
                              /\ State("ClosedValid", c, Confirmations(c), NoBlock) \in Answer
    BY <1>1, <1>2, StateTyped DEF Kinds
<1>9. \A c \in MinedClosers :
          State("ClosedValid", c, Confirmations(c), BlockAt(minedAt[c])) \in Answer
    BY <1>1, <1>2, <1>4, StateTyped DEF Kinds
<1>10. QED
    BY <1>1, <1>5, <1>6, <1>7, <1>8, <1>9 DEF Verdict

\* VerdictTyped for the seal being resolved, in the form a next state needs.
LEMMA SealVerdictTyped == ChainTypeOK /\ Ledger => Verdict(seal) \in SUBSET Answer
BY VerdictTyped

\* IInv holds before the first call.
LEMMA InitInv == Init => IInv
<1> SUFFICES ASSUME Init PROVE IInv
    OBVIOUS
<1>1. ChainTypeOK /\ Ledger
    BY ChainAssumption DEF Init, ChainInit, ChainTypeOK, Ledger, Consistent, Tx, Heights
<1>2. Pending \in Answer
    BY BareTyped DEF Pending, Kinds
<1>3. spending \in [txid : Tx \cup {NoTx}, confs : 0..MaxHeight]
    BY ChainAssumption DEF Init
<1>4. TypeOK
    BY <1>1, <1>2, <1>3 DEF Init, TypeOK, Leaves
<1>5. QED
    BY <1>1, <1>4 DEF Init, IInv

\* A step of the resolver leaves the chain alone, and with it what is final.
LEMMA FinalFrame ==
    ASSUME NEW t, NEW n, NEW b, UNCHANGED chainVars, Final(t, n, b)
    PROVE  Final(t, n, b)'
BY DEF chainVars, ShallowReorgs, RequiredDepth, Final, Buried, Confirmations, Mined, OnActiveChain, BlockAt

\* ... nor does it disturb the earlier answers.
LEMMA FrameInv ==
    ASSUME IInv, UNCHANGED chainVars
    PROVE  /\ ChainTypeOK' /\ Ledger'
           /\ \A a \in closed : Final(a.txid, a.confs, a.block)'
<1>1. ChainTypeOK' /\ Ledger'
    BY DEF IInv, TypeOK, chainVars, ChainTypeOK, Ledger
<1>2. \A a \in closed : Final(a.txid, a.confs, a.block)'
    BY FinalFrame DEF IInv
<1>3. QED BY <1>1, <1>2

\* resolve starts; its check of the chain answers Unknown at most.
LEMMA ResolveInv ==
    ASSUME IInv, NEW s \in Seals, NEW l \in Leaves, Resolve(s, l)
    PROVE  IInv'
<1> USE DEF Resolve
<1>1. Unknown \in Answer /\ Pending \in Answer
    BY BareTyped DEF Unknown, Pending, Kinds
<1>2. Verdict(s) \in SUBSET Answer
    BY VerdictTyped DEF IInv, TypeOK
<1>3. TypeOK'
    <2>1. spending' \in [txid : Tx \cup {NoTx}, confs : 0..MaxHeight]
        BY ChainAssumption
    <2>2. pc' \in Calls \cup {"idle"} /\ answer' \in Answer
        BY <1>1 DEF Calls
    <2>3. QED
        BY <1>2, <2>1, <2>2, FrameInv DEF IInv, TypeOK
<1>4. (\A a \in closed : Final(a.txid, a.confs, a.block))'
    BY FrameInv
<1>5. QED
    BY <1>3, <1>4, FrameInv DEF IInv

\* get_output commits the resolver to no closer.
LEMMA GetOutputInv ==
    ASSUME IInv, GetOutput
    PROVE  IInv'
<1> USE DEF GetOutput
<1>1. Unknown \in Answer /\ Err \in Answer /\ Bare("OpenUnspent") \in Answer
    BY BareTyped DEF Unknown, Err, Kinds
<1>2. /\ pc' \in {"idle", "get_spending_tx"}
      /\ answer' \in Answer
      /\ closed' = closed
    BY <1>1 DEF BackendError, Reply, Continue, IInv, TypeOK, Unknown, Err, Bare, State
<1>3. TypeOK'
    BY <1>2, FrameInv DEF IInv, TypeOK, Calls, BackendError
<1>4. (\A a \in closed : Final(a.txid, a.confs, a.block))'
    BY <1>2, FrameInv
<1>5. QED
    BY <1>2, <1>3, <1>4, FrameInv DEF IInv

\* The finality check lets only buried closers through.
LEMMA GetSpendingTxInv ==
    ASSUME IInv, GetSpendingTx
    PROVE  IInv'
<1> USE DEF GetSpendingTx
<1>1. Unknown \in Answer /\ Err \in Answer
    BY BareTyped DEF Unknown, Err, Kinds
<1>2. CASE BackendError \/ (Reply(Unknown) /\ UNCHANGED <<spending, block>>)
    <2>1. /\ pc' = "idle" /\ answer' \in Answer /\ closed' = closed
          /\ UNCHANGED <<spending, block>>
        BY <1>1, <1>2 DEF BackendError, Reply, Unknown, Err, Bare, State
    <2>2. TypeOK'
        BY <2>1, FrameInv DEF IInv, TypeOK, Calls
    <2>3. QED
        BY <2>1, <2>2, FrameInv DEF IInv
<1>3. ASSUME NEW c \in LiveClosers,
             spending' = [txid |-> c, confs |-> TxStatus(c)],
             ResolveClose(c, TxStatus(c)),
             UNCHANGED block
      PROVE  IInv'
    <2>1. c \in Closers /\ c \in Tx /\ TxStatus(c) \in 0..MaxHeight
        BY <1>3, ConfirmationsTyped DEF LiveClosers, Tx, TxStatus, IInv, TypeOK
    <2>2. /\ State("ClosedInvalid", c, 0, NoBlock) \in Answer
          /\ State("Unconfirmed", c, 0, NoBlock) \in Answer
          /\ State("ReorgRisk", c, TxStatus(c), NoBlock) \in Answer
        BY <2>1, StateTyped, ChainAssumption DEF Kinds
    <2>3. /\ pc' \in {"idle", "gettransaction"}
          /\ answer' \in Answer
          /\ closed' = closed
        BY <1>3, <2>2 DEF ResolveClose, Reply, Continue, IInv, TypeOK, State
    <2>4. TypeOK'
        BY <1>3, <2>1, <2>3, FrameInv DEF IInv, TypeOK, Calls
    <2>5. pc' = "gettransaction" => Final(c, TxStatus(c), NoBlock)
        <3> SUFFICES ASSUME pc' = "gettransaction", ShallowReorgs
                     PROVE  Buried(c, TxStatus(c), NoBlock)
            BY <2>1 DEF Final
        <3>1. ReachedDepth(seal, TxStatus(c))
            BY <1>3 DEF ResolveClose, Reply
        <3>2. MaxReorg < TxStatus(c)
            <4>1. seal \in Seals /\ RequiredDepth(seal) \in Nat
                BY ResolverAssumption DEF IInv, TypeOK, RequiredDepth
            <4>2. QED BY <2>1, <3>1, <4>1, ChainAssumption DEF ShallowReorgs, ReachedDepth
        <3>3. QED BY <2>1, <3>2 DEF Buried, TxStatus
    <2>6. (pc = "gettransaction" => Final(spending.txid, spending.confs, NoBlock))'
        BY <1>3, <2>5 DEF TxStatus, Final, ShallowReorgs, RequiredDepth, Buried, Confirmations, Mined,
                          chainVars
    <2>7. QED
        BY <2>3, <2>4, <2>6, FrameInv DEF IInv
<1>4. CASE \E c \in LiveClosers :
              /\ spending' = [txid |-> c, confs |-> TxStatus(c)]
              /\ ResolveClose(c, TxStatus(c))
              /\ UNCHANGED block
    BY <1>3, <1>4
<1>5. QED BY <1>2, <1>4

\* The wallet names the block the buried closer is in, or none.
LEMMA GetTransactionInv ==
    ASSUME IInv, GetTransaction
    PROVE  IInv'
<1> USE DEF GetTransaction
<1> DEFINE t == spending.txid
<1>1. t \in Tx /\ Final(t, spending.confs, NoBlock)
    BY DEF IInv, Final, Tx
<1>2. block' \in Block \cup {NoBlock}
    BY <1>1, BlockTyped, ChainAssumption DEF IInv, TypeOK, ChainTypeOK, Heights
<1>3. block' # NoBlock => OnActiveChain(block') /\ minedAt[t] = block'.height
    BY <1>1 DEF IInv, Ledger, OnActiveChain, BlockAt
<1>4. Final(t, spending.confs, block')
    BY <1>1, <1>3 DEF Final, Buried
<1>5. TypeOK'
    BY <1>2, FrameInv DEF IInv, TypeOK, Calls, Continue
<1>6. (pc = "gettxoutproof" => Final(spending.txid, spending.confs, block))'
    <2>1. Final(t, spending.confs, block') /\ UNCHANGED <<chainVars, spending>>
        BY <1>4
    <2>2. \A u, n, b : Final(u, n, b) => Final(u, n, b)'
        BY <2>1, FinalFrame
    <2>3. QED
        BY <2>1, <2>2 DEF Final, ShallowReorgs, RequiredDepth, Buried, Confirmations, Mined, OnActiveChain,
                          BlockAt, chainVars
<1>7. QED
    BY <1>5, <1>6, FrameInv DEF IInv, Continue

\* The answer ClosedValid is about the buried closer.
LEMMA GetTxOutProofInv ==
    ASSUME IInv, GetTxOutProof
    PROVE  IInv'
<1> USE DEF GetTxOutProof
<1> DEFINE a == State("ClosedValid", spending.txid, spending.confs, block)
<1>1. Unknown \in Answer
    BY BareTyped DEF Unknown, Kinds
<1>2. a \in Answer
    BY StateTyped DEF IInv, TypeOK, Kinds
<1>3. pc' = "idle" /\ answer' \in Answer /\ closed' \in SUBSET (closed \cup {a})
    <2>1. CASE InclusionFailed
        BY <1>1, <2>1 DEF InclusionFailed, Reply, Unknown, Bare, State
    <2>2. CASE Reply(a)
        BY <1>2, <2>2 DEF Reply
    <2>3. QED BY <2>1, <2>2
<1>4. TypeOK'
    BY <1>2, <1>3, FrameInv DEF IInv, TypeOK, Calls
<1>5. \A x \in closed \cup {a} : Final(x.txid, x.confs, x.block)
    BY DEF IInv, State
<1>6. (\A x \in closed : Final(x.txid, x.confs, x.block))'
    BY <1>3, <1>5, FinalFrame
<1>7. QED
    BY <1>3, <1>4, <1>6, FrameInv DEF IInv

\* A step of the chain, whatever call of the resolver it falls between.
LEMMA ChainStepInv ==
    ASSUME IInv, ChainStep
    PROVE  IInv'
<1> USE DEF ChainStep
<1>1. ChainTypeOK' /\ Ledger'
    BY ChainTyped, LedgerKept DEF IInv, TypeOK
<1>2. Verdict(seal)' \in SUBSET Answer
    <2>1. (ChainTypeOK /\ Ledger => Verdict(seal) \in SUBSET Answer)'
        BY SealVerdictTyped, PTL
    <2>2. QED BY <1>1, <2>1
<1>3. TypeOK'
    BY <1>1, <1>2 DEF IInv, TypeOK
<1>4. ASSUME NEW t, NEW n \in Nat, NEW b \in Block \cup {NoBlock}, Final(t, n, b)
      PROVE  Final(t, n, b)'
    BY <1>4, FinalKept DEF IInv, TypeOK
<1>5. (pc = "gettransaction" => Final(spending.txid, spending.confs, NoBlock))'
    BY <1>4, ChainAssumption DEF IInv, TypeOK, Final, ShallowReorgs, RequiredDepth, Buried, Confirmations,
                                 Mined, OnActiveChain, BlockAt
<1>6. (pc = "gettxoutproof" => Final(spending.txid, spending.confs, block))'
    <2>1. /\ spending.confs \in Nat /\ block \in Block \cup {NoBlock}
          /\ UNCHANGED <<pc, spending, block>>
        BY ChainAssumption DEF IInv, TypeOK
    <2>2. PICK t, n, b : t = spending.txid /\ n = spending.confs /\ b = block
        OBVIOUS
    <2>3. t = spending'.txid /\ n = spending'.confs /\ b = block'
        BY <2>1, <2>2
    <2>4. pc' = "gettxoutproof" => Final(t, n, b)'
        BY <1>4, <2>1, <2>2 DEF IInv
    <2>5. QED
        BY <2>3, <2>4 DEF Final, ShallowReorgs, RequiredDepth, Buried, Confirmations, Mined,
                          OnActiveChain, BlockAt
<1>7. (\A a \in closed : Final(a.txid, a.confs, a.block))'
    <2> SUFFICES ASSUME NEW a \in closed
                 PROVE  Final(a.txid, a.confs, a.block)'
        BY DEF IInv, TypeOK
    <2>1. a.confs \in Nat /\ a.block \in Block \cup {NoBlock}
        BY DEF IInv, TypeOK, Answer
    <2>2. QED BY <1>4, <2>1 DEF IInv
<1>8. QED
    BY <1>1, <1>3, <1>5, <1>6, <1>7 DEF IInv

\* Stuttering changes nothing the invariant reads.
LEMMA IdleInv ==
    ASSUME IInv, UNCHANGED vars
    PROVE  IInv'
<1>1. UNCHANGED <<chainVars, pc, seal, leaf, spending, block, answer, closed, seen>>
    BY DEF vars, resolverVars
<1>2. TypeOK'
    BY <1>1, FrameInv DEF IInv, TypeOK
<1>3. /\ (pc = "gettransaction" => Final(spending.txid, spending.confs, NoBlock))'
      /\ (pc = "gettxoutproof" => Final(spending.txid, spending.confs, block))'
    BY <1>1 DEF IInv, chainVars, Final, ShallowReorgs, RequiredDepth, Buried, Confirmations, Mined, OnActiveChain, BlockAt
<1>4. (\A a \in closed : Final(a.txid, a.confs, a.block))'
    BY <1>1, FrameInv
<1>5. QED
    BY <1>1, <1>2, <1>3, <1>4, FrameInv DEF IInv

\* Every step keeps IInv.
LEMMA NextInv ==
    ASSUME IInv, [Next]_vars
    PROVE  IInv'
<1>1. CASE \E s \in Seals, l \in Leaves : Resolve(s, l)
    BY <1>1, ResolveInv
<1>2. CASE ResolverStep
    BY <1>2, GetOutputInv, GetSpendingTxInv, GetTransactionInv, GetTxOutProofInv DEF ResolverStep
<1>3. CASE UNCHANGED vars
    BY <1>3, IdleInv
<1>4. CASE ChainStep
    BY <1>4, ChainStepInv
<1>5. QED BY <1>1, <1>2, <1>3, <1>4 DEF Next

\* The inductive invariant holds of every behaviour.
THEOREM Invariant == Spec => []IInv
<1>1. Init => IInv
    BY InitInv
<1>2. IInv /\ [Next]_vars => IInv'
    BY NextInv
<1>3. QED
    BY <1>1, <1>2, PTL DEF Spec

\* TypeOK: the values of the chain and of the resolver stay in their types.
THEOREM TypeCorrect == Spec => []TypeOK
<1>1. IInv => TypeOK
    BY DEF IInv
<1>2. QED
    BY <1>1, Invariant, PTL

\* SealResolver::resolve never reports two closing transactions for one
\* output: two buried transactions are both mined, and only one spend is.
THEOREM SealIsSingleUse ==
    ASSUME ShallowReorgs
    PROVE  Spec => []SingleUse
<1>1. IInv => SingleUse
    <2> SUFFICES ASSUME IInv, NEW a \in closed, NEW b \in closed
                 PROVE  a.txid = b.txid
        BY DEF SingleUse
    <2>1. \A x \in closed : Mined(x.txid)
        BY ChainAssumption DEF IInv, TypeOK, Answer, Final, Buried, Confirmations
    <2>2. a.txid \in Closers /\ b.txid \in Closers
        BY DEF IInv, Final
    <2>3. QED
        BY <2>1, <2>2 DEF IInv, Ledger, Consistent, Mined
<1>2. QED
    BY <1>1, Invariant, PTL

\* What a ClosedValid answer said of the chain remains true of it.
THEOREM ClosedAnswersStayTrue ==
    ASSUME ShallowReorgs
    PROVE  Spec => []ClosedStaysBuried
<1>1. IInv => ClosedStaysBuried
    BY ChainAssumption, ConfirmationsTyped
       DEF IInv, TypeOK, Answer, Tx, Final, Buried, ClosedStaysBuried
<1>2. QED
    BY <1>1, Invariant, PTL

-----------------------------------------------------------------------------
(* The answers that do not say closed, and the oracle.                     *)

\* Between its first call and its answer, a resolve has seen all that is true
\* of its seal now; an answer of the four kinds stays among what it saw.
HeldInv == (pc # "idle" => Verdict(seal) \subseteq seen) /\ PendingAnswersHeld

\* What get_spending_tx's answer yields without a further call is true of the seal.
LEMMA CloserVerdicts ==
    ASSUME ChainTypeOK, Ledger, NEW s, NEW c \in LiveClosers
    PROVE  /\ State("ClosedInvalid", c, 0, NoBlock) \in Verdict(s)
           /\ TxStatus(c) = 0 => State("Unconfirmed", c, 0, NoBlock) \in Verdict(s)
           /\ TxStatus(c) # 0 /\ ~ReachedDepth(s, TxStatus(c))
                => State("ReorgRisk", c, TxStatus(c), NoBlock) \in Verdict(s)
<1>1. c \in Closers /\ c \in Tx /\ Live(c)
    BY DEF LiveClosers, Tx
<1>2. TxStatus(c) = 0 => c \in mempool
    BY <1>1, ChainAssumption DEF TxStatus, Confirmations, Live, Mined, ChainTypeOK, Ledger
<1>3. TxStatus(c) # 0 => c \in MinedClosers
    BY <1>1 DEF TxStatus, Confirmations, MinedClosers
<1>4. State("ClosedInvalid", c, 0, NoBlock) \in Verdict(s)
    BY DEF Verdict
<1>5. TxStatus(c) = 0 => State("Unconfirmed", c, 0, NoBlock) \in Verdict(s)
    BY <1>1, <1>2 DEF Verdict
<1>6. TxStatus(c) # 0 /\ ~ReachedDepth(s, TxStatus(c))
        => State("ReorgRisk", c, TxStatus(c), NoBlock) \in Verdict(s)
    BY <1>3 DEF Verdict, TxStatus, ReachedDepth
<1>7. QED BY <1>4, <1>5, <1>6

\* A step of the resolver leaves what is true of a seal alone.
LEMMA VerdictFrame ==
    ASSUME UNCHANGED <<chainVars, seal>>
    PROVE  Verdict(seal)' = Verdict(seal)
BY DEF chainVars, Verdict, MinedClosers, LiveClosers, Live, Mined, Confirmations, RequiredDepth,
       BlockAt, State, Bare

\* Every step keeps HeldInv, reorganisations of any depth included.
LEMMA HeldKept ==
    ASSUME IInv, HeldInv, [Next]_vars
    PROVE  HeldInv'
<1> USE DEF HeldInv, PendingAnswersHeld
<1>1. ASSUME NEW s \in Seals, NEW l \in Leaves, Resolve(s, l)
      PROVE  HeldInv'
    <2>1. seal' = s /\ seen' = Verdict(s) /\ UNCHANGED chainVars
        BY <1>1 DEF Resolve
    <2>2. Verdict(seal)' = Verdict(s)
        BY <2>1 DEF chainVars, Verdict, MinedClosers, LiveClosers, Live, Mined, Confirmations,
                    RequiredDepth, BlockAt, State, Bare
    <2>3. answer'.kind \in {"Pending", "Unknown"}
        BY <1>1 DEF Resolve, Pending, Unknown, Bare, State
    <2>4. QED BY <2>1, <2>2, <2>3
<1>2. CASE GetOutput
    <2>1. Verdict(seal)' = Verdict(seal) /\ seen' = seen /\ pc # "idle"
        BY <1>2, VerdictFrame DEF GetOutput
    <2>2. Live(Fund) /\ MinedClosers = {} => Bare("OpenUnspent") \in Verdict(seal)
        BY DEF Verdict
    <2>3. \/ answer' = answer
          \/ answer'.kind \in {"Unknown", "Err"}
          \/ answer' \in Verdict(seal)
        BY <1>2, <2>2 DEF GetOutput, BackendError, Reply, Continue, Unknown, Err, Bare, State
    <2>4. QED BY <2>1, <2>3
<1>3. CASE GetSpendingTx
    <2>1. Verdict(seal)' = Verdict(seal) /\ seen' = seen /\ pc # "idle"
        BY <1>3, VerdictFrame DEF GetSpendingTx
    <2>2. ASSUME NEW c \in LiveClosers, ResolveClose(c, TxStatus(c))
          PROVE  answer' = answer \/ answer' \in Verdict(seal)
        BY <2>2, CloserVerdicts DEF ResolveClose, Reply, Continue, IInv, TypeOK
    <2>3. \/ answer' = answer
          \/ answer'.kind \in {"Unknown", "Err"}
          \/ answer' \in Verdict(seal)
        BY <1>3, <2>2 DEF GetSpendingTx, BackendError, Reply, Unknown, Err, Bare, State
    <2>4. QED BY <2>1, <2>3
<1>4. CASE GetTransaction
    <2>1. /\ Verdict(seal)' = Verdict(seal) /\ seen' = seen /\ pc # "idle"
          /\ answer' = answer
        BY <1>4, VerdictFrame DEF GetTransaction, Continue
    <2>2. QED BY <2>1
<1>5. CASE GetTxOutProof
    <2>1. pc' = "idle" /\ seen' = seen /\ answer'.kind \in {"Unknown", "ClosedValid"}
        BY <1>5 DEF GetTxOutProof, InclusionFailed, Reply, Unknown, Bare, State
    <2>2. QED BY <2>1
<1>6. CASE ChainStep
    <2>1. /\ UNCHANGED <<pc, seal, answer>>
          /\ seen' = IF pc = "idle" THEN seen ELSE seen \cup Verdict(seal)'
        BY <1>6 DEF ChainStep
    <2>2. QED BY <2>1
<1>7. CASE UNCHANGED vars
    <2>1. UNCHANGED <<chainVars, pc, seal, answer, seen>>
        BY <1>7 DEF vars, resolverVars
    <2>2. Verdict(seal)' = Verdict(seal)
        BY <2>1, VerdictFrame
    <2>3. QED BY <2>1, <2>2
<1>8. QED
    BY <1>1, <1>2, <1>3, <1>4, <1>5, <1>6, <1>7 DEF Next, ResolverStep

\* An answer OpenUnspent, Unconfirmed, ReorgRisk or ClosedInvalid was true of
\* the seal at one instant of the call, however deep the chain reorganised
\* under its calls.
THEOREM PendingAnswersWereTrue == Spec => []PendingAnswersHeld
<1>1. Init => HeldInv
    BY DEF Init, HeldInv, PendingAnswersHeld, Pending, Bare, State
<1>2. IInv /\ HeldInv /\ [Next]_vars => HeldInv'
    BY HeldKept
<1>3. HeldInv => PendingAnswersHeld
    BY DEF HeldInv
<1>4. QED
    BY <1>1, <1>2, <1>3, Invariant, PTL DEF Spec

\* On its way to ClosedValid, a resolve has seen the seal closed so, with any
\* block the wallet can still name, and then with the one it named.
ProvenInv ==
    LET t == spending.txid
    IN  /\ pc = "gettransaction" =>
              /\ State("ClosedValid", t, spending.confs, NoBlock) \in seen
              /\ State("ClosedValid", t, spending.confs, BlockAt(minedAt[t])) \in seen
        /\ pc = "gettxoutproof" => State("ClosedValid", t, spending.confs, block) \in seen

\* A buried transaction keeps its block.
LEMMA BlockKept ==
    ASSUME NEW t, NEW n \in Nat, ChainTypeOK, Ledger, Buried(t, n, NoBlock), ChainNext
    PROVE  BlockAt(minedAt[t])' = BlockAt(minedAt[t])
<1>1. t \in Tx /\ minedAt[t] \in Heights
    BY ChainAssumption DEF Buried, Confirmations, Mined, ChainTypeOK, Ledger, Heights, Tx
<1>2. PICK b : b = BlockAt(minedAt[t])
    OBVIOUS
<1>3. b \in Block /\ b # NoBlock
    BY <1>1, <1>2, BlockTyped, ResolverAssumption
<1>4. Buried(t, n, b)
    BY <1>1, <1>2 DEF Buried, OnActiveChain, BlockAt, Ledger
<1>5. Buried(t, n, b)'
    BY <1>3, <1>4, BuriedKept
<1>6. b = BlockAt(b.height)' /\ minedAt'[t] = b.height
    BY <1>3, <1>5 DEF Buried, OnActiveChain, BlockAt
<1>7. QED BY <1>2, <1>6 DEF BlockAt

\* Every step keeps ProvenInv while reorganisations are shallow.
LEMMA ProvenKept ==
    ASSUME ShallowReorgs, IInv, HeldInv, ProvenInv, [Next]_vars
    PROVE  ProvenInv'
<1>1. CASE \E s \in Seals, l \in Leaves : Resolve(s, l)
    BY <1>1 DEF Resolve, ProvenInv
<1>2. CASE GetOutput
    <2>1. pc' \in {"idle", "get_spending_tx"}
        BY <1>2 DEF GetOutput, BackendError, Reply, Continue
    <2>2. QED BY <2>1 DEF ProvenInv
<1>3. CASE GetSpendingTx
    <2>1. pc' \in {"idle", "gettransaction"}
        BY <1>3 DEF GetSpendingTx, BackendError, Reply, ResolveClose, Continue
    <2> SUFFICES ASSUME pc' = "gettransaction"
                 PROVE  /\ State("ClosedValid", spending.txid, spending.confs, NoBlock)' \in seen'
                        /\ State("ClosedValid", spending.txid, spending.confs,
                                 BlockAt(minedAt[spending.txid]))' \in seen'
        BY <2>1 DEF ProvenInv
    <2>2. PICK c \in LiveClosers : /\ spending' = [txid |-> c, confs |-> TxStatus(c)]
                                   /\ ResolveClose(c, TxStatus(c))
        BY <1>3 DEF GetSpendingTx, BackendError, Reply
    <2>3. ReachedDepth(seal, TxStatus(c)) /\ TxStatus(c) # 0
        BY <2>2 DEF ResolveClose, Reply
    <2>4. c \in MinedClosers /\ Confirmations(c) >= RequiredDepth(seal)
        BY <2>3 DEF TxStatus, Confirmations, ReachedDepth, LiveClosers, MinedClosers
    <2>5. /\ State("ClosedValid", c, TxStatus(c), NoBlock) \in Verdict(seal)
          /\ State("ClosedValid", c, TxStatus(c), BlockAt(minedAt[c])) \in Verdict(seal)
        BY <2>4 DEF Verdict, TxStatus
    <2>6. Verdict(seal) \subseteq seen /\ seen' = seen /\ UNCHANGED chainVars
        BY <1>3 DEF HeldInv, GetSpendingTx
    <2>7. QED
        BY <2>2, <2>5, <2>6 DEF State, BlockAt, chainVars
<1>4. CASE GetTransaction
    <2>1. /\ pc = "gettransaction" /\ pc' = "gettxoutproof"
          /\ UNCHANGED <<spending, seen>>
          /\ block' \in {NoBlock, BlockAt(minedAt[spending.txid])}
        BY <1>4 DEF GetTransaction, Continue
    <2>2. QED BY <2>1 DEF ProvenInv, State
<1>5. CASE GetTxOutProof
    <2>1. pc' = "idle"
        BY <1>5 DEF GetTxOutProof, InclusionFailed, Reply
    <2>2. QED BY <2>1 DEF ProvenInv
<1>6. CASE ChainStep
    <2>1. UNCHANGED <<pc, spending, block>> /\ seen \subseteq seen' /\ ChainNext
        BY <1>6 DEF ChainStep
    <2>2. pc = "gettransaction" =>
              BlockAt(minedAt[spending.txid])' = BlockAt(minedAt[spending.txid])
        <3> SUFFICES ASSUME pc = "gettransaction"
                     PROVE  BlockAt(minedAt[spending.txid])' = BlockAt(minedAt[spending.txid])
            OBVIOUS
        <3>1. PICK t, n : t = spending.txid /\ n = spending.confs
            OBVIOUS
        <3>2. Buried(t, n, NoBlock) /\ n \in Nat
            BY <3>1, ChainAssumption DEF IInv, Final, TypeOK
        <3>3. BlockAt(minedAt[t])' = BlockAt(minedAt[t])
            BY <2>1, <3>2, BlockKept DEF IInv, TypeOK
        <3>4. QED BY <2>1, <3>1, <3>3 DEF BlockAt
    <2>3. QED BY <2>1, <2>2 DEF ProvenInv, State
<1>7. CASE UNCHANGED vars
    BY <1>7 DEF vars, resolverVars, chainVars, ProvenInv, State, BlockAt
<1>8. QED
    BY <1>1, <1>2, <1>3, <1>4, <1>5, <1>6, <1>7 DEF Next, ResolverStep

\* An answer of the resolver is true of the seal at one instant of the call,
\* or commits it to nothing.
LEMMA ResolverAnswers ==
    ASSUME IInv, HeldInv, ProvenInv, ResolverStep
    PROVE  /\ UNCHANGED <<chainVars, seal, seen>> /\ pc # "idle"
           /\ \/ pc' # "idle" /\ answer' = answer
              \/ pc' = "idle" /\ answer' \in seen \cup {Pending, Unknown, Err}
<1>1. UNCHANGED <<chainVars, seal, seen>> /\ pc # "idle"
    BY DEF ResolverStep, GetOutput, GetSpendingTx, GetTransaction, GetTxOutProof
<1>2. Verdict(seal) \subseteq seen
    BY <1>1 DEF HeldInv
<1>3. CASE GetOutput
    <2>1. Live(Fund) /\ MinedClosers = {} => Bare("OpenUnspent") \in Verdict(seal)
        BY DEF Verdict
    <2>2. QED
        BY <1>1, <1>2, <1>3, <2>1 DEF GetOutput, BackendError, Reply, Continue
<1>4. CASE GetSpendingTx
    <2>1. ASSUME NEW c \in LiveClosers, ResolveClose(c, TxStatus(c))
          PROVE  \/ pc' # "idle" /\ answer' = answer
                 \/ pc' = "idle" /\ answer' \in Verdict(seal)
        BY <2>1, CloserVerdicts DEF ResolveClose, Reply, Continue, IInv, TypeOK
    <2>2. QED
        BY <1>1, <1>2, <1>4, <2>1 DEF GetSpendingTx, BackendError, Reply
<1>5. CASE GetTransaction
    BY <1>1, <1>5 DEF GetTransaction, Continue
<1>6. CASE GetTxOutProof
    BY <1>1, <1>6 DEF GetTxOutProof, InclusionFailed, Reply, ProvenInv
<1>7. QED BY <1>1, <1>3, <1>4, <1>5, <1>6 DEF ResolverStep

\* SealResolver::resolve implements the oracle: whatever moves between its
\* calls, each answer it commits to was true of the seal all at once.
THEOREM ResolverImplementsOracle ==
    ASSUME ShallowReorgs
    PROVE  Spec => ImplementsOracle
<1> DEFINE T == [s \in Seals |-> Verdict(s)]
           Q == IF pc = "idle" THEN NoTx ELSE seal
<1>1. Init => Oracle!Init /\ HeldInv /\ ProvenInv
    BY DEF Init, Oracle!Init, HeldInv, PendingAnswersHeld, ProvenInv, Pending, Bare, State
<1>2. IInv /\ HeldInv /\ ProvenInv /\ [Next]_vars => HeldInv' /\ ProvenInv'
    BY HeldKept, ProvenKept
<1>3. ASSUME IInv, HeldInv, ProvenInv, [Next]_vars
      PROVE  [Oracle!Next]_(Oracle!oracleVars)
    <2>1. UNCHANGED chainVars => UNCHANGED T
        BY DEF chainVars, Verdict, MinedClosers, LiveClosers, Live, Mined, Confirmations,
               RequiredDepth, BlockAt, State, Bare
    <2>2. seal \in Seals /\ NoTx \notin Seals
        BY <1>3, ResolverAssumption DEF IInv, TypeOK
    <2>3. ASSUME NEW s \in Seals, NEW l \in Leaves, Resolve(s, l)
          PROVE  Oracle!Next
        <3>1. pc = "idle" /\ seal' = s /\ seen' = T[s] /\ UNCHANGED T
            BY <2>1, <2>3 DEF Resolve
        <3>2. \/ pc' = "get_output" /\ answer' = Pending
              \/ pc' = "idle" /\ answer' = Unknown
            BY <2>3 DEF Resolve
        <3>3. CASE pc' = "get_output" /\ answer' = Pending
            BY <3>1, <3>3 DEF Oracle!Next, Oracle!Ask
        <3>4. CASE pc' = "idle" /\ answer' = Unknown
            BY <3>1, <3>4 DEF Oracle!Next, Oracle!Decline
        <3>5. QED BY <3>2, <3>3, <3>4
    <2>4. CASE ResolverStep
        <3>1. /\ UNCHANGED <<T, seal, seen>> /\ pc # "idle"
              /\ \/ pc' # "idle" /\ answer' = answer
                 \/ pc' = "idle" /\ answer' \in seen \cup {Pending, Unknown, Err}
            BY <1>3, <2>1, <2>4, ResolverAnswers
        <3>2. CASE pc' # "idle" /\ answer' = answer
            BY <3>1, <3>2 DEF Oracle!oracleVars
        <3>3. CASE pc' = "idle" /\ answer' \in seen \cup {Pending, Unknown, Err}
            BY <2>2, <3>1, <3>3 DEF Oracle!Next, Oracle!Answer
        <3>4. QED BY <3>1, <3>2, <3>3
    <2>5. CASE ChainStep
        <3>1. UNCHANGED <<pc, seal, answer>>
            BY <2>5 DEF ChainStep
        <3>2. /\ pc # "idle" => T[seal] \subseteq seen /\ seen' = seen \cup T'[seal]
              /\ pc = "idle" => seen' = seen
            BY <1>3, <2>2, <2>5 DEF ChainStep, HeldInv
        <3>3. CASE T' = T
            BY <2>2, <3>1, <3>2, <3>3 DEF Oracle!oracleVars
        <3>4. CASE T' # T
            BY <2>2, <3>1, <3>2, <3>4 DEF Oracle!Next, Oracle!World
        <3>5. QED BY <3>3, <3>4
    <2>6. CASE UNCHANGED vars
        BY <2>1, <2>6 DEF vars, resolverVars, Oracle!oracleVars
    <2>7. QED BY <1>3, <2>3, <2>4, <2>5, <2>6 DEF Next
<1>4. QED
    BY <1>1, <1>2, <1>3, Invariant, PTL DEF Spec, ImplementsOracle, Oracle!Spec

-----------------------------------------------------------------------------
(* The answers that say closed.                                            *)

\* A ClosedValid answer is what its own call saw.
ClosedSeen == answer.kind = "ClosedValid" => answer \in seen

\* A resolve replies with what it saw; what it saw is only added to, until
\* the next resolve drops the answer too.
LEMMA ClosedSeenKept ==
    ASSUME IInv, HeldInv, ProvenInv, ClosedSeen, [Next]_vars
    PROVE  ClosedSeen'
<1>1. CASE \E s \in Seals, l \in Leaves : Resolve(s, l)
    BY <1>1 DEF Resolve, ClosedSeen, Pending, Unknown, Bare, State
<1>2. CASE ResolverStep
    <2>1. seen' = seen /\ (answer' = answer \/ answer' \in seen \cup {Pending, Unknown, Err})
        BY <1>2, ResolverAnswers
    <2>2. QED BY <2>1 DEF ClosedSeen, Pending, Unknown, Err, Bare, State
<1>3. CASE ChainStep
    <2>1. answer' = answer /\ seen \subseteq seen'
        BY <1>3 DEF ChainStep
    <2>2. QED BY <2>1 DEF ClosedSeen
<1>4. CASE UNCHANGED vars
    BY <1>4 DEF vars, resolverVars, ClosedSeen
<1>5. QED BY <1>1, <1>2, <1>3, <1>4 DEF Next

\* While reorganisations are shallower than the policies, a ClosedValid answer
\* was true when its call saw it: the confirmations the answer counts and the
\* block it proves inclusion in belong to one chain.  A deeper reorganisation
\* between the calls of a resolve breaks this.
THEOREM ClosedAnswersWereFinal ==
    ASSUME ShallowReorgs
    PROVE  Spec => []ClosedValidWasFinal
<1>1. Init => HeldInv /\ ProvenInv /\ ClosedSeen
    BY DEF Init, HeldInv, PendingAnswersHeld, ProvenInv, ClosedSeen, Pending, Bare, State
<1>2. IInv /\ HeldInv /\ ProvenInv /\ ClosedSeen /\ [Next]_vars
        => HeldInv' /\ ProvenInv' /\ ClosedSeen'
    BY HeldKept, ProvenKept, ClosedSeenKept
<1>3. ClosedSeen => ClosedValidWasFinal
    BY DEF ClosedSeen, ClosedValidWasFinal
<1>4. QED
    BY <1>1, <1>2, <1>3, Invariant, PTL DEF Spec

=============================================================================
