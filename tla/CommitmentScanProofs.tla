------------------------ MODULE CommitmentScanProofs ------------------------
(***************************************************************************)
(* A commitment that is found is the only one, and the scanners agree, for *)
(* transactions of any number of outputs, any seals and any limits.        *)
(*                                                                         *)
(* The inductive invariant is the invariant of the scan's loop: hits holds *)
(* the counted commitments of the outputs passed, none of which broke a    *)
(* limit.  What an answer says of the transaction (Fits) then follows at   *)
(* the return, and holds from then on: a transaction under scan is built.  *)
(***************************************************************************)
EXTENDS CommitmentScan, TLAPS

\* The loop of a scan, after the outputs 1..scanned.
LoopInv ==
    phase = "scan" =>
        /\ hits = {i \in 1..scanned : Counts(outputs[i])}
        /\ \A i \in 1..scanned : ~BreaksLimit(i, outputs[i])

\* The limits of CommitmentPayload::scan itself.
WithinPayloadLimits ==
    /\ Len(outputs) <= Window
    /\ \A i \in DOMAIN outputs : outputs[i].size <= SpkLimit

\* What an answer tells of the transaction.
Fits(a) ==
    /\ a.scanner = "verify" =>
          /\ a.verdict = "Found" => WithinLimits /\ CommitsOnlyTo(a.seal)
          /\ a.verdict = "Duplicate" => ~CommitsOnlyTo(a.seal)
          /\ a.verdict \in {"Missing", "WrongChain", "WrongSeal"} =>
                \A i \in Commitments : outputs[i].bound # a.seal
    /\ a.scanner = "find" =>
          /\ CommitsOnlyTo(a.seal) => a.verdict = "Found"
          /\ a.verdict = "Found" => \E i \in Commitments : outputs[i].bound = a.seal
    /\ a.scanner = "payload" =>
          /\ WithinLimits /\ CommitsOnlyTo(a.seal) => a.verdict = "Found"
          /\ WithinPayloadLimits /\ a.verdict = "Found" => \E i \in Commitments : Commitments = {i}

ScanInv ==
    /\ ScanTypeOK
    /\ LoopInv
    /\ answers # {} => phase # "build"
    /\ \A a \in answers : Fits(a)

\* Every way out of a tally is a verdict.
LEMMA TallyTyped ==
    ASSUME NEW found
    PROVE  Tally(found) \in Verdicts
BY DEF Tally, Verdicts

\* The tally of all the outputs, none of which broke a limit, fits them.
LEMMA TallyOfAllFits ==
    ASSUME ScanTypeOK, LoopInv, phase = "scan", scanned = Len(outputs)
    PROVE  Fits([scanner |-> scanner, seal |-> seal, verdict |-> Tally(hits)])
<1> DEFINE a == [scanner |-> scanner, seal |-> seal, verdict |-> Tally(hits)]
<1>1. DOMAIN outputs = 1..Len(outputs) /\ \A i \in DOMAIN outputs : outputs[i] \in Output
    BY DEF ScanTypeOK
<1>2. /\ hits = {i \in DOMAIN outputs : Counts(outputs[i])}
      /\ \A i \in DOMAIN outputs : ~BreaksLimit(i, outputs[i])
    BY <1>1 DEF LoopInv
<1>3. CASE scanner = "verify"
    <2>1. hits = Commitments
        BY <1>2, <1>3 DEF Counts, Commitments
    <2>2. \A i \in DOMAIN outputs : i <= Window /\ outputs[i].size <= LeafLimit
        <3>1. \A i \in DOMAIN outputs : i \in Int /\ outputs[i].size \in Int
            <4>1. PlainSizes \cup {CommitmentSize} \subseteq Nat
                BY ScanAssumption
            <4>2. \A output \in Output : output.size \in Nat
                BY <4>1 DEF Output
            <4>3. QED BY <1>1, <4>2
        <3>2. \A i \in DOMAIN outputs : ~(i > Window \/ outputs[i].size > LeafLimit)
            BY <1>2, <1>3 DEF BreaksLimit
        <3>3. QED BY <3>1, <3>2, ScanAssumption
    <2>3. WithinLimits
        BY <1>1, <2>2, ScanAssumption DEF WithinLimits, ScanTypeOK
    <2>4. \A i \in Commitments : outputs[i].bound \in Seals
        BY <1>1 DEF Commitments, Output
    <2>5. seal \in Seals
        BY DEF ScanTypeOK
    <2>6. \A i \in Commitments :
             /\ outputs[i].bound.chain = seal.chain
             /\ outputs[i].bound.outpoint = seal.outpoint
             => outputs[i].bound = seal
        BY <2>4, <2>5, ScanAssumption
    <2>7. Commitments = {} => Tally(hits) = "Missing"
        BY <2>1 DEF Tally
    <2>8. ASSUME NEW i \in Commitments, NEW j \in Commitments, i # j
          PROVE  Tally(hits) = "Duplicate" /\ ~CommitsOnlyTo(seal)
        BY <2>1, <2>8 DEF Tally, CommitsOnlyTo
    <2>9. ASSUME NEW i \in Commitments, Commitments = {i}
          PROVE  /\ Tally(hits) = "Found" => outputs[i].bound = seal
                 /\ Tally(hits) # "Found" => outputs[i].bound # seal
                 /\ Tally(hits) # "Duplicate"
        BY <1>3, <2>1, <2>6, <2>9 DEF Tally
    <2>10. CASE Commitments = {}
        BY <1>3, <2>7, <2>10 DEF Fits
    <2>11. CASE \E i, j \in Commitments : i # j
        BY <1>3, <2>8, <2>11 DEF Fits
    <2>12. CASE \E i \in Commitments : Commitments = {i}
        BY <1>3, <2>3, <2>9, <2>12 DEF Fits, CommitsOnlyTo
    <2>13. QED BY <2>10, <2>11, <2>12
<1>4. CASE scanner = "find"
    <2>1. hits = {i \in Commitments : outputs[i].bound = seal}
        BY <1>2, <1>4 DEF Counts, Commitments
    <2>2. CommitsOnlyTo(seal) => \E i \in Commitments : hits = {i}
        BY <2>1 DEF CommitsOnlyTo
    <2>3. CommitsOnlyTo(seal) => Tally(hits) = "Found"
        BY <1>4, <2>2 DEF Tally
    <2>4. Tally(hits) = "Found" => \E i \in Commitments : outputs[i].bound = seal
        BY <2>1 DEF Tally
    <2>5. QED BY <1>4, <2>3, <2>4 DEF Fits
<1>5. CASE scanner = "payload"
    <2>1. hits = Commitments
        BY <1>2, <1>5 DEF Counts, Commitments
    <2>2. CommitsOnlyTo(seal) => Tally(hits) = "Found"
        BY <1>5, <2>1 DEF Tally, CommitsOnlyTo
    <2>3. Tally(hits) = "Found" => \E i \in Commitments : Commitments = {i}
        BY <2>1 DEF Tally
    <2>4. QED
        BY <1>5, <2>2, <2>3 DEF Fits
<1>6. QED BY <1>3, <1>4, <1>5 DEF ScanTypeOK, Scanners

\* An early stop fits too: "verify" accepts nothing, and "payload" stops only
\* at an output that breaks a limit of the transaction.
LEMMA EarlyStopFits ==
    ASSUME ScanTypeOK, LoopInv, phase = "scan", scanned < Len(outputs),
           BreaksLimit(scanned + 1, outputs[scanned + 1])
    PROVE  Fits([scanner |-> scanner, seal |-> seal,
                 verdict |-> IF scanner = "verify" THEN "DoS" ELSE Tally(hits)])
<1>1. /\ scanned + 1 \in DOMAIN outputs /\ scanned \in Nat /\ Len(outputs) \in Nat
      /\ outputs[scanned + 1] \in Output
    BY DEF ScanTypeOK
<1>2. CASE scanner = "verify"
    BY <1>2 DEF Fits
<1>3. CASE scanner = "payload"
    <2>1. outputs[scanned + 1].size \in Nat
        BY <1>1, ScanAssumption DEF Output
    <2>2. ~WithinLimits /\ ~WithinPayloadLimits
        BY <1>1, <1>3, <2>1, ScanAssumption DEF BreaksLimit, WithinLimits, WithinPayloadLimits
    <2>3. QED BY <1>3, <2>2 DEF Fits
<1>4. QED BY <1>2, <1>3 DEF BreaksLimit

\* A return keeps the invariant if its answer fits.
LEMMA ReturnKeeps ==
    ASSUME ScanInv, phase = "scan", NEW verdict \in Verdicts, Return(verdict),
           Fits([scanner |-> scanner, seal |-> seal, verdict |-> verdict])
    PROVE  ScanInv'
<1> DEFINE a == [scanner |-> scanner, seal |-> seal, verdict |-> verdict]
<1>1. ScanTypeOK' /\ LoopInv'
    BY DEF ScanInv, ScanTypeOK, Return, scanVars, LoopInv
<1>2. \A b \in answers' : Fits(b)
    BY DEF ScanInv, Return
<1>3. \A b : Fits(b)' = Fits(b)
    BY DEF Return, Fits, WithinLimits, WithinPayloadLimits, CommitsOnlyTo, Commitments
<1>4. QED BY <1>1, <1>2, <1>3 DEF ScanInv, Return

THEOREM ScanInvariant == Spec => []ScanInv
<1>1. Init => ScanInv
    BY DEF Init, ScanInv, ScanTypeOK, LoopInv
<1>2. ScanInv /\ [Next]_vars => ScanInv'
    <2> SUFFICES ASSUME ScanInv, [Next]_vars
                 PROVE  ScanInv'
        OBVIOUS
    <2>1. ASSUME NEW output \in Output, AddOutput(output)
          PROVE  ScanInv'
        <3>1. outputs' \in Seq(Output) /\ Len(outputs') = Len(outputs) + 1 /\ Len(outputs) \in Nat
            BY <2>1 DEF AddOutput, ScanInv, ScanTypeOK
        <3>2. ScanTypeOK'
            BY <2>1, <3>1 DEF AddOutput, ScanInv, ScanTypeOK, scanVars
        <3>3. QED
            BY <2>1, <3>2 DEF AddOutput, ScanInv, LoopInv
    <2>2. CASE \E size \in PlainSizes : Pay(size)
        <3>1. PICK size \in PlainSizes : AddOutput([size |-> size, bound |-> Unbound])
            BY <2>2 DEF Pay
        <3>2. [size |-> size, bound |-> Unbound] \in Output
            BY DEF Output
        <3>3. QED BY <2>1, <3>1, <3>2
    <2>3. CASE \E s \in Seals : AppendCommitment(s)
        <3>1. PICK s \in Seals : AddOutput([size |-> CommitmentSize, bound |-> s])
            BY <2>3 DEF AppendCommitment
        <3>2. [size |-> CommitmentSize, bound |-> s] \in Output
            BY DEF Output
        <3>3. QED BY <2>1, <3>1, <3>2
    <2>4. CASE \E by \in Scanners, s \in Seals : Scan(by, s)
        <3>1. ScanTypeOK' /\ LoopInv'
            BY <2>4 DEF Scan, ScanInv, ScanTypeOK, LoopInv
        <3>2. \A a : Fits(a)' = Fits(a)
            BY <2>4 DEF Scan, Fits, WithinLimits, WithinPayloadLimits, CommitsOnlyTo, Commitments
        <3>3. QED BY <2>4, <3>1, <3>2 DEF Scan, ScanInv
    <2>5. CASE Stop
        <3>1. (IF scanner = "verify" THEN "DoS" ELSE Tally(hits)) \in Verdicts
            BY TallyTyped DEF Verdicts
        <3>2. QED BY <2>5, <3>1, EarlyStopFits, ReturnKeeps DEF Stop, ScanInv
    <2>6. CASE TimeOut
        <3>1. "DoS" \in Verdicts /\ Fits([scanner |-> scanner, seal |-> seal, verdict |-> "DoS"])
            BY <2>6 DEF TimeOut, Verdicts, Fits
        <3>2. QED BY <2>6, <3>1, ReturnKeeps DEF TimeOut
    <2>7. CASE NextOutput
        <3>1. scanned' = scanned + 1 /\ scanned' \in 0..Len(outputs) /\ outputs' = outputs
            BY <2>7 DEF NextOutput, ScanInv, ScanTypeOK
        <3>2. 1..scanned' = (1..scanned) \cup {scanned + 1}
            BY <3>1 DEF ScanInv, ScanTypeOK
        <3>3. ScanTypeOK'
            BY <2>7, <3>1 DEF NextOutput, ScanInv, ScanTypeOK
        <3>4. LoopInv'
            BY <2>7, <3>1, <3>2 DEF NextOutput, ScanInv, LoopInv, Counts, BreaksLimit
        <3>5. \A a : Fits(a)' = Fits(a)
            BY <2>7 DEF NextOutput, Fits, WithinLimits, WithinPayloadLimits, CommitsOnlyTo, Commitments
        <3>6. QED BY <2>7, <3>3, <3>4, <3>5 DEF NextOutput, ScanInv
    <2>8. CASE Finish
        BY <2>8, TallyTyped, TallyOfAllFits, ReturnKeeps DEF Finish, ScanInv
    <2>9. CASE UNCHANGED vars
        <3>1. ScanTypeOK' /\ LoopInv'
            BY <2>9 DEF vars, scanVars, ScanInv, ScanTypeOK, LoopInv, Counts, BreaksLimit
        <3>2. \A a : Fits(a)' = Fits(a)
            BY <2>9 DEF vars, Fits, WithinLimits, WithinPayloadLimits, CommitsOnlyTo, Commitments
        <3>3. QED BY <2>9, <3>1, <3>2 DEF vars, scanVars, ScanInv
    <2>10. QED BY <2>2, <2>3, <2>4, <2>5, <2>6, <2>7, <2>8, <2>9 DEF Next
<1>3. QED BY <1>1, <1>2, PTL DEF Spec

\* Every variable keeps its type: a scan never passes the end of the outputs.
THEOREM ScanTyped == Spec => []ScanTypeOK
<1>1. ScanInv => ScanTypeOK
    BY DEF ScanInv
<1>2. QED BY <1>1, ScanInvariant, PTL

\* A commitment verify_commitment_in_outputs_bounded accepts is the only one
\* of the whole transaction, and bound to the seal.
THEOREM FoundIsTheOnlyOne == Spec => []FoundIsSole
<1>1. ScanInv => FoundIsSole
    BY DEF ScanInv, Fits, FoundIsSole
<1>2. QED BY <1>1, ScanInvariant, PTL

\* The closer's scanner and the resolver's disagree only over limits and
\* commitments to other seals.
THEOREM ScannersDoAgree == Spec => []ScannersAgree
<1>1. ScanInv => ScannersAgree
    <2> SUFFICES ASSUME ScanInv, NEW a \in answers, NEW b \in answers, a.seal = b.seal
                 PROVE  /\ a.scanner = "verify" /\ a.verdict = "Found" => b.verdict \in {"Found", "DoS"}
                        /\ a.scanner = "verify" /\ b.scanner = "find" /\ b.verdict = "Found" =>
                              \/ a.verdict \in {"Found", "DoS"}
                              \/ a.verdict = "Duplicate" /\ ~CommitsOnlyTo(a.seal)
        BY DEF ScannersAgree
    <2>1. Fits(a) /\ Fits(b)
        BY DEF ScanInv
    <2>2. /\ a.scanner \in Scanners /\ a.verdict \in Verdicts
          /\ b.scanner \in Scanners /\ b.verdict \in Verdicts
        BY DEF ScanInv, ScanTypeOK
    <2>3. ASSUME a.scanner = "verify", a.verdict = "Found"
          PROVE  b.verdict \in {"Found", "DoS"}
        <3>1. WithinLimits /\ CommitsOnlyTo(b.seal)
            BY <2>1, <2>3 DEF Fits
        <3>2. \E i \in Commitments : outputs[i].bound = b.seal
            BY <3>1 DEF CommitsOnlyTo
        <3>3. QED BY <2>1, <2>2, <3>1, <3>2 DEF Fits, Scanners, Verdicts
    <2>4. ASSUME a.scanner = "verify", b.scanner = "find", b.verdict = "Found"
          PROVE  \/ a.verdict \in {"Found", "DoS"}
                 \/ a.verdict = "Duplicate" /\ ~CommitsOnlyTo(a.seal)
        BY <2>1, <2>2, <2>4 DEF Fits, Verdicts
    <2>5. QED BY <2>3, <2>4
<1>2. QED BY <1>1, ScanInvariant, PTL

\* CommitmentPayload::scan reports one commitment in a transaction that carries
\* several only where an output beyond its limits ends its walk.
THEOREM PayloadRejectsDuplicates == Spec => [](WithinPayloadLimits => DuplicatesRejected)
<1>1. ScanInv => (WithinPayloadLimits => DuplicatesRejected)
    BY DEF ScanInv, Fits, DuplicatesRejected
<1>2. QED BY <1>1, ScanInvariant, PTL

=============================================================================
