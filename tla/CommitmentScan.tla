--------------------------- MODULE CommitmentScan ---------------------------
(***************************************************************************)
(* The opret commitment of a closing transaction: it is appended to the    *)
(* outputs (append_opret_commitment, crates/rgb-pq-tx/src/commit.rs) and   *)
(* looked for by three scanners that share neither code nor rules:         *)
(*                                                                         *)
(*   "verify"  verify_commitment_in_outputs_bounded (rgb-pq-resolver)      *)
(*   "payload" CommitmentPayload::scan (rgb-pq-commit)                     *)
(*   "find"    find_commitment_in_signed_tx (rgb-pq-tx)                    *)
(*                                                                         *)
(* Each scan walks the outputs one by one and may stop early.              *)
(***************************************************************************)
EXTENDS Integers, Sequences

CONSTANTS
    Seals,          \* [chain, outpoint] records, as a commitment binds them
    Unbound,        \* an output without a commitment that decodes
    PlainSizes,     \* the script sizes of such outputs
    CommitmentSize, \* the script size of an output with one
    Window,         \* max_scan_window, and MAX_SCAN
    LeafLimit,      \* max_commitment_leaf_size
    SpkLimit,       \* MAX_SPK
    MaxOutputs      \* bound: the outputs of a transaction

ASSUME ScanAssumption ==
    /\ Unbound \notin Seals
    /\ \A s, t \in Seals : s.chain = t.chain /\ s.outpoint = t.outpoint => s = t
    /\ PlainSizes \subseteq Nat /\ CommitmentSize \in Nat
    /\ Window \in Nat /\ LeafLimit \in Nat /\ SpkLimit \in Nat /\ MaxOutputs \in Nat
    /\ LeafLimit <= SpkLimit

Output == [size : PlainSizes \cup {CommitmentSize}, bound : Seals \cup {Unbound}]
Scanners == {"verify", "payload", "find"}
Verdicts == {"Missing", "Found", "Duplicate", "WrongChain", "WrongSeal", "DoS"}

VARIABLES
    outputs, \* of the closing transaction
    phase,   \* "build" until it is signed, then "scan" or "rest"
    scanner, \* the scanner at work
    seal,    \* the seal it scans for
    scanned, \* the outputs it is past
    hits,    \* the positions of the commitments it counts
    answers  \* history: the answers given about this transaction

scanVars == <<scanner, seal, scanned, hits>>
vars == <<outputs, phase, scanVars, answers>>

ScanTypeOK ==
    /\ outputs \in Seq(Output)
    /\ phase \in {"build", "scan", "rest"}
    /\ scanner \in Scanners
    /\ seal \in Seals
    /\ scanned \in 0..Len(outputs)
    /\ hits \in SUBSET (1..Len(outputs))
    /\ answers \in SUBSET [scanner : Scanners, seal : Seals, verdict : Verdicts]

-----------------------------------------------------------------------------
Init ==
    /\ outputs = <<>>
    /\ phase = "build"
    /\ scanner \in Scanners
    /\ seal \in Seals
    /\ scanned = 0
    /\ hits = {}
    /\ answers = {}

AddOutput(output) ==
    /\ phase = "build"
    /\ Len(outputs) < MaxOutputs
    /\ outputs' = Append(outputs, output)
    /\ UNCHANGED <<phase, scanVars, answers>>

\* The wallet's own outputs: recipient, change.
Pay(size) == AddOutput([size |-> size, bound |-> Unbound])

AppendDirectPush(s) == AddOutput([size |-> CommitmentSize - 1, bound |-> s])

\* append_opret_commitment: last, whatever the transaction already carries.
AppendCommitment(s) == AddOutput([size |-> CommitmentSize, bound |-> s])

ScanKeepingHits(by, s) ==
    /\ phase # "scan"
    /\ phase' = "scan"
    /\ scanner' = by
    /\ seal' = s
    /\ scanned' = 0
    /\ UNCHANGED <<outputs, hits, answers>>

\* A scan starts afresh.
Scan(by, s) ==
    /\ phase # "scan"
    /\ phase' = "scan"
    /\ scanner' = by
    /\ seal' = s
    /\ scanned' = 0
    /\ hits' = {}
    /\ UNCHANGED <<outputs, answers>>

\* The limits the nth output of a scan breaks; "find" has none.
BreaksLimit(n, output) ==
    \/ scanner = "verify" /\ (n > Window \/ output.size > LeafLimit)
    \/ scanner = "payload" /\ (n > Window \/ output.size > SpkLimit)

\* "find" counts the commitments to its own seal, the others all of them.
CountsOwn(output) == output.bound = seal
Counts(output) ==
    /\ output.bound # Unbound
    /\ scanner = "find" => output.bound = seal

\* The tail of a scan: how many were counted, and for "verify" the binding.
Tally(found) ==
    IF found = {} THEN "Missing"
    ELSE IF \E i, j \in found : i # j THEN "Duplicate"
    ELSE IF scanner = "verify" /\ \E i \in found : outputs[i].bound.chain # seal.chain
    THEN "WrongChain"
    ELSE IF scanner = "verify" /\ \E i \in found : outputs[i].bound.outpoint # seal.outpoint
    THEN "WrongSeal"
    ELSE "Found"

Return(verdict) ==
    /\ phase' = "rest"
    /\ answers' = answers \cup {[scanner |-> scanner, seal |-> seal, verdict |-> verdict]}
    /\ UNCHANGED <<outputs, scanVars>>

\* A limit is an error to "verify"; "payload" stops at it and tallies.
Stop ==
    /\ phase = "scan"
    /\ scanned < Len(outputs)
    /\ BreaksLimit(scanned + 1, outputs[scanned + 1])
    /\ Return(IF scanner = "verify" THEN "DoS" ELSE Tally(hits))

\* "verify" looks at the clock once per output.
TimeOut ==
    /\ phase = "scan"
    /\ scanned < Len(outputs)
    /\ scanner = "verify"
    /\ Return("DoS")

NextOutput ==
    /\ phase = "scan"
    /\ scanned < Len(outputs)
    /\ ~BreaksLimit(scanned + 1, outputs[scanned + 1])
    /\ scanned' = scanned + 1
    /\ hits' = IF Counts(outputs[scanned + 1]) THEN hits \cup {scanned + 1} ELSE hits
    /\ UNCHANGED <<outputs, phase, scanner, seal, answers>>

Finish ==
    /\ phase = "scan"
    /\ scanned = Len(outputs)
    /\ Return(Tally(hits))

Next ==
    \/ \E size \in PlainSizes : Pay(size)
    \/ \E s \in Seals : AppendCommitment(s)
    \/ \E by \in Scanners, s \in Seals : Scan(by, s)
    \/ Stop \/ TimeOut \/ NextOutput \/ Finish

Spec == Init /\ [][Next]_vars

-----------------------------------------------------------------------------
(* Properties. *)

Commitments == {i \in DOMAIN outputs : outputs[i].bound # Unbound}

\* The transaction commits to s, and to nothing else, anywhere.
CommitsOnlyTo(s) == \E i \in Commitments : Commitments = {i} /\ outputs[i].bound = s

WithinLimits ==
    /\ Len(outputs) <= Window
    /\ \A i \in DOMAIN outputs : outputs[i].size <= LeafLimit

\* "verify" accepts a transaction only if, of all its outputs, the only
\* commitment is to the seal, and no early stop can hide another one.
FoundIsSole ==
    \A a \in answers : a.scanner = "verify" /\ a.verdict = "Found" =>
        WithinLimits /\ CommitsOnlyTo(a.seal)

\* The scanners of the closer and of the resolver agree: what "verify" accepts
\* the others accept, and what "find" accepts "verify" refuses only for a
\* limit or for a commitment to another seal.
ScannersAgree ==
    \A a, b \in answers : a.seal = b.seal =>
        /\ a.scanner = "verify" /\ a.verdict = "Found" => b.verdict \in {"Found", "DoS"}
        /\ a.scanner = "verify" /\ b.scanner = "find" /\ b.verdict = "Found" =>
              \/ a.verdict \in {"Found", "DoS"}
              \/ a.verdict = "Duplicate" /\ ~CommitsOnlyTo(a.seal)

\* No scanner reports one commitment in a transaction that carries several.
DuplicatesRejected ==
    \A a \in answers : a.scanner = "payload" /\ a.verdict = "Found" =>
        \E i \in Commitments : Commitments = {i}

=============================================================================
